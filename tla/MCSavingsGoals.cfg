CONSTANTS
    cash = cash  vault = vault
    Accounts = {cash, vault}
    AccountType <- TwoDebits
    Currencies = {MXN}
    Ids = {t1}
    Keys = {k1}
    Statements = {}
    Amounts = {1}
    Counts = {1}
    Limits = {}
    HalfRange = 3
    MaxReconciliations = 0
    LegacyAccounts = {vault}
    Goals = {g1}
    Targets = {1, 2}
    Portions <- BothWays
    LegacyGoals = {g1}
    AllocationIds = {r1, r2, r3}
    None = None  Unset = Unset  Fresh = Fresh  Deleted = Deleted
SYMMETRY RowSymmetry
SPECIFICATION SavingsSpec
INVARIANTS SavingsTypeOK CompletionDerived SavedTransfersBacked
CHECK_DEADLOCK FALSE
