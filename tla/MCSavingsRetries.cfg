CONSTANTS
    cash = cash  vault = vault
    Accounts = {cash, vault}
    AccountType <- TwoDebits
    Currencies = {MXN, USD}
    Ids = {t1, t2}
    Keys = {k1, k2}
    Statements = {}
    Amounts = {}
    Counts = {1}
    Limits = {}
    HalfRange = 3
    MaxReconciliations = 0
    LegacyAccounts = {}
    Goals = {g1, g2}
    Targets = {1}
    Portions <- BothWays
    LegacyGoals = {g1}
    AllocationIds = {r1, r2, r3}
    None = None  Unset = Unset  Fresh = Fresh  Deleted = Deleted
SYMMETRY RowSymmetry
SPECIFICATION SavingsSpec
INVARIANTS AllocationsShareCurrency GoalsSumAllocations OncePerRequest
CHECK_DEADLOCK FALSE
