CONSTANTS
    cash = cash  card = card
    Accounts = {cash, card}
    AccountType <- OneCard
    Currencies = {MXN}
    Ids = {t1, t2}
    Keys = {}
    Statements = {s1}
    Amounts = {2}
    Counts <- Edges
    Limits = {1, 2}
    HalfRange = 3
    MaxReconciliations = 1
    LegacyAccounts = {cash}
    None = None  Unset = Unset  Fresh = Fresh  Deleted = Deleted
SYMMETRY IdSymmetry
SPECIFICATION Spec
INVARIANTS TypeOK LedgerExplainsValue EntriesFollowTransactions StatementPaymentsBacked
PROPERTIES EffectsStayRecorded
CHECK_DEADLOCK FALSE
