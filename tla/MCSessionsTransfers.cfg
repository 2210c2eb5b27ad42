CONSTANTS
    cash = cash  card = card  t1 = t1  t2 = t2  k1 = k1  s1 = s1
    Accounts = {cash, card}
    AccountType <- OneCard
    Currencies = {MXN}
    Ids = {t1, t2}
    Keys = {}
    Statements = {s1}
    Amounts = {1, 2}
    Counts = {0}
    Limits = {1}
    HalfRange = 2
    MaxReconciliations = 0
    LegacyAccounts = {cash}
    None = None  Unset = Unset  Fresh = Fresh  Deleted = Deleted
    Sessions = {p1, p2}
    Requests <- TransfersAndPayments
    Rank <- Order
    MaxRequests = 3
SYMMETRY SessionSymmetry
SPECIFICATION SessionsSpec
INVARIANTS SessionsTypeOK OnlyRemovalsDeadlock
PROPERTIES ImplementsLedger
CHECK_DEADLOCK FALSE
