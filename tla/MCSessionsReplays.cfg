CONSTANTS
    cash = cash  card = card  t1 = t1  t2 = t2  k1 = k1  s1 = s1
    Accounts = {cash, card}
    AccountType <- OneCard
    Currencies = {MXN}
    Ids = {t1, t2}
    Keys = {k1}
    Statements = {}
    Amounts = {1}
    Counts = {3}
    Limits = {1}
    HalfRange = 4
    MaxReconciliations = 1
    LegacyAccounts = {cash}
    None = None  Unset = Unset  Fresh = Fresh  Deleted = Deleted
    Sessions = {p1, p2}
    Requests <- Retries
    Rank <- Order
    MaxRequests = 3
INVARIANTS SameKeySameAnswer ReceiptNamesItsTransaction
SPECIFICATION SessionsSpec
PROPERTIES RetriesCreateNothing EveryRequestEnds
CHECK_DEADLOCK FALSE
