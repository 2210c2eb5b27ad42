CONSTANTS
    cash = cash  card = card
    Accounts = {card}
    AccountType <- CardOnly
    Currencies = {MXN}
    Ids = {t1, t2}
    Keys = {}
    Statements = {}
    Amounts = {1, 2}
    Counts = {0}
    Limits = {1, 2}
    HalfRange = 10
    MaxReconciliations = 1
    LegacyAccounts = {}
    None = None  Unset = Unset  Fresh = Fresh  Deleted = Deleted
SPECIFICATION Spec
INVARIANTS LedgerSumsToValue
CHECK_DEADLOCK FALSE
