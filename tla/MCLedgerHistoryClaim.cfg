CONSTANTS
    cash = cash  card = card
    Accounts = {cash}
    AccountType <- CashOnly
    Currencies = {MXN}
    Ids = {t1, t2}
    Keys = {}
    Statements = {}
    Amounts = {1, 2}
    Counts = {0}
    Limits = {}
    HalfRange = 10
    MaxReconciliations = 1
    LegacyAccounts = {cash}
    None = None  Unset = Unset  Fresh = Fresh  Deleted = Deleted
SPECIFICATION Spec
PROPERTIES SkippedEffectsStaySkipped
CHECK_DEADLOCK FALSE
