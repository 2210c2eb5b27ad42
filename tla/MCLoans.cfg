CONSTANTS
    cash = cash  vault = vault  card = card
    FirstYear = 2026
    YearCount = 2
    ShortDays = {}
    LongDays = {}
    Accounts = {cash, vault, card}
    Payable = {cash, vault}
    Terms <- MCTerms
    Overrides <- MCOverrides
    Extras = {10000}
    Reported = {70000}
    EventDates <- MCEventDates
    Keys = {k1, k2}
    Periods = 4
    MaxEvents = 3
    None = None  Fresh = Fresh  Deleted = Deleted
SYMMETRY LoanSymmetry
SPECIFICATION Spec
INVARIANTS LoansTypeOK DebtAccounted
PROPERTIES StepsAsAnnounced
CHECK_DEADLOCK FALSE
