CONSTANTS
    cash = cash
    card = card
    untracked = untracked
    food = food
    home = home
    FirstYear = 2023
    YearCount = 5
    Accounts = {cash, card, untracked}
    AccountType <- MCAccountType
    Tracked <- MCTracked
    Active = {cash, card, untracked}
    Opening <- MCOpening
    Limit <- MCLimit
    StartedAt <- MCStartedAt
    Rules = {r1}
    RuleInputs <- MCRuleInputs
    Purchases = {p1}
    PurchaseInputs <- MCPurchaseInputs
    Recordings <- MCRecordings
    StartDays <- MCStartDays
    LastDays <- MCLastDays
    ShortDays <- MCShortDays
    LongDays <- MCLongDays
    MaxRecorded = 1
    CutDays = {15, 28, 30, 31}
    DueDays = {10, 31}
    Budgets <- MCBudgets
    Horizon = 30
    EstimateYield <- MCEstimateYield
    Fresh = Fresh
    Deleted = Deleted
    None = None
SPECIFICATION Spec
INVARIANTS ProjectionsTypeOK SchedulesKept TotalsAgree
PROPERTIES WindowsTile CurveStandsStill
CHECK_DEADLOCK FALSE
