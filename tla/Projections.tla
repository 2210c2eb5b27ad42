----------------------------- MODULE Projections -----------------------------
(***************************************************************************)
(* What the client computes from the movements it has been given: balances *)
(* of the past (lib/net-worth-timeline.ts), of the coming days (Forecast), *)
(* and the totals of its pages over the windows of Windows, while the      *)
(* server runs the schedules, the user records movements and days pass.    *)
(* The lists are taken as fresh: how they go stale is in Submissions.      *)
(***************************************************************************)
EXTENDS Forecast, Windows

CONSTANTS
    Limit,          \* [credit accounts -> Int]: the credit limit
    StartedAt,      \* [Accounts -> date]: the day tracking started, or None
    CutDays, DueDays,   \* the days of the month a card may have
    Budgets,        \* the user's budgets
    Horizon         \* days the forecast spans

Cards == {a \in Accounts : AccountType[a] = "credit"}

(* The calendar starts two months before the clock: as far as a statement goes back. *)
ASSUME ProjectionsConstants ==
    /\ Active \subseteq Accounts /\ Limit \in [Cards -> Int]
    /\ CutDays \subseteq 1 .. 31 /\ DueDays \subseteq 1 .. 31
    /\ IsFiniteSet(Budgets) /\ \A b, c \in Budgets : b.id = c.id => b = c
    /\ \A b \in Budgets : /\ b.id \in Nat /\ b.start \in Dates /\ b.category # None
                          /\ b.amount > 0 /\ b.period \in {"weekly", "monthly", "yearly"}
    /\ Horizon \in {30, 60, 90}
    /\ \A s \in StartDays : MonthOf[s] - 2 \in Months

SumOf(amount(_), ms) == Total([i \in DOMAIN ms |-> amount(ms[i])])

-----------------------------------------------------------------------------
(* The past: today's value without the movements after a date. *)
Flow(m, a) ==
    IF ~m.affects THEN 0
    ELSE (IF m.account = a THEN (IF m.type = "income" THEN m.amount ELSE -m.amount) ELSE 0)
       + (IF m.type = "transfer" /\ m.dest = a THEN m.amount ELSE 0)

Direction(a) == IF a \in Cards THEN -1 ELSE 1

CurrentValue(a) == IF a \in Cards THEN Limit[a] - value[a] ELSE value[a]

ValueAt(a, d) ==
    CurrentValue(a) - SumOf(LAMBDA m : IF m.date > d THEN Direction(a) * Flow(m, a) ELSE 0, moves)

(* An instant compares as later than its own date. *)
Known(d) == {a \in Accounts \cap Active : StartedAt[a] = None \/ StartedAt[a] < d}

NetWorthAt(d) ==
    Total([a \in Known(d) |-> IF a \in Cards THEN -AtLeastZero(ValueAt(a, d)) ELSE ValueAt(a, d)])

-----------------------------------------------------------------------------
(* Totals of the pages *)

Touches(m, a) == m.account = a \/ (m.type = "transfer" /\ m.dest = a)

(* Fault: the payment of a statement is taken off its cycle as well. *)
CycleChargeUnlinked(m, card) ==
    CASE m.type = "expense" -> m.amount
      [] m.type = "income" -> -m.amount
      [] m.type = "transfer" /\ m.dest = card -> -m.amount
      [] OTHER -> m.amount

CycleCharge(m, card) ==
    CASE m.type = "expense" -> m.amount
      [] m.type = "income" -> -m.amount
      [] m.type = "transfer" /\ m.dest = card -> IF m.linked THEN 0 ELSE -m.amount
      [] OTHER -> m.amount

(* What a card gathers in a cycle, up to today. *)
CycleTotal(card, w, upTo) ==
    SumOf(LAMBDA m : IF Touches(m, card) /\ Within(m.date, w) /\ m.date <= upTo
                     THEN CycleCharge(m, card) ELSE 0, moves)

TypeTotal(type, w) ==
    SumOf(LAMBDA m : IF m.type = type /\ Within(m.date, w) THEN m.amount ELSE 0, moves)

(* The dashboard: months stop at today's day, also those that are over. *)
DashboardTotal(type, offset) ==
    LET period == Period(local, offset) IN TypeTotal(type, Window(period.start, period.asOf))

(* Its net worth is that of the balances, whatever the dates behind them. *)
TotalBalance == Total([a \in Accounts \ Cards |-> CurrentValue(a)])

TotalDebt == Total([a \in Cards |-> CurrentValue(a)])

UpToToday(w) == Window(w.start, IF w.end < local THEN w.end ELSE local)

(* The statistics leave out what is dated after today; the calendar does not. *)
StatsTotal(type, range) == TypeTotal(type, UpToToday(range))

CalendarTotal(type, m) == TypeTotal(type, MonthWindow(m))

BudgetSpent(b, asOf) ==
    IF ~Begun(b, asOf) THEN 0
    ELSE LET cycle == BudgetCycle(b, asOf)
         IN  SumOf(LAMBDA m : IF /\ m.type = "expense" /\ Within(m.date, cycle) /\ m.date <= asOf
                                 /\ b.category \in {"all", m.category}
                              THEN m.amount ELSE 0, moves)

(* Expenses of the categories no budget in force covers. *)
UnbudgetedSpending(w) ==
    LET covered == {b.category : b \in ApplicableBudgets(Budgets, w.end)}
    IN  IF "all" \in covered THEN 0
        ELSE SumOf(LAMBDA m : IF /\ m.type = "expense" /\ Within(m.date, w)
                                 /\ m.category \notin covered \cup {None}
                              THEN m.amount ELSE 0, moves)

-----------------------------------------------------------------------------
vars == scheduleVars
Init == SchedulesInit
Next == SchedulesNext
Spec == Init /\ [][Next]_vars

(* Movements are dated and positive, and a schedule points past what it made. *)
ProjectionsTypeOK ==
    /\ utc \in Dates /\ local \in {utc - 1, utc}
    /\ value \in [Accounts -> Int]
    /\ \A i \in DOMAIN moves : moves[i].date \in Dates /\ moves[i].amount > 0
    /\ \A r \in Rules : rules[r] \in {Fresh, Deleted} \/
           (rules[r].next \in Dates /\ rules[r].since <= rules[r].occurrences)
    /\ \A p \in Purchases : purchases[p] \in {Fresh, Deleted} \cup PurchaseInputs

-----------------------------------------------------------------------------
(* Windows tile time.  Going from a day to the next, each cycle of a card    *)
(* and of a budget either goes on or is followed by one that starts the day  *)
(* after it ends, whatever the lengths of the months; what a cycle gathered  *)
(* falls due after its cut and before what the next one gathers, or on the   *)
(* same day when both days of the card are past the end of February; the     *)
(* range a statistic is compared with ends where it starts and is as long,   *)
(* and snapshots leave no gap -- unless the browser's clock springs forward  *)
(* in between (lib/credit-card-cycle.ts:37, lib/budget-period.ts:38,         *)
(* lib/stats-range.ts:82).                                                   *)
Follows(now, next, today) ==
    /\ Within(today, now)
    /\ \/ next.start = now.start /\ next.end = now.end
       \/ today = now.end /\ next.start = now.end + 1

NoClockChange(w) == \A d \in ShortDays \cup LongDays : ~Within(d, w)

CardCyclesTile(cut, due, today) ==
    LET now  == CreditCardCycles(cut, due, today)
        next == CreditCardCycles(cut, due, today + 1)
    IN  /\ Follows(now.open, next.open, today)
        /\ next.open # now.open => next.previous = now.open
        /\ now.previous.end + 1 = now.open.start
        /\ now.previous.end < now.previous.due /\ now.previous.due <= now.open.due
        /\ now.previous.due = now.open.due => due > cut /\ cut >= 28
        /\ now.open.end < now.open.due /\ now.open.due <= now.open.end + 31
        /\ NoClockChange(Window(today, now.open.end)) =>
               DaysLeft(now.open, today) = now.open.end - today

NoSpringForward(w) == \A d \in ShortDays : ~Within(d, w)

RangesTile(today) ==
    \A preset \in Presets :
        LET range == ResolveRange(preset, MonthOf[today], today)
            prev  == PreviousRange(range)
        IN  NoSpringForward(Window(prev.start - 1, range.end)) =>
                /\ prev.end + 1 = range.start
                /\ prev.end - prev.start = range.end - range.start

SnapshotsCover(today) ==
    \A preset \in Presets :
        LET range == ResolveRange(preset, MonthOf[today], today)
            dates == SnapshotDates(range)
        IN  NoClockChange(range) =>
                /\ range.end \in dates /\ \A d \in dates : Within(d, range)
                /\ \A d \in dates \ {range.end} : \E e \in dates : d < e /\ e <= d + 31

WindowsTileAt(today) ==
    /\ \A cut \in CutDays, due \in DueDays : CardCyclesTile(cut, due, today)
    /\ \A b \in Budgets : Begun(b, today) =>
           Follows(BudgetCycle(b, today), BudgetCycle(b, today + 1), today)
    /\ RangesTile(today) /\ SnapshotsCover(today)

(* Windows depend on the date alone: a year of them is followed from the     *)
(* midnights at which nothing is stored yet.                                 *)
Untouched ==
    /\ moves = <<>>
    /\ \A r \in Rules : rules[r] = Fresh
    /\ \A p \in Purchases : purchases[p] = Fresh

WindowsTile ==
    [][LocalMidnight /\ Untouched =>
           \A today \in local .. local + 365 : WindowsTileAt(today)]_vars

-----------------------------------------------------------------------------
(* The same movements make the same totals everywhere.  A card's cycle adds  *)
(* up to the change of its debt, but for what was recorded without touching  *)
(* the balance, instalments among it, and for the payments of its            *)
(* statements; net worth changes over a month by the income and the expenses *)
(* of the statistics, and the net worth of the dashboard is that of today    *)
(* with the movements dated ahead; the dashboard, the statistics and the     *)
(* budgets say the same of this month, and the calendar differs by what lies *)
(* ahead; and the forecast spends on bills and habits once                   *)
(* (lib/credit-card-cycle.ts:76, lib/net-worth-timeline.ts:85,               *)
(* routes/dashboard/DashboardPage.tsx:766, routes/stats/StatsPage.tsx:358).  *)
Silent(card, w) ==
    SumOf(LAMBDA m : IF Touches(m, card) /\ Within(m.date, w) /\ ~m.affects
                     THEN CycleCharge(m, card) ELSE 0, moves)

StatementPayments(card, w) ==
    SumOf(LAMBDA m : IF m.dest = card /\ m.linked /\ m.affects /\ Within(m.date, w)
                     THEN m.amount ELSE 0, moves)

CycleExplainsDebt(card, w) ==
    LET past == UpToToday(w)
    IN  CycleTotal(card, w, local)
        = ValueAt(card, past.end) - ValueAt(card, w.start - 1)
          + Silent(card, past) + StatementPayments(card, past)

AllKnown(d) == Known(d) = Accounts /\ \A a \in Cards : ValueAt(a, d) >= 0

SilentTotal(type, w) ==
    SumOf(LAMBDA m : IF m.type = type /\ Within(m.date, w) /\ ~m.affects THEN m.amount ELSE 0,
          moves)

Earned(w) ==
    (TypeTotal("income", w) - SilentTotal("income", w))
    - (TypeTotal("expense", w) - SilentTotal("expense", w))

FlowsExplainWorth(m) ==
    LET w == UpToToday(MonthWindow(m))
    IN  AllKnown(w.start - 1) /\ AllKnown(w.end) =>
            NetWorthAt(w.end) - NetWorthAt(w.start - 1) = Earned(w)

BalancesAnticipate ==
    AllKnown(local) =>
        TotalBalance - TotalDebt - NetWorthAt(local)
        = Earned(Window(local + 1, LastOf[12 * YearCount - 1]))

SameMonth ==
    LET m     == MonthOf[local]
        month == ResolveRange("month", m, local)
    IN  \A type \in {"income", "expense"} :
            /\ DashboardTotal(type, 0) = StatsTotal(type, month)
            /\ CalendarTotal(type, m) - StatsTotal(type, month)
               = TypeTotal(type, Window(local + 1, month.end))
            /\ StatsTotal(type, MonthWindow(m - 1)) = CalendarTotal(type, m - 1)
            /\ StatsTotal(type, MonthWindow(m - 1)) - DashboardTotal(type, -1)
               = TypeTotal(type, Window(Period(local, -1).asOf + 1, LastOf[m - 1]))

(* Under budgets of the month, what is spent is budgeted, unbudgeted or uncategorised. *)
SpendingIsAccountedFor ==
    LET applicable == ApplicableBudgets(Budgets, local)
        month      == UpToToday(MonthWindow(MonthOf[local]))
    IN  (\A b \in applicable : b.period = "monthly") =>
            TypeTotal("expense", month)
            = Total([b \in applicable |-> BudgetSpent(b, local)])
              + UnbudgetedSpending(month)
              + (IF \E b \in applicable : b.category = "all" THEN 0
                 ELSE SumOf(LAMBDA m : IF /\ m.type = "expense" /\ m.category = None
                                          /\ Within(m.date, month)
                                       THEN m.amount ELSE 0, moves))

Abs(n) == IF n < 0 THEN -n ELSE n

(* Realistic spending is the larger of the bills and the average, rounded. *)
SpendingCountedOnce ==
    LET bills    == Outflow(Payments(local, local + Horizon), local + Horizon)
        usual    == DailyExpense(local) * Horizon
        spending == StartingBalance + YieldThrough(Horizon) + DailyIncome(local) * Horizon
                    - Timeline(local, Horizon)[Horizon].realistic
    IN  2 * Abs(spending - (IF bills > usual THEN bills ELSE usual)) <= Horizon

TotalsAgree ==
    /\ \A card \in Cards, cut \in CutDays :
           LET cycles == CreditCardCycles(cut, cut, local)
           IN  CycleExplainsDebt(card, cycles.open) /\ CycleExplainsDebt(card, cycles.previous)
    /\ FlowsExplainWorth(MonthOf[local]) /\ FlowsExplainWorth(MonthOf[local] - 1)
    /\ BalancesAnticipate
    /\ SameMonth
    /\ SpendingIsAccountedFor
    /\ SpendingCountedOnce

-----------------------------------------------------------------------------
(* The curve stands still.  Recording a movement, or running the schedules,  *)
(* changes what was worth on a past date only by the movements dated until   *)
(* then.  What the forecast says of a coming date stays when that date comes *)
(* nearer, but for occurrences left behind unpaid, which it forgets; and it  *)
(* stays when the server makes the payments it announced, but for those      *)
(* forgotten ones, and for the payments charged to a card or to an untracked *)
(* account, which it announces as cash                                       *)
(* (lib/net-worth-timeline.ts:66, lib/cash-flow-forecast.ts:139, 328).       *)
Added == SubSeq(moves', Len(moves) + 1, Len(moves'))

PastStands(a, d) ==
    ValueAt(a, d)' - ValueAt(a, d)
    = Direction(a) * SumOf(LAMBDA m : IF m.date <= d THEN Flow(m, a) ELSE 0, Added)

Cash(m) == m.account \in Liquid \cap Tracked

Forgotten(today) ==
    SumOf(LAMBDA m : IF Cash(m) /\ m.date < today THEN m.amount ELSE 0, Added)

(* A payment made is taken from the balance, and no longer on its date. *)
Shift(day) ==
    SumOf(LAMBDA m : IF m.date < local THEN 0
                     ELSE (IF m.date <= local + day THEN m.amount ELSE 0)
                          - (IF Cash(m) THEN m.amount ELSE 0), Added)

ForecastLine == [day \in 0 .. Horizon |-> Timeline(local, Horizon)[day].scheduled]

FutureStands ==
    LET old == ForecastLine
        new == ForecastLine'
        Interest(day) == YieldThrough(day)' - YieldThrough(day)
    IN  /\ Process => \A day \in 0 .. Horizon :
               new[day] - old[day] = Shift(day) - Forgotten(local) + Interest(day)
        /\ LocalMidnight => \A day \in 1 .. Horizon :
               new[day - 1] - old[day] = Outflow(Payments(local, local), local)
                                         + YieldThrough(day - 1) - YieldThrough(day)

KeepsCurve ==
    /\ (Process \/ \E x \in Recordings : Record(x)) =>
           \A a \in Tracked, d \in FirstOf[MonthOf[local]] .. LastOf[MonthOf[local]] :
               PastStands(a, d)
    /\ FutureStands

CurveStandsStill == [][KeepsCurve]_vars
=============================================================================
