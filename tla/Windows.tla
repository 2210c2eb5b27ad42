------------------------------- MODULE Windows -------------------------------
(***************************************************************************)
(* The windows of time the client cuts the movements by: the cycles of a   *)
(* credit card (lib/credit-card-cycle.ts), those of a budget               *)
(* (lib/budget-period.ts), the ranges of the statistics                    *)
(* (lib/stats-range.ts) and the month of the dashboard.  A window has an   *)
(* inclusive start and end.                                                *)
(***************************************************************************)
EXTENDS Calendar, Sequences

Window(first, last) == [start |-> first, end |-> last]

Within(d, w) == w.start <= d /\ d <= w.end

MonthWindow(m) == Window(FirstOf[m], LastOf[m])

-----------------------------------------------------------------------------
(* Credit cards *)

DueDateAfter(end, dueDay) ==
    LET due == Clamped(MonthOf[end], dueDay)
    IN  IF due <= end THEN Clamped(MonthOf[end] + 1, dueDay) ELSE due

(* Fault: the cut itself already belongs to the next cycle. *)
CutStartsNext(cutDay, today) ==
    LET cut == Clamped(MonthOf[today], cutDay)
    IN  IF today < cut THEN cut ELSE Clamped(MonthOf[today] + 1, cutDay)

OpenEnd(cutDay, today) ==
    LET cut == Clamped(MonthOf[today], cutDay)
    IN  IF today <= cut THEN cut ELSE Clamped(MonthOf[today] + 1, cutDay)

CutBefore(end, cutDay) == Clamped(MonthOf[end] - 1, cutDay)

Cycle(end, cutDay, dueDay) ==
    [start |-> CutBefore(end, cutDay) + 1, end |-> end, due |-> DueDateAfter(end, dueDay)]

CreditCardCycles(cutDay, dueDay, today) ==
    LET end == OpenEnd(cutDay, today)
    IN  [open |-> Cycle(end, cutDay, dueDay),
         previous |-> Cycle(CutBefore(end, cutDay), cutDay, dueDay)]

DaysLeft(cycle, today) ==
    LET hours == Midnight(cycle.end) - Midnight(today)
        days  == -((-hours) \div 24)
    IN  IF days < 0 THEN 0 ELSE days

-----------------------------------------------------------------------------
(* Budgets *)

AddPeriods(anchor, period, count) ==
    IF period = "weekly" THEN anchor + 7 * count
    ELSE Clamped(MonthOf[anchor] + count * (IF period = "monthly" THEN 1 ELSE 12), DayOf(anchor))

CycleCount(anchor, period, asOf) ==
    LET n == IF period = "weekly" THEN (asOf - anchor) \div 7
             ELSE YearOf(MonthOf[asOf]) - YearOf(MonthOf[anchor])
    IN  IF AddPeriods(anchor, period, n) > asOf THEN n - 1 ELSE n

(* A monthly budget follows the calendar, whatever day it starts on. *)
BudgetCycle(budget, asOf) ==
    IF budget.period = "monthly" THEN MonthWindow(MonthOf[asOf])
    ELSE LET n == CycleCount(budget.start, budget.period, asOf)
         IN  Window(AddPeriods(budget.start, budget.period, n),
                    AddPeriods(budget.start, budget.period, n + 1) - 1)

Begun(budget, asOf) == budget.start <= asOf

(* ids are numbers here: they only break ties. *)
IsLaterBudget(b, c) == b.start > c.start \/ (b.start = c.start /\ b.id > c.id)

Latest(budgets) == {b \in budgets : \A c \in budgets \ {b} : IsLaterBudget(b, c)}

(* A global budget hides those of categories. *)
ApplicableBudgets(budgets, asOf) ==
    LET begun  == {b \in budgets : Begun(b, asOf)}
        Of(c)  == {b \in begun : b.category = c}
        shared == Of("all")
    IN  IF shared # {} THEN Latest(shared)
        ELSE UNION {Latest(Of(b.category)) : b \in begun}

-----------------------------------------------------------------------------
(* Statistics *)

Presets == {"month", "3m", "6m", "12m", "ytd"}

MonthsOf(preset) == CASE preset = "3m" -> 3 [] preset = "6m" -> 6 [] OTHER -> 12

(* m is the month chosen, which only the first preset reads. *)
ResolveRange(preset, m, today) ==
    CASE preset = "month" -> MonthWindow(m)
      [] preset = "ytd"   -> Window(FirstOf[12 * (MonthOf[today] \div 12)], today)
      [] OTHER            -> Window(FirstOf[MonthOf[today] - (MonthsOf(preset) - 1)], today)

LengthDays(range) == RoundDiv(Midnight(range.end) - Midnight(range.start), 24)

RangeDays(range) == LengthDays(range) + 1

(* Days are taken off as 24 hours each. *)
PreviousRange(range) ==
    LET end == Midnight(range.start) - 24
    IN  Window(DateAt(end - 24 * LengthDays(range)), DateAt(end))

RangeMonths(range) == MonthOf[range.start] .. MonthOf[range.end]

MonthEndDates(range) ==
    {LastOf[m] : m \in RangeMonths(range) \ {MonthOf[range.end]}} \cup {range.end}

Weeks(range) == {n \in 1 .. 10 : Midnight(range.start) + 168 * n < Midnight(range.end)}

(* Every week of a short range, the ends of the months of a longer one. *)
SnapshotDates(range) ==
    IF RangeDays(range) > 70 THEN MonthEndDates(range)
    ELSE {range.start, range.end}
         \cup {DateAt(Midnight(range.start) + 168 * n) : n \in Weeks(range)}

-----------------------------------------------------------------------------
(* Dashboard: a month up to the day that today has in it. *)
Period(today, offset) ==
    LET m == MonthOf[today] + offset
    IN  [start |-> FirstOf[m], end |-> LastOf[m], asOf |-> Clamped(m, DayOf(today))]
=============================================================================
