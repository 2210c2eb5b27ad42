------------------------------ MODULE Forecast ------------------------------
(***************************************************************************)
(* The cash-flow forecast the statistics page draws from the scheduled     *)
(* payments (lib/cash-flow-forecast.ts): what the liquid accounts will     *)
(* hold on each of the coming days.                                        *)
(***************************************************************************)
EXTENDS Schedules

CONSTANTS
    Active,                 \* accounts in use
    EstimateYield(_, _, _)  \* what an account earns on a balance in some days

Liquid == {a \in Accounts \cap Active : AccountType[a] = "debit"}

StartingBalance == Total([a \in Liquid |-> value[a]])

(* The occurrences after the first that the calendar has room for. *)
Numbers(item) ==
    1 .. (12 * YearCount - 1 - MonthOf[item.start]) \div Interval(item.frequency)

(* Fault: an occurrence of today is taken as already paid. *)
FromTomorrow(item, from) ==
    LET At(k) == Occurrence(item.start, item.frequency, k)
    IN  IF item.next > from THEN item.next
        ELSE At(CHOOSE k \in Numbers(item) : At(k) > from /\ (k = 1 \/ At(k - 1) <= from))

(* What is overdue is skipped, not caught up with. *)
FirstFrom(item, from) ==
    LET At(k) == Occurrence(item.start, item.frequency, k)
    IN  IF item.next >= from THEN item.next
        ELSE At(CHOOSE k \in Numbers(item) : At(k) >= from /\ (k = 1 \/ At(k - 1) < from))

RecurringOccurrences(item, from, to) ==
    IF ~item.active THEN {}
    ELSE LET first == FirstFrom(item, from)
             last  == (MonthOf[to] - MonthOf[first]) \div Interval(item.frequency)
             At(k) == Clamped(MonthOf[first] + k * Interval(item.frequency), DayOf(item.start))
         IN  {d \in {first} \cup {At(k) : k \in 1 .. last} : d <= to}

(* Nothing is ever counted as paid, so the first instalment stays the next one. *)
MSIOccurrences(purchase, from, to) ==
    {d \in {Clamped(MonthOf[purchase.start] + i, DayOf(purchase.start)) :
                i \in 0 .. purchase.count - 1} : from <= d /\ d <= to}

(* Whatever account it is charged to, every payment counts against the cash. *)
Payments(from, to) ==
    (UNION {{[type |-> "recurring", item |-> r, date |-> d, amount |-> rules[r].amount] :
                 d \in RecurringOccurrences(rules[r], from, to)} :
            r \in {r \in Rules : Exists(rules[r])}})
    \cup
    (UNION {{[type |-> "msi", item |-> p, date |-> d, amount |-> InstalmentAmount(purchases[p])] :
                 d \in MSIOccurrences(purchases[p], from, to)} :
            p \in {p \in Purchases : Exists(purchases[p])}})

Outflow(payments, last) ==
    LET made == {pay \in payments : pay.date <= last} IN Total([pay \in made |-> pay.amount])

YieldThrough(days) == Total([a \in Liquid |-> EstimateYield(a, value[a], days)])

(* Average income and expense per day of the last 90. *)
Recent(today, counts(_)) ==
    LET recent == {i \in DOMAIN moves : /\ today - 89 <= moves[i].date /\ moves[i].date <= today
                                        /\ moves[i].affects /\ counts(moves[i])}
    IN  RoundDiv(Total([i \in recent |-> moves[i].amount]), 90)

DailyIncome(today) == Recent(today, LAMBDA m : m.type = "income" /\ m.account \in Liquid)

DailyExpense(today) == Recent(today, LAMBDA m : m.type = "expense")

AtLeastZero(n) == IF n < 0 THEN 0 ELSE n

(* Past spending already holds the scheduled payments: only the rest is added. *)
BurnRate(average, total, horizon) ==
    AtLeastZero(RoundDiv(average * horizon - total, horizon))

(* Payments of the first day count; its spending and its yield do not. *)
Timeline(today, horizon) ==
    LET payments == Payments(today, today + horizon)
        daily    == DailyIncome(today)
                    - BurnRate(DailyExpense(today), Outflow(payments, today + horizon), horizon)
        Scheduled(day) == StartingBalance - Outflow(payments, today + day) + YieldThrough(day)
    IN  [day \in 0 .. horizon |->
            [scheduled |-> Scheduled(day), realistic |-> Scheduled(day) + day * daily]]
=============================================================================
