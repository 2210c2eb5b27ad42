---------------------------- MODULE LoanSchedule ----------------------------
(***************************************************************************)
(* The amortization of a loan (backend/internal/loans/engine.go): how a    *)
(* balance is repaid by equal monthly payments, and the simulation of an   *)
(* extra payment.  Amounts are cents and rates basis points a year; the    *)
(* upper bounds the engine puts on amounts are left out.                   *)
(***************************************************************************)
EXTENDS Calendar, Sequences, SequencesExt, Totals

MonthlyInterest(left, rate) == (left * rate + 60000) \div 120000

\* Validate: a payment that only meets the interest never repays anything.
Amortizes(left, t) == left > 0 /\ t.payment > MonthlyInterest(left, t.rate)

\* The principal of the next payment; the last one takes in a residue of at
\* most 100 cents.
Part(left, t) ==
    LET part == t.payment - MonthlyInterest(left, t.rate)
    IN  IF part > left \/ left - part <= 100 THEN left ELSE part

Repaid(rows) == Total([i \in DOMAIN rows |-> rows[i].principal])

\* The schedule with its n-th payment, unless nothing is left to repay.
WithPayment(rows, n, owed, t, month) ==
    LET left == owed - Repaid(rows)
    IN  IF left = 0 THEN rows
        ELSE Append(rows, [sequence  |-> n,
                           due       |-> Clamped(month + n - 1, t.day),
                           principal |-> Part(left, t),
                           interest  |-> MonthlyInterest(left, t.rate)])

\* At most so many monthly payments, the first one due in the month given.
BuildSchedule(owed, t, months, month) ==
    LET after[n \in 0 .. months] ==
            IF n = 0 THEN <<>> ELSE WithPayment(after[n - 1], n, owed, t, month)
    IN  IF Amortizes(owed, t) THEN after[months] ELSE <<>>

Closes(rows, owed) == rows # <<>> /\ Repaid(rows) = owed

Renumbered(rows, first) ==
    [i \in DOMAIN rows |-> [sequence |-> first + i, due |-> rows[i].due,
                            principal |-> rows[i].principal, interest |-> rows[i].interest]]

(* ApplyExtraPayment, on the schedule of what is owed: payments due before   *)
(* the date are taken as made, and the rest is rebuilt from what is left.    *)
ApplyExtraPayment(owed, t, months, month, extra, date) ==
    LET baseline == BuildSchedule(owed, t, months, month)
        made     == {n \in 0 .. Len(baseline) : \A i \in 1 .. n : baseline[i].due < date}
        kept     == SubSeq(baseline, 1, Max(made))
        left     == owed - Repaid(kept) - extra
        rest     == BuildSchedule(left, t, months - Len(kept), month + Len(kept))
    IN  IF Len(kept) = Len(baseline) \/ extra <= 0 THEN baseline
        ELSE IF left <= 0 THEN kept
        ELSE kept \o Renumbered(rest, Len(kept))

\* The dates a StartDate.AddDate(0, n, 0) normalises: a day the month lacks
\* is a day of the month after it.
MonthsLater(date, n) == FirstOf[MonthOf[date] + n] + DayOf(date) - 1
=============================================================================
