-------------------------------- MODULE Loans --------------------------------
(***************************************************************************)
(* A loan and its payments (backend/internal/store/loans.go).  Settled     *)
(* events are kept for ever; the payments still to come are a projection   *)
(* that every event throws away and rebuilds.                              *)
(*                                                                         *)
(* Every method locks the loan's row first, so methods on one loan run one *)
(* after the other; but an event is dated (created_at) with the time its   *)
(* PostgreSQL transaction began, which may be before that of an event that *)
(* was committed while it waited for the row.  settled is in the order of  *)
(* created_at, and late is the place a waiting request will take in it.    *)
(*                                                                         *)
(* One loan, since loans share nothing but the accounts.  Left out: names, *)
(* categories, and the replays of creates and payments, which change       *)
(* nothing.                                                                *)
(***************************************************************************)
EXTENDS LoanSchedule

CONSTANTS
    Accounts, Payable,  \* Payable: debit, in MXN, with tracked balances
    Terms,              \* contents of a create
    Overrides,          \* what a payment says it paid, None for "as scheduled"
    Extras, Reported,   \* amounts of extra payments, balances the bank reports
    EventDates, Keys,
    Periods,            \* bound on the length of a rebuilt schedule: 600
    MaxEvents,          \* bound on the events of a loan
    Fresh, Deleted, None

LoanRows == [terms : Terms, account : Payable, status : {"active", "paid_off"}]

ASSUME LoansConstants ==
    /\ Payable \subseteq Accounts
    /\ EventDates \subseteq Dates
    /\ Periods \in Nat /\ MaxEvents \in Nat
    /\ \A t \in Terms : /\ t.months \in 1 .. Periods /\ t.start \in Dates /\ t.day \in 1 .. 31
                        /\ {t.principal, t.rate, t.payment} \subseteq Nat
    /\ \A in \in Overrides : /\ {in.principal, in.interest} \subseteq Nat \cup {None}
                             /\ in.total \in (Nat \ {0}) \cup {None}
    /\ Extras \subseteq Nat \ {0}
    /\ Reported \subseteq Nat
    /\ None \notin Accounts \cup Int
    /\ Fresh # Deleted /\ {Fresh, Deleted} \cap LoanRows = {}

\* The calendar has the months of every schedule, whatever moves its start.
ASSUME CalendarReaches ==
    \A date \in EventDates \cup {t.start : t \in Terms} :
        MonthOf[date] + MaxEvents + Periods \in Months

VARIABLES
    loan,       \* its terms, the account that pays it, its status
    settled,    \* loan_payments that are paid or adjustments, by created_at
    pending,    \* loan_payments still to be paid, by sequence
    receipts,   \* keys of extra payments, of create_idempotency_receipts
    spent,      \* what the expenses of the loan took from each account
    late        \* place of a request that waits for the row of the loan, or None

vars == <<loan, settled, pending, receipts, spent, late>>

Exists == loan \notin {Fresh, Deleted}

-----------------------------------------------------------------------------
(* trackedRemainingCents *)
Owed(t, events) ==
    t.principal - Total([i \in DOMAIN events |-> events[i].paidPrincipal])

Remaining == Owed(loan.terms, settled)

(* Fault: every event takes a number. *)
CountsEvents(events) == Len(events)

\* The sequence of the last monthly payment made.
LastNumber(events) == Max({0} \cup {events[i].sequence : i \in DOMAIN events})

NextDue(rows) == IF rows = <<>> THEN None ELSE rows[1].due

\* The month of the next payment is that of the pending row it replaces.
FirstMonth(t, events, next, fallback) ==
    MonthOf[IF next # None THEN next
            ELSE IF fallback # None THEN fallback
            ELSE MonthsLater(t.start, LastNumber(events))]

(* regenerateLoanSchedule, once the events are those given *)
Regenerate(events, next, fallback) ==
    LET t    == loan.terms
        owed == Owed(t, events)
        rows == BuildSchedule(owed, t, Periods, FirstMonth(t, events, next, fallback))
    IN  /\ owed > 0 => Closes(rows, owed)
        /\ pending' = IF owed > 0 THEN Renumbered(rows, LastNumber(events)) ELSE <<>>
        /\ loan' = [loan EXCEPT !.status = IF owed <= 0 THEN "paid_off" ELSE "active"]

\* was and since are history: what was pending, how many events there were.
Event(sequence, due, principal, interest, total, date, account) ==
    [sequence |-> sequence, due |-> due, paidPrincipal |-> principal,
     paidInterest |-> interest, paidTotal |-> total, paidAt |-> date,
     account |-> account, was |-> pending, since |-> Len(settled)]

\* The place of a request, which may be the one that waited.
Place(waited) == IF waited THEN late ELSE Len(settled)

Recorded(e, waited) == InsertAt(settled, Place(waited) + 1, e)

Served(waited) ==
    /\ Len(settled) < MaxEvents
    /\ waited => late # None
    /\ late' = IF waited THEN None ELSE late

Charge(account, total) == spent' = [spent EXCEPT ![account] = @ + total]

(* validateLoanEventDate *)
NotBeforeEvents(date) == \A i \in DOMAIN settled : settled[i].paidAt <= date

-----------------------------------------------------------------------------
(* LoanRepository *)

\* The first due date is the start (validLoanInput).
Create(t, a) ==
    LET rows == BuildSchedule(t.principal, t, t.months, MonthOf[t.start])
    IN  /\ loan = Fresh
        /\ a \in Payable
        /\ Closes(rows, t.principal)
        /\ NextDue(rows) = t.start
        /\ loan' = [terms |-> t, account |-> a, status |-> "active"]
        /\ pending' = rows
        /\ UNCHANGED <<settled, receipts, spent, late>>

Update(a) ==
    /\ Exists /\ a \in Payable
    /\ loan' = [loan EXCEPT !.account = a]
    /\ UNCHANGED <<settled, pending, receipts, spent, late>>

Delete ==
    /\ Exists /\ settled = <<>>
    /\ loan' = Deleted
    /\ pending' = <<>>
    /\ UNCHANGED <<settled, receipts, spent, late>>

Given(value, scheduled) == IF value = None THEN scheduled ELSE value

(* Fault: the parts of a payment are not held against its total. *)
CoversAnything(total, principal, interest) == TRUE

Covers(total, principal, interest) == principal + interest <= total

(* Only the first pending payment is paid.  The rows of the schedule get new *)
(* ids whenever it is rebuilt: a request that names this one began after the *)
(* last event was committed.                                                 *)
Pay(in, date) ==
    LET row       == pending[1]
        scheduled == row.principal + row.interest
        total     == Given(in.total, scheduled)
        principal == Given(in.principal, row.principal)
        interest  == Given(in.interest, row.interest)
        events    == Recorded(Event(row.sequence, row.due, principal, interest, total,
                                    date, loan.account), FALSE)
    IN  /\ Exists /\ pending # <<>>
        /\ NotBeforeEvents(date)
        /\ principal <= Remaining
        /\ Covers(total, principal, interest)
        /\ total < scheduled => in.total = None \/ in.principal # None
        /\ loan.account \in Payable
        /\ Served(FALSE)
        /\ settled' = events
        /\ Regenerate(events, NextDue(Tail(pending)), None)
        /\ Charge(loan.account, total)
        /\ UNCHANGED receipts

AddExtraPayment(k, n, date, waited) ==
    LET events == Recorded(Event(0, date, n, 0, n, date, loan.account), waited)
    IN  /\ Exists /\ k \notin receipts
        /\ loan.status # "paid_off"
        /\ NotBeforeEvents(date)
        /\ pending # <<>> => date <= pending[1].due
        /\ n <= Remaining
        /\ loan.account \in Payable
        /\ Served(waited)
        /\ settled' = events
        /\ Regenerate(events, NextDue(pending), None)
        /\ Charge(loan.account, n)
        /\ receipts' = receipts \cup {k}

\* A difference of zero records nothing.
Reconcile(actual, date, waited) ==
    LET events == Recorded(Event(-1, date, Remaining - actual, 0, 0, date, None), waited)
    IN  /\ Exists
        /\ NotBeforeEvents(date)
        /\ actual # Remaining
        /\ Served(waited)
        /\ settled' = events
        /\ Regenerate(events, NextDue(pending), None)
        /\ UNCHANGED <<spent, receipts>>

(* Fault: the payment undone is not put back among those to come. *)
DropsRow(e) == NextDue(pending)

\* What is due next once a monthly payment is pending again.
DueAgain(e) == IF e.sequence > 0 THEN e.due ELSE NextDue(pending)

(* Only the latest event, by created_at, is undone; its expense is reversed  *)
(* on the account it was booked on.                                          *)
Undo ==
    LET e      == Last(settled)
        events == Front(settled)
    IN  /\ Exists /\ settled # <<>>
        /\ settled' = events
        /\ Regenerate(events, DueAgain(e), e.due)
        /\ IF e.account = None THEN UNCHANGED spent ELSE Charge(e.account, -e.paidTotal)
        /\ late' = IF late = Len(settled) THEN Len(events) ELSE late
        /\ UNCHANGED receipts

\* A request begins and waits for the row, which another one holds.
Wait ==
    /\ Exists /\ late = None
    /\ late' = Len(settled)
    /\ UNCHANGED <<loan, settled, pending, receipts, spent>>

\* It is refused, or its connection is lost.
GiveUp ==
    /\ late # None
    /\ late' = None
    /\ UNCHANGED <<loan, settled, pending, receipts, spent>>

-----------------------------------------------------------------------------
Init ==
    /\ loan = Fresh
    /\ settled = <<>> /\ pending = <<>>
    /\ receipts = {}
    /\ spent = [a \in Accounts |-> 0]
    /\ late = None

Settling ==
    \E date \in EventDates :
        \/ \E in \in Overrides : Pay(in, date)
        \/ \E waited \in BOOLEAN :
               \/ \E k \in Keys : \/ \E n \in Extras : AddExtraPayment(k, n, date, waited)
                                  \/ /\ Exists
                                     /\ AddExtraPayment(k, Remaining, date, waited)
               \/ \E actual \in Reported : Reconcile(actual, date, waited)

Next ==
    \/ \E a \in Accounts : (\E t \in Terms : Create(t, a)) \/ Update(a)
    \/ Delete
    \/ Settling
    \/ Undo
    \/ Wait \/ GiveUp

Spec == Init /\ [][Next]_vars

-----------------------------------------------------------------------------
(* Properties *)

Rows == [sequence : Nat \ {0}, due : Dates, principal : Nat, interest : Nat]

(* Rows keep the types and the CHECKs of migration 00022: numbered and extra  *)
(* payments cover their parts, only adjustments are signed and touch no       *)
(* account; so no method ends in an error of the database.                    *)
LoansTypeOK ==
    /\ loan \in LoanRows \cup {Fresh, Deleted}
    /\ \A i \in DOMAIN pending : pending[i] \in Rows
    /\ \A i \in DOMAIN settled :
           LET e == settled[i]
           IN  /\ {e.due, e.paidAt} \subseteq Dates
               /\ \/ /\ e.sequence \in Nat /\ e.account \in Payable
                     /\ e.paidPrincipal \in Nat /\ e.paidInterest \in Nat
                     /\ e.paidTotal >= e.paidPrincipal + e.paidInterest
                  \/ /\ e.sequence = -1 /\ e.account = None
                     /\ e.paidPrincipal \in Int \ {0} /\ e.paidTotal = 0
    /\ receipts \subseteq Keys
    /\ spent \in [Accounts -> Nat]
    /\ late \in 0 .. Len(settled) \cup {None}

\* The numbers of the monthly payments made, and what the loan cost an account.
Numbers == {settled[i].sequence : i \in {j \in DOMAIN settled : settled[j].sequence > 0}}

Paid(a) == Total([i \in DOMAIN settled |->
                     IF settled[i].account = a THEN settled[i].paidTotal ELSE 0])

\* The events are dated in the order in which they were committed.
Chronological == \A i \in DOMAIN settled : settled[i].since = i - 1

(* Whatever is paid, overpaid, reconciled and undone, the debt is accounted   *)
(* for: what is pending adds up to it, and nothing is pending exactly when    *)
(* the loan is paid off; the monthly payments made are numbered from 1        *)
(* without a gap and those pending follow; and the accounts lost what the     *)
(* events paid (docs/loans-spec.md:82, "Pagos deben registrarse en orden").   *)
(* It is never negative either, as long as the events are dated in the order  *)
(* in which they took effect; see the README for what happens otherwise.      *)
DebtAccounted ==
    /\ Exists =>
           /\ Chronological => Remaining >= 0
           /\ loan.status = "paid_off" <=> Remaining <= 0
           /\ Repaid(pending) = IF Remaining > 0 THEN Remaining ELSE 0
           /\ Numbers = 1 .. Cardinality(Numbers)
           /\ \A i \in DOMAIN pending : pending[i].sequence = Cardinality(Numbers) + i
           /\ \A i, j \in DOMAIN settled :
                  settled[i].sequence > 0 /\ settled[j].sequence = settled[i].sequence => i = j
    /\ ~Exists => settled = <<>> /\ pending = <<>>
    /\ \A a \in Accounts : spent[a] = Paid(a)

Undone == Exists /\ Exists' /\ Len(settled') < Len(settled)

\* Nothing was recorded, in whatever place, since the event.
Newest(e) == Len(settled) = e.since + 1

\* A schedule but for its dates.
Undated(rows) == [i \in DOMAIN rows |-> [rows[i] EXCEPT !.due = 0]]

(* Undo takes back the event: its principal is owed again and its expense     *)
(* returned to the account it came from.                                      *)
UndoTakesBack ==
    [][Undone =>
           LET e == Last(settled)
           IN  /\ Owed(loan.terms, settled') = Remaining + e.paidPrincipal
               /\ \A a \in Accounts : spent[a] - spent'[a] =
                      IF a = e.account THEN e.paidTotal ELSE 0]_vars

(* When nothing was recorded since, the payments to come are again those the  *)
(* event found, of the same numbers and amounts; a monthly payment is due     *)
(* again when it was, and the undo of another event leaves the next due date  *)
(* alone - if there is one: an extra payment or reconciliation that paid the  *)
(* loan off has erased it (store/loans.go:862, "preserving chronological debt *)
(* history").                                                                 *)
UndoRestores ==
    [][Undone =>
           LET e == Last(settled)
           IN  /\ Newest(e) =>
                      /\ Undated(pending') = Undated(e.was)
                      /\ e.sequence > 0 => pending' = e.was
               /\ e.sequence <= 0 /\ pending # <<>> /\ pending' # <<>> =>
                      NextDue(pending') = NextDue(pending)]_vars

(* calculate: the schedule the calculator shows, numbered from 1 *)
Simulated(extra, date) ==
    ApplyExtraPayment(Remaining, loan.terms, Len(pending), MonthOf[pending[1].due], extra, date)

(* What the calculator announces of an extra payment is what the payment then *)
(* does: httpapi/loans.go:253 simulates it on the pending payments of a loan, *)
(* and AddExtraPayment rebuilds them from the debt that is left.              *)
ExtrasAsSimulated ==
    [][receipts' # receipts =>
           \E i \in DOMAIN settled' :
               /\ settled = RemoveAt(settled', i)
               /\ Renumbered(pending', 0) =
                      Simulated(settled'[i].paidPrincipal, settled'[i].paidAt)]_vars

StepsAsAnnounced == UndoTakesBack /\ UndoRestores /\ ExtrasAsSimulated

(* store/loans.go:744: pending rows are rebuilt "from actual principal while  *)
(* preserving the next due date and settled history": monthly payment n stays *)
(* due n - 1 months after the first.  It does not once nothing is pending:    *)
(* see the README.                                                            *)
NextDueDatePreserved ==
    pending # <<>> =>
        MonthOf[pending[1].due] = MonthOf[loan.terms.start] + pending[1].sequence - 1
=============================================================================
