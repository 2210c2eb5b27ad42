------------------------------ MODULE Schedules ------------------------------
(***************************************************************************)
(* Scheduled payments on the server: recurring expenses, which become      *)
(* movements as they fall due, and instalment (MSI) purchases, which       *)
(* charge their card at once and list one movement per month that charges  *)
(* nothing (backend/internal/store: recurring_transactions.go,             *)
(* msi_purchases.go), beside the movements a user records.  Every method   *)
(* is one PostgreSQL transaction that locks its rows, hence one action.    *)
(*                                                                         *)
(* How movements reach balances is the subject of Ledger; here a movement  *)
(* keeps what the client's charts read of it.  The server's date is UTC's  *)
(* and the browser's follows it, as in the zone the program is written     *)
(* for.  Accounts are given; rows older than the balance automation and    *)
(* the removal of a movement are left out.                                 *)
(***************************************************************************)
EXTENDS Calendar, Totals, Sequences, SequencesExt, FiniteSetsExt

CONSTANTS
    Accounts, AccountType,      \* [Accounts -> {"debit", "credit"}]
    Tracked,                    \* accounts whose balance follows movements
    Opening,                    \* [Accounts -> Int]: balance, or available credit
    Rules, RuleInputs,          \* ids and contents of recurring expenses
    Purchases, PurchaseInputs,  \* ids and contents of instalment purchases
    Recordings,                 \* movements a user records, dated from today
    StartDays, LastDays,        \* bounds: the dates the clock runs between
    MaxRecorded,                \* bound on the movements a user records
    Fresh, Deleted, None

Frequencies == {"monthly", "yearly"}

Categories == {in.category : in \in RuleInputs \cup PurchaseInputs \cup Recordings}

(* since is history: the first occurrence of the schedule in force. *)
RuleRows ==
    [account : Accounts, category : Categories, amount : Nat \ {0}, frequency : Frequencies,
     start : Dates, next : Dates, occurrences : Nat, active : BOOLEAN, since : Nat]

ASSUME SchedulesConstants ==
    /\ AccountType \in [Accounts -> {"debit", "credit"}]
    /\ Tracked \subseteq Accounts /\ Opening \in [Accounts -> Int]
    /\ IsFiniteSet(Accounts) /\ IsFiniteSet(Rules) /\ IsFiniteSet(Purchases)
    /\ None \notin Accounts \cup Rules \cup Purchases
    /\ MaxRecorded \in Nat
    /\ RuleInputs \subseteq [account : Accounts, category : Categories, amount : Nat \ {0},
                            frequency : Frequencies, start : Dates]
    /\ PurchaseInputs \subseteq [account : Accounts, category : Categories, total : Nat,
                                count : Nat \ {0}, start : Dates]
    /\ \A in \in PurchaseInputs : in.total >= in.count
    /\ Recordings \subseteq [type : {"expense", "income", "transfer"}, account : Accounts,
                            dest : Accounts \cup {None}, amount : Nat \ {0}, days : Int,
                            affects : BOOLEAN, linked : BOOLEAN, category : Categories]
    /\ \A x \in Recordings : IF x.type = "transfer" THEN x.dest \notin {None, x.account}
                            ELSE x.dest = None /\ ~x.linked
    /\ Fresh # Deleted
    /\ {Fresh, Deleted} \cap RuleRows = {} /\ {Fresh, Deleted} \cap PurchaseInputs = {}

(* The clock stops a year before the calendar does, and all else is within it. *)
ASSUME CalendarReaches ==
    /\ StartDays \subseteq Dates /\ LastDays \subseteq Dates
    /\ \A s \in StartDays : \E e \in LastDays : s <= e
    /\ \A e \in LastDays : MonthOf[e] + 12 \in Months
    /\ \A in \in PurchaseInputs : MonthOf[in.start] + in.count - 1 \in Months
    /\ \A x \in Recordings, d \in StartDays \cup LastDays : d + x.days \in Dates

VARIABLES
    utc, local,     \* the server's date and the browser's
    value,          \* balance_cents, or available_credit_cents
    moves,          \* the transactions
    rules,          \* recurring_transactions
    purchases       \* msi_purchases

scheduleVars == <<utc, local, value, moves, rules, purchases>>

Exists(row) == row \notin {Fresh, Deleted}

-----------------------------------------------------------------------------
Effect(m, a) ==
    IF ~m.affects \/ a \notin Tracked THEN 0
    ELSE (IF m.account = a THEN (IF m.type = "income" THEN m.amount ELSE -m.amount) ELSE 0)
       + (IF m.type = "transfer" /\ m.dest = a THEN m.amount ELSE 0)

EffectOf(ms, a) == Total([i \in DOMAIN ms |-> Effect(ms[i], a)])

Post(ms) ==
    /\ moves' = moves \o ms
    /\ value' = [a \in Accounts |-> value[a] + EffectOf(ms, a)]

-----------------------------------------------------------------------------
(* Recurring expenses *)

Interval(frequency) == IF frequency = "yearly" THEN 12 ELSE 1

Occurrence(start, frequency, n) ==
    Clamped(MonthOf[start] + n * Interval(frequency), DayOf(start))

(* Fault: the occurrence of today is taken as still to come. *)
AlignedToday(start, frequency, today) ==
    CHOOSE n \in 0 .. 12 * YearCount :
        /\ Occurrence(start, frequency, n) >= today
        /\ n = 0 \/ Occurrence(start, frequency, n - 1) < today

(* The first occurrence after today, counted from the month of today. *)
Aligned(start, frequency, today) ==
    LET months == MonthOf[today] - MonthOf[start]
        years  == YearOf(MonthOf[today]) - YearOf(MonthOf[start])
        n      == IF frequency = "yearly" THEN years ELSE months
        first  == IF n < 0 THEN 0 ELSE n
    IN  IF Occurrence(start, frequency, first) > today THEN first ELSE first + 1

DueDate(rule, n) ==
    IF n = 0 THEN rule.next
    ELSE Occurrence(rule.start, rule.frequency, rule.occurrences + n)

(* Each occurrence has a month of its own. *)
DueCount(rule) ==
    Cardinality({n \in 0 .. (MonthOf[utc] - MonthOf[rule.next]) \div Interval(rule.frequency) :
                     DueDate(rule, n) <= utc})

Materialized(r, rule) ==
    [n \in 1 .. DueCount(rule) |->
        [type |-> "expense", account |-> rule.account, dest |-> None,
         amount |-> rule.amount, date |-> DueDate(rule, n - 1), affects |-> TRUE,
         linked |-> FALSE, category |-> rule.category, rule |-> r, purchase |-> None]]

Advanced(rule) ==
    [rule EXCEPT !.occurrences = @ + DueCount(rule), !.next = DueDate(rule, DueCount(rule))]

IsDue(r) == Exists(rules[r]) /\ rules[r].active /\ rules[r].next <= utc

CreateRule(r, in) ==
    /\ rules[r] = Fresh
    /\ rules' = [rules EXCEPT ![r] =
           [account |-> in.account, category |-> in.category, amount |-> in.amount,
            frequency |-> in.frequency, start |-> in.start, next |-> in.start,
            occurrences |-> 0, active |-> TRUE, since |-> 0]]
    /\ UNCHANGED <<utc, local, value, moves, purchases>>

UpdateRule(r, in, active, materialize) ==
    LET old     == rules[r]
        posted  == materialize /\ IsDue(r)
        ran     == IF posted THEN Advanced(old) ELSE old
        realign == \/ old.frequency # in.frequency \/ old.start # in.start
                   \/ ~old.active /\ active
        n       == Aligned(in.start, in.frequency, utc)
    IN  /\ Exists(old)
        /\ IF posted THEN Post(Materialized(r, old)) ELSE UNCHANGED <<moves, value>>
        /\ rules' = [rules EXCEPT ![r] =
               [account |-> in.account, category |-> in.category, amount |-> in.amount,
                frequency |-> in.frequency, start |-> in.start, active |-> active,
                next |-> IF realign THEN Occurrence(in.start, in.frequency, n) ELSE ran.next,
                occurrences |-> IF realign THEN n ELSE ran.occurrences,
                since |-> IF realign THEN n ELSE ran.since]]
        /\ UNCHANGED <<utc, local, purchases>>

DeleteRule(r) ==
    /\ Exists(rules[r])
    /\ rules' = [rules EXCEPT ![r] = Deleted]
    /\ UNCHANGED <<utc, local, value, moves, purchases>>

(* The client asks for it each time a session starts. *)
Process ==
    LET due == SetToSeq({r \in Rules : IsDue(r)})
    IN  /\ due # <<>>
        /\ Post(FlattenSeq([i \in DOMAIN due |-> Materialized(due[i], rules[due[i]])]))
        /\ rules' = [r \in Rules |-> IF IsDue(r) THEN Advanced(rules[r]) ELSE rules[r]]
        /\ UNCHANGED <<utc, local, purchases>>

-----------------------------------------------------------------------------
(* Instalment purchases.  Nothing counts an instalment as paid: the count    *)
(* stays 0, the next one stays the first, and every purchase stays active.   *)

(* Fault: instalments are rounded up. *)
RoundedUp(in) == (in.total + in.count - 1) \div in.count

InstalmentAmount(in) == in.total \div in.count

Share(in, n) ==
    IF n = in.count THEN in.total - InstalmentAmount(in) * (in.count - 1)
    ELSE InstalmentAmount(in)

Instalments(p, in) ==
    [n \in 1 .. in.count |->
        [type |-> "expense", account |-> in.account, dest |-> None,
         amount |-> Share(in, n), date |-> Clamped(MonthOf[in.start] + n - 1, DayOf(in.start)),
         affects |-> FALSE, linked |-> FALSE, category |-> in.category,
         rule |-> None, purchase |-> p]]

Charged(in, a) == IF in.account = a THEN in.total ELSE 0

Without(ms, p) ==
    FlattenSeq([i \in DOMAIN ms |-> IF ms[i].purchase = p THEN <<>> ELSE <<ms[i]>>])

WithoutInstalments(p) == Without(moves, p)

Chargeable(a) == AccountType[a] = "credit" /\ a \in Tracked

CreatePurchase(p, in) ==
    /\ purchases[p] = Fresh
    /\ Chargeable(in.account)
    /\ purchases' = [purchases EXCEPT ![p] = in]
    /\ value' = [a \in Accounts |-> value[a] - Charged(in, a)]
    /\ moves' = moves \o Instalments(p, in)
    /\ UNCHANGED <<utc, local, rules>>

UpdatePurchase(p, in) ==
    /\ Exists(purchases[p])
    /\ Chargeable(in.account)
    /\ purchases' = [purchases EXCEPT ![p] = in]
    /\ value' = [a \in Accounts |-> value[a] + Charged(purchases[p], a) - Charged(in, a)]
    /\ moves' = WithoutInstalments(p) \o Instalments(p, in)
    /\ UNCHANGED <<utc, local, rules>>

DeletePurchase(p) ==
    /\ Exists(purchases[p])
    /\ purchases' = [purchases EXCEPT ![p] = Deleted]
    /\ value' = [a \in Accounts |-> value[a] + Charged(purchases[p], a)]
    /\ moves' = WithoutInstalments(p)
    /\ UNCHANGED <<utc, local, rules>>

-----------------------------------------------------------------------------
Recorded == SelectSeq(moves, LAMBDA m : m.rule = None /\ m.purchase = None)

(* x is a movement dated days from the browser's today. *)
Record(x) ==
    /\ Len(Recorded) < MaxRecorded
    /\ Post(<<[type |-> x.type, account |-> x.account, dest |-> x.dest, amount |-> x.amount,
               date |-> local + x.days, affects |-> x.affects, linked |-> x.linked,
               category |-> x.category, rule |-> None, purchase |-> None]>>)
    /\ UNCHANGED <<utc, local, rules, purchases>>

UtcMidnight ==
    /\ utc = local /\ utc \notin LastDays
    /\ utc' = utc + 1
    /\ UNCHANGED <<local, value, moves, rules, purchases>>

LocalMidnight ==
    /\ local < utc
    /\ local' = local + 1
    /\ UNCHANGED <<utc, value, moves, rules, purchases>>

SchedulesInit ==
    /\ utc \in StartDays /\ local = utc
    /\ value = Opening
    /\ moves = <<>>
    /\ rules = [r \in Rules |-> Fresh]
    /\ purchases = [p \in Purchases |-> Fresh]

SchedulesNext ==
    \/ \E r \in Rules, in \in RuleInputs : CreateRule(r, in)
    \/ \E r \in Rules, in \in RuleInputs, active, materialize \in BOOLEAN :
           UpdateRule(r, in, active, materialize)
    \/ \E r \in Rules : DeleteRule(r)
    \/ Process
    \/ \E p \in Purchases, in \in PurchaseInputs :
           CreatePurchase(p, in) \/ UpdatePurchase(p, in)
    \/ \E p \in Purchases : DeletePurchase(p)
    \/ \E x \in Recordings : Record(x)
    \/ UtcMidnight
    \/ LocalMidnight

-----------------------------------------------------------------------------
(* Each payment is made once.  Whatever edits, pauses and catch-ups a rule   *)
(* goes through, no date of it is charged twice, and since its schedule was  *)
(* last aligned every occurrence before the next one was charged; the        *)
(* instalments of a purchase fall in successive months and add up to what    *)
(* the card was charged; and a balance is its opening plus what posted       *)
(* (backend/internal/store/recurring_transactions.go:150, "already           *)
(* materialized transactions cannot be generated again").                    *)
RuleDates(r) == {moves[i].date : i \in {j \in DOMAIN moves : moves[j].rule = r}}

ChargedOnce(r) ==
    /\ \A i, j \in DOMAIN moves :
           moves[i].rule = r /\ moves[j].rule = r /\ moves[i].date = moves[j].date => i = j
    /\ Exists(rules[r]) =>
           LET rule  == rules[r]
               At(n) == Occurrence(rule.start, rule.frequency, n)
           IN  /\ rule.next = At(rule.occurrences)
               /\ {d \in RuleDates(r) : d >= At(rule.since)} =
                  {At(n) : n \in rule.since .. rule.occurrences - 1}

MadeFor(ms, p) ==
    FlattenSeq([i \in DOMAIN ms |-> IF ms[i].purchase = p THEN <<ms[i]>> ELSE <<>>])

InstalmentsAddUp(p) ==
    LET ms == MadeFor(moves, p)
    IN  IF ~Exists(purchases[p]) THEN ms = <<>>
        ELSE /\ Total([i \in DOMAIN ms |-> ms[i].amount]) = purchases[p].total
             /\ \A i \in 1 .. Len(ms) - 1 : MonthOf[ms[i + 1].date] = MonthOf[ms[i].date] + 1

PurchasesCharged(a) ==
    Total([p \in Purchases |-> IF Exists(purchases[p]) THEN Charged(purchases[p], a) ELSE 0])

BalanceFollows(a) == value[a] = Opening[a] + EffectOf(moves, a) - PurchasesCharged(a)

SchedulesKept ==
    /\ \A r \in Rules : ChargedOnce(r)
    /\ \A p \in Purchases : InstalmentsAddUp(p)
    /\ \A a \in Accounts : BalanceFollows(a)
=============================================================================
