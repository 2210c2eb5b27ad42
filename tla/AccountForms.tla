---------------------------- MODULE AccountForms ----------------------------
(* The panels of the accounts page: an account created, edited or deleted, *)
(* an instalment purchase edited or deleted.                               *)
EXTENDS Forms

-----------------------------------------------------------------------------
(* Accounts                                                                 *)

NoCap == -1

\* Rates and caps are read with a decimal comma as well as a point.
Reads(text) == text \in DOMAIN Meant \ {""}

\* Rates between 0 and 100; more than one row needs every rate, and rising
\* caps on all rows but the last, which has none.
Rates(rows) == {rows[i].rate : i \in DOMAIN rows}
RisingCaps(rows) ==
    /\ \A i \in 1 .. Len(rows) - 1 :
          /\ Reads(rows[i].cap) /\ Meant[rows[i].cap] > 0
          /\ i > 1 => Meant[rows[i].cap] > Meant[rows[i - 1].cap]
    /\ rows[Len(rows)].cap = ""
ValidTiers(rows) ==
    /\ \A rate \in Rates(rows) \ {""} : Reads(rate) /\ Meant[rate] \in 0 .. 100000
    /\ \/ Rates(rows) = {""}
       \/ Len(rows) = 1
       \/ "" \notin Rates(rows) /\ RisingCaps(rows)

\* What is sent of them: a ladder, its caps rounded to cents; one row is sent
\* as a flat rate.
Ladder(rows) ==
    IF Len(rows) = 1 \/ \A i \in DOMAIN rows : rows[i].rate = "" THEN <<>>
    ELSE [i \in DOMAIN rows |-> IF i = Len(rows) THEN NoCap
                                ELSE Cents(Meant[rows[i].cap])]

\* A row added or removed leaves the last row without a cap.
TierRows == {<<[rate |-> r, cap |-> ""]>> : r \in {"", "abc", "5", "1e3"}}
              \cup {<<[rate |-> r, cap |-> c], [rate |-> s, cap |-> ""]>> :
                        r \in {"", "5"}, s \in {"", "5"}, c \in Texts}
NoTiers == <<[rate |-> "", cap |-> ""]>>

Editions == {"new", "snapshot", "tracked"}

\* What may stand on the panel.  The type of an existing account is fixed; a
\* tracked account keeps the balance or the debt it shows.
DebitDrafts ==
    [type : {"debit"}, edits : Editions, name : {"", "name"}, amount : Texts,
     debt : {""}, last4 : {"", "12", "1234"}, cut : {0}, due : {0},
     tiers : TierRows]
CreditDrafts ==
    [type : {"credit"}, edits : Editions, name : {"", "name"}, amount : Texts,
     debt : Texts, last4 : {"", "12", "1234"}, cut : {0, 1, 29}, due : {1, 29},
     tiers : {NoTiers}]
AccountDrafts == DebitDrafts \cup CreditDrafts

\* handleSubmit goes on with a name and readable tiers.
AccountComplete(d) == d.name # "" /\ ValidTiers(d.tiers)

Last4(d) == IF d.last4 = "" THEN "0000" ELSE d.last4

\* The amounts sent: every one of a new account or of one kept by hand, the
\* limit alone of a tracked card, none of a tracked debit account.
AmountsSent(d) ==
    CASE d.type = "credit" /\ d.edits # "tracked" -> {d.amount, d.debt}
      [] d.type = "credit" /\ d.edits = "tracked" -> {d.amount}
      [] d.type = "debit" /\ d.edits # "tracked" -> {d.amount}
      [] OTHER -> {}

\* Days outside 1..28 are left out of the request, and a patch without them
\* leaves the day as it was (here the 1st).
DayKept(d, day) == day \in 1 .. 28 \/ (day = 0 /\ d.edits = "new")

AccountShown(d) ==
    /\ \A text \in AmountsSent(d) : AsTyped(text)
    /\ d.type = "credit" => DayKept(d, d.cut) /\ DayKept(d, d.due)

\* The handler's validation and the checks of the table.
AccountTaken(d) ==
    LET ladder == IF d.type = "credit" THEN <<>> ELSE Ladder(d.tiers)
    IN  /\ Last4(d) \in {"0000", "1234"}
        /\ d.type = "credit" => ToCents[d.amount] >= 0
        /\ \A i \in 1 .. Len(ladder) - 1 :
              ladder[i] > (IF i = 1 THEN 0 ELSE ladder[i - 1])

AccountOutcomes(editions) ==
    {Outcome(AccountTaken(d), AccountShown(d)) :
        d \in {x \in AccountDrafts : x.edits \in editions /\ AccountComplete(x)}}
NewAccountOutcomes == AccountOutcomes({"new"})
EditedAccountOutcomes == AccountOutcomes({"snapshot", "tracked"})

\* Opening drops the mutation the panel is opened for, closing both.
AccountPanel == Panel(TRUE, TRUE, FALSE, "caller")
AccountQueries == {"accounts", "dashboard"}

CreateAccount == Form(AccountPanel, "create", "none", {"accounts"},
                      AccountQueries, NewAccountOutcomes)
UpdateAccount == Form(AccountPanel, "write", "none", {"accounts", "debit"},
                      AccountQueries, EditedAccountOutcomes)

\* The purchases of the account go first, with their instalments; its
\* recurring rules, statements and yields follow it, goals and allocations
\* forget it.  Its other movements and its loans keep it from going.
RemovedWithAccount ==
    {"accounts", "debit", "msi", "transactions", "recurring", "statements",
     "yields", "shares", "goals", "allocations"}
DeleteAccount == Form(Panel(TRUE, TRUE, FALSE, "caller"), "once", "none",
                      RemovedWithAccount, AccountQueries, {"taken", "invalid"})

-----------------------------------------------------------------------------
(* Instalment purchases                                                     *)

\* The fields of the panel; its account is a tracked card or the current one.
\* The purchase may have moved its card's balance ("booked"), and the edit may
\* change what that depends on ("recast").
MSIDrafts == [account : BOOLEAN, description : BOOLEAN, total : Texts,
              months : Counts, start : BOOLEAN, booked : BOOLEAN,
              recast : BOOLEAN]

MSIComplete(d) == /\ d.account /\ d.description /\ d.start
                  /\ ToCents[d.total] > 0
                  /\ d.months \in 2 .. 60

\* The server also wants a cent for every instalment.
MSITaken(total, months) == total > 0 /\ months \in 2 .. 60 /\ total >= months

\* A purchase of before its card was tracked is renamed but not recast.
MSIOutcomes ==
    {Outcome(/\ MSITaken(ToCents[d.total], d.months)
             /\ d.booked \/ ~d.recast, AsTyped(d.total)) :
        d \in {x \in MSIDrafts : MSIComplete(x)}}

MSIPanel == Panel(TRUE, TRUE, FALSE, "caller")
MSIQueries == {"msi", "transactions", "accounts", "dashboard"}

UpdateMSI == Form(MSIPanel, "write", "none", {"msi"} \cup BookedOnCard, MSIQueries,
                  MSIOutcomes)
\* On success the panel is closed without dropping the mutation's result.
DeleteMSI == Form(Panel(FALSE, TRUE, FALSE, "caller"), "once", "none",
                  {"msi"} \cup BookedOnCard, MSIQueries, {"taken"})
=============================================================================
