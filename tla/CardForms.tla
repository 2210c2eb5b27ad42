----------------------------- MODULE CardForms -----------------------------
(* The panels of one account: a card's statement, payment and debt, the    *)
(* statement read from a PDF, the yields of a debit account.               *)
EXTENDS Forms, Yields

(* Fault: whatever toCents makes of the text is good. *)
IsAnyMoney(text, allowZero) ==
    IF allowZero THEN ToCents[text] >= 0 ELSE ToCents[text] > 0

\* Digits, and perhaps a point and one or two more; MONEY_PATTERN of the
\* yields panel also takes a minus.
Digits == {"0", "0.05", "5"}
IsValidMoney(text, allowZero) ==
    /\ text \in Digits
    /\ IF allowZero THEN ToCents[text] >= 0 ELSE ToCents[text] > 0
IsMoneyPattern(text) == text \in Digits \cup {"-5"}

-----------------------------------------------------------------------------
(* Confirming a statement, paying the card, correcting its debt             *)

\* The card may be out of use by the time its statement is confirmed.
ConfirmDrafts == [balance : Texts, minimum : Texts, active : BOOLEAN]
ConfirmComplete(d) ==
    IsValidMoney(d.balance, TRUE) /\ (d.minimum = "" \/ IsValidMoney(d.minimum, TRUE))
ConfirmTaken(d) ==
    d.active /\ ToCents[d.balance] >= 0 /\ ToCents[d.minimum] >= 0
ConfirmOutcomes ==
    {Outcome(ConfirmTaken(d), AsTyped(d.balance) /\ AsTyped(d.minimum)) :
        d \in {x \in ConfirmDrafts : ConfirmComplete(x)}}

\* The page's panels drop the last result when they open; closing one only
\* hides it, and any success closes it.
ConfirmPanel == Panel(TRUE, FALSE, FALSE, "hook")
ConfirmStatement == Form(ConfirmPanel, "write", "none", {"statements"},
                         {"statements"}, ConfirmOutcomes)

\* Both accounts must be tracked.
PaymentDrafts == [source : BOOLEAN, sourceTracked : BOOLEAN,
                  cardTracked : BOOLEAN, amount : Texts]
PaymentComplete(d) == /\ d.source /\ d.sourceTracked /\ d.cardTracked
                      /\ IsValidMoney(d.amount, FALSE)
PaymentTaken(d) ==
    ToCents[d.amount] > 0 /\ d.source /\ d.sourceTracked /\ d.cardTracked
PaymentOutcomes == {Outcome(PaymentTaken(d), AsTyped(d.amount)) :
                       d \in {x \in PaymentDrafts : PaymentComplete(x)}}

PaymentPanel == Panel(TRUE, FALSE, FALSE, "hook")
PayCard == Form(PaymentPanel, "create", "opening", {"statements"} \cup Booked,
                {"accounts", "transactions", "statements"}, PaymentOutcomes)

\* Tracking is switched on from the page or from the payment panel, with the
\* amount the account shows.  Here the panel is the page, made anew at each
\* visit; no error is shown.  The button is there for a card without a limit
\* too, which the server does not track.
ActivationDrafts == [type : {"debit", "credit"}, limit : BOOLEAN]
ActivationTaken(d) == d.type = "credit" => d.limit
ActivationOutcomes == {Outcome(ActivationTaken(d), TRUE) : d \in ActivationDrafts}
ActivateTracking == Form(Panel(TRUE, TRUE, FALSE, "never"), "once", "none",
                         {"accounts"}, {"accounts"}, ActivationOutcomes)

DebtOutcomes == {Outcome(TRUE, AsTyped(text)) :
                    text \in {x \in Texts : IsValidMoney(x, TRUE)}}
DebtPanel == Panel(TRUE, FALSE, FALSE, "hook")
ReconcileDebt == Form(DebtPanel, "write", "none", {"accounts"}, {"accounts"},
                      DebtOutcomes)

-----------------------------------------------------------------------------
(* A statement read from a PDF                                              *)

\* One missing movement of the statement: a charge becomes an expense, a
\* credit an income or a payment from a debit account; a payment is left out
\* until it is ticked.
Movements == [direction : {"charge", "credit"}, payment : BOOLEAN]
INCOME_MODE == "income"
MergeSelections(movement, debitAccounts) ==
    LET isPayment == movement.direction = "credit" /\ movement.payment
    IN  [include |-> ~isPayment,
         creditMode |-> IF isPayment /\ debitAccounts # {}
                        THEN CHOOSE a \in debitAccounts : TRUE
                        ELSE INCOME_MODE]

StatementRequest(movement, selection) ==
    CASE movement.direction = "charge" -> "expense"
      [] movement.direction = "credit" /\ selection.creditMode = INCOME_MODE -> "income"
      [] OTHER -> "transfer"

\* Submitting needs a reading, a ticked movement, and a card that is the
\* account's or said to be.
StatementDrafts == [read : BOOLEAN, movement : Movements, ticked : BOOLEAN,
                    mode : {INCOME_MODE, "a"}, mismatch : BOOLEAN,
                    confirmed : BOOLEAN]
BlockedByCard(d) == d.mismatch /\ ~d.confirmed
StatementComplete(d) == d.read /\ d.ticked /\ ~BlockedByCard(d)
StatementOutcomes ==
    {Outcome(StatementRequest(d.movement, [creditMode |-> d.mode])
                \in {"expense", "income", "transfer"}, TRUE) :
        d \in {x \in StatementDrafts : StatementComplete(x)}}

\* Closing drops every result, but a mutation that answers later still
\* fills the panel and reads the file again.
StatementPanel == Panel(FALSE, TRUE, FALSE, "fills")

\* A movement that fails is counted, not thrown; the key of each is made of
\* the upload, the period, the line and the amount.
ApplyStatement ==
    [Form(StatementPanel, "create", "opening", {"statements"} \cup Booked,
          {"transactions", "accounts", "dashboard"}, StatementOutcomes)
        EXCEPT !.catches = TRUE]

\* The statement itself is kept for a card in use, when its period starts no
\* later than its cut and is due after it; the panel takes the dates it read.
StatementRecords == [active : BOOLEAN, ordered : BOOLEAN, mismatch : BOOLEAN,
                     confirmed : BOOLEAN]
RecordTaken(d) == d.active /\ d.ordered
RecordOutcomes == {Outcome(RecordTaken(d), TRUE) :
                      d \in {x \in StatementRecords : ~BlockedByCard(x)}}
SaveStatement == Form(StatementPanel, "write", "none", {"statements"},
                      {"statements"}, RecordOutcomes)

-----------------------------------------------------------------------------
(* Yields                                                                   *)

\* The account's balance, what the rate would have earned, and the panel.
YieldDrafts == [balance : {-100000, 0, 300}, bank : Texts, touched : BOOLEAN,
                typed : Texts, estimate : {0, 100},
                date : {"", "early", "today", "late"}]

Difference(d) == ToCents[d.bank] - d.balance
Suggested(d) == SuggestYieldSplit(Difference(d), d.estimate).yieldAmount
YieldReadable(d) == d.touched => IsMoneyPattern(d.typed)
Yielded(d) == IF d.touched THEN ToCents[d.typed] ELSE Suggested(d)

YieldComplete(d) ==
    /\ IsMoneyPattern(d.bank)
    /\ YieldReadable(d)
    /\ Yielded(d) >= 0
    /\ IF Difference(d) >= 0 THEN Yielded(d) <= Difference(d)
       ELSE Yielded(d) = 0

\* The range of the date input is not checked by the panel.
YieldTaken(d) ==
    /\ d.date = "today"
    /\ Yielded(d) >= 0 /\ (Yielded(d) = 0 \/ Yielded(d) <= Difference(d))

YieldOutcomes ==
    {Outcome(YieldTaken(d), AsTyped(d.bank) /\ (d.touched => AsTyped(d.typed))) :
        d \in {x \in YieldDrafts : YieldComplete(x)}}

\* The panel is made anew each time it opens, with a key of its own; what it
\* shows on success has nothing left to submit.
YieldPanel == Panel(TRUE, TRUE, FALSE, "caller")
YieldQueries == {"accounts", "transactions", "dashboard", "goals", "overview",
                 "yields"}
YieldTables == {"yields", "shares", "goals", "allocations"} \cup Booked

ReconcileYield == Form(YieldPanel, "create", "opening", YieldTables,
                       YieldQueries, YieldOutcomes)

\* The latest reconciliation of the account: what it booked, of which a goal was
\* given a part; what that goal and the others hold in the account by now, and
\* its balance.  The panel offers the undo whatever became of them.
UndoDrafts == {d \in [booked : {-100, 0, 100}, given : {0, 100}, held : {0, 100},
                      others : {0, 100}, balance : {0, 300}] :
                  d.given > 0 => d.given <= d.booked}

\* The goal must still hold its part, and an undo that lowers the balance must
\* leave it above what stays allocated.
UndoTaken(d) ==
    /\ d.held >= d.given
    /\ \/ d.held + d.others - d.given <= d.balance - d.booked
       \/ d.booked <= 0
UndoOutcomes == {Outcome(UndoTaken(d), TRUE) : d \in UndoDrafts}
UndoYield == Form(Panel(TRUE, TRUE, FALSE, "never"), "once", "none",
                  YieldTables, YieldQueries, UndoOutcomes)
=============================================================================
