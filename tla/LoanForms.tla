----------------------------- MODULE LoanForms -----------------------------
(* The panel of the loans page: one mutation, whose action the panel was   *)
(* opened for.                                                             *)
EXTENDS Forms

\* The fields, and what the server knows by then: whether the loan's account is
\* still a tracked one of debit, what is owed, and whether the payments repay
\* what is left.
Fields == [text : Texts, other : Texts, third : Texts, date : BOOLEAN,
           account : BOOLEAN, debt : {500, 100000}, repays : BOOLEAN]

\* The fields are number inputs, read by Number when they are checked.
Money(text) == text # "" /\ IsNumber(text) /\ Cents(Number[text]) > 0
MoneyOrZero(text) == text # "" /\ IsNumber(text) /\ Number[text] >= 0

-----------------------------------------------------------------------------
(* Creating and editing                                                     *)

\* Whether the payments repay the loan in its term, from the first due date
\* on, and whether its texts fit, is for the server to say.
LoanDrafts == [account : BOOLEAN, description : BOOLEAN, principal : Texts,
               monthly : {"", "5", "1e3"}, rate : {"", "5", "-5", "1e3"},
               months : {Fraction, 0, 1, 61}, date : BOOLEAN,
               repays : BOOLEAN, fits : BOOLEAN]

LoanComplete(d) ==
    /\ d.account /\ d.description
    /\ Money(d.principal) /\ Money(d.monthly)
    /\ IsNumber(d.rate) /\ Number[d.rate] \in 0 .. 1000000
    /\ d.months \in 1 .. 600

LoanTaken(d) == /\ d.account /\ d.description /\ d.date
                /\ ToCents[d.principal] > 0 /\ ToCents[d.monthly] > 0
                /\ d.repays /\ d.fits

LoanOutcomes ==
    {Outcome(LoanTaken(d), AsTyped(d.principal) /\ AsTyped(d.monthly)) :
        d \in {x \in LoanDrafts : LoanComplete(x)}}

(* Fault: the panel closes while a request is under way. *)
LoanPanelFree == Panel(TRUE, FALSE, FALSE, "hook")

\* The panel stays while a request is under way, and any success closes it.
LoanPanel == Panel(TRUE, FALSE, TRUE, "hook")
LoanQueries == {"loans", "accounts", "transactions", "dashboard"}

CreateLoan == Form(LoanPanel, "create", "opening", {"loans"}, LoanQueries,
                   LoanOutcomes)

\* An edit starts from the loan's account, which the panel need not list: one
\* out of use, or one that can no longer pay a loan.
LoanEdits == [account : {"", "listed", "inactive", "unsuited"},
              description : BOOLEAN, fits : BOOLEAN]
LoanEditComplete(d) == d.account # "" /\ d.description
LoanEditTaken(d) == d.account # "unsuited" /\ d.fits
LoanEditOutcomes == {Outcome(LoanEditTaken(d), d.account = "listed") :
                        d \in {x \in LoanEdits : LoanEditComplete(x)}}
EditLoan == Form(LoanPanel, "write", "none", {"loans"}, LoanQueries,
                 LoanEditOutcomes)
DeleteLoan == Form(LoanPanel, "once", "none", {"loans"}, LoanQueries, {"taken"})

-----------------------------------------------------------------------------
(* Payments, extra payments, reconciliations and undos                      *)

\* A payment covers what it says it pays of principal and of interest.
PayComplete(f) ==
    /\ Money(f.text) /\ MoneyOrZero(f.other) /\ MoneyOrZero(f.third)
    /\ ToCents[f.other] + ToCents[f.third] <= ToCents[f.text]
PayTaken(f) == /\ f.date /\ f.account
               /\ ToCents[f.text] # 0 /\ ToCents[f.other] <= f.debt
PayOutcomes ==
    {Outcome(PayTaken(f), \A t \in {f.text, f.other, f.third} : AsTyped(t)) :
        f \in {x \in Fields : PayComplete(x)}}

ExtraTaken(f) == f.date /\ f.account /\ ToCents[f.text] \in 1 .. f.debt
ExtraOutcomes == {Outcome(ExtraTaken(f), AsTyped(f.text)) :
                     f \in {x \in Fields : Money(x.text)}}

ReconcileTaken(f) == f.date /\ ToCents[f.text] >= 0 /\ f.repays
ReconcileOutcomes == {Outcome(ReconcileTaken(f), AsTyped(f.text)) :
                         f \in {x \in Fields : MoneyOrZero(x.text)}}

\* A due payment is paid once, the latest event undone once.
PayLoan == Form(LoanPanel, "once", "none", {"loans"} \cup Booked, LoanQueries,
                PayOutcomes)
ExtraPayment == Form(LoanPanel, "create", "opening", {"loans"} \cup Booked,
                     LoanQueries, ExtraOutcomes)
\* A reconciliation records the difference it finds; the same again finds none.
ReconcileLoan == Form(LoanPanel, "write", "none", {"loans"}, LoanQueries,
                      ReconcileOutcomes)
UndoLoan == Form(LoanPanel, "once", "none", {"loans"} \cup Booked, LoanQueries,
                 {"taken"})
=============================================================================
