-------------------------- MODULE SubmissionProofs --------------------------
(***************************************************************************)
(* Proofs about the forms of the client (Submissions), for any number of   *)
(* openings, requests and edits.  The first part says of each of the 47    *)
(* forms what the second, which is about any form, needs.                  *)
(***************************************************************************)
EXTENDS Submissions, SequenceTheorems, TLAPS

-----------------------------------------------------------------------------
(* Amounts and outcomes *)

Results == {"taken", "misread", "invalid"}

(* What the patterns of the pages let through is read as it is typed. *)
LEMMA PlainTexts ==
    \A text \in {"", "0", "0.05", "5", "-5"} : AsTyped(text)
<1>. DEFINE m == -5000
            n == -500
<1>1. ASSUME NEW x \in Int, NEW c \in Int, 10 * c <= x + 5, x + 5 < 10 * c + 10 PROVE Cents(x) = c
  <2>1. \A y \in Int : /\ y \div 10 \in Int
                      /\ 10 * (y \div 10) <= y /\ y < 10 * (y \div 10) + 10
    OBVIOUS
  <2>. DEFINE q == (x + 5) \div 10
  <2>2. q \in Int /\ 10 * q <= x + 5 /\ x + 5 < 10 * q + 10
    BY <2>1
  <2>. HIDE DEF q
  <2>3. q = c
    BY <1>1, <2>2
  <2> QED BY <2>3 DEF Cents, q
<1>2. DOMAIN Meant = Texts \ {"abc"}
  BY SMT DEF Meant
<1>3. {"", "0", "0.05", "5", "-5"} \subseteq DOMAIN Meant
  BY Zenon, <1>2 DEF Texts
<1>4. ASSUME NEW text, NEW x \in Int, NEW c \in Int,
             Meant[text] = x, ToCents[text] = c, 10 * c <= x + 5, x + 5 < 10 * c + 10
      PROVE  ToCents[text] = Cents(Meant[text])
  BY <1>1, <1>4
<1>5. \A text : /\ Meant[text] = 0 /\ ToCents[text] = 0 => ToCents[text] = Cents(Meant[text])
                /\ Meant[text] = 50 /\ ToCents[text] = 5 => ToCents[text] = Cents(Meant[text])
                /\ Meant[text] = 5000 /\ ToCents[text] = 500 => ToCents[text] = Cents(Meant[text])
                /\ Meant[text] = m /\ ToCents[text] = n => ToCents[text] = Cents(Meant[text])
  BY SMT, <1>4
<1>6. Meant[""] = 0 /\ Meant["0"] = 0 /\ ToCents[""] = 0 /\ ToCents["0"] = 0
  BY SMT DEF Texts, Meant, ToCents
<1>7. Meant["0.05"] = 50 /\ ToCents["0.05"] = 5 /\ Meant["5"] = 5000 /\ ToCents["5"] = 500
  BY SMT DEF Texts, Meant, ToCents
<1>8. Meant["-5"] = m /\ ToCents["-5"] = n
  BY SMT DEF Texts, Meant, ToCents
<1>. HIDE DEF m, n
<1>9. ToCents[""] = Cents(Meant[""]) /\ ToCents["0"] = Cents(Meant["0"])
  BY Zenon, <1>5, <1>6
<1>10. ToCents["0.05"] = Cents(Meant["0.05"]) /\ ToCents["5"] = Cents(Meant["5"])
  BY SMT, <1>5, <1>7
<1>11. \A text : Meant[text] = m /\ ToCents[text] = n => ToCents[text] = Cents(Meant[text])
  BY <1>5
<1>12. ToCents["-5"] = Cents(Meant["-5"])
  BY Zenon, <1>8, <1>11
<1>13. \A text \in {"", "0", "0.05", "5", "-5"} : ToCents[text] = Cents(Meant[text])
  BY Zenon, <1>9, <1>10, <1>12
<1> QED BY Zenon, <1>3, <1>13 DEF AsTyped

(* What becomes of a request, by what the server takes and the panel shows. *)
LEMMA OutcomesAre ==
    ASSUME NEW valid, NEW shown
    PROVE  /\ Outcome(valid, shown) \in Results
           /\ valid => Outcome(valid, shown) # "invalid"
           /\ shown => Outcome(valid, shown) # "misread"
BY DEF Outcome, Results

\* Whether a form's outcomes are outcomes, the server takes every request, and
\* stores it as shown.
AreOutcomes(os) == os \subseteq Results
AllTaken(os) == "invalid" \notin os
AllShown(os) == "misread" \notin os

(* Outcomes of drafts are outcomes. *)
LEMMA OutcomesOfDrafts ==
    /\ AreOutcomes({"taken"}) /\ AreOutcomes({"taken", "invalid"})
    /\ AreOutcomes(NewAccountOutcomes) /\ AreOutcomes(EditedAccountOutcomes)
    /\ AreOutcomes(MSIOutcomes) /\ AreOutcomes(EditOutcomes) /\ AreOutcomes(PurchaseOutcomes) /\ AreOutcomes(QuickOutcomes)
    /\ AreOutcomes(LoanOutcomes) /\ AreOutcomes(PayOutcomes) /\ AreOutcomes(ExtraOutcomes) /\ AreOutcomes(ReconcileOutcomes)
    /\ AreOutcomes(EntryOutcomes) /\ AreOutcomes(SaveOutcomes) /\ AreOutcomes(ManageOutcomes) /\ AreOutcomes(LoanEditOutcomes)
<1>1. AreOutcomes({"taken"}) /\ AreOutcomes({"taken", "invalid"})
  BY DEF AreOutcomes, Results
<1>2. AreOutcomes(NewAccountOutcomes) /\ AreOutcomes(EditedAccountOutcomes)
  BY Zenon, OutcomesAre DEF AreOutcomes, NewAccountOutcomes, EditedAccountOutcomes, AccountOutcomes
<1>3. AreOutcomes(MSIOutcomes)
  BY Zenon, OutcomesAre DEF AreOutcomes, MSIOutcomes
<1>4. AreOutcomes(EditOutcomes)
  BY Zenon, OutcomesAre DEF AreOutcomes, EditOutcomes
<1>5. AreOutcomes(PurchaseOutcomes)
  BY Zenon, OutcomesAre DEF AreOutcomes, PurchaseOutcomes
<1>6. AreOutcomes(QuickOutcomes)
  BY Zenon, OutcomesAre DEF AreOutcomes, QuickOutcomes
<1>7. AreOutcomes(LoanOutcomes)
  BY Zenon, OutcomesAre DEF AreOutcomes, LoanOutcomes
<1>8. AreOutcomes(PayOutcomes)
  BY Zenon, OutcomesAre DEF AreOutcomes, PayOutcomes
<1>9. AreOutcomes(ExtraOutcomes)
  BY Zenon, OutcomesAre DEF AreOutcomes, ExtraOutcomes
<1>10. AreOutcomes(ReconcileOutcomes)
  BY Zenon, OutcomesAre DEF AreOutcomes, ReconcileOutcomes
<1>11. AreOutcomes(EntryOutcomes)
  BY Zenon, OutcomesAre DEF AreOutcomes, EntryOutcomes
<1>12. AreOutcomes(SaveOutcomes)
  BY Zenon, OutcomesAre DEF AreOutcomes, SaveOutcomes
<1>13. AreOutcomes(ManageOutcomes)
  BY Zenon, OutcomesAre DEF AreOutcomes, ManageOutcomes
<1>14. AreOutcomes(LoanEditOutcomes)
  BY Zenon, OutcomesAre DEF AreOutcomes, LoanEditOutcomes
<1> QED BY <1>1, <1>2, <1>3, <1>4, <1>5, <1>6, <1>7, <1>8, <1>9, <1>10, <1>11, <1>12, <1>13, <1>14

(* What these forms let a person submit, the server takes. *)
LEMMA DraftsTaken ==
    /\ AreOutcomes(GoalOutcomes) /\ AllTaken(GoalOutcomes)
    /\ AreOutcomes(BudgetOutcomes) /\ AllTaken(BudgetOutcomes)
    /\ AreOutcomes(RecurringOutcomes) /\ AllTaken(RecurringOutcomes)
<1>1. AreOutcomes(GoalOutcomes) /\ AllTaken(GoalOutcomes)
  <2>1. ASSUME NEW d \in GoalDrafts, GoalComplete(d) PROVE GoalTaken(d)
    BY SMT, <2>1 DEF GoalComplete, GoalTaken
  <2> QED BY Zenon, <2>1, OutcomesAre DEF AreOutcomes, AllTaken, GoalOutcomes
<1>2. AreOutcomes(BudgetOutcomes) /\ AllTaken(BudgetOutcomes)
  <2>1. ASSUME NEW d \in BudgetDrafts, BudgetComplete(d) PROVE BudgetTaken(d)
    BY SMT, <2>1 DEF BudgetComplete, BudgetTaken, BudgetDrafts
  <2> QED BY Zenon, <2>1, OutcomesAre DEF AreOutcomes, AllTaken, BudgetOutcomes
<1>3. AreOutcomes(RecurringOutcomes) /\ AllTaken(RecurringOutcomes)
  <2>1. ASSUME NEW d \in RecurringDrafts, RecurringComplete(d) PROVE RecurringTaken(d)
    BY SMT, <2>1 DEF RecurringComplete, RecurringTaken
  <2> QED BY Zenon, <2>1, OutcomesAre DEF AreOutcomes, AllTaken, RecurringOutcomes
<1> QED BY <1>1, <1>2, <1>3

(* What these forms let a person submit, the server takes and stores as shown. *)
LEMMA DraftsTakenAsShown ==
    /\ AreOutcomes(PaymentOutcomes) /\ AllTaken(PaymentOutcomes) /\ AllShown(PaymentOutcomes)
    /\ AreOutcomes(DebtOutcomes) /\ AllTaken(DebtOutcomes) /\ AllShown(DebtOutcomes)
    /\ AreOutcomes(StatementOutcomes) /\ AllTaken(StatementOutcomes) /\ AllShown(StatementOutcomes)
    /\ AreOutcomes(CategoryOutcomes) /\ AllTaken(CategoryOutcomes) /\ AllShown(CategoryOutcomes)
    /\ AreOutcomes(RuleOutcomes) /\ AllTaken(RuleOutcomes) /\ AllShown(RuleOutcomes)
<1>1. AreOutcomes(PaymentOutcomes) /\ AllTaken(PaymentOutcomes) /\ AllShown(PaymentOutcomes)
  <2>1. ASSUME NEW d \in PaymentDrafts, PaymentComplete(d) PROVE PaymentTaken(d) /\ AsTyped(d.amount)
    BY Zenon, <2>1, PlainTexts DEF PaymentComplete, PaymentTaken, IsValidMoney, Digits
  <2> QED BY Zenon, <2>1, OutcomesAre DEF AreOutcomes, AllTaken, AllShown, PaymentOutcomes
<1>2. AreOutcomes(DebtOutcomes) /\ AllTaken(DebtOutcomes) /\ AllShown(DebtOutcomes)
  <2>1. ASSUME NEW text \in Texts, IsValidMoney(text, TRUE) PROVE AsTyped(text)
    BY Zenon, <2>1, PlainTexts DEF IsValidMoney, Digits
  <2> QED BY Zenon, <2>1, OutcomesAre DEF AreOutcomes, AllTaken, AllShown, DebtOutcomes
<1>3. AreOutcomes(StatementOutcomes) /\ AllTaken(StatementOutcomes) /\ AllShown(StatementOutcomes)
  <2>1. \A movement, selection :
            StatementRequest(movement, selection) \in {"expense", "income", "transfer"}
    BY SMT DEF StatementRequest
  <2> QED BY Zenon, <2>1, OutcomesAre DEF AreOutcomes, AllTaken, AllShown, StatementOutcomes
<1>4. AreOutcomes(CategoryOutcomes) /\ AllTaken(CategoryOutcomes) /\ AllShown(CategoryOutcomes)
  <2>1. ASSUME NEW d \in CategoryDrafts, CategoryComplete(d) PROVE CategoryTaken(d)
    <3>1. d.kind \in {"expense", "income"}
      BY DEF CategoryDrafts
    <3>2. IconSent(d) # ""
      BY Zenon DEF IconSent
    <3> QED BY <2>1, <3>1, <3>2 DEF CategoryComplete, CategoryTaken
  <2> QED BY Zenon, <2>1, OutcomesAre DEF AreOutcomes, AllTaken, AllShown, CategoryOutcomes
<1>5. AreOutcomes(RuleOutcomes) /\ AllTaken(RuleOutcomes) /\ AllShown(RuleOutcomes)
  <2>1. ASSUME NEW d \in RuleDrafts, RuleComplete(d) PROVE RuleTaken(d)
    BY <2>1 DEF RuleComplete, RuleTaken
  <2> QED BY Zenon, <2>1, OutcomesAre DEF AreOutcomes, AllTaken, AllShown, RuleOutcomes
<1> QED BY <1>1, <1>2, <1>3, <1>4, <1>5

(* What these forms let a person submit is stored as shown, if it is taken. *)
LEMMA DraftsShown ==
    /\ AreOutcomes(YieldOutcomes) /\ AllShown(YieldOutcomes)
    /\ AreOutcomes(CategoryRemovals) /\ AllShown(CategoryRemovals)
    /\ AreOutcomes(ConfirmOutcomes) /\ AllShown(ConfirmOutcomes)
    /\ AreOutcomes(ActivationOutcomes) /\ AllShown(ActivationOutcomes)
    /\ AreOutcomes(RecordOutcomes) /\ AllShown(RecordOutcomes)
    /\ AreOutcomes(UndoOutcomes) /\ AllShown(UndoOutcomes)
<1>1. AreOutcomes(YieldOutcomes) /\ AllShown(YieldOutcomes)
  <2>1. ASSUME NEW text, IsMoneyPattern(text) PROVE AsTyped(text)
    BY Zenon, <2>1, PlainTexts DEF IsMoneyPattern, Digits
  <2>2. ASSUME NEW d \in YieldDrafts, YieldComplete(d)
        PROVE  AsTyped(d.bank) /\ (d.touched => AsTyped(d.typed))
    BY Zenon, <2>1, <2>2 DEF YieldComplete, YieldReadable
  <2> QED BY Zenon, <2>2, OutcomesAre DEF AreOutcomes, AllShown, YieldOutcomes
<1>2. AreOutcomes(CategoryRemovals) /\ AllShown(CategoryRemovals)
  BY Zenon, OutcomesAre DEF AreOutcomes, AllShown, CategoryRemovals
<1>3. AreOutcomes(ConfirmOutcomes) /\ AllShown(ConfirmOutcomes)
  <2>1. ASSUME NEW text, IsValidMoney(text, TRUE) PROVE AsTyped(text)
    BY Zenon, <2>1, PlainTexts DEF IsValidMoney, Digits
  <2>2. ASSUME NEW d \in ConfirmDrafts, ConfirmComplete(d)
        PROVE  AsTyped(d.balance) /\ AsTyped(d.minimum)
    BY Zenon, <2>1, <2>2, PlainTexts DEF ConfirmComplete
  <2> QED BY Zenon, <2>2, OutcomesAre DEF AreOutcomes, AllShown, ConfirmOutcomes
<1>4. AreOutcomes(ActivationOutcomes) /\ AllShown(ActivationOutcomes)
  BY Zenon, OutcomesAre DEF AreOutcomes, AllShown, ActivationOutcomes
<1>5. AreOutcomes(RecordOutcomes) /\ AllShown(RecordOutcomes)
  BY Zenon, OutcomesAre DEF AreOutcomes, AllShown, RecordOutcomes
<1>6. AreOutcomes(UndoOutcomes) /\ AllShown(UndoOutcomes)
  BY Zenon, OutcomesAre DEF AreOutcomes, AllShown, UndoOutcomes
<1> QED BY <1>1, <1>2, <1>3, <1>4, <1>5, <1>6

-----------------------------------------------------------------------------
(* Lists *)

(* The lists a write of some tables makes out of date. *)
LEMMA ListsAffected ==
    ASSUME NEW T, NEW q \in Affected(T)
    PROVE  /\ q \in Lists
           /\ \/ q = "accounts" /\ "accounts" \in T
              \/ q = "statements" /\ ("statements" \in T \/ "transactions" \in T)
              \/ q = "transactions" /\ "transactions" \in T
              \/ q = "msi" /\ "msi" \in T
              \/ q = "recurring" /\ "recurring" \in T
              \/ q = "goals" /\ "goals" \in T
              \/ q = "overview" /\ ("goals" \in T \/ "allocations" \in T \/ "debit" \in T)
              \/ q = "budgets" /\ "budgets" \in T
              \/ q = "rules" /\ "rules" \in T
              \/ q = "categories" /\ "categories" \in T
              \/ q = "yields" /\ ("yields" \in T \/ "shares" \in T)
              \/ q = "loans" /\ "loans" \in T
<1>1. q \in Lists /\ Shows[q] \cap T # {}
  BY DEF Affected
<1>2. Lists = {"accounts", "statements", "transactions", "msi", "recurring", "goals", "overview",
               "budgets", "rules", "categories", "yields", "loans"}
  BY DEF Lists, KeyOf
<1>3. /\ Shows["accounts"] = {"accounts"} /\ Shows["statements"] = {"statements", "transactions"}
      /\ Shows["transactions"] = {"transactions"} /\ Shows["msi"] = {"msi"}
      /\ Shows["recurring"] = {"recurring"} /\ Shows["goals"] = {"goals"}
  BY DEF Shows
<1>4. /\ Shows["overview"] = {"goals", "allocations", "debit"} /\ Shows["budgets"] = {"budgets"}
      /\ Shows["rules"] = {"rules"} /\ Shows["categories"] = {"categories"}
      /\ Shows["yields"] = {"yields", "shares"} /\ Shows["loans"] = {"loans"}
  BY DEF Shows
<1> QED BY <1>1, <1>2, <1>3, <1>4

(* The lists that invalidating some keys reaches. *)
LEMMA ListsCovered ==
    ASSUME NEW R
    PROVE  /\ Covered(R) \subseteq Lists
           /\ \A q \in R \cap Lists : q \in Covered(R)
           /\ "accounts" \in R => "statements" \in Covered(R)
           /\ "goals" \in R => "overview" \in Covered(R)
<1>1. \A s : IsPrefix(s, s)
  BY DEF IsPrefix
<1>2. IsPrefix(<<"accounts">>, <<"accounts", "id", "statements">>)
  BY DEF IsPrefix
<1>3. IsPrefix(<<"goals">>, <<"goals", "overview">>)
  BY DEF IsPrefix
<1>4. /\ KeyOf["accounts"] = <<"accounts">> /\ KeyOf["statements"] = <<"accounts", "id", "statements">>
      /\ KeyOf["goals"] = <<"goals">> /\ KeyOf["overview"] = <<"goals", "overview">>
      /\ "statements" \in Lists /\ "overview" \in Lists
  BY DEF KeyOf, Lists
<1>5. Covered(R) \subseteq Lists /\ \A q \in R \cap Lists : q \in Covered(R)
  BY Zenon, <1>1 DEF Covered
<1>6. "accounts" \in R => "statements" \in Covered(R)
  BY <1>2, <1>4 DEF Covered
<1>7. "goals" \in R => "overview" \in Covered(R)
  BY <1>3, <1>4 DEF Covered
<1> QED BY <1>5, <1>6, <1>7

-----------------------------------------------------------------------------
(* What every form of the client is *)

\* An answer acts on the panel only if it follows the request, or waits for it.
ActsOnItsOwn(name, blocks, closes) ==
    name \notin Intruders => closes \in {"caller", "never"} \/ (closes = "hook" /\ blocks)

\* Besides, it drops the last result when it opens or when it closes.
PanelKnown(name, p) ==
    /\ {p.resetsOnOpen, p.resetsOnClose, p.blocks} \subseteq BOOLEAN
    /\ p.closes \in Closers
    /\ p.resetsOnOpen \/ p.resetsOnClose
    /\ ActsOnItsOwn(name, p.blocks, p.closes)

\* What creates a row carries a key, or is known not to.
KeyKnown(name, kind, key) ==
    /\ kind \in Kinds /\ key \in Keys
    /\ kind = "create" /\ key = "none" => name \in Unkeyed
    /\ kind = "create" /\ key = "mode" => name \in RenewsKey

\* What it writes to is refetched, or known to be forgotten.
ListsKnown(name, affects, refetches) ==
    /\ affects \subseteq Lists
    /\ \A q \in affects : q \in refetches \/ <<name, q>> \in Forgotten

\* What it lets through is taken, and as shown, or it is known for less.
OutcomesKnown(name, os) ==
    /\ AreOutcomes(os)
    /\ name \notin Unchecked => AllTaken(os)
    /\ name \notin Lenient => AllShown(os)

\* All of that of the form called name.  A form whose own handler closes the
\* panel waits for the answer before it may be submitted again.
FormKnown(name, t) ==
    /\ PanelKnown(name, t)
    /\ KeyKnown(name, t.kind, t.key)
    /\ ListsKnown(name, t.affects, t.refetches)
    /\ OutcomesKnown(name, t.outcomes)
    /\ t.catches \in BOOLEAN /\ t.waits \in BOOLEAN
    /\ name \notin Intruders /\ t.closes = "hook" => t.waits

(* A form is known by its parts. *)
LEMMA FormOfParts ==
    ASSUME NEW name, NEW p, NEW kind, NEW key, NEW T, NEW R, NEW os,
           PanelKnown(name, p), KeyKnown(name, kind, key),
           ListsKnown(name, Affected(T), Covered(R)), OutcomesKnown(name, os)
    PROVE  FormKnown(name, Form(p, kind, key, T, R, os))
<1>. DEFINE t == Form(p, kind, key, T, R, os)
<1>1. /\ t.kind = kind /\ t.key = key /\ t.outcomes = os /\ t.affects = Affected(T)
      /\ t.refetches = Covered(R) /\ t.catches = FALSE /\ t.waits = TRUE
  BY DEF Form
<1>2. /\ t.resetsOnOpen = p.resetsOnOpen /\ t.resetsOnClose = p.resetsOnClose
      /\ t.blocks = p.blocks /\ t.closes = p.closes
  BY DEF Form
<1>. HIDE DEF t
<1>3. PanelKnown(name, t)
  BY <1>2 DEF PanelKnown
<1>4. FormKnown(name, t)
  BY <1>1, <1>3 DEF FormKnown
<1> QED BY <1>4 DEF t

(* Panels *)
LEMMA PanelsKnown ==
    /\ \A name :
           /\ PanelKnown(name, AccountPanel)
           /\ PanelKnown(name, BudgetPanel)
           /\ PanelKnown(name, CategoryPanel)
           /\ PanelKnown(name, DashboardPanel)
           /\ PanelKnown(name, EntryPanel)
           /\ PanelKnown(name, GoalPanel)
           /\ PanelKnown(name, LoanPanel)
           /\ PanelKnown(name, MSIPanel)
           /\ PanelKnown(name, ManagePanel)
           /\ PanelKnown(name, Panel(FALSE, TRUE, FALSE, "caller"))
           /\ PanelKnown(name, Panel(TRUE, TRUE, FALSE, "caller"))
           /\ PanelKnown(name, Panel(TRUE, TRUE, FALSE, "never"))
           /\ PanelKnown(name, PurchasePanel)
           /\ PanelKnown(name, QuickPanel)
           /\ PanelKnown(name, RecurringPanel)
           /\ PanelKnown(name, RemovalPanel)
           /\ PanelKnown(name, RulePanel)
           /\ PanelKnown(name, SavePanel)
           /\ PanelKnown(name, YieldPanel)
    /\ \A name \in Intruders :
           /\ PanelKnown(name, ConfirmPanel) /\ PanelKnown(name, PaymentPanel)
           /\ PanelKnown(name, DebtPanel) /\ PanelKnown(name, StatementPanel)
<1>1. ASSUME NEW name, NEW ro, NEW rc, NEW bl, NEW closes, closes \in Closers,
             {ro, rc, bl} \subseteq BOOLEAN, ro \/ rc, ActsOnItsOwn(name, bl, closes)
      PROVE  PanelKnown(name, Panel(ro, rc, bl, closes))
  <2>. DEFINE p == Panel(ro, rc, bl, closes)
  <2>1. p.resetsOnOpen = ro /\ p.resetsOnClose = rc /\ p.blocks = bl /\ p.closes = closes
    BY DEF Panel
  <2>. HIDE DEF p
  <2>2. PanelKnown(name, p)
    BY <1>1, <2>1 DEF PanelKnown
  <2> QED BY <2>2 DEF p
<1>2. ASSUME NEW name, NEW ro, NEW rc, NEW bl, ro \in BOOLEAN, rc \in BOOLEAN, bl \in BOOLEAN, ro \/ rc
      PROVE  /\ PanelKnown(name, Panel(ro, rc, bl, "caller")) /\ PanelKnown(name, Panel(ro, rc, bl, "never"))
             /\ bl => PanelKnown(name, Panel(ro, rc, bl, "hook"))
             /\ name \in Intruders => /\ PanelKnown(name, Panel(ro, rc, bl, "hook"))
                                     /\ PanelKnown(name, Panel(ro, rc, bl, "fills"))
  <2>1. {ro, rc, bl} \subseteq BOOLEAN /\ (ro \/ rc)
    BY <1>2
  <2>2. /\ "caller" \in Closers /\ "never" \in Closers
        /\ "hook" \in Closers /\ "fills" \in Closers
    BY DEF Closers
  <2>3. /\ ActsOnItsOwn(name, bl, "caller") /\ ActsOnItsOwn(name, bl, "never")
        /\ bl => ActsOnItsOwn(name, bl, "hook")
        /\ name \in Intruders => ActsOnItsOwn(name, bl, "hook") /\ ActsOnItsOwn(name, bl, "fills")
    BY SMT DEF ActsOnItsOwn
  <2> QED BY Zenon, <1>1, <2>1, <2>2, <2>3
<1>3. TRUE \in BOOLEAN /\ FALSE \in BOOLEAN
  OBVIOUS
<1>4. \A name : /\ PanelKnown(name, Panel(TRUE, TRUE, FALSE, "caller"))
                /\ PanelKnown(name, Panel(TRUE, TRUE, TRUE, "caller"))
                /\ PanelKnown(name, Panel(FALSE, TRUE, FALSE, "caller"))
                /\ PanelKnown(name, Panel(FALSE, TRUE, TRUE, "caller"))
                /\ PanelKnown(name, Panel(TRUE, TRUE, FALSE, "never"))
                /\ PanelKnown(name, Panel(TRUE, FALSE, TRUE, "hook"))
  BY Zenon, <1>2, <1>3
<1>5. \A name \in Intruders : /\ PanelKnown(name, Panel(TRUE, FALSE, FALSE, "hook"))
                             /\ PanelKnown(name, Panel(FALSE, TRUE, FALSE, "fills"))
  BY Zenon, <1>2, <1>3
<1> QED BY Zenon, <1>4, <1>5
       DEF AccountPanel, BudgetPanel, CategoryPanel, ConfirmPanel,
           DashboardPanel, DebtPanel, EntryPanel, GoalPanel, LoanPanel,
           MSIPanel, ManagePanel, PaymentPanel, PurchasePanel, QuickPanel,
           RecurringPanel, RemovalPanel, RulePanel, SavePanel, StatementPanel,
           YieldPanel

(* Keys *)
LEMMA KeysKnown ==
    ASSUME NEW name
    PROVE  /\ \A kind \in {"once", "write"} : KeyKnown(name, kind, "none")
           /\ \A key \in {"opening", "closing"} : KeyKnown(name, "create", key)
           /\ name \in Unkeyed => KeyKnown(name, "create", "none")
           /\ name \in RenewsKey => KeyKnown(name, "create", "mode")
BY DEF KeyKnown, Kinds, Keys

(* Outcomes *)
LEMMA OutcomesByName ==
    ASSUME NEW name, NEW os, AreOutcomes(os)
    PROVE  /\ AllTaken(os) /\ AllShown(os) => OutcomesKnown(name, os)
           /\ AllTaken(os) /\ name \in Lenient => OutcomesKnown(name, os)
           /\ AllShown(os) /\ name \in Unchecked => OutcomesKnown(name, os)
           /\ name \in Unchecked /\ name \in Lenient => OutcomesKnown(name, os)
BY DEF OutcomesKnown

-----------------------------------------------------------------------------
(* The lists each form makes out of date are refetched, or known not to be. *)
LEMMA RefetchesKnown ==
    /\ \A name : ListsKnown(name, Affected({"accounts"}), Covered(AccountQueries))
    /\ \A name \in {"UpdateAccount"} :
           ListsKnown(name, Affected({"accounts", "debit"}), Covered(AccountQueries))
    /\ \A name \in {"DeleteAccount"} :
           ListsKnown(name, Affected(RemovedWithAccount), Covered(AccountQueries))
    /\ \A name : ListsKnown(name, Affected({"msi"} \cup BookedOnCard), Covered(MSIQueries))
    /\ \A name \in {"AddTransaction", "EditTransaction", "RemoveTransaction",
           "QuickTransaction", "DashboardTransaction"} :
           ListsKnown(name, Affected(Booked), Covered(TransactionQueries))
    /\ \A name : ListsKnown(name, Affected({"goals"}), Covered(GoalQueries))
    /\ \A name \in {"DeleteGoal"} :
           ListsKnown(name, Affected({"goals", "allocations", "shares"}), Covered(GoalQueries))
    /\ \A name :
           ListsKnown(name, Affected({"goals", "allocations"} \cup Booked), Covered(GoalQueries \cup {"accounts", "transactions"}))
    /\ \A name : ListsKnown(name, Affected({"goals", "allocations"}), Covered(GoalQueries))
    /\ \A name : ListsKnown(name, Affected({"budgets"}), Covered(BudgetQueries))
    /\ \A name : ListsKnown(name, Affected({"recurring"}), Covered({"recurring"}))
    /\ \A name \in {"UpdateRecurring"} :
           ListsKnown(name, Affected({"recurring"} \cup Booked), Covered({"recurring", "transactions", "accounts", "dashboard"}))
    /\ \A name \in {"ProcessRecurring"} :
           ListsKnown(name, Affected({"recurring"} \cup Booked), Covered({"transactions", "dashboard", "accounts", "recurring"}))
    /\ \A name : ListsKnown(name, Affected({"loans"}), Covered(LoanQueries))
    /\ \A name \in {"PayLoan", "ExtraPayment", "UndoLoan"} :
           ListsKnown(name, Affected({"loans"} \cup Booked), Covered(LoanQueries))
    /\ \A name : ListsKnown(name, Affected({"statements"}), Covered({"statements"}))
    /\ \A name \in {"PayCard"} :
           ListsKnown(name, Affected({"statements"} \cup Booked), Covered({"accounts", "transactions", "statements"}))
    /\ \A name : ListsKnown(name, Affected({"accounts"}), Covered({"accounts"}))
    /\ \A name \in {"ApplyStatement"} :
           ListsKnown(name, Affected({"statements"} \cup Booked), Covered({"transactions", "accounts", "dashboard"}))
    /\ \A name : ListsKnown(name, Affected(YieldTables), Covered(YieldQueries))
    /\ \A name : ListsKnown(name, Affected({"categories"}), Covered(CategoryQueries))
    /\ \A name \in {"DeleteCategory"} :
           ListsKnown(name, Affected(RemovedWithCategory), Covered(CategoryQueries))
    /\ \A name : ListsKnown(name, Affected({"rules"}), Covered({"rules"}))
<1>1. \A name : ListsKnown(name, Affected({"accounts"}), Covered(AccountQueries))
  BY ListsAffected, ListsCovered DEF ListsKnown, AccountQueries
<1>2. \A name \in {"UpdateAccount"} :
           ListsKnown(name, Affected({"accounts", "debit"}), Covered(AccountQueries))
  BY ListsAffected, ListsCovered DEF ListsKnown, AccountQueries, Forgotten
<1>3. \A name \in {"DeleteAccount"} :
           ListsKnown(name, Affected(RemovedWithAccount), Covered(AccountQueries))
  BY ListsAffected, ListsCovered DEF ListsKnown, RemovedWithAccount, AccountQueries, Forgotten
<1>4. \A name : ListsKnown(name, Affected({"msi"} \cup BookedOnCard), Covered(MSIQueries))
  BY ListsAffected, ListsCovered DEF ListsKnown, BookedOnCard, MSIQueries
<1>5. \A name \in {"AddTransaction", "EditTransaction", "RemoveTransaction",
           "QuickTransaction", "DashboardTransaction"} :
           ListsKnown(name, Affected(Booked), Covered(TransactionQueries))
  BY ListsAffected, ListsCovered DEF ListsKnown, Booked, TransactionQueries, Forgotten
<1>6. \A name : ListsKnown(name, Affected({"goals"}), Covered(GoalQueries))
  BY ListsAffected, ListsCovered DEF ListsKnown, GoalQueries
<1>7. \A name \in {"DeleteGoal"} :
           ListsKnown(name, Affected({"goals", "allocations", "shares"}), Covered(GoalQueries))
  BY ListsAffected, ListsCovered DEF ListsKnown, GoalQueries, Forgotten
<1>8. \A name :
           ListsKnown(name, Affected({"goals", "allocations"} \cup Booked), Covered(GoalQueries \cup {"accounts", "transactions"}))
  BY ListsAffected, ListsCovered DEF ListsKnown, Booked, GoalQueries
<1>9. \A name : ListsKnown(name, Affected({"goals", "allocations"}), Covered(GoalQueries))
  BY ListsAffected, ListsCovered DEF ListsKnown, GoalQueries
<1>10. \A name : ListsKnown(name, Affected({"budgets"}), Covered(BudgetQueries))
  BY ListsAffected, ListsCovered DEF ListsKnown, BudgetQueries
<1>11. \A name : ListsKnown(name, Affected({"recurring"}), Covered({"recurring"}))
  BY ListsAffected, ListsCovered DEF ListsKnown
<1>12. \A name \in {"UpdateRecurring"} :
           ListsKnown(name, Affected({"recurring"} \cup Booked), Covered({"recurring", "transactions", "accounts", "dashboard"}))
  BY ListsAffected, ListsCovered DEF ListsKnown, Booked, Forgotten
<1>13. \A name \in {"ProcessRecurring"} :
           ListsKnown(name, Affected({"recurring"} \cup Booked), Covered({"transactions", "dashboard", "accounts", "recurring"}))
  BY ListsAffected, ListsCovered DEF ListsKnown, Booked, Forgotten
<1>14. \A name : ListsKnown(name, Affected({"loans"}), Covered(LoanQueries))
  BY ListsAffected, ListsCovered DEF ListsKnown, LoanQueries
<1>15. \A name \in {"PayLoan", "ExtraPayment", "UndoLoan"} :
           ListsKnown(name, Affected({"loans"} \cup Booked), Covered(LoanQueries))
  BY ListsAffected, ListsCovered DEF ListsKnown, Booked, LoanQueries, Forgotten
<1>16. \A name : ListsKnown(name, Affected({"statements"}), Covered({"statements"}))
  BY ListsAffected, ListsCovered DEF ListsKnown
<1>17. \A name \in {"PayCard"} :
           ListsKnown(name, Affected({"statements"} \cup Booked), Covered({"accounts", "transactions", "statements"}))
  BY ListsAffected, ListsCovered DEF ListsKnown, Booked, Forgotten
<1>18. \A name : ListsKnown(name, Affected({"accounts"}), Covered({"accounts"}))
  BY ListsAffected, ListsCovered DEF ListsKnown
<1>19. \A name \in {"ApplyStatement"} :
           ListsKnown(name, Affected({"statements"} \cup Booked), Covered({"transactions", "accounts", "dashboard"}))
  BY ListsAffected, ListsCovered DEF ListsKnown, Booked, Forgotten
<1>20. \A name : ListsKnown(name, Affected(YieldTables), Covered(YieldQueries))
  BY ListsAffected, ListsCovered DEF ListsKnown, YieldTables, Booked, YieldQueries
<1>21. \A name : ListsKnown(name, Affected({"categories"}), Covered(CategoryQueries))
  BY ListsAffected, ListsCovered DEF ListsKnown, CategoryQueries
<1>22. \A name \in {"DeleteCategory"} :
           ListsKnown(name, Affected(RemovedWithCategory), Covered(CategoryQueries))
  BY ListsAffected, ListsCovered DEF ListsKnown, RemovedWithCategory, CategoryQueries, Forgotten
<1>23. \A name : ListsKnown(name, Affected({"rules"}), Covered({"rules"}))
  BY ListsAffected, ListsCovered DEF ListsKnown
<1> QED BY Zenon, <1>1, <1>2, <1>3, <1>4, <1>5, <1>6, <1>7, <1>8, <1>9, <1>10, <1>11,
           <1>12, <1>13, <1>14, <1>15, <1>16, <1>17, <1>18, <1>19, <1>20, <1>21, <1>22,
           <1>23

-----------------------------------------------------------------------------
(* What a form lets through is what its name says. *)
LEMMA OutcomesKnownOf ==
    /\ \A name \in {"CreateAccount"} : OutcomesKnown(name, NewAccountOutcomes)
    /\ \A name \in {"UpdateAccount"} : OutcomesKnown(name, EditedAccountOutcomes)
    /\ \A name \in {"DeleteAccount", "RemoveTransaction"} :
           OutcomesKnown(name, {"taken", "invalid"})
    /\ \A name \in {"UpdateMSI"} : OutcomesKnown(name, MSIOutcomes)
    /\ \A name : OutcomesKnown(name, {"taken"})
    /\ \A name \in {"AddTransaction", "QuickTransaction", "DashboardTransaction"} :
           OutcomesKnown(name, EntryOutcomes)
    /\ \A name \in {"EditTransaction"} : OutcomesKnown(name, EditOutcomes)
    /\ \A name \in {"AddPurchase", "QuickPurchase", "DashboardPurchase"} :
           OutcomesKnown(name, PurchaseOutcomes)
    /\ \A name \in {"QuickAccount", "DashboardAccount"} :
           OutcomesKnown(name, QuickOutcomes)
    /\ \A name \in {"CreateGoal", "UpdateGoal"} : OutcomesKnown(name, GoalOutcomes)
    /\ \A name \in {"SaveToGoal"} : OutcomesKnown(name, SaveOutcomes)
    /\ \A name \in {"ManageGoal"} : OutcomesKnown(name, ManageOutcomes)
    /\ \A name \in {"CreateBudget", "UpdateBudget"} : OutcomesKnown(name, BudgetOutcomes)
    /\ \A name \in {"CreateRecurring", "UpdateRecurring"} :
           OutcomesKnown(name, RecurringOutcomes)
    /\ \A name \in {"CreateLoan"} : OutcomesKnown(name, LoanOutcomes)
    /\ \A name \in {"PayLoan"} : OutcomesKnown(name, PayOutcomes)
    /\ \A name \in {"ExtraPayment"} : OutcomesKnown(name, ExtraOutcomes)
    /\ \A name \in {"ReconcileLoan"} : OutcomesKnown(name, ReconcileOutcomes)
    /\ \A name \in {"ConfirmStatement"} : OutcomesKnown(name, ConfirmOutcomes)
    /\ \A name : OutcomesKnown(name, PaymentOutcomes)
    /\ \A name : OutcomesKnown(name, DebtOutcomes)
    /\ \A name : OutcomesKnown(name, StatementOutcomes)
    /\ \A name \in {"ReconcileYield"} : OutcomesKnown(name, YieldOutcomes)
    /\ \A name : OutcomesKnown(name, CategoryOutcomes)
    /\ \A name \in {"DeleteCategory"} : OutcomesKnown(name, CategoryRemovals)
    /\ \A name : OutcomesKnown(name, RuleOutcomes)
    /\ \A name \in {"EditLoan"} : OutcomesKnown(name, LoanEditOutcomes)
    /\ \A name \in {"ActivateTracking"} : OutcomesKnown(name, ActivationOutcomes)
    /\ \A name \in {"SaveStatement"} : OutcomesKnown(name, RecordOutcomes)
    /\ \A name \in {"UndoYield"} : OutcomesKnown(name, UndoOutcomes)
<1>1. \A name \in {"CreateAccount"} : OutcomesKnown(name, NewAccountOutcomes)
  BY OutcomesByName, OutcomesOfDrafts DEF Unchecked, Lenient
<1>2. \A name \in {"UpdateAccount"} : OutcomesKnown(name, EditedAccountOutcomes)
  BY OutcomesByName, OutcomesOfDrafts DEF Unchecked, Lenient
<1>3. \A name \in {"DeleteAccount", "RemoveTransaction"} :
           OutcomesKnown(name, {"taken", "invalid"})
  BY OutcomesByName, OutcomesOfDrafts DEF Unchecked, AllShown
<1>4. \A name \in {"UpdateMSI"} : OutcomesKnown(name, MSIOutcomes)
  BY OutcomesByName, OutcomesOfDrafts DEF Unchecked, Lenient
<1>5. \A name : OutcomesKnown(name, {"taken"})
  BY OutcomesByName, OutcomesOfDrafts DEF AllTaken, AllShown
<1>6. \A name \in {"AddTransaction", "QuickTransaction", "DashboardTransaction"} :
           OutcomesKnown(name, EntryOutcomes)
  BY OutcomesByName, OutcomesOfDrafts DEF Unchecked, Lenient
<1>7. \A name \in {"EditTransaction"} : OutcomesKnown(name, EditOutcomes)
  BY OutcomesByName, OutcomesOfDrafts DEF Unchecked, Lenient
<1>8. \A name \in {"AddPurchase", "QuickPurchase", "DashboardPurchase"} :
           OutcomesKnown(name, PurchaseOutcomes)
  BY OutcomesByName, OutcomesOfDrafts DEF Unchecked, Lenient
<1>9. \A name \in {"QuickAccount", "DashboardAccount"} :
           OutcomesKnown(name, QuickOutcomes)
  BY OutcomesByName, OutcomesOfDrafts DEF Unchecked, Lenient
<1>10. \A name \in {"CreateGoal", "UpdateGoal"} : OutcomesKnown(name, GoalOutcomes)
  BY OutcomesByName, DraftsTaken DEF Lenient
<1>11. \A name \in {"SaveToGoal"} : OutcomesKnown(name, SaveOutcomes)
  BY OutcomesByName, OutcomesOfDrafts DEF Unchecked, Lenient
<1>12. \A name \in {"ManageGoal"} : OutcomesKnown(name, ManageOutcomes)
  BY OutcomesByName, OutcomesOfDrafts DEF Unchecked, Lenient
<1>13. \A name \in {"CreateBudget", "UpdateBudget"} : OutcomesKnown(name, BudgetOutcomes)
  BY OutcomesByName, DraftsTaken DEF Lenient
<1>14. \A name \in {"CreateRecurring", "UpdateRecurring"} :
           OutcomesKnown(name, RecurringOutcomes)
  BY OutcomesByName, DraftsTaken DEF Lenient
<1>15. \A name \in {"CreateLoan"} : OutcomesKnown(name, LoanOutcomes)
  BY OutcomesByName, OutcomesOfDrafts DEF Unchecked, Lenient
<1>16. \A name \in {"PayLoan"} : OutcomesKnown(name, PayOutcomes)
  BY OutcomesByName, OutcomesOfDrafts DEF Unchecked, Lenient
<1>17. \A name \in {"ExtraPayment"} : OutcomesKnown(name, ExtraOutcomes)
  BY OutcomesByName, OutcomesOfDrafts DEF Unchecked, Lenient
<1>18. \A name \in {"ReconcileLoan"} : OutcomesKnown(name, ReconcileOutcomes)
  BY OutcomesByName, OutcomesOfDrafts DEF Unchecked, Lenient
<1>19. \A name \in {"ConfirmStatement"} : OutcomesKnown(name, ConfirmOutcomes)
  BY OutcomesByName, DraftsShown DEF Unchecked
<1>20. \A name : OutcomesKnown(name, PaymentOutcomes)
  BY OutcomesByName, DraftsTakenAsShown
<1>21. \A name : OutcomesKnown(name, DebtOutcomes)
  BY OutcomesByName, DraftsTakenAsShown
<1>22. \A name : OutcomesKnown(name, StatementOutcomes)
  BY OutcomesByName, DraftsTakenAsShown
<1>23. \A name \in {"ReconcileYield"} : OutcomesKnown(name, YieldOutcomes)
  BY OutcomesByName, DraftsShown DEF Unchecked
<1>24. \A name : OutcomesKnown(name, CategoryOutcomes)
  BY OutcomesByName, DraftsTakenAsShown
<1>25. \A name \in {"DeleteCategory"} : OutcomesKnown(name, CategoryRemovals)
  BY OutcomesByName, DraftsShown DEF Unchecked
<1>26. \A name : OutcomesKnown(name, RuleOutcomes)
  BY OutcomesByName, DraftsTakenAsShown
<1>27. \A name \in {"EditLoan"} : OutcomesKnown(name, LoanEditOutcomes)
  BY OutcomesByName, OutcomesOfDrafts DEF Unchecked, Lenient
<1>28. \A name \in {"ActivateTracking"} : OutcomesKnown(name, ActivationOutcomes)
  BY OutcomesByName, DraftsShown DEF Unchecked
<1>29. \A name \in {"SaveStatement"} : OutcomesKnown(name, RecordOutcomes)
  BY OutcomesByName, DraftsShown DEF Unchecked
<1>30. \A name \in {"UndoYield"} : OutcomesKnown(name, UndoOutcomes)
  BY OutcomesByName, DraftsShown DEF Unchecked
<1> QED BY Zenon, <1>1, <1>2, <1>3, <1>4, <1>5, <1>6, <1>7, <1>8, <1>9, <1>10, <1>11,
           <1>12, <1>13, <1>14, <1>15, <1>16, <1>17, <1>18, <1>19, <1>20, <1>21, <1>22,
           <1>23, <1>24, <1>25, <1>26, <1>27, <1>28, <1>29, <1>30

-----------------------------------------------------------------------------
(* The forms of each page *)

(* The accounts page. *)
LEMMA AccountFormsKnown ==
    /\ FormKnown("CreateAccount", CreateAccount) /\ FormKnown("UpdateAccount", UpdateAccount)
    /\ FormKnown("DeleteAccount", DeleteAccount) /\ FormKnown("UpdateMSI", UpdateMSI)
    /\ FormKnown("DeleteMSI", DeleteMSI)
<1>1. FormKnown("CreateAccount", CreateAccount)
  <2>1. PanelKnown("CreateAccount", AccountPanel)
    BY PanelsKnown
  <2>2. KeyKnown("CreateAccount", "create", "none")
    BY KeysKnown DEF Unkeyed
  <2>3. ListsKnown("CreateAccount", Affected({"accounts"}), Covered(AccountQueries))
    BY RefetchesKnown
  <2>4. OutcomesKnown("CreateAccount", NewAccountOutcomes)
    BY OutcomesKnownOf
  <2> QED BY Zenon, <2>1, <2>2, <2>3, <2>4, FormOfParts DEF CreateAccount
<1>2. FormKnown("UpdateAccount", UpdateAccount)
  <2>1. PanelKnown("UpdateAccount", AccountPanel)
    BY PanelsKnown
  <2>2. KeyKnown("UpdateAccount", "write", "none")
    BY KeysKnown
  <2>3. ListsKnown("UpdateAccount", Affected({"accounts", "debit"}), Covered(AccountQueries))
    BY RefetchesKnown
  <2>4. OutcomesKnown("UpdateAccount", EditedAccountOutcomes)
    BY OutcomesKnownOf
  <2> QED BY Zenon, <2>1, <2>2, <2>3, <2>4, FormOfParts DEF UpdateAccount
<1>3. FormKnown("DeleteAccount", DeleteAccount)
  <2>1. PanelKnown("DeleteAccount", Panel(TRUE, TRUE, FALSE, "caller"))
    BY PanelsKnown
  <2>2. KeyKnown("DeleteAccount", "once", "none")
    BY KeysKnown
  <2>3. ListsKnown("DeleteAccount", Affected(RemovedWithAccount), Covered(AccountQueries))
    BY RefetchesKnown
  <2>4. OutcomesKnown("DeleteAccount", {"taken", "invalid"})
    BY OutcomesKnownOf
  <2> QED BY Zenon, <2>1, <2>2, <2>3, <2>4, FormOfParts DEF DeleteAccount
<1>4. FormKnown("UpdateMSI", UpdateMSI)
  <2>1. PanelKnown("UpdateMSI", MSIPanel)
    BY PanelsKnown
  <2>2. KeyKnown("UpdateMSI", "write", "none")
    BY KeysKnown
  <2>3. ListsKnown("UpdateMSI", Affected({"msi"} \cup BookedOnCard), Covered(MSIQueries))
    BY RefetchesKnown
  <2>4. OutcomesKnown("UpdateMSI", MSIOutcomes)
    BY OutcomesKnownOf
  <2> QED BY Zenon, <2>1, <2>2, <2>3, <2>4, FormOfParts DEF UpdateMSI
<1>5. FormKnown("DeleteMSI", DeleteMSI)
  <2>1. PanelKnown("DeleteMSI", Panel(FALSE, TRUE, FALSE, "caller"))
    BY PanelsKnown
  <2>2. KeyKnown("DeleteMSI", "once", "none")
    BY KeysKnown
  <2>3. ListsKnown("DeleteMSI", Affected({"msi"} \cup BookedOnCard), Covered(MSIQueries))
    BY RefetchesKnown
  <2>4. OutcomesKnown("DeleteMSI", {"taken"})
    BY OutcomesKnownOf
  <2> QED BY Zenon, <2>1, <2>2, <2>3, <2>4, FormOfParts DEF DeleteMSI
<1> QED BY Zenon, <1>1, <1>2, <1>3, <1>4, <1>5

(* Movements. *)
LEMMA EntryFormsKnown ==
    /\ FormKnown("AddTransaction", AddTransaction) /\ FormKnown("EditTransaction", EditTransaction)
    /\ FormKnown("RemoveTransaction", RemoveTransaction) /\ FormKnown("AddPurchase", AddPurchase)
    /\ FormKnown("QuickTransaction", QuickTransaction) /\ FormKnown("QuickPurchase", QuickPurchase)
    /\ FormKnown("QuickAccount", QuickAccount) /\ FormKnown("DashboardTransaction", DashboardTransaction)
    /\ FormKnown("DashboardPurchase", DashboardPurchase) /\ FormKnown("DashboardAccount", DashboardAccount)
<1>1. FormKnown("AddTransaction", AddTransaction)
  <2>1. PanelKnown("AddTransaction", EntryPanel)
    BY PanelsKnown
  <2>2. KeyKnown("AddTransaction", "create", "none")
    BY KeysKnown DEF Unkeyed
  <2>3. ListsKnown("AddTransaction", Affected(Booked), Covered(TransactionQueries))
    BY RefetchesKnown
  <2>4. OutcomesKnown("AddTransaction", EntryOutcomes)
    BY OutcomesKnownOf
  <2> QED BY Zenon, <2>1, <2>2, <2>3, <2>4, FormOfParts DEF AddTransaction
<1>2. FormKnown("EditTransaction", EditTransaction)
  <2>1. PanelKnown("EditTransaction", EntryPanel)
    BY PanelsKnown
  <2>2. KeyKnown("EditTransaction", "write", "none")
    BY KeysKnown
  <2>3. ListsKnown("EditTransaction", Affected(Booked), Covered(TransactionQueries))
    BY RefetchesKnown
  <2>4. OutcomesKnown("EditTransaction", EditOutcomes)
    BY OutcomesKnownOf
  <2> QED BY Zenon, <2>1, <2>2, <2>3, <2>4, FormOfParts DEF EditTransaction
<1>3. FormKnown("RemoveTransaction", RemoveTransaction)
  <2>1. PanelKnown("RemoveTransaction", RemovalPanel)
    BY PanelsKnown
  <2>2. KeyKnown("RemoveTransaction", "once", "none")
    BY KeysKnown
  <2>3. ListsKnown("RemoveTransaction", Affected(Booked), Covered(TransactionQueries))
    BY RefetchesKnown
  <2>4. OutcomesKnown("RemoveTransaction", {"taken", "invalid"})
    BY OutcomesKnownOf
  <2> QED BY Zenon, <2>1, <2>2, <2>3, <2>4, FormOfParts DEF RemoveTransaction
<1>4. FormKnown("AddPurchase", AddPurchase)
  <2>1. PanelKnown("AddPurchase", PurchasePanel)
    BY PanelsKnown
  <2>2. KeyKnown("AddPurchase", "create", "closing")
    BY KeysKnown
  <2>3. ListsKnown("AddPurchase", Affected({"msi"} \cup BookedOnCard), Covered(MSIQueries))
    BY RefetchesKnown
  <2>4. OutcomesKnown("AddPurchase", PurchaseOutcomes)
    BY OutcomesKnownOf
  <2> QED BY Zenon, <2>1, <2>2, <2>3, <2>4, FormOfParts DEF AddPurchase
<1>5. FormKnown("QuickTransaction", QuickTransaction)
  <2>1. PanelKnown("QuickTransaction", QuickPanel)
    BY PanelsKnown
  <2>2. KeyKnown("QuickTransaction", "create", "none")
    BY KeysKnown DEF Unkeyed
  <2>3. ListsKnown("QuickTransaction", Affected(Booked), Covered(TransactionQueries))
    BY RefetchesKnown
  <2>4. OutcomesKnown("QuickTransaction", EntryOutcomes)
    BY OutcomesKnownOf
  <2> QED BY Zenon, <2>1, <2>2, <2>3, <2>4, FormOfParts DEF QuickTransaction
<1>6. FormKnown("QuickPurchase", QuickPurchase)
  <2>1. PanelKnown("QuickPurchase", QuickPanel)
    BY PanelsKnown
  <2>2. KeyKnown("QuickPurchase", "create", "closing")
    BY KeysKnown
  <2>3. ListsKnown("QuickPurchase", Affected({"msi"} \cup BookedOnCard), Covered(MSIQueries))
    BY RefetchesKnown
  <2>4. OutcomesKnown("QuickPurchase", PurchaseOutcomes)
    BY OutcomesKnownOf
  <2> QED BY Zenon, <2>1, <2>2, <2>3, <2>4, FormOfParts DEF QuickPurchase
<1>7. FormKnown("QuickAccount", QuickAccount)
  <2>1. PanelKnown("QuickAccount", QuickPanel)
    BY PanelsKnown
  <2>2. KeyKnown("QuickAccount", "create", "none")
    BY KeysKnown DEF Unkeyed
  <2>3. ListsKnown("QuickAccount", Affected({"accounts"}), Covered(AccountQueries))
    BY RefetchesKnown
  <2>4. OutcomesKnown("QuickAccount", QuickOutcomes)
    BY OutcomesKnownOf
  <2> QED BY Zenon, <2>1, <2>2, <2>3, <2>4, FormOfParts DEF QuickAccount
<1>8. FormKnown("DashboardTransaction", DashboardTransaction)
  <2>1. PanelKnown("DashboardTransaction", DashboardPanel)
    BY PanelsKnown
  <2>2. KeyKnown("DashboardTransaction", "create", "none")
    BY KeysKnown DEF Unkeyed
  <2>3. ListsKnown("DashboardTransaction", Affected(Booked), Covered(TransactionQueries))
    BY RefetchesKnown
  <2>4. OutcomesKnown("DashboardTransaction", EntryOutcomes)
    BY OutcomesKnownOf
  <2> QED BY Zenon, <2>1, <2>2, <2>3, <2>4, FormOfParts DEF DashboardTransaction
<1>9. FormKnown("DashboardPurchase", DashboardPurchase)
  <2>1. PanelKnown("DashboardPurchase", DashboardPanel)
    BY PanelsKnown
  <2>2. KeyKnown("DashboardPurchase", "create", "closing")
    BY KeysKnown
  <2>3. ListsKnown("DashboardPurchase", Affected({"msi"} \cup BookedOnCard), Covered(MSIQueries))
    BY RefetchesKnown
  <2>4. OutcomesKnown("DashboardPurchase", PurchaseOutcomes)
    BY OutcomesKnownOf
  <2> QED BY Zenon, <2>1, <2>2, <2>3, <2>4, FormOfParts DEF DashboardPurchase
<1>10. FormKnown("DashboardAccount", DashboardAccount)
  <2>1. PanelKnown("DashboardAccount", DashboardPanel)
    BY PanelsKnown
  <2>2. KeyKnown("DashboardAccount", "create", "none")
    BY KeysKnown DEF Unkeyed
  <2>3. ListsKnown("DashboardAccount", Affected({"accounts"}), Covered(AccountQueries))
    BY RefetchesKnown
  <2>4. OutcomesKnown("DashboardAccount", QuickOutcomes)
    BY OutcomesKnownOf
  <2> QED BY Zenon, <2>1, <2>2, <2>3, <2>4, FormOfParts DEF DashboardAccount
<1> QED BY Zenon, <1>1, <1>2, <1>3, <1>4, <1>5, <1>6, <1>7, <1>8, <1>9, <1>10

(* Goals, budgets and recurring expenses. *)
LEMMA PlanFormsKnown ==
    /\ FormKnown("CreateGoal", CreateGoal) /\ FormKnown("UpdateGoal", UpdateGoal)
    /\ FormKnown("DeleteGoal", DeleteGoal) /\ FormKnown("SaveToGoal", SaveToGoal)
    /\ FormKnown("ManageGoal", ManageGoal) /\ FormKnown("CreateBudget", CreateBudget)
    /\ FormKnown("UpdateBudget", UpdateBudget) /\ FormKnown("DeleteBudget", DeleteBudget)
    /\ FormKnown("CreateRecurring", CreateRecurring) /\ FormKnown("UpdateRecurring", UpdateRecurring)
    /\ FormKnown("DeleteRecurring", DeleteRecurring) /\ FormKnown("ProcessRecurring", ProcessRecurring)
<1>1. FormKnown("CreateGoal", CreateGoal)
  <2>1. PanelKnown("CreateGoal", GoalPanel)
    BY PanelsKnown
  <2>2. KeyKnown("CreateGoal", "create", "none")
    BY KeysKnown DEF Unkeyed
  <2>3. ListsKnown("CreateGoal", Affected({"goals"}), Covered(GoalQueries))
    BY RefetchesKnown
  <2>4. OutcomesKnown("CreateGoal", GoalOutcomes)
    BY OutcomesKnownOf
  <2> QED BY Zenon, <2>1, <2>2, <2>3, <2>4, FormOfParts DEF CreateGoal
<1>2. FormKnown("UpdateGoal", UpdateGoal)
  <2>1. PanelKnown("UpdateGoal", GoalPanel)
    BY PanelsKnown
  <2>2. KeyKnown("UpdateGoal", "write", "none")
    BY KeysKnown
  <2>3. ListsKnown("UpdateGoal", Affected({"goals"}), Covered(GoalQueries))
    BY RefetchesKnown
  <2>4. OutcomesKnown("UpdateGoal", GoalOutcomes)
    BY OutcomesKnownOf
  <2> QED BY Zenon, <2>1, <2>2, <2>3, <2>4, FormOfParts DEF UpdateGoal
<1>3. FormKnown("DeleteGoal", DeleteGoal)
  <2>1. PanelKnown("DeleteGoal", Panel(TRUE, TRUE, FALSE, "caller"))
    BY PanelsKnown
  <2>2. KeyKnown("DeleteGoal", "once", "none")
    BY KeysKnown
  <2>3. ListsKnown("DeleteGoal", Affected({"goals", "allocations", "shares"}), Covered(GoalQueries))
    BY RefetchesKnown
  <2>4. OutcomesKnown("DeleteGoal", {"taken"})
    BY OutcomesKnownOf
  <2> QED BY Zenon, <2>1, <2>2, <2>3, <2>4, FormOfParts DEF DeleteGoal
<1>4. FormKnown("SaveToGoal", SaveToGoal)
  <2>1. PanelKnown("SaveToGoal", SavePanel)
    BY PanelsKnown
  <2>2. KeyKnown("SaveToGoal", "create", "opening")
    BY KeysKnown
  <2>3. ListsKnown("SaveToGoal", Affected({"goals", "allocations"} \cup Booked), Covered(GoalQueries \cup {"accounts", "transactions"}))
    BY RefetchesKnown
  <2>4. OutcomesKnown("SaveToGoal", SaveOutcomes)
    BY OutcomesKnownOf
  <2> QED BY Zenon, <2>1, <2>2, <2>3, <2>4, FormOfParts DEF SaveToGoal
<1>5. FormKnown("ManageGoal", ManageGoal)
  <2>1. PanelKnown("ManageGoal", ManagePanel)
    BY PanelsKnown
  <2>2. KeyKnown("ManageGoal", "create", "mode")
    BY KeysKnown DEF RenewsKey
  <2>3. ListsKnown("ManageGoal", Affected({"goals", "allocations"}), Covered(GoalQueries))
    BY RefetchesKnown
  <2>4. OutcomesKnown("ManageGoal", ManageOutcomes)
    BY OutcomesKnownOf
  <2> QED BY Zenon, <2>1, <2>2, <2>3, <2>4, FormOfParts DEF ManageGoal
<1>6. FormKnown("CreateBudget", CreateBudget)
  <2>1. PanelKnown("CreateBudget", BudgetPanel)
    BY PanelsKnown
  <2>2. KeyKnown("CreateBudget", "create", "none")
    BY KeysKnown DEF Unkeyed
  <2>3. ListsKnown("CreateBudget", Affected({"budgets"}), Covered(BudgetQueries))
    BY RefetchesKnown
  <2>4. OutcomesKnown("CreateBudget", BudgetOutcomes)
    BY OutcomesKnownOf
  <2> QED BY Zenon, <2>1, <2>2, <2>3, <2>4, FormOfParts DEF CreateBudget
<1>7. FormKnown("UpdateBudget", UpdateBudget)
  <2>1. PanelKnown("UpdateBudget", BudgetPanel)
    BY PanelsKnown
  <2>2. KeyKnown("UpdateBudget", "write", "none")
    BY KeysKnown
  <2>3. ListsKnown("UpdateBudget", Affected({"budgets"}), Covered(BudgetQueries))
    BY RefetchesKnown
  <2>4. OutcomesKnown("UpdateBudget", BudgetOutcomes)
    BY OutcomesKnownOf
  <2> QED BY Zenon, <2>1, <2>2, <2>3, <2>4, FormOfParts DEF UpdateBudget
<1>8. FormKnown("DeleteBudget", DeleteBudget)
  <2>1. PanelKnown("DeleteBudget", Panel(TRUE, TRUE, FALSE, "caller"))
    BY PanelsKnown
  <2>2. KeyKnown("DeleteBudget", "once", "none")
    BY KeysKnown
  <2>3. ListsKnown("DeleteBudget", Affected({"budgets"}), Covered(BudgetQueries))
    BY RefetchesKnown
  <2>4. OutcomesKnown("DeleteBudget", {"taken"})
    BY OutcomesKnownOf
  <2> QED BY Zenon, <2>1, <2>2, <2>3, <2>4, FormOfParts DEF DeleteBudget
<1>9. FormKnown("CreateRecurring", CreateRecurring)
  <2>1. PanelKnown("CreateRecurring", RecurringPanel)
    BY PanelsKnown
  <2>2. KeyKnown("CreateRecurring", "create", "none")
    BY KeysKnown DEF Unkeyed
  <2>3. ListsKnown("CreateRecurring", Affected({"recurring"}), Covered({"recurring"}))
    BY RefetchesKnown
  <2>4. OutcomesKnown("CreateRecurring", RecurringOutcomes)
    BY OutcomesKnownOf
  <2> QED BY Zenon, <2>1, <2>2, <2>3, <2>4, FormOfParts DEF CreateRecurring
<1>10. FormKnown("UpdateRecurring", UpdateRecurring)
  <2>1. PanelKnown("UpdateRecurring", RecurringPanel)
    BY PanelsKnown
  <2>2. KeyKnown("UpdateRecurring", "write", "none")
    BY KeysKnown
  <2>3. ListsKnown("UpdateRecurring", Affected({"recurring"} \cup Booked), Covered({"recurring", "transactions", "accounts", "dashboard"}))
    BY RefetchesKnown
  <2>4. OutcomesKnown("UpdateRecurring", RecurringOutcomes)
    BY OutcomesKnownOf
  <2> QED BY Zenon, <2>1, <2>2, <2>3, <2>4, FormOfParts DEF UpdateRecurring
<1>11. FormKnown("DeleteRecurring", DeleteRecurring)
  <2>1. PanelKnown("DeleteRecurring", Panel(TRUE, TRUE, FALSE, "caller"))
    BY PanelsKnown
  <2>2. KeyKnown("DeleteRecurring", "once", "none")
    BY KeysKnown
  <2>3. ListsKnown("DeleteRecurring", Affected({"recurring"}), Covered({"recurring"}))
    BY RefetchesKnown
  <2>4. OutcomesKnown("DeleteRecurring", {"taken"})
    BY OutcomesKnownOf
  <2> QED BY Zenon, <2>1, <2>2, <2>3, <2>4, FormOfParts DEF DeleteRecurring
<1>12. FormKnown("ProcessRecurring", ProcessRecurring)
  <2>1. PanelKnown("ProcessRecurring", Panel(TRUE, TRUE, FALSE, "never"))
    BY PanelsKnown
  <2>2. KeyKnown("ProcessRecurring", "write", "none")
    BY KeysKnown
  <2>3. ListsKnown("ProcessRecurring", Affected({"recurring"} \cup Booked), Covered({"transactions", "dashboard", "accounts", "recurring"}))
    BY RefetchesKnown
  <2>4. OutcomesKnown("ProcessRecurring", {"taken"})
    BY OutcomesKnownOf
  <2> QED BY Zenon, <2>1, <2>2, <2>3, <2>4, FormOfParts DEF ProcessRecurring
<1> QED BY Zenon, <1>1, <1>2, <1>3, <1>4, <1>5, <1>6, <1>7, <1>8, <1>9, <1>10, <1>11,
           <1>12

(* The loans page. *)
LEMMA LoanFormsKnown ==
    /\ FormKnown("CreateLoan", CreateLoan) /\ FormKnown("EditLoan", EditLoan)
    /\ FormKnown("DeleteLoan", DeleteLoan) /\ FormKnown("PayLoan", PayLoan)
    /\ FormKnown("ExtraPayment", ExtraPayment) /\ FormKnown("ReconcileLoan", ReconcileLoan)
    /\ FormKnown("UndoLoan", UndoLoan)
<1>1. FormKnown("CreateLoan", CreateLoan)
  <2>1. PanelKnown("CreateLoan", LoanPanel)
    BY PanelsKnown
  <2>2. KeyKnown("CreateLoan", "create", "opening")
    BY KeysKnown
  <2>3. ListsKnown("CreateLoan", Affected({"loans"}), Covered(LoanQueries))
    BY RefetchesKnown
  <2>4. OutcomesKnown("CreateLoan", LoanOutcomes)
    BY OutcomesKnownOf
  <2> QED BY Zenon, <2>1, <2>2, <2>3, <2>4, FormOfParts DEF CreateLoan
<1>2. FormKnown("EditLoan", EditLoan)
  <2>1. PanelKnown("EditLoan", LoanPanel)
    BY PanelsKnown
  <2>2. KeyKnown("EditLoan", "write", "none")
    BY KeysKnown
  <2>3. ListsKnown("EditLoan", Affected({"loans"}), Covered(LoanQueries))
    BY RefetchesKnown
  <2>4. OutcomesKnown("EditLoan", LoanEditOutcomes)
    BY OutcomesKnownOf
  <2> QED BY Zenon, <2>1, <2>2, <2>3, <2>4, FormOfParts DEF EditLoan
<1>3. FormKnown("DeleteLoan", DeleteLoan)
  <2>1. PanelKnown("DeleteLoan", LoanPanel)
    BY PanelsKnown
  <2>2. KeyKnown("DeleteLoan", "once", "none")
    BY KeysKnown
  <2>3. ListsKnown("DeleteLoan", Affected({"loans"}), Covered(LoanQueries))
    BY RefetchesKnown
  <2>4. OutcomesKnown("DeleteLoan", {"taken"})
    BY OutcomesKnownOf
  <2> QED BY Zenon, <2>1, <2>2, <2>3, <2>4, FormOfParts DEF DeleteLoan
<1>4. FormKnown("PayLoan", PayLoan)
  <2>1. PanelKnown("PayLoan", LoanPanel)
    BY PanelsKnown
  <2>2. KeyKnown("PayLoan", "once", "none")
    BY KeysKnown
  <2>3. ListsKnown("PayLoan", Affected({"loans"} \cup Booked), Covered(LoanQueries))
    BY RefetchesKnown
  <2>4. OutcomesKnown("PayLoan", PayOutcomes)
    BY OutcomesKnownOf
  <2> QED BY Zenon, <2>1, <2>2, <2>3, <2>4, FormOfParts DEF PayLoan
<1>5. FormKnown("ExtraPayment", ExtraPayment)
  <2>1. PanelKnown("ExtraPayment", LoanPanel)
    BY PanelsKnown
  <2>2. KeyKnown("ExtraPayment", "create", "opening")
    BY KeysKnown
  <2>3. ListsKnown("ExtraPayment", Affected({"loans"} \cup Booked), Covered(LoanQueries))
    BY RefetchesKnown
  <2>4. OutcomesKnown("ExtraPayment", ExtraOutcomes)
    BY OutcomesKnownOf
  <2> QED BY Zenon, <2>1, <2>2, <2>3, <2>4, FormOfParts DEF ExtraPayment
<1>6. FormKnown("ReconcileLoan", ReconcileLoan)
  <2>1. PanelKnown("ReconcileLoan", LoanPanel)
    BY PanelsKnown
  <2>2. KeyKnown("ReconcileLoan", "write", "none")
    BY KeysKnown
  <2>3. ListsKnown("ReconcileLoan", Affected({"loans"}), Covered(LoanQueries))
    BY RefetchesKnown
  <2>4. OutcomesKnown("ReconcileLoan", ReconcileOutcomes)
    BY OutcomesKnownOf
  <2> QED BY Zenon, <2>1, <2>2, <2>3, <2>4, FormOfParts DEF ReconcileLoan
<1>7. FormKnown("UndoLoan", UndoLoan)
  <2>1. PanelKnown("UndoLoan", LoanPanel)
    BY PanelsKnown
  <2>2. KeyKnown("UndoLoan", "once", "none")
    BY KeysKnown
  <2>3. ListsKnown("UndoLoan", Affected({"loans"} \cup Booked), Covered(LoanQueries))
    BY RefetchesKnown
  <2>4. OutcomesKnown("UndoLoan", {"taken"})
    BY OutcomesKnownOf
  <2> QED BY Zenon, <2>1, <2>2, <2>3, <2>4, FormOfParts DEF UndoLoan
<1> QED BY Zenon, <1>1, <1>2, <1>3, <1>4, <1>5, <1>6, <1>7

(* The account page. *)
LEMMA CardFormsKnown ==
    /\ FormKnown("ConfirmStatement", ConfirmStatement) /\ FormKnown("PayCard", PayCard)
    /\ FormKnown("ActivateTracking", ActivateTracking) /\ FormKnown("ReconcileDebt", ReconcileDebt)
    /\ FormKnown("ApplyStatement", ApplyStatement) /\ FormKnown("SaveStatement", SaveStatement)
    /\ FormKnown("ReconcileYield", ReconcileYield) /\ FormKnown("UndoYield", UndoYield)
<1>1. FormKnown("ConfirmStatement", ConfirmStatement)
  <2>1. PanelKnown("ConfirmStatement", ConfirmPanel)
    BY PanelsKnown DEF Intruders
  <2>2. KeyKnown("ConfirmStatement", "write", "none")
    BY KeysKnown
  <2>3. ListsKnown("ConfirmStatement", Affected({"statements"}), Covered({"statements"}))
    BY RefetchesKnown
  <2>4. OutcomesKnown("ConfirmStatement", ConfirmOutcomes)
    BY OutcomesKnownOf
  <2> QED BY Zenon, <2>1, <2>2, <2>3, <2>4, FormOfParts DEF ConfirmStatement
<1>2. FormKnown("PayCard", PayCard)
  <2>1. PanelKnown("PayCard", PaymentPanel)
    BY PanelsKnown DEF Intruders
  <2>2. KeyKnown("PayCard", "create", "opening")
    BY KeysKnown
  <2>3. ListsKnown("PayCard", Affected({"statements"} \cup Booked), Covered({"accounts", "transactions", "statements"}))
    BY RefetchesKnown
  <2>4. OutcomesKnown("PayCard", PaymentOutcomes)
    BY OutcomesKnownOf
  <2> QED BY Zenon, <2>1, <2>2, <2>3, <2>4, FormOfParts DEF PayCard
<1>3. FormKnown("ActivateTracking", ActivateTracking)
  <2>1. PanelKnown("ActivateTracking", Panel(TRUE, TRUE, FALSE, "never"))
    BY PanelsKnown
  <2>2. KeyKnown("ActivateTracking", "once", "none")
    BY KeysKnown
  <2>3. ListsKnown("ActivateTracking", Affected({"accounts"}), Covered({"accounts"}))
    BY RefetchesKnown
  <2>4. OutcomesKnown("ActivateTracking", ActivationOutcomes)
    BY OutcomesKnownOf
  <2> QED BY Zenon, <2>1, <2>2, <2>3, <2>4, FormOfParts DEF ActivateTracking
<1>4. FormKnown("ReconcileDebt", ReconcileDebt)
  <2>1. PanelKnown("ReconcileDebt", DebtPanel)
    BY PanelsKnown DEF Intruders
  <2>2. KeyKnown("ReconcileDebt", "write", "none")
    BY KeysKnown
  <2>3. ListsKnown("ReconcileDebt", Affected({"accounts"}), Covered({"accounts"}))
    BY RefetchesKnown
  <2>4. OutcomesKnown("ReconcileDebt", DebtOutcomes)
    BY OutcomesKnownOf
  <2> QED BY Zenon, <2>1, <2>2, <2>3, <2>4, FormOfParts DEF ReconcileDebt
<1>5. FormKnown("ApplyStatement", ApplyStatement)
  <2>. DEFINE t == Form(StatementPanel, "create", "opening", {"statements"} \cup Booked, {"transactions", "accounts", "dashboard"}, StatementOutcomes)
  <2>1. PanelKnown("ApplyStatement", StatementPanel)
    BY PanelsKnown DEF Intruders
  <2>2. KeyKnown("ApplyStatement", "create", "opening")
    BY KeysKnown
  <2>3. ListsKnown("ApplyStatement", Affected({"statements"} \cup Booked), Covered({"transactions", "accounts", "dashboard"}))
    BY RefetchesKnown
  <2>4. OutcomesKnown("ApplyStatement", StatementOutcomes)
    BY OutcomesKnownOf
  <2>5. FormKnown("ApplyStatement", t)
    BY Zenon, <2>1, <2>2, <2>3, <2>4, FormOfParts
  <2>6. ApplyStatement = [t EXCEPT !.catches = TRUE]
    BY DEF ApplyStatement
  <2>7. DOMAIN t = {"kind", "key", "outcomes", "affects", "refetches", "catches", "waits",
                    "resetsOnOpen", "resetsOnClose", "blocks", "closes"}
    BY DEF Form
  <2>. HIDE DEF t
  <2> QED BY <2>5, <2>6, <2>7 DEF FormKnown, PanelKnown, Intruders
<1>6. FormKnown("SaveStatement", SaveStatement)
  <2>1. PanelKnown("SaveStatement", StatementPanel)
    BY PanelsKnown DEF Intruders
  <2>2. KeyKnown("SaveStatement", "write", "none")
    BY KeysKnown
  <2>3. ListsKnown("SaveStatement", Affected({"statements"}), Covered({"statements"}))
    BY RefetchesKnown
  <2>4. OutcomesKnown("SaveStatement", RecordOutcomes)
    BY OutcomesKnownOf
  <2> QED BY Zenon, <2>1, <2>2, <2>3, <2>4, FormOfParts DEF SaveStatement
<1>7. FormKnown("ReconcileYield", ReconcileYield)
  <2>1. PanelKnown("ReconcileYield", YieldPanel)
    BY PanelsKnown
  <2>2. KeyKnown("ReconcileYield", "create", "opening")
    BY KeysKnown
  <2>3. ListsKnown("ReconcileYield", Affected(YieldTables), Covered(YieldQueries))
    BY RefetchesKnown
  <2>4. OutcomesKnown("ReconcileYield", YieldOutcomes)
    BY OutcomesKnownOf
  <2> QED BY Zenon, <2>1, <2>2, <2>3, <2>4, FormOfParts DEF ReconcileYield
<1>8. FormKnown("UndoYield", UndoYield)
  <2>1. PanelKnown("UndoYield", Panel(TRUE, TRUE, FALSE, "never"))
    BY PanelsKnown
  <2>2. KeyKnown("UndoYield", "once", "none")
    BY KeysKnown
  <2>3. ListsKnown("UndoYield", Affected(YieldTables), Covered(YieldQueries))
    BY RefetchesKnown
  <2>4. OutcomesKnown("UndoYield", UndoOutcomes)
    BY OutcomesKnownOf
  <2> QED BY Zenon, <2>1, <2>2, <2>3, <2>4, FormOfParts DEF UndoYield
<1> QED BY Zenon, <1>1, <1>2, <1>3, <1>4, <1>5, <1>6, <1>7, <1>8

(* Categories and rules. *)
LEMMA CatalogFormsKnown ==
    /\ FormKnown("CreateCategory", CreateCategory) /\ FormKnown("UpdateCategory", UpdateCategory)
    /\ FormKnown("DeleteCategory", DeleteCategory) /\ FormKnown("CreateRule", CreateRule)
    /\ FormKnown("ToggleRule", ToggleRule)
<1>1. FormKnown("CreateCategory", CreateCategory)
  <2>1. PanelKnown("CreateCategory", CategoryPanel)
    BY PanelsKnown
  <2>2. KeyKnown("CreateCategory", "create", "none")
    BY KeysKnown DEF Unkeyed
  <2>3. ListsKnown("CreateCategory", Affected({"categories"}), Covered(CategoryQueries))
    BY RefetchesKnown
  <2>4. OutcomesKnown("CreateCategory", CategoryOutcomes)
    BY OutcomesKnownOf
  <2> QED BY Zenon, <2>1, <2>2, <2>3, <2>4, FormOfParts DEF CreateCategory
<1>2. FormKnown("UpdateCategory", UpdateCategory)
  <2>1. PanelKnown("UpdateCategory", CategoryPanel)
    BY PanelsKnown
  <2>2. KeyKnown("UpdateCategory", "write", "none")
    BY KeysKnown
  <2>3. ListsKnown("UpdateCategory", Affected({"categories"}), Covered(CategoryQueries))
    BY RefetchesKnown
  <2>4. OutcomesKnown("UpdateCategory", CategoryOutcomes)
    BY OutcomesKnownOf
  <2> QED BY Zenon, <2>1, <2>2, <2>3, <2>4, FormOfParts DEF UpdateCategory
<1>3. FormKnown("DeleteCategory", DeleteCategory)
  <2>1. PanelKnown("DeleteCategory", Panel(TRUE, TRUE, FALSE, "caller"))
    BY PanelsKnown
  <2>2. KeyKnown("DeleteCategory", "once", "none")
    BY KeysKnown
  <2>3. ListsKnown("DeleteCategory", Affected(RemovedWithCategory), Covered(CategoryQueries))
    BY RefetchesKnown
  <2>4. OutcomesKnown("DeleteCategory", CategoryRemovals)
    BY OutcomesKnownOf
  <2> QED BY Zenon, <2>1, <2>2, <2>3, <2>4, FormOfParts DEF DeleteCategory
<1>4. FormKnown("CreateRule", CreateRule)
  <2>1. PanelKnown("CreateRule", RulePanel)
    BY PanelsKnown
  <2>2. KeyKnown("CreateRule", "create", "none")
    BY KeysKnown DEF Unkeyed
  <2>3. ListsKnown("CreateRule", Affected({"rules"}), Covered({"rules"}))
    BY RefetchesKnown
  <2>4. OutcomesKnown("CreateRule", RuleOutcomes)
    BY OutcomesKnownOf
  <2> QED BY Zenon, <2>1, <2>2, <2>3, <2>4, FormOfParts DEF CreateRule
<1>5. FormKnown("ToggleRule", ToggleRule)
  <2>. DEFINE t == Form(Panel(TRUE, TRUE, FALSE, "never"), "create", "none", {"rules"}, {"rules"}, {"taken"})
  <2>1. PanelKnown("ToggleRule", Panel(TRUE, TRUE, FALSE, "never"))
    BY PanelsKnown
  <2>2. KeyKnown("ToggleRule", "create", "none")
    BY KeysKnown DEF Unkeyed
  <2>3. ListsKnown("ToggleRule", Affected({"rules"}), Covered({"rules"}))
    BY RefetchesKnown
  <2>4. OutcomesKnown("ToggleRule", {"taken"})
    BY OutcomesKnownOf
  <2>5. FormKnown("ToggleRule", t)
    BY Zenon, <2>1, <2>2, <2>3, <2>4, FormOfParts
  <2>6. ToggleRule = [t EXCEPT !.waits = FALSE]
    BY DEF ToggleRule
  <2>7. DOMAIN t = {"kind", "key", "outcomes", "affects", "refetches", "catches", "waits",
                    "resetsOnOpen", "resetsOnClose", "blocks", "closes"}
    BY DEF Form
  <2>. HIDE DEF t
  <2>8. t.closes = "never"
    BY DEF t, Form, Panel
  <2> QED BY <2>5, <2>6, <2>7, <2>8 DEF FormKnown, PanelKnown
<1> QED BY Zenon, <1>1, <1>2, <1>3, <1>4, <1>5

(* Every form of the client writes and refetches, carries its key, submits   *)
(* and closes as its panel shows, but for the exceptions that are named.     *)
THEOREM FormsKnown == \A name \in Names : FormKnown(name, ClientForms[name])
<1>1. /\ ClientForms["CreateAccount"] = CreateAccount /\ ClientForms["UpdateAccount"] = UpdateAccount
      /\ ClientForms["DeleteAccount"] = DeleteAccount /\ ClientForms["UpdateMSI"] = UpdateMSI
      /\ ClientForms["DeleteMSI"] = DeleteMSI /\ ClientForms["AddTransaction"] = AddTransaction
      /\ ClientForms["EditTransaction"] = EditTransaction /\ ClientForms["RemoveTransaction"] = RemoveTransaction
  BY DEF ClientForms
<1>2. /\ ClientForms["AddPurchase"] = AddPurchase /\ ClientForms["QuickTransaction"] = QuickTransaction
      /\ ClientForms["QuickPurchase"] = QuickPurchase /\ ClientForms["QuickAccount"] = QuickAccount
      /\ ClientForms["DashboardTransaction"] = DashboardTransaction /\ ClientForms["DashboardPurchase"] = DashboardPurchase
      /\ ClientForms["DashboardAccount"] = DashboardAccount /\ ClientForms["CreateGoal"] = CreateGoal
  BY DEF ClientForms
<1>3. /\ ClientForms["UpdateGoal"] = UpdateGoal /\ ClientForms["DeleteGoal"] = DeleteGoal
      /\ ClientForms["SaveToGoal"] = SaveToGoal /\ ClientForms["ManageGoal"] = ManageGoal
      /\ ClientForms["CreateBudget"] = CreateBudget /\ ClientForms["UpdateBudget"] = UpdateBudget
      /\ ClientForms["DeleteBudget"] = DeleteBudget /\ ClientForms["CreateRecurring"] = CreateRecurring
  BY DEF ClientForms
<1>4. /\ ClientForms["UpdateRecurring"] = UpdateRecurring /\ ClientForms["DeleteRecurring"] = DeleteRecurring
      /\ ClientForms["ProcessRecurring"] = ProcessRecurring /\ ClientForms["CreateLoan"] = CreateLoan
      /\ ClientForms["EditLoan"] = EditLoan /\ ClientForms["DeleteLoan"] = DeleteLoan
      /\ ClientForms["PayLoan"] = PayLoan /\ ClientForms["ExtraPayment"] = ExtraPayment
  BY DEF ClientForms
<1>5. /\ ClientForms["ReconcileLoan"] = ReconcileLoan /\ ClientForms["UndoLoan"] = UndoLoan
      /\ ClientForms["ConfirmStatement"] = ConfirmStatement /\ ClientForms["PayCard"] = PayCard
      /\ ClientForms["ActivateTracking"] = ActivateTracking /\ ClientForms["ReconcileDebt"] = ReconcileDebt
      /\ ClientForms["ApplyStatement"] = ApplyStatement /\ ClientForms["SaveStatement"] = SaveStatement
  BY DEF ClientForms
<1>6. /\ ClientForms["ReconcileYield"] = ReconcileYield /\ ClientForms["UndoYield"] = UndoYield
      /\ ClientForms["CreateCategory"] = CreateCategory /\ ClientForms["UpdateCategory"] = UpdateCategory
      /\ ClientForms["DeleteCategory"] = DeleteCategory /\ ClientForms["CreateRule"] = CreateRule
      /\ ClientForms["ToggleRule"] = ToggleRule
  BY DEF ClientForms
<1>7. Names = {"CreateAccount", "UpdateAccount", "DeleteAccount", "UpdateMSI",
               "DeleteMSI", "AddTransaction", "EditTransaction", "RemoveTransaction",
               "AddPurchase", "QuickTransaction", "QuickPurchase", "QuickAccount",
               "DashboardTransaction", "DashboardPurchase", "DashboardAccount", "CreateGoal",
               "UpdateGoal", "DeleteGoal", "SaveToGoal", "ManageGoal",
               "CreateBudget", "UpdateBudget", "DeleteBudget", "CreateRecurring",
               "UpdateRecurring", "DeleteRecurring", "ProcessRecurring", "CreateLoan",
               "EditLoan", "DeleteLoan", "PayLoan", "ExtraPayment",
               "ReconcileLoan", "UndoLoan", "ConfirmStatement", "PayCard",
               "ActivateTracking", "ReconcileDebt", "ApplyStatement", "SaveStatement",
               "ReconcileYield", "UndoYield", "CreateCategory", "UpdateCategory",
               "DeleteCategory", "CreateRule", "ToggleRule"}
  BY DEF Names, ClientForms
<1>8. /\ FormKnown("CreateAccount", ClientForms["CreateAccount"]) /\ FormKnown("UpdateAccount", ClientForms["UpdateAccount"])
      /\ FormKnown("DeleteAccount", ClientForms["DeleteAccount"]) /\ FormKnown("UpdateMSI", ClientForms["UpdateMSI"])
      /\ FormKnown("DeleteMSI", ClientForms["DeleteMSI"]) /\ FormKnown("AddTransaction", ClientForms["AddTransaction"])
      /\ FormKnown("EditTransaction", ClientForms["EditTransaction"]) /\ FormKnown("RemoveTransaction", ClientForms["RemoveTransaction"])
      /\ FormKnown("AddPurchase", ClientForms["AddPurchase"]) /\ FormKnown("QuickTransaction", ClientForms["QuickTransaction"])
      /\ FormKnown("QuickPurchase", ClientForms["QuickPurchase"]) /\ FormKnown("QuickAccount", ClientForms["QuickAccount"])
      /\ FormKnown("DashboardTransaction", ClientForms["DashboardTransaction"]) /\ FormKnown("DashboardPurchase", ClientForms["DashboardPurchase"])
      /\ FormKnown("DashboardAccount", ClientForms["DashboardAccount"]) /\ FormKnown("CreateGoal", ClientForms["CreateGoal"])
      /\ FormKnown("UpdateGoal", ClientForms["UpdateGoal"]) /\ FormKnown("DeleteGoal", ClientForms["DeleteGoal"])
      /\ FormKnown("SaveToGoal", ClientForms["SaveToGoal"]) /\ FormKnown("ManageGoal", ClientForms["ManageGoal"])
      /\ FormKnown("CreateBudget", ClientForms["CreateBudget"]) /\ FormKnown("UpdateBudget", ClientForms["UpdateBudget"])
      /\ FormKnown("DeleteBudget", ClientForms["DeleteBudget"]) /\ FormKnown("CreateRecurring", ClientForms["CreateRecurring"])
      /\ FormKnown("UpdateRecurring", ClientForms["UpdateRecurring"]) /\ FormKnown("DeleteRecurring", ClientForms["DeleteRecurring"])
      /\ FormKnown("ProcessRecurring", ClientForms["ProcessRecurring"]) /\ FormKnown("CreateLoan", ClientForms["CreateLoan"])
      /\ FormKnown("EditLoan", ClientForms["EditLoan"]) /\ FormKnown("DeleteLoan", ClientForms["DeleteLoan"])
      /\ FormKnown("PayLoan", ClientForms["PayLoan"]) /\ FormKnown("ExtraPayment", ClientForms["ExtraPayment"])
      /\ FormKnown("ReconcileLoan", ClientForms["ReconcileLoan"]) /\ FormKnown("UndoLoan", ClientForms["UndoLoan"])
      /\ FormKnown("ConfirmStatement", ClientForms["ConfirmStatement"]) /\ FormKnown("PayCard", ClientForms["PayCard"])
      /\ FormKnown("ActivateTracking", ClientForms["ActivateTracking"]) /\ FormKnown("ReconcileDebt", ClientForms["ReconcileDebt"])
      /\ FormKnown("ApplyStatement", ClientForms["ApplyStatement"]) /\ FormKnown("SaveStatement", ClientForms["SaveStatement"])
      /\ FormKnown("ReconcileYield", ClientForms["ReconcileYield"]) /\ FormKnown("UndoYield", ClientForms["UndoYield"])
      /\ FormKnown("CreateCategory", ClientForms["CreateCategory"]) /\ FormKnown("UpdateCategory", ClientForms["UpdateCategory"])
      /\ FormKnown("DeleteCategory", ClientForms["DeleteCategory"]) /\ FormKnown("CreateRule", ClientForms["CreateRule"])
      /\ FormKnown("ToggleRule", ClientForms["ToggleRule"])
  BY Zenon, <1>1, <1>2, <1>3, <1>4, <1>5, <1>6,
     AccountFormsKnown, EntryFormsKnown, PlanFormsKnown, LoanFormsKnown, CardFormsKnown, CatalogFormsKnown
<1> QED BY <1>7, <1>8

-----------------------------------------------------------------------------
(* The inductive invariant *)

Panels(n) == [open : BOOLEAN, opening : 0 .. MaxOpenings, draft : Nat, outcome : Results,
              key : Nat, follows : 0 .. n, filled : 0 .. n]

Attempts == [opening : Nat, draft : Nat, outcome : Results, key : Nat,
             at : {"sent", "stored", "replayed", "refused"},
             answer : {"none", "success", "failure", "counted"}]

FormChosen ==
    /\ form \in Names /\ terms = ClientForms[form]
    /\ watched \in terms.affects \cup {NoList}

Typed ==
    /\ attempts \in Seq(Attempts)
    /\ panel \in Panels(Len(attempts))
    /\ list \in [has : BOOLEAN, raced : BOOLEAN, shows : SUBSET DOMAIN attempts,
                 stale : BOOLEAN, fetch : {"none", "asked", "read"},
                 reads : SUBSET DOMAIN attempts]

\* A request answered with success was stored, or replayed what was.
SuccessIsStored ==
    \A i \in DOMAIN attempts : Succeeded(i) => attempts[i].at \in {"stored", "replayed"}

\* A draft is what the form lets through.
DraftsLetThrough ==
    /\ panel.open => panel.outcome \in terms.outcomes
    /\ \A i \in DOMAIN attempts : attempts[i].outcome \in terms.outcomes

\* The request a panel follows is one of its opening.
FollowsItsOwn ==
    /\ panel.follows # NoAttempt => attempts[panel.follows].opening = panel.opening
    /\ ~panel.open /\ ~terms.resetsOnOpen => panel.follows = NoAttempt

\* A panel that stays open while a request is under way follows it.
StaysForAnswer ==
    terms.blocks /\ terms.waits =>
        \A i \in DOMAIN attempts :
            attempts[i].answer = "none" => panel.open /\ panel.follows = i

\* Requests of a draft carry one key, unless an edit may renew it.
DraftsKeepKey ==
    /\ \A i \in DOMAIN attempts :
           /\ attempts[i].draft <= panel.draft
           /\ panel.open /\ terms.key \in {"opening", "closing"} /\ attempts[i].draft = panel.draft =>
                  attempts[i].key = panel.key
    /\ terms.key \in {"opening", "closing"} =>
           \A i, j \in DOMAIN attempts :
               attempts[i].draft = attempts[j].draft => attempts[i].key = attempts[j].key

\* A key stores one row.
KeysStoreOnce ==
    terms.key # "none" =>
        \A i, j \in Stored : attempts[i].key = attempts[j].key => i = j

\* A list that is fresh, or was read, has what the client was told of.
ToldIsShown ==
    watched \in terms.refetches =>
        \A i \in Stored : Succeeded(i) =>
            /\ list.has /\ ~list.stale => i \in list.shows \/ list.raced
            /\ list.fetch = "read" => i \in list.reads \/ (list.raced /\ ~list.has)

\* No list is loaded when none is watched.
NothingWatched == watched = NoList => ~list.has /\ list.fetch = "none"

SubmissionsInv ==
    /\ FormChosen /\ Typed /\ SuccessIsStored /\ DraftsLetThrough /\ FollowsItsOwn
    /\ StaysForAnswer /\ DraftsKeepKey /\ KeysStoreOnce /\ ToldIsShown /\ NothingWatched

(* What is known of the form in use. *)
LEMMA TermsKnown ==
    ASSUME FormChosen
    PROVE  /\ FormKnown(form, terms)
           /\ {terms.resetsOnOpen, terms.resetsOnClose, terms.blocks, terms.waits, terms.catches}
                  \subseteq BOOLEAN
           /\ terms.resetsOnOpen \/ terms.resetsOnClose
           /\ terms.key \in Keys /\ terms.closes \in Closers /\ terms.outcomes \subseteq Results
<1>1. FormKnown(form, terms)
  BY FormsKnown DEF FormChosen
<1> QED BY <1>1 DEF FormKnown, PanelKnown, KeyKnown, OutcomesKnown, AreOutcomes

(* A request more. *)
LEMMA AttemptSent ==
    ASSUME NEW s \in Seq(Attempts), NEW a \in Attempts
    PROVE  LET u == Append(s, a)
           IN  /\ u \in Seq(Attempts) /\ Len(s) \in Nat /\ Len(u) = Len(s) + 1
               /\ DOMAIN s = 1 .. Len(s) /\ DOMAIN u = 1 .. Len(s) + 1
               /\ \A i \in 1 .. Len(s) : u[i] = s[i] /\ s[i] \in Attempts
               /\ u[Len(s) + 1] = a
<1>1. Len(s) \in Nat /\ DOMAIN s = 1 .. Len(s) /\ \A i \in 1 .. Len(s) : s[i] \in Attempts
  BY LenProperties, ElementOfSeq
<1> QED BY <1>1, AppendProperties, ElementOfSeq

\* u is s with the at of request i replaced.
AtBecomes(s, i, at, u) ==
    /\ u \in Seq(Attempts) /\ Len(u) = Len(s)
    /\ DOMAIN s = 1 .. Len(s) /\ DOMAIN u = DOMAIN s /\ Len(s) \in Nat
    /\ u[i].at = at
    /\ \A j \in DOMAIN s : u[j].at = s[j].at \/ j = i
    /\ \A j \in DOMAIN s : /\ u[j].opening = s[j].opening /\ u[j].draft = s[j].draft
                           /\ u[j].outcome = s[j].outcome /\ u[j].key = s[j].key
                           /\ u[j].answer = s[j].answer

(* A request the server takes. *)
LEMMA AttemptServed ==
    ASSUME NEW s \in Seq(Attempts), NEW i \in DOMAIN s, NEW at \in {"sent", "stored", "replayed", "refused"}
    PROVE  AtBecomes(s, i, at, [s EXCEPT ![i].at = at])
<1>. DEFINE u == [s EXCEPT ![i].at = at]
<1>1. /\ Len(s) \in Nat /\ DOMAIN s = 1 .. Len(s)
      /\ \A j \in 1 .. Len(s) : s[j] \in Attempts
      /\ s = [j \in 1 .. Len(s) |-> s[j]]
  BY LenProperties, ElementOfSeq
<1>. DEFINE e == [s[i] EXCEPT !.at = at]
<1>2. /\ e \in Attempts /\ e.at = at /\ e.answer = s[i].answer /\ e.opening = s[i].opening
      /\ e.draft = s[i].draft /\ e.outcome = s[i].outcome /\ e.key = s[i].key
  BY <1>1 DEF Attempts
<1>3. u = [s EXCEPT ![i] = e]
  OBVIOUS
<1>. HIDE DEF e, u
<1>4. u \in Seq(Attempts) /\ Len(u) = Len(s) /\ DOMAIN u = DOMAIN s
  BY <1>1, <1>2, <1>3
<1>5. u[i] = e /\ \A j \in DOMAIN s \ {i} : u[j] = s[j]
  BY <1>1, <1>3
<1>6. AtBecomes(s, i, at, u)
  BY <1>1, <1>2, <1>4, <1>5 DEF AtBecomes
<1> QED BY <1>6 DEF u

\* u is s with the answer of request i replaced.
AnswerBecomes(s, i, answer, u) ==
    /\ u \in Seq(Attempts) /\ Len(u) = Len(s)
    /\ DOMAIN s = 1 .. Len(s) /\ DOMAIN u = DOMAIN s /\ Len(s) \in Nat
    /\ u[i].answer = answer
    /\ \A j \in DOMAIN s : u[j].answer = s[j].answer \/ j = i
    /\ \A j \in DOMAIN s : /\ u[j].opening = s[j].opening /\ u[j].draft = s[j].draft
                           /\ u[j].outcome = s[j].outcome /\ u[j].key = s[j].key
                           /\ u[j].at = s[j].at

(* A request answered. *)
LEMMA AttemptAnswered ==
    ASSUME NEW s \in Seq(Attempts), NEW i \in DOMAIN s, NEW answer \in {"none", "success", "failure", "counted"}
    PROVE  AnswerBecomes(s, i, answer, [s EXCEPT ![i].answer = answer])
<1>. DEFINE u == [s EXCEPT ![i].answer = answer]
<1>1. /\ Len(s) \in Nat /\ DOMAIN s = 1 .. Len(s)
      /\ \A j \in 1 .. Len(s) : s[j] \in Attempts
      /\ s = [j \in 1 .. Len(s) |-> s[j]]
  BY LenProperties, ElementOfSeq
<1>. DEFINE e == [s[i] EXCEPT !.answer = answer]
<1>2. /\ e \in Attempts /\ e.at = s[i].at /\ e.answer = answer /\ e.opening = s[i].opening
      /\ e.draft = s[i].draft /\ e.outcome = s[i].outcome /\ e.key = s[i].key
  BY <1>1 DEF Attempts
<1>3. u = [s EXCEPT ![i] = e]
  OBVIOUS
<1>. HIDE DEF e, u
<1>4. u \in Seq(Attempts) /\ Len(u) = Len(s) /\ DOMAIN u = DOMAIN s
  BY <1>1, <1>2, <1>3
<1>5. u[i] = e /\ \A j \in DOMAIN s \ {i} : u[j] = s[j]
  BY <1>1, <1>3
<1>6. AnswerBecomes(s, i, answer, u)
  BY <1>1, <1>2, <1>4, <1>5 DEF AnswerBecomes
<1> QED BY <1>6 DEF u

\* q is the panel p opened.
OpenedAs(n, p, outcome, q) ==
    /\ q.open = TRUE /\ q.draft = p.draft + 1 /\ q.outcome = outcome
    /\ q.follows = IF terms.resetsOnOpen THEN NoAttempt ELSE p.follows
    /\ (p.opening < MaxOpenings /\ outcome \in Results) => q \in Panels(n)

(* What opening does to a panel. *)
LEMMA OpenedFields ==
    ASSUME NEW n \in Nat, NEW p \in Panels(n), NEW outcome
    PROVE  OpenedAs(n, p, outcome, Opened(p, outcome))
<1>. DEFINE q == Opened(p, outcome)
<1>1. q.open = TRUE
  BY DEF Opened, Panels
<1>3. q.draft = p.draft + 1
  BY DEF Opened, Panels
<1>4. q.outcome = outcome
  BY DEF Opened, Panels
<1>6. q.follows = IF terms.resetsOnOpen THEN NoAttempt ELSE p.follows
  BY DEF Opened, Panels
<1>7. p.opening < MaxOpenings /\ outcome \in Results => q \in Panels(n)
  <2>. DEFINE b == p.opening + 1
              c == p.draft + 1
              e == IF terms.key \in {"opening", "mode"} THEN p.key + 1 ELSE p.key
              f == IF terms.resetsOnOpen THEN NoAttempt ELSE p.follows
  <2>1. p.opening \in 0 .. MaxOpenings /\ p.draft \in Nat /\ p.key \in Nat /\ p.follows \in 0 .. n
    BY DEF Panels
  <2>2. q = [p EXCEPT !.open = TRUE, !.opening = b, !.draft = c, !.outcome = outcome,
                      !.key = e, !.follows = f]
    BY DEF Opened
  <2>3. c \in Nat
    BY <2>1
  <2>4. p.opening < MaxOpenings => b \in 0 .. MaxOpenings
    BY <2>1, SubmissionsConstants
  <2>5. e \in Nat
    BY <2>1
  <2>6. f \in 0 .. n
    BY <2>1 DEF NoAttempt
  <2>. HIDE DEF b, c, e, f, q
  <2> QED BY <2>2, <2>3, <2>4, <2>5, <2>6 DEF Panels
<1>. HIDE DEF q
<1>8. OpenedAs(n, p, outcome, q)
  BY <1>1, <1>3, <1>4, <1>6, <1>7 DEF OpenedAs
<1> QED BY <1>8 DEF q

(* What closing does. *)
LEMMA ClosedFields ==
    ASSUME NEW n \in Nat, NEW p \in Panels(n)
    PROVE  LET q == Closed(p)
           IN  /\ q.open = FALSE /\ q.opening = p.opening /\ q.draft = p.draft
               /\ q.outcome = p.outcome
               /\ q.follows = IF terms.resetsOnClose THEN NoAttempt ELSE p.follows
               /\ q \in Panels(n)
<1>. DEFINE q == Closed(p)
<1>1. q.open = FALSE
  BY DEF Closed, Panels
<1>2. q.opening = p.opening /\ q.draft = p.draft /\ q.outcome = p.outcome
  BY DEF Closed, Panels
<1>3. q.follows = IF terms.resetsOnClose THEN NoAttempt ELSE p.follows
  BY DEF Closed, Panels
<1>4. q \in Panels(n)
  <2>. DEFINE e == IF terms.key = "closing" THEN p.key + 1 ELSE p.key
              f == IF terms.resetsOnClose THEN NoAttempt ELSE p.follows
              g == IF terms.resetsOnClose THEN NoAttempt ELSE p.filled
  <2>1. p.key \in Nat /\ p.follows \in 0 .. n /\ p.filled \in 0 .. n
    BY DEF Panels
  <2>2. q = [p EXCEPT !.open = FALSE, !.key = e, !.follows = f, !.filled = g]
    BY DEF Closed
  <2>3. e \in Nat
    BY <2>1
  <2>4. f \in 0 .. n /\ g \in 0 .. n
    BY <2>1 DEF NoAttempt
  <2>. HIDE DEF e, f, g, q
  <2> QED BY <2>2, <2>3, <2>4 DEF Panels
<1> QED BY <1>1, <1>2, <1>3, <1>4

(* The fields of a panel are of their types. *)
LEMMA PanelFields ==
    ASSUME NEW n, NEW p \in Panels(n)
    PROVE  /\ p.open \in BOOLEAN /\ p.opening \in 0 .. MaxOpenings /\ p.draft \in Nat
           /\ p.outcome \in Results /\ p.key \in Nat /\ p.follows \in 0 .. n /\ p.filled \in 0 .. n
BY DEF Panels

(* Panels of more requests. *)
LEMMA PanelsGrow ==
    ASSUME NEW n \in Nat, NEW p \in Panels(n)
    PROVE  p \in Panels(n + 1)
BY DEF Panels

(* What is left alone by a step of the panel. *)
LEMMA PanelSteps ==
    ASSUME SubmissionsInv, UNCHANGED <<form, terms, watched, attempts, list>>
    PROVE  /\ FormChosen' /\ SuccessIsStored' /\ KeysStoreOnce' /\ ToldIsShown' /\ NothingWatched'
           /\ panel' \in Panels(Len(attempts)) => Typed'
<1>1. FormChosen' /\ NothingWatched'
  BY DEF SubmissionsInv, FormChosen, NothingWatched
<1>2. Stored' = Stored /\ \A i : Succeeded(i)' = Succeeded(i)
  BY DEF Stored, Succeeded
<1>3. SuccessIsStored' /\ KeysStoreOnce' /\ ToldIsShown'
  BY <1>2 DEF SubmissionsInv, SuccessIsStored, KeysStoreOnce, ToldIsShown
<1>4. panel' \in Panels(Len(attempts)) => Typed'
  BY DEF SubmissionsInv, Typed
<1> QED BY <1>1, <1>3, <1>4

(* The requests are a sequence of requests. *)
LEMMA Basics ==
    ASSUME SubmissionsInv
    PROVE  /\ attempts \in Seq(Attempts) /\ Len(attempts) \in Nat
           /\ DOMAIN attempts = 1 .. Len(attempts)
           /\ \A i \in DOMAIN attempts : attempts[i] \in Attempts
           /\ \A i \in DOMAIN attempts : attempts[i].draft \in Nat
           /\ panel \in Panels(Len(attempts))
<1>1. attempts \in Seq(Attempts) /\ panel \in Panels(Len(attempts))
  BY DEF SubmissionsInv, Typed
<1>2. Len(attempts) \in Nat /\ DOMAIN attempts = 1 .. Len(attempts)
  BY <1>1, LenProperties
<1>3. \A i \in DOMAIN attempts : attempts[i] \in Attempts
  BY <1>1, <1>2, ElementOfSeq
<1>4. \A a \in Attempts : a.draft \in Nat
  BY DEF Attempts
<1> QED BY <1>1, <1>2, <1>3, <1>4

(* Opening keeps the invariant. *)
LEMMA OpenKeeps == ASSUME SubmissionsInv, Open PROVE SubmissionsInv'
<1>1. /\ UNCHANGED <<form, terms, watched, attempts, list>> /\ ~panel.open
      /\ panel.opening < IF watched = NoList THEN MaxOpenings ELSE 1
  BY DEF Open, OpeningsLeft
<1>2. PICK outcome \in terms.outcomes : panel' = Opened(panel, outcome)
  BY DEF Open
<1>. DEFINE n == Len(attempts)
<1>3. panel \in Panels(n) /\ n \in Nat
  BY Basics
<1>4. /\ terms.resetsOnOpen \in BOOLEAN /\ outcome \in Results
      /\ terms.resetsOnOpen \/ terms.resetsOnClose
  BY TermsKnown DEF SubmissionsInv
<1>5. panel.draft \in Nat /\ panel.opening \in 0 .. MaxOpenings
  BY <1>3, PanelFields
<1>. HIDE DEF n
<1>6. panel.opening < MaxOpenings
  BY <1>1, <1>5, SubmissionsConstants
<1>7. /\ panel'.open = TRUE /\ panel'.draft = panel.draft + 1 /\ panel'.outcome = outcome
      /\ panel'.follows = IF terms.resetsOnOpen THEN NoAttempt ELSE panel.follows
      /\ panel' \in Panels(n)
  <2>. DEFINE q == Opened(panel, outcome)
  <2>1. OpenedAs(n, panel, outcome, q)
    BY <1>3, OpenedFields
  <2>2. panel' = q
    BY <1>2
  <2>. HIDE DEF q
  <2> QED BY <1>4, <1>6, <2>1, <2>2 DEF OpenedAs
<1>8. panel'.follows = NoAttempt
  BY <1>1, <1>4, <1>7 DEF SubmissionsInv, FollowsItsOwn
<1>10. /\ FormChosen' /\ SuccessIsStored' /\ KeysStoreOnce' /\ ToldIsShown' /\ NothingWatched'
       /\ Typed'
  BY <1>1, <1>7, PanelSteps DEF n
<1>11. DraftsLetThrough'
  BY <1>1, <1>7 DEF SubmissionsInv, DraftsLetThrough
<1>12. FollowsItsOwn'
  BY <1>1, <1>7, <1>8 DEF FollowsItsOwn
<1>13. StaysForAnswer'
  BY <1>1 DEF SubmissionsInv, StaysForAnswer
<1>14. DraftsKeepKey'
  <2>1. \A i \in DOMAIN attempts : attempts[i].draft \in Nat /\ attempts[i].draft <= panel.draft
    BY Basics DEF SubmissionsInv, DraftsKeepKey
  <2>2. \A i \in DOMAIN attempts : attempts[i].draft <= panel'.draft /\ attempts[i].draft # panel'.draft
    BY <1>5, <1>7, <2>1
  <2> QED BY <1>1, <2>2 DEF SubmissionsInv, DraftsKeepKey
<1> QED BY <1>10, <1>11, <1>12, <1>13, <1>14 DEF SubmissionsInv

(* Changing the draft keeps it. *)
LEMMA EditKeeps == ASSUME SubmissionsInv, Edit PROVE SubmissionsInv'
<1>1. UNCHANGED <<form, terms, watched, attempts, list>> /\ panel.open /\ ~Pending
  BY DEF Edit
<1>2. PICK outcome \in terms.outcomes,
           key \in {panel.key} \cup (IF terms.key = "mode" THEN {panel.key + 1} ELSE {}) :
          panel' = [panel EXCEPT !.draft = @ + 1, !.outcome = outcome, !.key = key]
  BY DEF Edit
<1>. DEFINE n == Len(attempts)
<1>3. panel \in Panels(n) /\ n \in Nat
  BY Basics
<1>4. outcome \in Results
  BY TermsKnown DEF SubmissionsInv
<1>5. panel.draft \in Nat /\ panel.key \in Nat
  BY <1>3, PanelFields
<1>6. key \in Nat
  BY <1>2, <1>5
<1>. HIDE DEF n
<1>7. /\ panel'.open = panel.open /\ panel'.draft = panel.draft + 1 /\ panel'.outcome = outcome
      /\ panel'.follows = panel.follows /\ panel'.opening = panel.opening
  BY <1>2, <1>3 DEF Panels
<1>8. panel' \in Panels(n)
  <2>. DEFINE c == panel.draft + 1
  <2>1. panel' = [panel EXCEPT !.draft = c, !.outcome = outcome, !.key = key]
    BY <1>2
  <2>2. c \in Nat
    BY <1>5
  <2>. HIDE DEF c
  <2> QED BY <1>3, <1>4, <1>6, <2>1, <2>2 DEF Panels
<1>10. /\ FormChosen' /\ SuccessIsStored' /\ KeysStoreOnce' /\ ToldIsShown' /\ NothingWatched'
       /\ Typed'
  BY <1>1, <1>8, PanelSteps DEF n
<1>11. DraftsLetThrough'
  BY <1>1, <1>7 DEF SubmissionsInv, DraftsLetThrough
<1>12. FollowsItsOwn'
  BY <1>1, <1>7 DEF SubmissionsInv, FollowsItsOwn
<1>13. StaysForAnswer'
  BY <1>1, <1>7 DEF SubmissionsInv, StaysForAnswer
<1>14. DraftsKeepKey'
  <2>1. \A i \in DOMAIN attempts : attempts[i].draft \in Nat /\ attempts[i].draft <= panel.draft
    BY Basics DEF SubmissionsInv, DraftsKeepKey
  <2>2. \A i \in DOMAIN attempts : attempts[i].draft <= panel'.draft /\ attempts[i].draft # panel'.draft
    BY <1>5, <1>7, <2>1
  <2> QED BY <1>1, <2>2 DEF SubmissionsInv, DraftsKeepKey
<1> QED BY <1>10, <1>11, <1>12, <1>13, <1>14 DEF SubmissionsInv

(* So does choosing a mode, which renews the key of a draft. *)
LEMMA ChooseModeKeeps == ASSUME SubmissionsInv, ChooseMode PROVE SubmissionsInv'
<1>1. /\ UNCHANGED <<form, terms, watched, attempts, list>> /\ terms.key = "mode"
      /\ panel' = [panel EXCEPT !.key = @ + 1]
  BY DEF ChooseMode
<1>. DEFINE n == Len(attempts)
<1>3. panel \in Panels(n) /\ n \in Nat
  BY Basics
<1>. HIDE DEF n
<1>7. /\ panel'.open = panel.open /\ panel'.draft = panel.draft /\ panel'.outcome = panel.outcome
      /\ panel'.follows = panel.follows /\ panel'.opening = panel.opening
  BY <1>1, <1>3 DEF Panels
<1>8. panel' \in Panels(n)
  <2>. DEFINE k == panel.key + 1
  <2>1. panel' = [panel EXCEPT !.key = k]
    BY <1>1
  <2>2. k \in Nat
    BY <1>3, PanelFields
  <2>. HIDE DEF k
  <2> QED BY <1>3, <2>1, <2>2 DEF Panels
<1>10. /\ FormChosen' /\ SuccessIsStored' /\ KeysStoreOnce' /\ ToldIsShown' /\ NothingWatched'
       /\ Typed'
  BY <1>1, <1>8, PanelSteps DEF n
<1>11. DraftsLetThrough'
  BY <1>1, <1>7 DEF SubmissionsInv, DraftsLetThrough
<1>12. FollowsItsOwn'
  BY <1>1, <1>7 DEF SubmissionsInv, FollowsItsOwn
<1>13. StaysForAnswer'
  BY <1>1, <1>7 DEF SubmissionsInv, StaysForAnswer
<1>14. DraftsKeepKey'
  BY <1>1, <1>7 DEF SubmissionsInv, DraftsKeepKey
<1> QED BY <1>10, <1>11, <1>12, <1>13, <1>14 DEF SubmissionsInv

(* So does closing the panel. *)
LEMMA CloseKeeps == ASSUME SubmissionsInv, Close PROVE SubmissionsInv'
<1>1. /\ UNCHANGED <<form, terms, watched, attempts, list>> /\ panel.open
      /\ terms.blocks => ~Pending
      /\ panel' = Closed(panel)
  BY DEF Close
<1>. DEFINE n == Len(attempts)
<1>3. panel \in Panels(n) /\ n \in Nat
  BY Basics
<1>4. /\ terms.resetsOnOpen \in BOOLEAN /\ terms.resetsOnClose \in BOOLEAN
      /\ terms.resetsOnOpen \/ terms.resetsOnClose
  BY TermsKnown DEF SubmissionsInv
<1>. HIDE DEF n
<1>7. /\ panel'.open = FALSE /\ panel'.draft = panel.draft /\ panel'.opening = panel.opening
      /\ panel'.follows = IF terms.resetsOnClose THEN NoAttempt ELSE panel.follows
      /\ panel' \in Panels(n)
  BY <1>1, <1>3, ClosedFields
<1>10. /\ FormChosen' /\ SuccessIsStored' /\ KeysStoreOnce' /\ ToldIsShown' /\ NothingWatched'
       /\ Typed'
  BY <1>1, <1>7, PanelSteps DEF n
<1>11. DraftsLetThrough'
  BY <1>1, <1>7 DEF SubmissionsInv, DraftsLetThrough
<1>12. FollowsItsOwn'
  BY <1>1, <1>4, <1>7 DEF SubmissionsInv, FollowsItsOwn
<1>13. StaysForAnswer'
  <2>1. ASSUME terms.blocks, terms.waits, NEW i \in DOMAIN attempts, attempts[i].answer = "none"
        PROVE  FALSE
    <3>1. panel.follows = i
      BY <2>1 DEF SubmissionsInv, StaysForAnswer
    <3>2. i # NoAttempt
      BY Basics DEF NoAttempt
    <3> QED BY <1>1, <2>1, <3>1, <3>2 DEF Pending
  <2> QED BY <1>1, <2>1 DEF StaysForAnswer
<1>14. DraftsKeepKey'
  BY <1>1, <1>7 DEF SubmissionsInv, DraftsKeepKey
<1> QED BY <1>10, <1>11, <1>12, <1>13, <1>14 DEF SubmissionsInv

(* Sending a request keeps the invariant. *)
LEMMA SubmitKeeps == ASSUME SubmissionsInv, Submit PROVE SubmissionsInv'
<1>. DEFINE n == Len(attempts)
            a == [opening |-> panel.opening, draft |-> panel.draft, outcome |-> panel.outcome,
                  key |-> panel.key, at |-> "sent", answer |-> "none"]
<1>1. /\ UNCHANGED <<form, terms, watched, list>> /\ panel.open
      /\ terms.waits => ~Pending
      /\ attempts' = Append(attempts, a) /\ panel' = [panel EXCEPT !.follows = n + 1]
  BY DEF Submit
<1>2. /\ panel \in Panels(n) /\ n \in Nat /\ attempts \in Seq(Attempts)
      /\ DOMAIN attempts = 1 .. n
      /\ \A i \in DOMAIN attempts : attempts[i] \in Attempts
  BY Basics
<1>3. /\ panel.opening \in Nat /\ panel.draft \in Nat /\ panel.outcome \in Results
      /\ panel.key \in Nat
  BY <1>2, PanelFields, SubmissionsConstants
<1>4. /\ a \in Attempts /\ a.opening = panel.opening /\ a.draft = panel.draft
      /\ a.outcome = panel.outcome /\ a.key = panel.key /\ a.at = "sent" /\ a.answer = "none"
  BY <1>3 DEF Attempts
<1>. HIDE DEF n, a
<1>5. /\ attempts' \in Seq(Attempts) /\ Len(attempts') = n + 1
      /\ DOMAIN attempts' = 1 .. n + 1
      /\ \A i \in 1 .. n : attempts'[i] = attempts[i]
      /\ attempts'[n + 1] = a
  BY <1>1, <1>2, <1>4, AttemptSent DEF n
<1>6. /\ panel'.open = panel.open /\ panel'.opening = panel.opening /\ panel'.draft = panel.draft
      /\ panel'.outcome = panel.outcome /\ panel'.key = panel.key /\ panel'.follows = n + 1
  BY <1>1, <1>2 DEF Panels
<1>7. panel' \in Panels(n + 1)
  <2>1. panel \in Panels(n + 1)
    BY <1>2, PanelsGrow
  <2>2. n + 1 \in 0 .. n + 1
    BY <1>2
  <2>. DEFINE m == n + 1
  <2>3. panel \in Panels(m) /\ m \in 0 .. m /\ panel' = [panel EXCEPT !.follows = m]
    BY <1>1, <2>1, <2>2
  <2>. HIDE DEF m
  <2>4. panel' \in Panels(m)
    BY <2>3 DEF Panels
  <2> QED BY <2>4 DEF m
<1>8. \A i \in DOMAIN attempts' : \/ i \in DOMAIN attempts /\ attempts'[i] = attempts[i]
                                  \/ i = n + 1 /\ attempts'[i] = a
  BY <1>2, <1>5
<1>9. /\ DOMAIN attempts \subseteq DOMAIN attempts' /\ n + 1 \in DOMAIN attempts'
      /\ \A i \in DOMAIN attempts : attempts'[i] = attempts[i] /\ i # n + 1 /\ i # NoAttempt
  BY <1>2, <1>5 DEF NoAttempt
<1>10. Stored' = Stored /\ \A i \in DOMAIN attempts : Succeeded(i)' = Succeeded(i)
  <2>1. Stored' = {i \in DOMAIN attempts' : attempts'[i].at = "stored"}
    BY DEF Stored
  <2> QED BY <1>4, <1>8, <1>9, <2>1 DEF Stored, Succeeded
<1>11. FormChosen' /\ NothingWatched'
  BY <1>1 DEF SubmissionsInv, FormChosen, NothingWatched
<1>12. Typed'
  <2>1. list' \in [has : BOOLEAN, raced : BOOLEAN, shows : SUBSET DOMAIN attempts',
                   stale : BOOLEAN, fetch : {"none", "asked", "read"},
                   reads : SUBSET DOMAIN attempts']
    BY <1>1, <1>9 DEF SubmissionsInv, Typed
  <2> QED BY <1>5, <1>7, <2>1 DEF Typed
<1>13. SuccessIsStored'
  BY <1>4, <1>8 DEF SubmissionsInv, SuccessIsStored, Succeeded
<1>14. DraftsLetThrough'
  BY <1>1, <1>4, <1>6, <1>8 DEF SubmissionsInv, DraftsLetThrough
<1>15. FollowsItsOwn'
  BY <1>1, <1>4, <1>5, <1>6 DEF FollowsItsOwn
<1>16. StaysForAnswer'
  <2>1. ASSUME terms.blocks, terms.waits, NEW i \in DOMAIN attempts, attempts[i].answer = "none"
        PROVE  FALSE
    <3>1. panel.follows = i
      BY <2>1 DEF SubmissionsInv, StaysForAnswer
    <3> QED BY <1>1, <1>9, <2>1, <3>1 DEF Pending
  <2>2. ASSUME terms.blocks, terms.waits, NEW i \in DOMAIN attempts', attempts'[i].answer = "none"
        PROVE  panel'.open /\ panel'.follows = i
    BY <1>1, <1>6, <1>8, <2>1, <2>2
  <2> QED BY <1>1, <2>2 DEF StaysForAnswer
<1>17. DraftsKeepKey'
  <2>1. \A i \in DOMAIN attempts' : attempts'[i].draft <= panel'.draft
    BY <1>3, <1>4, <1>6, <1>8 DEF SubmissionsInv, DraftsKeepKey
  <2>2. ASSUME terms.key \in {"opening", "closing"}
        PROVE  /\ \A i \in DOMAIN attempts' :
                     attempts'[i].draft = panel'.draft => attempts'[i].key = panel'.key
               /\ \A i, j \in DOMAIN attempts' : attempts'[i].draft = attempts'[j].draft =>
                                                     attempts'[i].key = attempts'[j].key
    <3>1. \A i \in DOMAIN attempts :
              attempts[i].draft = panel.draft => attempts[i].key = panel.key
      BY <1>1, <2>2 DEF SubmissionsInv, DraftsKeepKey
    <3>2. \A i, j \in DOMAIN attempts :
              attempts[i].draft = attempts[j].draft => attempts[i].key = attempts[j].key
      BY <2>2 DEF SubmissionsInv, DraftsKeepKey
    <3> QED BY <1>4, <1>6, <1>8, <3>1, <3>2
  <2> QED BY <1>1, <2>1, <2>2 DEF DraftsKeepKey
<1>18. KeysStoreOnce'
  <2>1. \A i \in Stored : attempts'[i] = attempts[i]
    BY <1>9 DEF Stored
  <2>2. ASSUME terms.key # "none", NEW i \in Stored, NEW j \in Stored,
               attempts'[i].key = attempts'[j].key
        PROVE  i = j
    <3>1. attempts[i].key = attempts[j].key
      BY <2>1, <2>2
    <3> QED BY <2>2, <3>1 DEF SubmissionsInv, KeysStoreOnce
  <2> QED BY <1>1, <1>10, <2>2 DEF KeysStoreOnce
<1>19. ToldIsShown'
  <2>1. \A i \in Stored : Succeeded(i)' = Succeeded(i)
    BY <1>10 DEF Stored
  <2> QED BY <1>1, <1>10, <2>1 DEF SubmissionsInv, ToldIsShown
<1> QED BY <1>11, <1>12, <1>13, <1>14, <1>15, <1>16, <1>17, <1>18, <1>19 DEF SubmissionsInv

(* The server taking a request keeps it: a key that stored replays. *)
LEMMA ServeKeeps ==
    ASSUME SubmissionsInv, NEW i \in DOMAIN attempts, Serve(i) PROVE SubmissionsInv'
<1>. DEFINE n == Len(attempts)
<1>1. /\ UNCHANGED <<form, terms, watched, panel, list>> /\ attempts[i].at = "sent"
      /\ attempts' = [attempts EXCEPT ![i].at = Verdict(i)]
  BY DEF Serve
<1>2. attempts \in Seq(Attempts)
  BY Basics
<1>3. Verdict(i) \in {"stored", "replayed", "refused"}
  BY DEF Verdict
<1>4. /\ attempts' \in Seq(Attempts) /\ Len(attempts') = Len(attempts)
      /\ DOMAIN attempts' = DOMAIN attempts
      /\ attempts'[i].at = Verdict(i)
      /\ \A j \in DOMAIN attempts : attempts'[j].at = attempts[j].at \/ j = i
      /\ \A j \in DOMAIN attempts :
             /\ attempts'[j].opening = attempts[j].opening
             /\ attempts'[j].draft = attempts[j].draft
             /\ attempts'[j].outcome = attempts[j].outcome
             /\ attempts'[j].key = attempts[j].key
             /\ attempts'[j].answer = attempts[j].answer
  <2>. DEFINE u == attempts'
              at == Verdict(i)
  <2>1. u = [attempts EXCEPT ![i].at = at] /\ at \in {"sent", "stored", "replayed", "refused"}
    BY <1>1, <1>3
  <2>. HIDE DEF at
  <2>2. AtBecomes(attempts, i, at, u)
    BY <1>2, <2>1, AttemptServed
  <2> QED BY <2>2 DEF AtBecomes, at
<1>5. ~Succeeded(i)
  BY <1>1 DEF SubmissionsInv, SuccessIsStored
<1>6. \A j \in DOMAIN attempts : Succeeded(j)' = Succeeded(j)
  BY <1>4 DEF Succeeded
<1>7. \A j \in Stored' : j \in Stored \/ (j = i /\ Verdict(i) = "stored")
  <2>1. Stored' = {j \in DOMAIN attempts' : attempts'[j].at = "stored"}
    BY DEF Stored
  <2> QED BY <1>4, <2>1 DEF Stored
<1>8. FormChosen' /\ NothingWatched'
  BY <1>1 DEF SubmissionsInv, FormChosen, NothingWatched
<1>9. Typed'
  BY <1>1, <1>4 DEF SubmissionsInv, Typed
<1>10. SuccessIsStored'
  BY <1>4, <1>5, <1>6 DEF SubmissionsInv, SuccessIsStored
<1>11. DraftsLetThrough'
  BY <1>1, <1>4 DEF SubmissionsInv, DraftsLetThrough
<1>12. FollowsItsOwn'
  <2>1. panel.follows # NoAttempt => panel.follows \in DOMAIN attempts
    BY Basics, PanelFields DEF NoAttempt
  <2> QED BY <1>1, <1>4, <2>1 DEF SubmissionsInv, FollowsItsOwn
<1>13. StaysForAnswer'
  BY <1>1, <1>4 DEF SubmissionsInv, StaysForAnswer
<1>14. DraftsKeepKey'
  BY <1>1, <1>4 DEF SubmissionsInv, DraftsKeepKey
<1>15. KeysStoreOnce'
  <2>1. ASSUME terms.key # "none", Verdict(i) = "stored", NEW j \in Stored
        PROVE  attempts[j].key # attempts[i].key
    BY <2>1 DEF Verdict, SameKey
  <2>2. Stored' \subseteq DOMAIN attempts
    BY <1>4 DEF Stored
  <2>3. ASSUME terms.key # "none", NEW j \in Stored', NEW k \in Stored',
               attempts'[j].key = attempts'[k].key
        PROVE  j = k
    <3>1. attempts[j].key = attempts[k].key
      BY <1>4, <2>2, <2>3
    <3> QED BY <1>7, <2>1, <2>3, <3>1 DEF SubmissionsInv, KeysStoreOnce
  <2> QED BY <1>1, <2>3 DEF KeysStoreOnce
<1>16. ToldIsShown'
  <2>1. \A j \in Stored' : Succeeded(j)' => j \in Stored /\ Succeeded(j)
    BY <1>4, <1>5, <1>6, <1>7 DEF Stored
  <2> QED BY <1>1, <2>1 DEF SubmissionsInv, ToldIsShown
<1> QED BY <1>8, <1>9, <1>10, <1>11, <1>12, <1>13, <1>14, <1>15, <1>16 DEF SubmissionsInv

\* What an answer does to the panel, by what closes it.
SettledAs(n, p, i, q) ==
    /\ q \in Panels(n) /\ q.draft = p.draft /\ q.outcome = p.outcome /\ q.opening = p.opening
    /\ q.open => p.open /\ q.key = p.key /\ q.follows = p.follows
    /\ ~q.open => \/ ~p.open /\ q.follows = p.follows
                  \/ q.follows = NoAttempt
                  \/ ~terms.resetsOnClose
    /\ q.follows \in {NoAttempt, p.follows}
    /\ \/ q = p
       \/ terms.closes = "caller" /\ p.follows = i
       \/ terms.closes \in {"hook", "fills"}

(* An answer leaves the panel alone, closes it or shows a result on it. *)
LEMMA SettledFields ==
    ASSUME NEW n \in Nat, NEW p \in Panels(n), NEW i \in 1 .. n
    PROVE  SettledAs(n, p, i, Settled(p, i))
<1>. DEFINE q == Closed(p)
            r == [p EXCEPT !.filled = i]
<1>1. /\ q.open = FALSE /\ q.opening = p.opening /\ q.draft = p.draft /\ q.outcome = p.outcome
      /\ q.follows = IF terms.resetsOnClose THEN NoAttempt ELSE p.follows
      /\ q \in Panels(n)
  BY ClosedFields
<1>2. /\ r.open = p.open /\ r.opening = p.opening /\ r.draft = p.draft /\ r.outcome = p.outcome
      /\ r.follows = p.follows /\ r.key = p.key
  BY DEF Panels
<1>3. r \in Panels(n)
  <2>1. i \in 0 .. n
    OBVIOUS
  <2> QED BY <2>1 DEF Panels
<1>4. \/ Settled(p, i) = q /\ (\/ terms.closes = "caller" /\ p.follows = i
                               \/ terms.closes \in {"hook", "fills"})
      \/ Settled(p, i) = r /\ terms.closes \in {"hook", "fills"}
      \/ Settled(p, i) = p
  BY DEF Settled
<1>5. p.open \in BOOLEAN
  BY PanelFields
<1>. HIDE DEF q, r
<1>6. ASSUME Settled(p, i) = q, \/ terms.closes = "caller" /\ p.follows = i
                                \/ terms.closes \in {"hook", "fills"}
      PROVE  SettledAs(n, p, i, q)
  BY <1>1, <1>6 DEF SettledAs
<1>7. ASSUME Settled(p, i) = r, terms.closes \in {"hook", "fills"}
      PROVE  SettledAs(n, p, i, r)
  BY <1>2, <1>3, <1>5, <1>7 DEF SettledAs
<1>8. SettledAs(n, p, i, p)
  BY <1>5 DEF SettledAs
<1> QED BY <1>4, <1>6, <1>7, <1>8

(* An answer leaves of the panel what the invariant needs. *)
LEMMA AnswerSettles ==
    ASSUME SubmissionsInv, NEW i \in DOMAIN attempts, Answer(i)
    PROVE  SettledAs(Len(attempts), panel, i, panel')
<1>1. panel \in Panels(Len(attempts)) /\ Len(attempts) \in Nat /\ i \in 1 .. Len(attempts)
  BY Basics
<1>2. panel' = Settled(panel, i) \/ panel' = panel
  BY DEF Answer
<1>3. SettledAs(Len(attempts), panel, i, Settled(panel, i))
  BY <1>1, SettledFields
<1>4. panel.open \in BOOLEAN
  BY <1>1, PanelFields
<1>5. SettledAs(Len(attempts), panel, i, panel)
  BY <1>1, <1>4 DEF SettledAs
<1> QED BY <1>2, <1>3, <1>5

(* Answering a request keeps the invariant. *)
LEMMA AnswerKeeps ==
    ASSUME SubmissionsInv, NEW i \in DOMAIN attempts, Answer(i) PROVE SubmissionsInv'
<1>1. UNCHANGED <<form, terms, watched>> /\ attempts[i].answer = "none"
  BY DEF Answer
<1>2. PICK answer \in {"success", "failure", "counted"} :
          /\ attempts' = [attempts EXCEPT ![i].answer = answer]
          /\ answer = "success" => /\ attempts[i].at \in {"stored", "replayed"}
                                   /\ list' = Invalidated(list)
          /\ list' \in {list, Invalidated(list)}
  <2>1. CASE /\ attempts[i].at \in {"stored", "replayed"} \/ terms.catches
             /\ attempts' = [attempts EXCEPT ![i].answer =
                   IF attempts[i].at \in {"stored", "replayed"} THEN "success" ELSE "counted"]
             /\ list' = Invalidated(list)
    <3>1. CASE attempts[i].at \in {"stored", "replayed"}
      <4>1. attempts' = [attempts EXCEPT ![i].answer = "success"]
        BY <2>1, <3>1
      <4> QED BY <2>1, <3>1, <4>1
    <3>2. CASE attempts[i].at \notin {"stored", "replayed"}
      <4>1. attempts' = [attempts EXCEPT ![i].answer = "counted"]
        BY <2>1, <3>2
      <4> QED BY <2>1, <4>1
    <3> QED BY <3>1, <3>2
  <2>2. CASE attempts' = [attempts EXCEPT ![i].answer = "failure"] /\ list' = list
    BY <2>2
  <2> QED BY <2>1, <2>2 DEF Answer
<1>3. AnswerBecomes(attempts, i, answer, attempts')
  <2>. DEFINE u == attempts'
  <2>1. u = [attempts EXCEPT ![i].answer = answer]
    BY <1>2
  <2> QED BY <2>1, Basics, AttemptAnswered
<1>4. /\ attempts' \in Seq(Attempts) /\ Len(attempts') = Len(attempts)
      /\ DOMAIN attempts' = DOMAIN attempts
      /\ attempts'[i].answer = answer
      /\ \A j \in DOMAIN attempts : attempts'[j].answer = attempts[j].answer \/ j = i
      /\ \A j \in DOMAIN attempts :
             /\ attempts'[j].opening = attempts[j].opening
             /\ attempts'[j].draft = attempts[j].draft
             /\ attempts'[j].outcome = attempts[j].outcome
             /\ attempts'[j].key = attempts[j].key
             /\ attempts'[j].at = attempts[j].at
  BY <1>3 DEF AnswerBecomes
<1>5. SettledAs(Len(attempts), panel, i, panel')
  BY AnswerSettles
<1>6. /\ panel' \in Panels(Len(attempts)) /\ panel'.draft = panel.draft
      /\ panel'.outcome = panel.outcome /\ panel'.opening = panel.opening
      /\ panel'.open => panel.open /\ panel'.key = panel.key /\ panel'.follows = panel.follows
      /\ ~panel'.open => \/ ~panel.open /\ panel'.follows = panel.follows
                         \/ panel'.follows = NoAttempt
                         \/ ~terms.resetsOnClose
      /\ panel'.follows \in {NoAttempt, panel.follows}
  BY <1>5 DEF SettledAs
<1>7. Stored' = Stored
  <2>1. Stored' = {j \in DOMAIN attempts' : attempts'[j].at = "stored"}
    BY DEF Stored
  <2> QED BY <1>4, <2>1 DEF Stored
<1>8. \A j \in DOMAIN attempts : Succeeded(j)' => Succeeded(j) \/ (j = i /\ answer = "success")
  BY <1>4 DEF Succeeded
<1>9. FormChosen'
  BY <1>1 DEF SubmissionsInv, FormChosen
<1>10. Typed'
  <2>1. list \in [has : BOOLEAN, raced : BOOLEAN, shows : SUBSET DOMAIN attempts,
                  stale : BOOLEAN, fetch : {"none", "asked", "read"},
                  reads : SUBSET DOMAIN attempts]
    BY DEF SubmissionsInv, Typed
  <2>2. Invalidated(list) \in [has : BOOLEAN, raced : BOOLEAN, shows : SUBSET DOMAIN attempts,
                               stale : BOOLEAN, fetch : {"none", "asked", "read"},
                               reads : SUBSET DOMAIN attempts]
    BY <2>1 DEF Invalidated
  <2> QED BY <1>2, <1>4, <1>6, <2>1, <2>2 DEF Typed
<1>11. SuccessIsStored'
  BY <1>2, <1>4, <1>8 DEF SubmissionsInv, SuccessIsStored
<1>12. DraftsLetThrough'
  BY <1>1, <1>4, <1>6 DEF SubmissionsInv, DraftsLetThrough
<1>13. FollowsItsOwn'
  <2>1. panel.follows # NoAttempt => panel.follows \in DOMAIN attempts
    BY Basics, PanelFields DEF NoAttempt
  <2>2. panel'.follows # NoAttempt => attempts'[panel'.follows].opening = panel'.opening
    BY <1>4, <1>6, <2>1 DEF SubmissionsInv, FollowsItsOwn
  <2>3. terms.resetsOnOpen \/ terms.resetsOnClose
    BY TermsKnown DEF SubmissionsInv
  <2>4. ~panel'.open /\ ~terms.resetsOnOpen => panel'.follows = NoAttempt
    BY <1>6, <2>3 DEF SubmissionsInv, FollowsItsOwn
  <2> QED BY <1>1, <2>2, <2>4 DEF FollowsItsOwn
<1>14. StaysForAnswer'
  <2>1. ASSUME terms.blocks, terms.waits, NEW j \in DOMAIN attempts', attempts'[j].answer = "none"
        PROVE  FALSE
    <3>1. j \in DOMAIN attempts /\ attempts[j].answer = "none"
      BY <1>2, <1>4, <2>1
    <3>2. panel.follows = j /\ panel.follows = i
      BY <1>1, <2>1, <3>1 DEF SubmissionsInv, StaysForAnswer
    <3> QED BY <1>2, <1>4, <2>1, <3>2
  <2> QED BY <1>1, <2>1 DEF StaysForAnswer
<1>15. DraftsKeepKey'
  BY <1>1, <1>4, <1>6 DEF SubmissionsInv, DraftsKeepKey
<1>16. KeysStoreOnce'
  <2>1. Stored \subseteq DOMAIN attempts
    BY DEF Stored
  <2> QED BY <1>1, <1>4, <1>7, <2>1 DEF SubmissionsInv, KeysStoreOnce
<1>17. ToldIsShown' /\ NothingWatched'
  <2>1. Stored \subseteq DOMAIN attempts
    BY DEF Stored
  <2>2. list \in [has : BOOLEAN, raced : BOOLEAN, shows : SUBSET DOMAIN attempts,
                  stale : BOOLEAN, fetch : {"none", "asked", "read"},
                  reads : SUBSET DOMAIN attempts]
    BY DEF SubmissionsInv, Typed
  <2>3. CASE list' = list /\ (answer # "success" \/ watched \notin terms.refetches)
    <3>1. NothingWatched'
      BY <1>1, <2>3 DEF SubmissionsInv, NothingWatched
    <3>2. watched \in terms.refetches => \A j \in Stored : Succeeded(j)' => Succeeded(j)
      BY <1>8, <2>1, <2>3
    <3> QED BY <1>1, <1>7, <2>3, <3>1, <3>2 DEF SubmissionsInv, ToldIsShown
  <2>4. CASE list' = Invalidated(list) /\ watched \in terms.refetches
    <3>1. /\ list'.stale /\ list'.has = list.has
          /\ list'.raced = (~list.has /\ list.fetch # "none")
          /\ list'.fetch = IF list.has /\ list.fetch # "none" THEN "asked" ELSE list.fetch
      BY <2>2, <2>4 DEF Invalidated
    <3>2. list'.fetch = "read" => list'.raced /\ ~list'.has
      BY <3>1
    <3>3. ToldIsShown'
      BY <3>1, <3>2 DEF ToldIsShown
    <3>4. NothingWatched'
      BY <1>1, <3>1 DEF SubmissionsInv, NothingWatched
    <3> QED BY <3>3, <3>4
  <2>5. watched \notin terms.refetches => Invalidated(list) = list
    BY DEF Invalidated
  <2> QED BY <1>2, <2>3, <2>4, <2>5
<1> QED BY <1>9, <1>10, <1>11, <1>12, <1>13, <1>14, <1>15, <1>16, <1>17 DEF SubmissionsInv

\* The lists a client may have.
ClientLists ==
    [has : BOOLEAN, raced : BOOLEAN, shows : SUBSET DOMAIN attempts, stale : BOOLEAN,
     fetch : {"none", "asked", "read"}, reads : SUBSET DOMAIN attempts]

(* What is left alone by a step of the list. *)
LEMMA ListSteps ==
    ASSUME SubmissionsInv, UNCHANGED <<form, terms, watched, panel, attempts>>
    PROVE  /\ FormChosen' /\ SuccessIsStored' /\ DraftsLetThrough' /\ FollowsItsOwn'
           /\ StaysForAnswer' /\ DraftsKeepKey' /\ KeysStoreOnce'
           /\ list' \in ClientLists => Typed'
           /\ Stored' = Stored /\ \A i : Succeeded(i)' = Succeeded(i)
<1>1. Stored' = Stored /\ \A i : Succeeded(i)' = Succeeded(i)
  BY DEF Stored, Succeeded
<1>2. FormChosen' /\ DraftsLetThrough' /\ FollowsItsOwn'
  BY DEF SubmissionsInv, FormChosen, DraftsLetThrough, FollowsItsOwn
<1>3. StaysForAnswer' /\ DraftsKeepKey'
  BY DEF SubmissionsInv, StaysForAnswer, DraftsKeepKey
<1>4. SuccessIsStored' /\ KeysStoreOnce'
  BY <1>1 DEF SubmissionsInv, SuccessIsStored, KeysStoreOnce
<1>5. list' \in ClientLists => Typed'
  BY DEF SubmissionsInv, Typed, ClientLists
<1> QED BY <1>1, <1>2, <1>3, <1>4, <1>5

(* Loading, reading and receiving the list, or failing to, keeps it. *)
LEMMA ListKeeps ==
    ASSUME SubmissionsInv, AskList \/ ReadList \/ ListArrives \/ ListFails PROVE SubmissionsInv'
<1>1. UNCHANGED <<form, terms, watched, panel, attempts>>
  BY DEF AskList, ReadList, ListArrives, ListFails
<1>2. list \in ClientLists
  BY DEF SubmissionsInv, Typed, ClientLists
<1>3. Stored \subseteq DOMAIN attempts
  BY DEF Stored
<1>4. /\ watched = NoList => ~list.has /\ list.fetch = "none"
      /\ watched \in terms.refetches => \A i \in Stored : Succeeded(i) =>
             /\ list.has /\ ~list.stale => i \in list.shows \/ list.raced
             /\ list.fetch = "read" => i \in list.reads \/ (list.raced /\ ~list.has)
  BY DEF SubmissionsInv, NothingWatched, ToldIsShown
<1>5. Stored' = Stored /\ \A i : Succeeded(i)' = Succeeded(i)
  BY <1>1, ListSteps
<1>6. ASSUME list' \in ClientLists,
             watched = NoList => ~list'.has /\ list'.fetch = "none",
             watched \in terms.refetches => \A i \in Stored : Succeeded(i) =>
                 /\ list'.has /\ ~list'.stale => i \in list'.shows \/ list'.raced
                 /\ list'.fetch = "read" => i \in list'.reads \/ (list'.raced /\ ~list'.has)
      PROVE  SubmissionsInv'
  <2>1. ToldIsShown' /\ NothingWatched'
    BY <1>1, <1>5, <1>6 DEF ToldIsShown, NothingWatched
  <2> QED BY <1>1, <1>6, <2>1, ListSteps DEF SubmissionsInv
<1>7. CASE AskList
  <2>1. list' = [list EXCEPT !.fetch = "asked"] /\ watched # NoList
    BY <1>7 DEF AskList
  <2>2. /\ list' \in ClientLists /\ list'.has = list.has /\ list'.stale = list.stale
        /\ list'.raced = list.raced /\ list'.shows = list.shows /\ list'.fetch = "asked"
    BY <1>2, <2>1 DEF ClientLists
  <2> QED BY <1>4, <1>6, <2>1, <2>2
<1>8. CASE ReadList
  <2>1. list' = [list EXCEPT !.fetch = "read", !.reads = Stored] /\ list.fetch = "asked"
    BY <1>8 DEF ReadList
  <2>2. /\ list' \in ClientLists /\ list'.has = list.has /\ list'.stale = list.stale
        /\ list'.raced = list.raced /\ list'.shows = list.shows /\ list'.fetch = "read"
        /\ list'.reads = Stored
    BY <1>2, <1>3, <2>1 DEF ClientLists
  <2>3. watched # NoList
    BY <1>4, <2>1
  <2> QED BY <1>4, <1>6, <2>2, <2>3
<1>9. CASE ListArrives
  <2>1. /\ list.fetch = "read"
        /\ list' = [has |-> TRUE, raced |-> list.raced /\ ~list.has, shows |-> list.reads,
                    stale |-> FALSE, fetch |-> "none", reads |-> {}]
    BY <1>9 DEF ListArrives
  <2>2. /\ list'.shows = list.reads /\ list'.raced = (list.raced /\ ~list.has)
        /\ list'.fetch = "none"
    BY <2>1
  <2>3. list' \in ClientLists
    BY <1>2, <2>1 DEF ClientLists
  <2>4. watched # NoList
    BY <1>4, <2>1
  <2> QED BY <1>4, <1>6, <2>1, <2>2, <2>3, <2>4
<1>10. CASE ListFails
  <2>1. list' = [list EXCEPT !.fetch = "none", !.reads = {}]
    BY <1>10 DEF ListFails
  <2>2. /\ list' \in ClientLists /\ list'.has = list.has /\ list'.stale = list.stale
        /\ list'.raced = list.raced /\ list'.shows = list.shows /\ list'.fetch = "none"
    BY <1>2, <2>1 DEF ClientLists
  <2> QED BY <1>4, <1>6, <2>2
<1> QED BY <1>7, <1>8, <1>9, <1>10

(* The invariant holds at the start. *)
LEMMA InitInvariant == ASSUME Init PROVE SubmissionsInv
<1>1. /\ attempts = <<>> /\ form \in Names /\ terms = ClientForms[form]
      /\ watched \in terms.affects \cup {NoList}
      /\ panel = [open |-> FALSE, opening |-> 0, draft |-> 0, outcome |-> "taken",
                  key |-> 0, follows |-> NoAttempt, filled |-> NoAttempt]
      /\ list = [has |-> FALSE, raced |-> FALSE, shows |-> {}, stale |-> FALSE,
                 fetch |-> "none", reads |-> {}]
  BY DEF Init
<1>2. /\ attempts \in Seq(Attempts) /\ DOMAIN attempts = {} /\ Len(attempts) = 0
  BY <1>1
<1>3. Stored = {}
  BY <1>2 DEF Stored
<1>4. /\ ~panel.open /\ panel.follows = NoAttempt
      /\ ~list.has /\ list.fetch = "none"
  BY <1>1
<1>5. panel \in Panels(Len(attempts))
  BY <1>1, <1>2, SubmissionsConstants DEF Panels, Results, NoAttempt
<1>6. list \in ClientLists
  BY <1>1 DEF ClientLists
<1>7. FormChosen
  BY <1>1 DEF FormChosen
<1>8. Typed
  BY <1>2, <1>5, <1>6 DEF Typed, ClientLists
<1>9. SuccessIsStored /\ DraftsLetThrough /\ FollowsItsOwn
  BY <1>2, <1>4 DEF SuccessIsStored, DraftsLetThrough, FollowsItsOwn
<1>10. StaysForAnswer /\ DraftsKeepKey
  BY <1>2 DEF StaysForAnswer, DraftsKeepKey
<1>11. KeysStoreOnce /\ ToldIsShown /\ NothingWatched
  BY <1>3, <1>4 DEF KeysStoreOnce, ToldIsShown, NothingWatched
<1> QED BY <1>7, <1>8, <1>9, <1>10, <1>11 DEF SubmissionsInv

(* A step that changes nothing keeps it. *)
LEMMA StutterKeeps == ASSUME SubmissionsInv, UNCHANGED vars PROVE SubmissionsInv'
<1>1. /\ UNCHANGED <<form, terms, watched, attempts, list>> /\ panel' = panel
      /\ UNCHANGED <<form, terms, watched, panel, attempts>>
  BY DEF vars
<1>2. panel' \in Panels(Len(attempts))
  BY <1>1, Basics
<1>3. /\ FormChosen' /\ SuccessIsStored' /\ KeysStoreOnce' /\ ToldIsShown' /\ NothingWatched'
      /\ Typed'
  BY <1>1, <1>2, PanelSteps
<1>4. DraftsLetThrough' /\ FollowsItsOwn' /\ StaysForAnswer' /\ DraftsKeepKey'
  BY <1>1, ListSteps
<1> QED BY <1>3, <1>4 DEF SubmissionsInv

-----------------------------------------------------------------------------
(* Results *)

(* Whatever the form, what is typed into it and when the server takes and   *)
(* answers its requests, the inductive invariant holds.                     *)
THEOREM SubmissionsInvariant == Spec => []SubmissionsInv
<1>1. Init => SubmissionsInv
  BY InitInvariant
<1>2. SubmissionsInv /\ [Next]_vars => SubmissionsInv'
  <2>1. ASSUME SubmissionsInv, NEW i \in DOMAIN attempts, Serve(i) \/ Answer(i)
        PROVE  SubmissionsInv'
    BY <2>1, ServeKeeps, AnswerKeeps
  <2> QED BY <2>1, OpenKeeps, EditKeeps, ChooseModeKeeps, SubmitKeeps, CloseKeeps, ListKeeps,
             StutterKeeps DEF Next
<1> QED BY <1>1, <1>2, PTL DEF Spec

(* The panel, the requests and the list have their types, and no request is *)
(* told to have succeeded that the server did not store.                    *)
THEOREM SubmissionsTyped == Spec => []SubmissionsTypeOK
<1>1. SubmissionsInv => SubmissionsTypeOK
  <2>. SUFFICES ASSUME SubmissionsInv PROVE SubmissionsTypeOK
    OBVIOUS
  <2>1. FormKnown(form, terms)
    BY TermsKnown DEF SubmissionsInv
  <2>2. terms.affects \subseteq Lists
    BY <2>1 DEF FormKnown, ListsKnown
  <2>3. form \in Names /\ watched \in Lists \cup {NoList}
    BY <2>2 DEF SubmissionsInv, FormChosen
  <2>4. panel \in Panels(Len(attempts))
    BY Basics
  <2>5. \A a \in Attempts : /\ a.at \in {"sent", "stored", "replayed", "refused"}
                            /\ a.answer \in {"none", "success", "failure", "counted"}
    BY DEF Attempts
  <2>6. \A i \in DOMAIN attempts :
            /\ attempts[i].at \in {"sent", "stored", "replayed", "refused"}
            /\ attempts[i].answer \in {"none", "success", "failure", "counted"}
    BY <2>5, Basics
  <2>7. \A i \in DOMAIN attempts : Succeeded(i) => attempts[i].at \in {"stored", "replayed"}
    BY DEF SubmissionsInv, SuccessIsStored
  <2>8. list \in [has : BOOLEAN, raced : BOOLEAN, shows : SUBSET DOMAIN attempts,
                  stale : BOOLEAN, fetch : {"none", "asked", "read"},
                  reads : SUBSET DOMAIN attempts]
    BY DEF SubmissionsInv, Typed
  <2> QED BY <2>3, <2>4, <2>6, <2>7, <2>8 DEF SubmissionsTypeOK, Panels, Results
<1> QED BY <1>1, SubmissionsInvariant, PTL

(* A draft submitted again after its answer was lost is stored once, unless *)
(* its form carries no key or renews it.                                    *)
THEOREM DraftsStoredOnce == Spec => []DraftStoredOnce
<1>1. SubmissionsInv => DraftStoredOnce
  <2>. SUFFICES ASSUME SubmissionsInv, NEW i \in Stored, NEW j \in Stored,
                       i # j, terms.kind = "create", attempts[i].draft = attempts[j].draft,
                       form \notin Unkeyed \cup RenewsKey
                PROVE  FALSE
    BY DEF DraftStoredOnce
  <2>1. KeyKnown(form, terms.kind, terms.key)
    BY TermsKnown DEF SubmissionsInv, FormKnown
  <2>2. terms.key \in {"opening", "closing"}
    BY <2>1 DEF KeyKnown, Keys
  <2>3. i \in DOMAIN attempts /\ j \in DOMAIN attempts
    BY DEF Stored
  <2>4. attempts[i].key = attempts[j].key
    BY <2>2, <2>3 DEF SubmissionsInv, DraftsKeepKey
  <2> QED BY <2>2, <2>4 DEF SubmissionsInv, KeysStoreOnce
<1> QED BY <1>1, SubmissionsInvariant, PTL

(* The error on an open panel is of a request sent from that opening. *)
THEOREM ErrorsOfThisOpening == Spec => []ErrorsAreOfThisOpening
<1>1. SubmissionsInv => ErrorsAreOfThisOpening
  BY DEF SubmissionsInv, FollowsItsOwn, ErrorsAreOfThisOpening
<1> QED BY <1>1, SubmissionsInvariant, PTL

(* A list that counts as fresh has what the client was told was stored: the *)
(* exceptions are named, form by form.                                      *)
THEOREM ListsAreTrue == Spec => []FreshListsAreTrue
<1>1. SubmissionsInv => FreshListsAreTrue
  <2>. SUFFICES ASSUME SubmissionsInv, list.has, ~list.stale, NEW i \in Stored,
                       i \notin list.shows, Succeeded(i), ~list.raced
                PROVE  <<form, watched>> \in Forgotten
    BY DEF FreshListsAreTrue
  <2>1. ListsKnown(form, terms.affects, terms.refetches)
    BY TermsKnown DEF SubmissionsInv, FormKnown
  <2>2. watched # NoList
    BY DEF SubmissionsInv, NothingWatched
  <2>3. watched \in terms.affects
    BY <2>2 DEF SubmissionsInv, FormChosen
  <2>4. watched \notin terms.refetches
    BY DEF SubmissionsInv, ToldIsShown
  <2> QED BY <2>1, <2>3, <2>4 DEF ListsKnown
<1> QED BY <1>1, SubmissionsInvariant, PTL

(* What a form lets a person submit is stored, and as the panel showed it:  *)
(* the exceptions are named, form by form.                                  *)
THEOREM SubmittedStored == Spec => []SubmittedIsStored
<1>1. SubmissionsInv => SubmittedIsStored
  <2>. SUFFICES ASSUME SubmissionsInv, NEW i \in DOMAIN attempts
                PROVE  /\ attempts[i].outcome = "invalid" => form \in Unchecked
                       /\ attempts[i].outcome = "misread" => form \in Lenient
    BY DEF SubmittedIsStored
  <2>1. OutcomesKnown(form, terms.outcomes)
    BY TermsKnown DEF SubmissionsInv, FormKnown
  <2>2. attempts[i].outcome \in terms.outcomes
    BY DEF SubmissionsInv, DraftsLetThrough
  <2> QED BY <2>1, <2>2 DEF OutcomesKnown, AllTaken, AllShown
<1> QED BY <1>1, SubmissionsInvariant, PTL

(* An answer to a request of an earlier opening neither closes the panel    *)
(* nor shows its result on it, but for the forms whose success handlers act *)
(* on the panel whatever it shows.                                          *)
THEOREM LateAnswersKept == Spec => LateAnswersKeepOut
<1>. DEFINE KeepsOut == \A i \in DOMAIN attempts :
                            (attempts'[i].answer # attempts[i].answer
                               /\ attempts[i].opening # panel.opening
                               /\ form \notin Intruders)
                            => panel' = panel
<1>1. SubmissionsInv /\ [Next]_vars => [KeepsOut]_vars
  <2>. SUFFICES ASSUME SubmissionsInv, Next, NEW i \in DOMAIN attempts,
                       attempts'[i].answer # attempts[i].answer,
                       attempts[i].opening # panel.opening, form \notin Intruders
                PROVE  panel' = panel
    OBVIOUS
  <2>1. CASE Open \/ Edit \/ ChooseMode \/ Close \/ AskList \/ ReadList \/ ListArrives \/ ListFails
    BY <2>1 DEF Open, Edit, ChooseMode, Close, AskList, ReadList, ListArrives, ListFails
  <2>2. CASE Submit
    <3>. DEFINE a == [opening |-> panel.opening, draft |-> panel.draft,
                      outcome |-> panel.outcome, key |-> panel.key, at |-> "sent",
                      answer |-> "none"]
    <3>1. attempts' = Append(attempts, a)
      BY <2>2 DEF Submit
    <3>. HIDE DEF a
    <3>2. attempts'[i] = attempts[i]
      BY <3>1, Basics
    <3> QED BY <3>2
  <2>3. CASE \E j \in DOMAIN attempts : Serve(j)
    BY <2>3 DEF Serve
  <2>4. ASSUME NEW j \in DOMAIN attempts, Answer(j) PROVE panel' = panel
    <3>1. SettledAs(Len(attempts), panel, j, panel')
      BY <2>4, AnswerSettles
    <3>2. j = i /\ attempts[i].answer = "none"
      <4>1. \E answer : attempts' = [attempts EXCEPT ![j].answer = answer]
        BY <2>4 DEF Answer
      <4>2. j # i => attempts'[i] = attempts[i]
        BY <4>1
      <4> QED BY <2>4, <4>2 DEF Answer
    <3>3. panel.follows # i
      <4>1. i # NoAttempt
        BY Basics DEF NoAttempt
      <4> QED BY <4>1 DEF SubmissionsInv, FollowsItsOwn
    <3>4. terms.closes \notin {"hook", "fills"}
      <4>1. FormKnown(form, terms)
        BY TermsKnown DEF SubmissionsInv
      <4>2. terms.closes # "fills"
        BY <4>1 DEF FormKnown, PanelKnown, ActsOnItsOwn
      <4>3. terms.closes = "hook" => terms.blocks /\ terms.waits
        BY <4>1 DEF FormKnown, PanelKnown, ActsOnItsOwn
      <4>4. ~(terms.blocks /\ terms.waits)
        BY <3>2, <3>3 DEF SubmissionsInv, StaysForAnswer
      <4> QED BY <4>2, <4>3, <4>4
    <3> QED BY <3>1, <3>2, <3>3, <3>4 DEF SettledAs
  <2> QED BY <2>1, <2>2, <2>3, <2>4 DEF Next
<1> QED BY <1>1, SubmissionsInvariant, PTL DEF Spec, LateAnswersKeepOut, KeepsOut
=============================================================================
