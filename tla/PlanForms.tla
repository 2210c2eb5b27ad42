----------------------------- MODULE PlanForms -----------------------------
(* The panels of the pages that plan: savings goals, budgets and recurring *)
(* expenses, and the start-up call that books what fell due.               *)
EXTENDS Forms

-----------------------------------------------------------------------------
(* Savings goals                                                            *)

\* What a goal's target must look like: a number once everything but digits,
\* point and minus is dropped.
IsValidAmountInput(text) == text \notin {"", "abc"}

GoalDrafts == [name : BOOLEAN, target : Texts]

\* An edit that changes nothing closes the panel and sends nothing.
GoalComplete(d) ==
    d.name /\ IsValidAmountInput(d.target) /\ ToCents[d.target] > 0

GoalTaken(d) == d.name /\ ToCents[d.target] > 0

GoalOutcomes == {Outcome(GoalTaken(d), AsTyped(d.target)) :
                    d \in {x \in GoalDrafts : GoalComplete(x)}}

(* Fault: the panel forgets to drop the last mutation. *)
GoalPanelKept == Panel(FALSE, FALSE, FALSE, "caller")

GoalPanel == Panel(TRUE, TRUE, FALSE, "caller")
GoalQueries == {"goals", "overview", "dashboard"}

CreateGoal == Form(GoalPanel, "create", "none", {"goals"}, GoalQueries,
                   GoalOutcomes)
UpdateGoal == Form(GoalPanel, "write", "none", {"goals"}, GoalQueries,
                   GoalOutcomes)

\* Deleting a goal takes its allocations with it, those of yields included.
DeleteGoal == Form(Panel(TRUE, TRUE, FALSE, "caller"), "once", "none",
                   {"goals", "allocations", "shares"}, GoalQueries, {"taken"})

\* The accounts the panels of savings list, and the ones they do not: those
\* put out of use, and those that no longer can hold savings.
SavingsAccounts == {"", "a", "b"}
Unlisted == {"inactive", "unsuited"}

\* Saving: both accounts are chosen among the listed ones, also by openSave;
\* they are alike when of one currency, and inCurrency when it is also that of
\* what is saved already.
SaveDrafts == [amount : Texts, source : SavingsAccounts,
               destination : SavingsAccounts, date : BOOLEAN,
               alike : BOOLEAN, inCurrency : BOOLEAN]

SaveComplete(d) == /\ ToCents[d.amount] > 0
                   /\ "" \notin {d.source, d.destination}
                   /\ d.source # d.destination
                   /\ d.date

SaveTaken(d) ==
    /\ ToCents[d.amount] > 0 /\ d.source # d.destination /\ d.source # "" /\ d.date
    /\ d.alike /\ d.inCurrency

SaveOutcomes == {Outcome(SaveTaken(d), AsTyped(d.amount)) :
                    d \in {x \in SaveDrafts : SaveComplete(x)}}

SavePanel == Panel(TRUE, TRUE, FALSE, "caller")
SaveToGoal == Form(SavePanel, "create", "opening",
                   {"goals", "allocations"} \cup Booked,
                   GoalQueries \cup {"accounts", "transactions"}, SaveOutcomes)

\* Assigning, releasing, moving: openManage starts from the account of the
\* goal, listed or not, and sends it unless another is chosen.  Of that
\* account's balance so much is unallocated, so much the share of the goal.
ManageDrafts == [mode : {"assign", "release", "reallocate"}, amount : Texts,
                 account : SavingsAccounts \cup Unlisted, target : BOOLEAN,
                 date : BOOLEAN, inCurrency : BOOLEAN,
                 unallocated : {0, 500}, share : {0, 500}]

ManageComplete(d) == /\ ToCents[d.amount] > 0
                     /\ d.account # ""
                     /\ d.date
                     /\ d.mode = "reallocate" => d.target

\* The server assigns no more than is unallocated, releases and moves no more
\* than the share.
WithinReach(d) ==
    ToCents[d.amount] <= (IF d.mode = "assign" THEN d.unallocated ELSE d.share)

\* A release is sent as a negative amount.
ManageTaken(d) ==
    LET amount == IF d.mode = "release" THEN -ToCents[d.amount]
                  ELSE ToCents[d.amount]
    IN  /\ IF d.mode = "reallocate" THEN amount > 0 /\ d.target ELSE amount # 0
        /\ d.account # "unsuited" /\ d.inCurrency
        /\ WithinReach(d)

ManageOutcomes ==
    {Outcome(ManageTaken(d), AsTyped(d.amount) /\ d.account \notin Unlisted) :
        d \in {x \in ManageDrafts : ManageComplete(x)}}

\* Opening the panel renews the key, and so does choosing a mode.
ManagePanel == Panel(TRUE, TRUE, FALSE, "caller")
ManageGoal == Form(ManagePanel, "create", "mode", {"goals", "allocations"},
                   GoalQueries, ManageOutcomes)

-----------------------------------------------------------------------------
(* Budgets                                                                  *)

BudgetDrafts == [limit : Texts, period : {"weekly", "monthly", "yearly"}]
BudgetComplete(d) == ToCents[d.limit] > 0
BudgetTaken(d) ==
    ToCents[d.limit] > 0 /\ d.period \in {"weekly", "monthly", "yearly"}

BudgetOutcomes == {Outcome(BudgetTaken(d), AsTyped(d.limit)) :
                      d \in {x \in BudgetDrafts : BudgetComplete(x)}}

BudgetPanel == Panel(TRUE, TRUE, FALSE, "caller")
BudgetQueries == {"budgets", "dashboard"}

CreateBudget == Form(BudgetPanel, "create", "none", {"budgets"},
                     BudgetQueries, BudgetOutcomes)
UpdateBudget == Form(BudgetPanel, "write", "none", {"budgets"},
                     BudgetQueries, BudgetOutcomes)
DeleteBudget == Form(Panel(TRUE, TRUE, FALSE, "caller"), "once", "none",
                     {"budgets"}, BudgetQueries, {"taken"})

-----------------------------------------------------------------------------
(* Recurring expenses                                                       *)

RecurringDrafts == [account : BOOLEAN, description : BOOLEAN, amount : Texts,
                    start : BOOLEAN]
RecurringComplete(d) ==
    d.account /\ d.description /\ ToCents[d.amount] > 0 /\ d.start
RecurringTaken(d) ==
    d.account /\ d.description /\ ToCents[d.amount] > 0 /\ d.start

RecurringOutcomes == {Outcome(RecurringTaken(d), AsTyped(d.amount)) :
                         d \in {x \in RecurringDrafts : RecurringComplete(x)}}

RecurringPanel == Panel(TRUE, TRUE, FALSE, "caller")

CreateRecurring == Form(RecurringPanel, "create", "none", {"recurring"},
                        {"recurring"}, RecurringOutcomes)
\* An update first books what fell due under the old terms.
UpdateRecurring ==
    Form(RecurringPanel, "write", "none", {"recurring"} \cup Booked,
         {"recurring", "transactions", "accounts", "dashboard"},
         RecurringOutcomes)
DeleteRecurring == Form(Panel(TRUE, TRUE, FALSE, "caller"), "once", "none",
                        {"recurring"}, {"recurring"}, {"taken"})

\* Sent by itself when a session starts; what fell due is booked once.
ProcessRecurring ==
    Form(Panel(TRUE, TRUE, FALSE, "never"), "write", "none",
         {"recurring"} \cup Booked,
         {"transactions", "dashboard", "accounts", "recurring"}, {"taken"})
=============================================================================
