---------------------------- MODULE Submissions ----------------------------
(* A person uses one form of the client: opens its panel, edits, submits,  *)
(* closes it and opens it again, while requests and answers are lost or    *)
(* late, and a list of the client that shows what the form writes is       *)
(* loaded and refetched.                                                   *)
EXTENDS AccountForms, EntryForms, PlanForms, LoanForms, CardForms, CatalogForms

CONSTANTS MaxOpenings,  \* bound: times the panel is opened
          MaxAttempts,  \* bound: requests sent
          MaxEdits      \* bound: times a draft is changed

ASSUME SubmissionsConstants ==
    MaxOpenings \in Nat \ {0} /\ MaxAttempts \in Nat /\ MaxEdits \in Nat

ClientForms ==
    [CreateAccount |-> CreateAccount, UpdateAccount |-> UpdateAccount,
     DeleteAccount |-> DeleteAccount, UpdateMSI |-> UpdateMSI,
     DeleteMSI |-> DeleteMSI, AddTransaction |-> AddTransaction,
     EditTransaction |-> EditTransaction,
     RemoveTransaction |-> RemoveTransaction, AddPurchase |-> AddPurchase,
     QuickTransaction |-> QuickTransaction, QuickPurchase |-> QuickPurchase,
     QuickAccount |-> QuickAccount,
     DashboardTransaction |-> DashboardTransaction,
     DashboardPurchase |-> DashboardPurchase,
     DashboardAccount |-> DashboardAccount, CreateGoal |-> CreateGoal,
     UpdateGoal |-> UpdateGoal, DeleteGoal |-> DeleteGoal,
     SaveToGoal |-> SaveToGoal, ManageGoal |-> ManageGoal,
     CreateBudget |-> CreateBudget, UpdateBudget |-> UpdateBudget,
     DeleteBudget |-> DeleteBudget, CreateRecurring |-> CreateRecurring,
     UpdateRecurring |-> UpdateRecurring, DeleteRecurring |-> DeleteRecurring,
     ProcessRecurring |-> ProcessRecurring, CreateLoan |-> CreateLoan,
     EditLoan |-> EditLoan, DeleteLoan |-> DeleteLoan, PayLoan |-> PayLoan,
     ExtraPayment |-> ExtraPayment, ReconcileLoan |-> ReconcileLoan,
     UndoLoan |-> UndoLoan, ConfirmStatement |-> ConfirmStatement,
     PayCard |-> PayCard, ActivateTracking |-> ActivateTracking,
     ReconcileDebt |-> ReconcileDebt, ApplyStatement |-> ApplyStatement,
     SaveStatement |-> SaveStatement, ReconcileYield |-> ReconcileYield,
     UndoYield |-> UndoYield, CreateCategory |-> CreateCategory,
     UpdateCategory |-> UpdateCategory, DeleteCategory |-> DeleteCategory,
     CreateRule |-> CreateRule, ToggleRule |-> ToggleRule]

Names == DOMAIN ClientForms

VARIABLES
    form,      \* the name of the form in use
    terms,     \* what ClientForms says of it
    watched,   \* a list its writes make out of date, or NoList
    panel,     \* open, opening, draft, outcome, key, follows, filled
    attempts,  \* the requests sent: opening, draft, outcome, key, at, answer
    list       \* what the client has of the watched list
vars == <<form, terms, watched, panel, attempts, list>>

NoList == "no list"

NoAttempt == 0
Stored == {i \in DOMAIN attempts : attempts[i].at = "stored"}
Succeeded(i) == attempts[i].answer = "success"
Pending == panel.follows # NoAttempt /\ attempts[panel.follows].answer = "none"

-----------------------------------------------------------------------------
(* The panel.  follows is the request whose progress and error it shows,    *)
(* filled the one whose result it shows.                                    *)

Opened(p, outcome) ==
    [p EXCEPT !.open = TRUE, !.opening = @ + 1, !.draft = @ + 1,
              !.outcome = outcome,
              !.key = IF terms.key \in {"opening", "mode"} THEN @ + 1 ELSE @,
              !.follows = IF terms.resetsOnOpen THEN NoAttempt ELSE @]

Closed(p) ==
    [p EXCEPT !.open = FALSE,
              !.key = IF terms.key = "closing" THEN @ + 1 ELSE @,
              !.follows = IF terms.resetsOnClose THEN NoAttempt ELSE @,
              !.filled = IF terms.resetsOnClose THEN NoAttempt ELSE @]

Init ==
    /\ form \in Names
    /\ terms = ClientForms[form]
    /\ watched \in terms.affects \cup {NoList}
    /\ panel = [open |-> FALSE, opening |-> 0, draft |-> 0, outcome |-> "taken",
                key |-> 0, follows |-> NoAttempt, filled |-> NoAttempt]
    /\ attempts = <<>>
    /\ list = [has |-> FALSE, raced |-> FALSE, shows |-> {}, stale |-> FALSE,
               fetch |-> "none", reads |-> {}]

\* A list is watched through one opening; the panels are exercised without.
OpeningsLeft ==
    panel.opening < IF watched = NoList THEN MaxOpenings ELSE 1

Open ==
    /\ ~panel.open /\ OpeningsLeft
    /\ \E outcome \in terms.outcomes : panel' = Opened(panel, outcome)
    /\ UNCHANGED <<form, terms, watched, attempts, list>>

EditsLeft ==
    watched = NoList /\ panel.draft < panel.opening + MaxEdits

\* Of the form with modes, an edit may choose one, which renews the key.
Edit ==
    /\ panel.open /\ ~Pending /\ EditsLeft
    /\ \E outcome \in terms.outcomes,
          key \in {panel.key} \cup (IF terms.key = "mode" THEN {panel.key + 1}
                                    ELSE {}) :
          panel' = [panel EXCEPT !.draft = @ + 1, !.outcome = outcome, !.key = key]
    /\ UNCHANGED <<form, terms, watched, attempts, list>>

\* Choosing the same mode again, with the draft as it is.
ChooseMode ==
    /\ panel.open /\ ~Pending /\ terms.key = "mode"
    /\ panel.key < MaxAttempts
    /\ panel' = [panel EXCEPT !.key = @ + 1]
    /\ UNCHANGED <<form, terms, watched, attempts, list>>

Submit ==
    /\ panel.open
    /\ terms.waits => ~Pending
    /\ Len(attempts) < MaxAttempts
    /\ attempts' = Append(attempts,
          [opening |-> panel.opening, draft |-> panel.draft,
           outcome |-> panel.outcome, key |-> panel.key, at |-> "sent",
           answer |-> "none"])
    /\ panel' = [panel EXCEPT !.follows = Len(attempts) + 1]
    /\ UNCHANGED <<form, terms, watched, list>>

Close ==
    /\ panel.open
    /\ terms.blocks => ~Pending
    /\ panel' = Closed(panel)
    /\ UNCHANGED <<form, terms, watched, attempts, list>>

-----------------------------------------------------------------------------
(* The server takes a request, in any order and even after the client gave  *)
(* it up.  A key already used replays what it stored, or conflicts with it. *)

(* Fault: a key is kept with the answer, not with the row. *)
KeyOfAnswered(i) ==
    {j \in Stored : attempts[j].key = attempts[i].key /\ Succeeded(j)}

SameKey(i) ==
    IF terms.key = "none" THEN {}
    ELSE {j \in Stored : attempts[j].key = attempts[i].key}

Verdict(i) ==
    IF SameKey(i) # {}
    THEN IF \E j \in SameKey(i) : attempts[j].draft = attempts[i].draft
         THEN "replayed" ELSE "refused"
    ELSE IF \/ attempts[i].outcome = "invalid"
            \/ terms.kind = "once" /\ Stored # {}
    THEN "refused" ELSE "stored"

Serve(i) ==
    /\ attempts[i].at = "sent"
    /\ attempts' = [attempts EXCEPT ![i].at = Verdict(i)]
    /\ UNCHANGED <<form, terms, watched, panel, list>>

-----------------------------------------------------------------------------
(* Answers                                                                  *)

\* A success invalidates the lists the form names: one that has data is
\* fetched again, its fetch under way dropped; a first load goes on, which
\* raced notes.
(* Fault: a fetch under way is joined, not dropped. *)
JoinedFetch(l) ==
    IF watched \in terms.refetches /\ l.fetch = "none"
    THEN [l EXCEPT !.stale = TRUE] ELSE l

Invalidated(l) ==
    IF watched \in terms.refetches
    THEN [l EXCEPT !.stale = TRUE,
                   !.raced = ~l.has /\ l.fetch # "none",
                   !.fetch = IF l.has /\ l.fetch # "none" THEN "asked" ELSE @,
                   !.reads = IF l.has THEN {} ELSE @]
    ELSE l

\* The caller's callback runs only while the panel follows the request.
Settled(p, i) ==
    CASE terms.closes = "caller" /\ p.follows = i -> Closed(p)
      [] terms.closes = "hook" -> Closed(p)
      [] terms.closes = "fills" -> [p EXCEPT !.filled = i]
      [] OTHER -> p

(* Fault: success is reported as soon as the request is sent. *)
AnswerAtOnce(i) ==
    /\ attempts[i].answer = "none"
    /\ attempts' = [attempts EXCEPT ![i].answer = "success"]
    /\ panel' = Settled(panel, i)
    /\ list' = Invalidated(list)
    /\ UNCHANGED <<form, terms, watched>>

Answer(i) ==
    /\ attempts[i].answer = "none"
    /\ \/ /\ attempts[i].at \in {"stored", "replayed"} \/ terms.catches
          /\ attempts' = [attempts EXCEPT ![i].answer =
                IF attempts[i].at \in {"stored", "replayed"} THEN "success"
                ELSE "counted"]
          /\ panel' = Settled(panel, i)
          /\ list' = Invalidated(list)
       \/ \* Refused, or lost on the way there or back.
          /\ ~terms.catches
          /\ attempts' = [attempts EXCEPT ![i].answer = "failure"]
          /\ UNCHANGED <<panel, list>>
    /\ UNCHANGED <<form, terms, watched>>

-----------------------------------------------------------------------------
(* The watched list                                                         *)

\* Asked for when a page first shows it, and again once invalidated.
AskList ==
    /\ watched # NoList /\ list.fetch = "none"
    /\ ~list.has \/ list.stale
    /\ list' = [list EXCEPT !.fetch = "asked"]
    /\ UNCHANGED <<form, terms, watched, panel, attempts>>

ReadList ==
    /\ list.fetch = "asked"
    /\ list' = [list EXCEPT !.fetch = "read", !.reads = Stored]
    /\ UNCHANGED <<form, terms, watched, panel, attempts>>

ListArrives ==
    /\ list.fetch = "read"
    /\ list' = [has |-> TRUE, raced |-> list.raced /\ ~list.has,
                shows |-> list.reads, stale |-> FALSE, fetch |-> "none",
                reads |-> {}]
    /\ UNCHANGED <<form, terms, watched, panel, attempts>>

ListFails ==
    /\ list.fetch # "none"
    /\ list' = [list EXCEPT !.fetch = "none", !.reads = {}]
    /\ UNCHANGED <<form, terms, watched, panel, attempts>>

Next ==
    \/ Open \/ Edit \/ ChooseMode \/ Submit \/ Close
    \/ \E i \in DOMAIN attempts : Serve(i) \/ Answer(i)
    \/ AskList \/ ReadList \/ ListArrives \/ ListFails

Spec == Init /\ [][Next]_vars

-----------------------------------------------------------------------------
(* Properties                                                               *)

\* The variables have their shapes: the panel follows and shows requests that
\* were sent, and no request is answered with success that was not stored.
SubmissionsTypeOK ==
    /\ form \in Names /\ watched \in Lists \cup {NoList}
    /\ panel \in [open : BOOLEAN, opening : 0 .. MaxOpenings, draft : Nat,
                  outcome : {"taken", "misread", "invalid"}, key : Nat,
                  follows : 0 .. Len(attempts), filled : 0 .. Len(attempts)]
    /\ \A i \in DOMAIN attempts :
          /\ attempts[i].at \in {"sent", "stored", "replayed", "refused"}
          /\ attempts[i].answer \in {"none", "success", "failure", "counted"}
          /\ Succeeded(i) => attempts[i].at \in {"stored", "replayed"}
    /\ list \in [has : BOOLEAN, raced : BOOLEAN, shows : SUBSET DOMAIN attempts,
                 stale : BOOLEAN, fetch : {"none", "asked", "read"},
                 reads : SUBSET DOMAIN attempts]

\* Forms whose requests carry no key, and the one that renews it when a mode is
\* chosen.
Unkeyed == {"CreateAccount", "QuickAccount", "DashboardAccount",
            "AddTransaction", "QuickTransaction", "DashboardTransaction",
            "CreateGoal", "CreateBudget", "CreateRecurring", "CreateCategory",
            "CreateRule", "ToggleRule"}
RenewsKey == {"ManageGoal"}

\* A draft submitted again after an answer was lost is stored once: requests
\* of the same draft, however late the server takes them, add one row.  Only
\* the forms without a key, and the savings panel when a mode is chosen in
\* between, can store it twice.
DraftStoredOnce ==
    \A i, j \in Stored :
        (i # j /\ terms.kind = "create" /\ attempts[i].draft = attempts[j].draft)
            => form \in Unkeyed \cup RenewsKey

\* Forms whose success handlers act on the panel whatever it shows by then.
Intruders == {"ConfirmStatement", "PayCard", "ReconcileDebt", "ApplyStatement",
              "SaveStatement"}

\* An answer to a request of an earlier opening leaves the panel as it is: it
\* neither closes the draft being typed nor shows its result there.
LateAnswersKeepOut ==
    [][\A i \in DOMAIN attempts :
          (attempts'[i].answer # attempts[i].answer
             /\ attempts[i].opening # panel.opening
             /\ form \notin Intruders)
          => panel' = panel]_vars

\* The error on a panel is of a request sent since it was opened.
ErrorsAreOfThisOpening ==
    (panel.open /\ panel.follows # NoAttempt
       /\ attempts[panel.follows].answer = "failure")
    => attempts[panel.follows].opening = panel.opening

\* Forms and lists they write to and do not refetch: what is booked on debit
\* accounts shows in the savings overview; a row may take others with it.
Forgotten ==
    ({"AddTransaction", "QuickTransaction", "DashboardTransaction",
      "EditTransaction", "RemoveTransaction", "ApplyStatement", "PayCard",
      "PayLoan", "ExtraPayment", "UndoLoan", "ProcessRecurring",
      "UpdateRecurring", "UpdateAccount"} \X {"overview"})
    \cup ({"DeleteAccount"} \X {"transactions", "msi", "recurring", "goals",
                                "overview", "yields"})
    \cup ({"DeleteCategory"} \X {"budgets", "rules"})
    \cup {<<"DeleteGoal", "yields">>}

\* A list that counts as fresh has every change the client was told of, unless
\* the form is known not to refetch it or a first load raced the answer.
FreshListsAreTrue ==
    (list.has /\ ~list.stale /\ list.fetch = "none")
    => \A i \in Stored \ list.shows :
          Succeeded(i) => list.raced \/ <<form, watched>> \in Forgotten

\* Forms that submit what the server then refuses, though the panel was filled
\* in from lists that are up to date: ends of an account number, limits and
\* caps, instalments under a cent, instalments of before the card was tracked,
\* dates nobody checks, movements other features manage, rows that others refer
\* to, transfers between currencies, more than is unallocated, shared or owed,
\* cards out of use or without a limit, statements due before their cut, yields
\* spent or reallocated since, accounts that can no longer hold savings or pay
\* a loan.
Unchecked == {"CreateAccount", "UpdateAccount", "QuickAccount",
              "DashboardAccount", "DeleteAccount", "UpdateMSI",
              "AddPurchase", "QuickPurchase", "DashboardPurchase",
              "AddTransaction", "QuickTransaction", "DashboardTransaction",
              "EditTransaction", "RemoveTransaction", "DeleteCategory",
              "SaveToGoal", "ManageGoal",
              "CreateLoan", "EditLoan", "PayLoan", "ExtraPayment",
              "ReconcileLoan", "ConfirmStatement", "ActivateTracking",
              "SaveStatement", "ReconcileYield", "UndoYield"}

\* Forms that read an amount through toCents and no stricter pattern, whose
\* requests leave out what the panel shows, or send an account it does not show.
Lenient == {"CreateAccount", "UpdateAccount", "QuickAccount",
            "DashboardAccount", "UpdateMSI", "AddPurchase", "QuickPurchase",
            "DashboardPurchase", "AddTransaction", "QuickTransaction",
            "DashboardTransaction", "EditTransaction", "CreateGoal",
            "UpdateGoal", "SaveToGoal", "ManageGoal", "CreateBudget",
            "UpdateBudget", "CreateRecurring", "UpdateRecurring", "CreateLoan",
            "EditLoan", "PayLoan", "ExtraPayment", "ReconcileLoan"}

\* What a form lets a person submit from lists that are up to date, the server
\* takes, and stores as the panel showed it, unless the form is one of those
\* named above.  Drafts are as Forms describes them: a row another session has
\* removed meanwhile, an amount too large for a number of JavaScript or for
\* the balance's column and a year of five digits are not among them.
SubmittedIsStored ==
    \A i \in DOMAIN attempts :
        /\ attempts[i].outcome = "invalid" => form \in Unchecked
        /\ attempts[i].outcome = "misread" => form \in Lenient
=============================================================================
