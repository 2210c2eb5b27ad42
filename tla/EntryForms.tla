----------------------------- MODULE EntryForms -----------------------------
(* The panels a movement is entered in: the one of the movements page, and *)
(* the quick ones of the dashboard and of every page, which also take a    *)
(* purchase in instalments or a new account.                               *)
EXTENDS AccountForms

-----------------------------------------------------------------------------
(* A movement                                                               *)

TransactionTypes == {"expense", "income", "transfer"}

\* What may stand in the form.  A destination is asked of a transfer alone,
\* and is offered in any currency ("alike" says it is that of the account).
\* An edit starts from a movement of some type ("was"), a transfer to "b",
\* which may pay a statement of the card "b".
EntryDrafts == [type : TransactionTypes, amount : Texts, date : BOOLEAN,
                description : BOOLEAN, account : {"", "a"},
                destination : {"", "a", "b"}, alike : BOOLEAN]
EditDrafts ==
    {d \in [type : TransactionTypes, amount : Texts, date : {TRUE},
            description : {TRUE}, account : {"a"}, destination : {"", "a", "b"},
            alike : BOOLEAN, was : TransactionTypes,
            merchant : {"kept", "cleared"}, managed : BOOLEAN,
            statement : BOOLEAN, tracked : BOOLEAN] :
        d.statement => d.was = "transfer"}

EntryComplete(d) ==
    /\ ToCents[d.amount] > 0
    /\ d.date /\ d.description /\ d.account # ""
    /\ d.type = "transfer" => d.destination \notin {"", d.account}

\* The shape the handler and the store ask of a movement.
ValidShape(type, amount, account, destination) ==
    /\ amount > 0 /\ account # ""
    /\ IF type = "transfer" THEN destination \notin {"", account}
       ELSE destination = ""

SentDestination(d) == IF d.type = "transfer" THEN d.destination ELSE ""

\* A transfer between currencies is turned down by the store, not the form.
EntryTaken(d) ==
    /\ ValidShape(d.type, ToCents[d.amount], d.account, SentDestination(d))
    /\ d.type = "transfer" => d.alike

EntryOutcomes ==
    {Outcome(EntryTaken(d), AsTyped(d.amount)) :
        d \in {x \in EntryDrafts : EntryComplete(x)}}

\* A patch leaves out what is blank, and what it leaves out stays: the
\* destination of a movement that was a transfer, a merchant that was cleared.
PatchedDestination(d) ==
    IF SentDestination(d) # "" THEN SentDestination(d)
    ELSE IF d.was = "transfer" THEN "b" ELSE ""

\* A movement that belongs to a loan, a goal or a yield is changed from there,
\* and one that pays a statement stays a transfer to its card, both accounts
\* tracked; the page offers the panel all the same.
EditTaken(d) ==
    /\ ~d.managed
    /\ ValidShape(d.type, ToCents[d.amount], d.account, PatchedDestination(d))
    /\ d.type = "transfer" => d.alike
    /\ d.statement => /\ d.type = "transfer" /\ PatchedDestination(d) = "b"
                      /\ d.tracked

EditOutcomes ==
    {Outcome(EditTaken(d),
             AsTyped(d.amount) /\ (d.type # "transfer" => d.merchant = "kept")) :
        d \in {x \in EditDrafts : EntryComplete(x)}}

\* The panel of the page stays while a request is under way.
EntryPanel == Panel(TRUE, TRUE, TRUE, "caller")
TransactionQueries == {"transactions", "dashboard", "accounts"}

AddTransaction == Form(EntryPanel, "create", "none", Booked, TransactionQueries,
                       EntryOutcomes)
EditTransaction == Form(EntryPanel, "write", "none", Booked, TransactionQueries,
                        EditOutcomes)

RemovalPanel == Panel(TRUE, TRUE, TRUE, "caller")
RemoveTransaction == Form(RemovalPanel, "once", "none", Booked,
                          TransactionQueries, {"taken", "invalid"})

-----------------------------------------------------------------------------
(* A purchase in instalments, from the same form: offered for expenses, on  *)
(* tracked cards                                                            *)

PurchaseDrafts == [amount : Texts, months : Counts, tracked : BOOLEAN]
PurchaseComplete(d) ==
    ToCents[d.amount] > 0 /\ d.months \in 2 .. 60 /\ d.tracked
PurchaseOutcomes ==
    {Outcome(MSITaken(ToCents[d.amount], d.months), AsTyped(d.amount)) :
        d \in {x \in PurchaseDrafts : PurchaseComplete(x)}}

\* Opening the page's panel drops the movement's mutation, not the purchase's;
\* closing drops both and renews the key.
PurchasePanel == Panel(FALSE, TRUE, TRUE, "caller")
AddPurchase == Form(PurchasePanel, "create", "closing", {"msi"} \cup BookedOnCard,
                    MSIQueries, PurchaseOutcomes)

-----------------------------------------------------------------------------
(* The quick panels, of every page and of the dashboard                     *)

\* They close while a request is under way.
QuickPanel == Panel(FALSE, TRUE, FALSE, "caller")
DashboardPanel == Panel(FALSE, TRUE, FALSE, "caller")

QuickTransaction == Form(QuickPanel, "create", "none", Booked,
                         TransactionQueries, EntryOutcomes)
QuickPurchase == Form(QuickPanel, "create", "closing", {"msi"} \cup BookedOnCard,
                      MSIQueries, PurchaseOutcomes)

\* An account by its name, its type and one amount, a card's limit.
QuickDrafts == [name : BOOLEAN, type : {"debit", "credit"}, amount : Texts]
QuickOutcomes ==
    {Outcome(d.type = "credit" => ToCents[d.amount] >= 0, AsTyped(d.amount)) :
        d \in {x \in QuickDrafts : x.name}}
QuickAccount == Form(QuickPanel, "create", "none", {"accounts"},
                     AccountQueries, QuickOutcomes)

DashboardTransaction == Form(DashboardPanel, "create", "none", Booked,
                             TransactionQueries, EntryOutcomes)
DashboardPurchase == Form(DashboardPanel, "create", "closing",
                          {"msi"} \cup BookedOnCard, MSIQueries, PurchaseOutcomes)
DashboardAccount == Form(DashboardPanel, "create", "none", {"accounts"},
                         AccountQueries, QuickOutcomes)
=============================================================================
