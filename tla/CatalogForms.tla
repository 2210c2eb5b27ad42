---------------------------- MODULE CatalogForms ----------------------------
(* The panels of the categories and of the rules, and the switch of a rule. *)
EXTENDS Forms

\* A name is asked of a category; the kind of an existing one is fixed, and
\* an icon is always sent.
CategoryDrafts == [name : BOOLEAN, kind : {"expense", "income"},
                   icon : {"", "Paw"}, edits : BOOLEAN]
CategoryComplete(d) == d.name
IconSent(d) == IF d.icon = "" THEN "Tag" ELSE d.icon
CategoryTaken(d) ==
    d.name /\ d.kind \in {"expense", "income"} /\ IconSent(d) # ""
CategoryOutcomes == {Outcome(CategoryTaken(d), TRUE) :
                        d \in {x \in CategoryDrafts : CategoryComplete(x)}}

CategoryPanel == Panel(TRUE, TRUE, FALSE, "caller")
CategoryQueries == {"categories", "dashboard"}

CreateCategory == Form(CategoryPanel, "create", "none", {"categories"},
                       CategoryQueries, CategoryOutcomes)
UpdateCategory == Form(CategoryPanel, "write", "none", {"categories"},
                       CategoryQueries, CategoryOutcomes)

\* Budgets and rules go with their category.  Its subcategories keep it, and so
\* do movements, purchases and recurring rules that use it: their key would
\* lose the user along with the category, and the user may not be null.
RemovedWithCategory == {"categories", "budgets", "rules"}
CategoryReferences ==
    SUBSET {"categories", "budgets", "rules", "transactions", "msi", "recurring"}
DeletableCategory(references) ==
    references \cap {"categories", "transactions", "msi", "recurring"} = {}
CategoryRemovals ==
    {Outcome(DeletableCategory(r), TRUE) : r \in CategoryReferences}
DeleteCategory ==
    Form(Panel(TRUE, TRUE, FALSE, "caller"), "once", "none",
         RemovedWithCategory, CategoryQueries, CategoryRemovals)

-----------------------------------------------------------------------------
(* Rules                                                                    *)

RuleDrafts == [value : BOOLEAN, category : BOOLEAN]
RuleComplete(d) == d.value /\ d.category
RuleTaken(d) == d.value /\ d.category
RuleOutcomes == {Outcome(RuleTaken(d), TRUE) :
                    d \in {x \in RuleDrafts : RuleComplete(x)}}

RulePanel == Panel(TRUE, TRUE, FALSE, "caller")
CreateRule == Form(RulePanel, "create", "none", {"rules"}, {"rules"},
                   RuleOutcomes)

\* The switch, on the page itself, flips the rule each time it is pressed, and
\* may be pressed again before the answer.
ToggleRule == [Form(Panel(TRUE, TRUE, FALSE, "never"), "create", "none",
                    {"rules"}, {"rules"}, {"taken"}) EXCEPT !.waits = FALSE]
=============================================================================
