------------------------------ MODULE Savings ------------------------------
(***************************************************************************)
(* Savings goals and their allocations, on top of the ledger               *)
(* (backend/internal/store/savings_goals.go, savings_allocations.go,       *)
(* migrations 00016, 00017 and 00020).                                     *)
(*                                                                         *)
(* A goal keeps a running amount; every change of it is an allocation row  *)
(* that says in which account the money is.  Allocations, releases and     *)
(* reallocations assign money an account has; saving moves money between   *)
(* accounts and assigns it, so it writes a ledger transaction too, which   *)
(* nobody may edit while the allocation refers to it.  As in Ledger, a     *)
(* method that succeeds is one action, and a replay or a refused request   *)
(* is a stuttering step.  Contribute has no route any more: the rows it    *)
(* made are legacy rows here.                                              *)
(*                                                                         *)
(* Left out: names, dates, sort order, the kind of an allocation (it        *)
(* follows from the other fields where a replay compares it), and the       *)
(* receipts of created goals, which work as those of transactions.         *)
(***************************************************************************)
EXTENDS Ledger

CONSTANTS
    Goals,              \* goal ids
    Targets,            \* target amounts a request may carry
    Portions,           \* amounts a request may assign, move or release
    LegacyGoals,        \* goals that predate the allocations
    AllocationIds       \* ids of allocation rows; nobody refers to one, so a
                        \* deleted row's may serve again

GoalRows == [amount: Cents \cap Nat, target: Cents \cap (Nat \ {0}),
             account: Accounts \cup {None}, completed: BOOLEAN]

AllocationRows == [goal: Goals, account: Accounts \cup {None}, amount: Cents \ {0},
                   key: Keys \cup {None}, transaction: Ids \cup {None}]

ASSUME SavingsConstants ==
    /\ Targets \subseteq Cents \cap (Nat \ {0})
    /\ Portions \subseteq Cents \ {0}
    /\ LegacyGoals \subseteq Goals
    /\ IsFiniteSet(AllocationIds)
    /\ Unset \notin Accounts
    /\ {Fresh, Deleted} \cap (GoalRows \cup AllocationRows) = {}

VARIABLES
    goals,              \* savings_goals rows
    allocations,        \* savings_goal_allocations rows; Fresh: no row has the id
    effects             \* history: how often each keyed request took effect

savingsVars == <<vars, goals, allocations, effects>>

-----------------------------------------------------------------------------
(* The requests that carry a key *)
KeyedRequests ==
    [kind: {"save"}, key: Keys, goal: Goals, from: Accounts, account: Accounts,
     amount: Portions]
    \cup [kind: {"allocate"}, key: Keys, goal: Goals, account: Accounts, amount: Portions]
    \cup [kind: {"reallocate"}, key: Keys, from: Goals, goal: Goals, account: Accounts,
          amount: Portions]

SavingsTypeOK ==
    /\ goals \in [Goals -> GoalRows \cup {Fresh, Deleted}]
    /\ allocations \in [AllocationIds -> AllocationRows \cup {Fresh}]
    /\ effects \in [KeyedRequests -> Nat]

LiveGoal(g) == goals[g] \notin {Fresh, Deleted}

(* The rows there are, and the sums the queries take over some of them *)
Stored == {i \in AllocationIds : allocations[i] # Fresh}

OfGoal(g)    == {i \in Stored : allocations[i].goal = g}
OfAccount(a) == {i \in Stored : allocations[i].account = a}

Sum(wanted) ==
    Total([i \in AllocationIds |-> IF i \in wanted THEN allocations[i].amount ELSE 0])

(* Fault: a request is not looked up by its key, and the index on it is missing. *)
KeyIgnored(k) == FALSE

(* The partial unique index on the key of an allocation. *)
KeyUsed(k) == \E i \in Stored : allocations[i].key = k

(* validateSavingsCurrency, and the trigger on each inserted row *)
OneCurrency(c) ==
    \A i \in Stored :
        allocations[i].account # None => accounts[allocations[i].account].currency = c

(* Fault: only the column's width is checked. *)
MovableBelowZero(g, delta) == goals[g].amount + delta \in Cents

(* applySavingsGoalDelta: the amount stays in bigint and is not negative. *)
Movable(g, delta) == goals[g].amount + delta \in Cents \cap Nat

(* Fault: the target is reached only when the target changes. *)
MovedUncompleted(row, delta, preferred) ==
    [row EXCEPT !.amount = @ + delta, !.account = IF @ = None THEN preferred ELSE @]

Moved(row, delta, preferred) ==
    [row EXCEPT !.amount = @ + delta,
                !.completed = row.amount + delta >= row.target,
                !.account = IF @ = None THEN preferred ELSE @]

Row(g, a, n, k, t) ==
    [goal |-> g, account |-> a, amount |-> n, key |-> k, transaction |-> t]

Free(i) == allocations[i] = Fresh

Counted(r) == effects' = [effects EXCEPT ![r] = @ + 1]

-----------------------------------------------------------------------------
(* SavingsGoalRepository *)

CreateGoal(g, target, a) ==
    /\ goals[g] = Fresh
    /\ a # None => AccountExists(a)
    /\ goals' = [goals EXCEPT ![g] =
           [amount |-> 0, target |-> target, account |-> a, completed |-> FALSE]]
    /\ UNCHANGED <<vars, allocations, effects>>

UpdateGoal(g, target, a) ==
    /\ LiveGoal(g)
    /\ a \in Accounts => AccountExists(a)
    /\ goals' = [goals EXCEPT ![g] =
           [amount    |-> @.amount,
            target    |-> Patched(target, @.target),
            account   |-> Patched(a, @.account),
            completed |-> IF target = Unset THEN @.completed ELSE @.amount >= target]]
    /\ UNCHANGED <<vars, allocations, effects>>

(* Fault: any debit account does. *)
HoldsUntracked(a) == AccountExists(a) /\ AccountType[a] = "debit"

(* Only a tracked debit account holds savings. *)
Holds(a) == AccountType[a] = "debit" /\ Tracked(a)

SavedTransfer(from, a, n) ==
    [type |-> "transfer", account |-> from, dest |-> a, amount |-> n,
     affects |-> TRUE, statement |-> None]

(* Save: a transfer into the account, and the goal's share of it. *)
Save(i, t, k, g, from, a, n) ==
    LET x == SavedTransfer(from, a, n)
    IN  /\ Free(i) /\ transactions[t] = Fresh
        /\ Holds(from) /\ Holds(a)
        /\ LiveGoal(g)
        /\ ~KeyTaken(k)
        /\ Acceptable(x) /\ InRange(NoEntries, Posted(x))
        /\ OneCurrency(accounts[a].currency)
        /\ Movable(g, n)
        /\ transactions' = [transactions EXCEPT ![t] =
               [shape |-> x, key |-> k, owner |-> "managed"]]
        /\ entries' = [entries EXCEPT ![t] = Posted(x)]
        /\ accounts' = Replace(NoEntries, Posted(x))
        /\ allocations' = [allocations EXCEPT ![i] = Row(g, a, n, None, t)]
        /\ goals' = [goals EXCEPT ![g] = Moved(@, n, a)]
        /\ Counted([kind |-> "save", key |-> k, goal |-> g, from |-> from,
                    account |-> a, amount |-> n])
        /\ UNCHANGED <<audit, statements, receipts, openingLimit>>

(* Allocate assigns what the account has left; a negative amount releases what *)
(* the goal has there.                                                         *)
Allocate(i, k, g, a, n) ==
    LET allocated == Sum(OfAccount(a))
        share     == Sum(OfAccount(a) \cap OfGoal(g))
    IN  /\ Free(i)
        /\ Holds(a)
        /\ OneCurrency(accounts[a].currency)
        /\ LiveGoal(g)
        /\ ~KeyUsed(k)
        /\ allocated \in Cents /\ share \in Cents
        /\ IF n > 0 THEN n <= Wrap(accounts[a].value - allocated) ELSE Wrap(-n) <= share
        /\ Movable(g, n)
        /\ allocations' = [allocations EXCEPT ![i] = Row(g, a, n, k, None)]
        /\ goals' = [goals EXCEPT ![g] = Moved(@, n, a)]
        /\ Counted([kind |-> "allocate", key |-> k, goal |-> g, account |-> a, amount |-> n])
        /\ UNCHANGED vars

Reallocate(i, j, k, g, h, a, n) ==
    LET share == Sum(OfAccount(a) \cap OfGoal(g))
    IN  /\ i # j /\ Free(i) /\ Free(j)
        /\ g # h /\ n > 0
        /\ Holds(a)
        /\ OneCurrency(accounts[a].currency)
        /\ LiveGoal(g) /\ LiveGoal(h)
        /\ ~KeyUsed(k)
        /\ share \in Cents /\ n <= share
        /\ Movable(g, -n) /\ Movable(h, n)
        /\ allocations' = [allocations EXCEPT ![i] = Row(g, a, -n, k, None),
                                             ![j] = Row(h, a, n, None, None)]
        /\ goals' = [goals EXCEPT ![g] = Moved(@, -n, None), ![h] = Moved(@, n, a)]
        /\ Counted([kind |-> "reallocate", key |-> k, from |-> g, goal |-> h,
                    account |-> a, amount |-> n])
        /\ UNCHANGED vars

(* The allocations go with the goal; the transfers it was saved with stay, and *)
(* belong to the user again.                                                   *)
DeleteGoal(g) ==
    /\ LiveGoal(g)
    /\ goals' = [goals EXCEPT ![g] = Deleted]
    /\ allocations' = [i \in AllocationIds |-> IF i \in OfGoal(g) THEN Fresh ELSE allocations[i]]
    /\ transactions' = [t \in Ids |->
           IF \E i \in OfGoal(g) : allocations[i].transaction = t
           THEN [transactions[t] EXCEPT !.owner = "user"]
           ELSE transactions[t]]
    /\ UNCHANGED <<accounts, entries, audit, statements, receipts, openingLimit, effects>>

-----------------------------------------------------------------------------
(* The operations of the ledger, where savings meet them *)

(* Fault: the currency of any account may be patched. *)
PatchableAlways(a) == TRUE

(* An account that holds allocations keeps its currency. *)
CurrencyPatchable(a) == OfAccount(a) = {}

PatchAccount(a, p) ==
    /\ p.currency # Unset => CurrencyPatchable(a)
    /\ UpdateAccount(a, p)
    /\ UNCHANGED <<goals, allocations, effects>>

(* Fault: the allocations go with the account. *)
Cascaded(a) ==
    [i \in AllocationIds |-> IF i \in OfAccount(a) THEN Fresh ELSE allocations[i]]

(* The foreign key is set to NULL: the money stays the goal's. *)
Orphaned(a) ==
    [i \in AllocationIds |-> IF i \in OfAccount(a) THEN [allocations[i] EXCEPT !.account = None]
                             ELSE allocations[i]]

RemoveAccount(a) ==
    /\ DeleteAccount(a)
    /\ goals' = [g \in Goals |-> IF LiveGoal(g) /\ goals[g].account = a
                                 THEN [goals[g] EXCEPT !.account = None] ELSE goals[g]]
    /\ allocations' = Orphaned(a)
    /\ UNCHANGED effects

OtherLedgerStep ==
    /\ \/ TransactionStep
       \/ \E a \in Accounts :
              \/ \E c \in Currencies, v \in Counts, l \in Limits \cup {None} :
                     CreateAccount(a, c, v, l)
              \/ \E v \in Counts : EnableBalanceTracking(a, v) \/ ReconcileBalance(a, v)
              \/ \E s \in Statements : ConfirmStatement(s, a)
    /\ UNCHANGED <<goals, allocations, effects>>

(* What the backfill and the contributions of earlier versions leave of one   *)
(* goal: an opening row with its amount, then perhaps one on an account it     *)
(* was linked to later.                                                       *)
LegacyAllocation(g) ==
    [goal: {g}, account: LegacyAccounts \cup {None}, amount: Portions, key: {None},
     transaction: {None}]

SavingsInit ==
    /\ Init
    /\ LET empty == [i \in AllocationIds |-> Fresh]
       IN  \/ allocations = empty
           \/ \E g \in LegacyGoals, i \in AllocationIds : \E r \in LegacyAllocation(g) :
                  /\ r.amount > 0
                  /\ \/ allocations = [empty EXCEPT ![i] = r]
                     \/ \E j \in AllocationIds \ {i} : \E s \in LegacyAllocation(g) :
                            allocations = [empty EXCEPT ![i] = r, ![j] = s]
    /\ \A i \in Stored : allocations[i].account # None =>
           OneCurrency(accounts[allocations[i].account].currency)
    /\ \A g \in Goals : Sum(OfGoal(g)) \in Cents \cap Nat
    /\ \E n \in Targets, a \in LegacyAccounts \cup {None} :
           goals = [g \in Goals |-> IF OfGoal(g) = {} THEN Fresh ELSE
               [amount |-> Sum(OfGoal(g)), target |-> n, account |-> a,
                completed |-> Sum(OfGoal(g)) >= n]]
    /\ effects = [r \in KeyedRequests |-> 0]

GoalStep ==
    \E g \in Goals :
        \/ \E n \in Targets, a \in Accounts \cup {None} : CreateGoal(g, n, a)
        \/ \E n \in Targets \cup {Unset}, a \in Accounts \cup {None, Unset} :
               UpdateGoal(g, n, a)
        \/ \E i \in AllocationIds, k \in Keys, a \in Accounts, n \in Portions :
               \/ \E t \in Ids, from \in Accounts : Save(i, t, k, g, from, a, n)
               \/ Allocate(i, k, g, a, n)
               \/ \E j \in AllocationIds, h \in Goals : Reallocate(i, j, k, g, h, a, n)
        \/ DeleteGoal(g)

SavingsNext ==
    \/ GoalStep
    \/ OtherLedgerStep
    \/ \E a \in Accounts : (\E p \in Patches : PatchAccount(a, p)) \/ RemoveAccount(a)

SavingsSpec == SavingsInit /\ [][SavingsNext]_savingsVars

-----------------------------------------------------------------------------
(* Properties *)

(* The running amount of a goal is the sum of its allocation rows, whatever    *)
(* was saved, assigned, released, moved or orphaned by the removal            *)
(* of an account (each method writes the two separately).                      *)
GoalsSumAllocations ==
    \A g \in Goals : LiveGoal(g) => goals[g].amount = Sum(OfGoal(g))

(* docs/api-contract.md: completion is derived after every create, patch and    *)
(* contribution: a goal is completed exactly when it has reached its target.   *)
CompletionDerived ==
    \A g \in Goals : LiveGoal(g) =>
        (goals[g].completed <=> goals[g].amount >= goals[g].target)

(* All accounts that hold allocations have one currency, across allocations,   *)
(* patches of currencies, and removals.                                        *)
AllocationsShareCurrency ==
    \A i \in Stored : allocations[i].account # None =>
        OneCurrency(accounts[allocations[i].account].currency)

(* An allocation that was saved is backed: the transfer into its account, of   *)
(* its amount, is still there and still in the ledger of both accounts         *)
(* (transfers created by saving cannot be edited or deleted on their own).     *)
SavedTransfersBacked ==
    \A i \in Stored : allocations[i].transaction # None =>
        LET t == allocations[i].transaction
        IN  /\ Live(t) /\ Shape(t).type = "transfer"
            /\ Shape(t).dest = allocations[i].account
            /\ Shape(t).amount = allocations[i].amount
            /\ \A a \in Involved(Shape(t)) : entries[t][a] # 0

(* docs/api-contract.md: replays never repeat side effects.  However often a    *)
(* keyed request is sent, before or after its rows were deleted, it takes       *)
(* effect once.                                                                 *)
OncePerRequest == \A r \in KeyedRequests : effects[r] <= 1
=============================================================================
