--------------------------- MODULE SavingsProofs ---------------------------
(* Theorems about Savings, for every set of goals, allocation rows, accounts   *)
(* and keys, every amount and every width of bigint.                           *)
EXTENDS Savings, LedgerProofs

(* The foreign keys of an allocation: its goal exists, and so does the account *)
(* it names.                                                                   *)
ReferencesExist ==
    \A i \in Stored : /\ LiveGoal(allocations[i].goal)
                      /\ allocations[i].account # None => AccountExists(allocations[i].account)

(* The transfer t that Save wrote for row i, in nobody else's hands: managed,  *)
(* no statement payment, and in the ledger of both accounts.                   *)
Backs(t, i) ==
    /\ Live(t) /\ transactions[t].owner = "managed"
    /\ Shape(t).type = "transfer" /\ Shape(t).statement = None
    /\ Shape(t).dest = allocations[i].account
    /\ Shape(t).amount = allocations[i].amount
    /\ \A a \in Involved(Shape(t)) : entries[t][a] # 0

(* What a saved allocation refers to backs it, and no other allocation. *)
SavedTransfersOwned ==
    /\ \A i \in Stored, t \in Ids : allocations[i].transaction = t => Backs(t, i)
    /\ \A i, j \in Stored :
           allocations[i].transaction = allocations[j].transaction
           /\ allocations[i].transaction # None => i = j

(* The goal whose allocations a keyed request claims its key with *)
Claimant(r) == IF r.kind = "reallocate" THEN r.from ELSE r.goal

KeyOf(i) == IF allocations[i].transaction = None THEN allocations[i].key
            ELSE transactions[allocations[i].transaction].key

(* A row carries the key of a request, on the allocation or on the transfer     *)
(* saved with it, as long as its goal is there; a deleted goal never comes back. *)
Claimed(r) ==
    \/ goals[Claimant(r)] = Deleted
    \/ \E i \in OfGoal(Claimant(r)) :
           /\ KeyOf(i) = r.key
           /\ (allocations[i].transaction # None) <=> (r.kind = "save")

(* A request that took effect took it once, and its key is claimed. *)
EffectsClaimed ==
    \A r \in KeyedRequests : effects[r] \in {0, 1} /\ (effects[r] = 1 => Claimed(r))

SavingsInv ==
    /\ LedgerInv
    /\ SavingsTypeOK
    /\ CompletionDerived
    /\ ReferencesExist
    /\ AllocationsShareCurrency
    /\ SavedTransfersOwned
    /\ GoalsSumAllocations
    /\ EffectsClaimed

-----------------------------------------------------------------------------
(* Rows, goals and sums *)

(* A goal is live exactly when it is a row. *)
LEMMA GoalRow ==
    ASSUME SavingsTypeOK, NEW g \in Goals
    PROVE  /\ LiveGoal(g) <=> goals[g] \in GoalRows
           /\ Fresh \notin GoalRows /\ Deleted \notin GoalRows
  BY SavingsConstants DEF SavingsTypeOK, LiveGoal

(* The stored rows are the typed ones. *)
LEMMA StoredRow ==
    ASSUME SavingsTypeOK, NEW i \in AllocationIds
    PROVE  /\ i \in Stored <=> allocations[i] \in AllocationRows
           /\ Fresh \notin AllocationRows
  BY SavingsConstants DEF SavingsTypeOK, Stored

(* applySavingsGoalDelta yields a row whose completion is derived. *)
LEMMA MovedRow ==
    ASSUME NEW row \in GoalRows, NEW delta \in Int, row.amount + delta \in Cents \cap Nat,
           NEW preferred \in Accounts \cup {None}
    PROVE  /\ Moved(row, delta, preferred) \in GoalRows
           /\ Moved(row, delta, preferred).amount = row.amount + delta
           /\ Moved(row, delta, preferred).completed
              <=> Moved(row, delta, preferred).amount >= Moved(row, delta, preferred).target
<1>. DEFINE done == row.amount + delta >= row.target
            moved == Moved(row, delta, preferred)
<1>1. done \in BOOLEAN
  BY DEF GoalRows
<1>2. moved = [row EXCEPT !.amount = @ + delta, !.completed = done,
                          !.account = IF @ = None THEN preferred ELSE @]
  BY DEF Moved
<1>. HIDE DEF done, moved
<1>3. /\ moved \in GoalRows /\ moved.amount = row.amount + delta
      /\ moved.completed = done /\ moved.target = row.target
  BY <1>1, <1>2 DEF GoalRows
<1> QED BY <1>3 DEF moved, done

(* The sum of a goal's rows in a table of allocations *)
Tables == [AllocationIds -> AllocationRows \cup {Fresh}]

Share(row, g) == IF row.goal = g THEN row.amount ELSE 0

Shares(table, g) ==
    [i \in AllocationIds |-> IF table[i] # Fresh /\ table[i].goal = g THEN table[i].amount ELSE 0]

Grown(table, row, g) == Total(Shares(table, g)) + Share(row, g)

(* What the queries sum for a goal are the shares its rows have in it. *)
LEMMA SumIsOfShares ==
    ASSUME NEW g
    PROVE  /\ Sum(OfGoal(g)) = Total(Shares(allocations, g))
           /\ Sum(OfGoal(g))' = Total(Shares(allocations', g))
<1>1. Shares(allocations, g) =
        [i \in AllocationIds |-> IF i \in OfGoal(g) THEN allocations[i].amount ELSE 0]
  BY DEF Shares, OfGoal, Stored
<1>2. Shares(allocations', g) =
        [i \in AllocationIds |-> IF i \in OfGoal(g)' THEN allocations'[i].amount ELSE 0]
  BY DEF Shares, OfGoal, Stored
<1> QED BY <1>1, <1>2 DEF Sum

(* Storing one more row adds its amount to the sum of its goal, and to no other. *)
LEMMA SharesGrow ==
    ASSUME NEW table \in Tables, NEW i \in AllocationIds, table[i] = Fresh,
           NEW row \in AllocationRows, NEW grown \in Tables, grown[i] = row,
           \A j \in AllocationIds \ {i} : grown[j] = table[j], NEW g
    PROVE  /\ Total(Shares(table, g)) \in Int /\ Share(row, g) \in Int
           /\ Total(Shares(grown, g)) = Grown(table, row, g)
<1>. DEFINE f == Shares(table, g)
            h == Shares(grown, g)
<1>1. \A r \in AllocationRows : r.amount \in Int
  BY DEF AllocationRows, Cents
<1>2. f \in [AllocationIds -> Int]
  <2>1. \A j \in AllocationIds : f[j] \in Int
    BY <1>1 DEF Shares, Tables
  <2> QED BY <2>1 DEF Shares
<1>3. h \in [AllocationIds -> Int]
  <2>1. \A j \in AllocationIds : h[j] \in Int
    BY <1>1 DEF Shares, Tables
  <2> QED BY <2>1 DEF Shares
<1>4. \A j \in AllocationIds \ {i} : h[j] = f[j]
  BY DEF Shares
<1>5. f[i] = 0 /\ h[i] = Share(row, g)
  BY SavingsConstants DEF Shares, Share
<1>. HIDE DEF f, h
<1>6. Total(h) = Total(f) - f[i] + h[i] /\ Total(f) \in Int
  BY <1>2, <1>3, <1>4, SavingsConstants, TotalMoved, TotalType
<1>7. h[i] \in Int
  BY <1>3
<1>8. Total(h) = Total(f) + h[i]
  BY <1>5, <1>6, <1>7
<1> QED BY <1>5, <1>6, <1>7, <1>8 DEF f, h, Grown

-----------------------------------------------------------------------------
(* What steps that only add or drop rows keep *)

(* A transfer nobody touched still backs its row. *)
LEMMA BacksKept ==
    ASSUME LedgerInv, NEW t \in Ids, NEW i, Backs(t, i),
           allocations'[i].account = allocations[i].account,
           allocations'[i].amount = allocations[i].amount,
           transactions'[t] = transactions[t],
           \A a \in Accounts : entries[t][a] # 0 => entries'[t][a] # 0
    PROVE  Backs(t, i)'
<1>1. Involved(Shape(t)) \subseteq Accounts
  BY LiveRow DEF Backs, LedgerInv, ShapesValid, ValidShape, Involved, Shapes
<1>2. (Live(t)' <=> Live(t)) /\ Shape(t)' = Shape(t)
  BY DEF Live, Shape
<1> QED BY <1>1, <1>2 DEF Backs

(* The transfers of the rows that stay are still theirs, if nobody touched them. *)
LEMMA OwnedKept ==
    ASSUME SavingsInv,
           \A i \in Stored' : allocations'[i].transaction # None =>
               /\ i \in Stored
               /\ allocations'[i].transaction = allocations[i].transaction
               /\ allocations'[i].account = allocations[i].account
               /\ allocations'[i].amount = allocations[i].amount,
           \A i \in Stored', t \in Ids : allocations'[i].transaction = t =>
               /\ transactions'[t] = transactions[t]
               /\ \A a \in Accounts : entries[t][a] # 0 => entries'[t][a] # 0
    PROVE  SavedTransfersOwned'
<1>1. ASSUME NEW i \in Stored', NEW t \in Ids, allocations'[i].transaction = t
      PROVE  Backs(t, i)'
  <2>1. i \in Stored /\ allocations[i].transaction = t
    BY <1>1, LedgerConstants
  <2>2. Backs(t, i)
    BY <2>1 DEF SavingsInv, SavedTransfersOwned
  <2>3. allocations'[i].account = allocations[i].account /\ allocations'[i].amount = allocations[i].amount
    BY <1>1, LedgerConstants
  <2> QED BY <1>1, <2>2, <2>3, BacksKept DEF SavingsInv
<1>2. \A i, j \in Stored' :
          allocations'[i].transaction = allocations'[j].transaction
          /\ allocations'[i].transaction # None => i = j
  BY DEF SavingsInv, SavedTransfersOwned
<1> QED BY <1>1, <1>2 DEF SavedTransfersOwned

(* The claims of the requests stay, if their rows do or go with their goal. *)
LEMMA ClaimsKept ==
    ASSUME SavingsInv, NEW r \in KeyedRequests, Claimed(r),
           \A g \in Goals : goals[g] = Deleted => goals'[g] = Deleted,
           \A i \in Stored : \/ goals'[allocations[i].goal] = Deleted
                             \/ /\ i \in Stored'
                                /\ allocations'[i].goal = allocations[i].goal
                                /\ allocations'[i].key = allocations[i].key
                                /\ allocations'[i].transaction = allocations[i].transaction
                                /\ LET t == allocations[i].transaction
                                   IN  t # None => transactions'[t].key = transactions[t].key
    PROVE  Claimed(r)'
<1>1. Claimant(r) \in Goals
  BY DEF Claimant, KeyedRequests
<1>2. CASE goals[Claimant(r)] = Deleted
  BY <1>1, <1>2 DEF Claimed
<1>3. CASE \E i \in OfGoal(Claimant(r)) :
             KeyOf(i) = r.key /\ ((allocations[i].transaction # None) <=> (r.kind = "save"))
  <2>1. PICK i \in OfGoal(Claimant(r)) :
             KeyOf(i) = r.key /\ ((allocations[i].transaction # None) <=> (r.kind = "save"))
    BY <1>3
  <2>2. i \in Stored /\ allocations[i].goal = Claimant(r)
    BY DEF OfGoal
  <2>3. CASE goals'[allocations[i].goal] = Deleted
    BY <2>2, <2>3 DEF Claimed
  <2>4. CASE goals'[allocations[i].goal] # Deleted
    <3>1. i \in OfGoal(Claimant(r))'
      BY <2>2, <2>4 DEF OfGoal
    <3>2. KeyOf(i)' = KeyOf(i) /\ allocations'[i].transaction = allocations[i].transaction
      BY <2>2, <2>4 DEF KeyOf
    <3> QED BY <2>1, <3>1, <3>2 DEF Claimed
  <2> QED BY <2>3, <2>4
<1> QED BY <1>2, <1>3 DEF Claimed

-----------------------------------------------------------------------------
(* The steps, one by one *)

(* Steps of the ledger that keep the accounts of the allocations, and their     *)
(* currencies, keep everything.                                                *)
LEMMA LedgerStepKeepsSavings ==
    ASSUME SavingsInv, [Next]_vars, UNCHANGED <<goals, allocations, effects>>,
           \A i \in Stored, a \in Accounts : allocations[i].account = a =>
               AccountExists(a)' /\ accounts'[a].currency = accounts[a].currency
    PROVE  SavingsInv'
<1>. LedgerInv /\ SavingsTypeOK
  BY DEF SavingsInv
<1>1. LedgerInv'
  BY LedgerStepKeeps
<1>2. Stored' = Stored
  BY DEF Stored
<1>3. SavingsTypeOK' /\ CompletionDerived' /\ GoalsSumAllocations'
  <2>1. \A g \in Goals : Sum(OfGoal(g))' = Sum(OfGoal(g))
    BY SumIsOfShares
  <2> QED BY <2>1 DEF SavingsInv, SavingsTypeOK, CompletionDerived, GoalsSumAllocations, LiveGoal
<1>4. \A i \in Stored : allocations[i].account \in Accounts \cup {None}
  BY StoredRow DEF AllocationRows, Stored
<1>5. ReferencesExist'
  BY <1>2, <1>4 DEF SavingsInv, ReferencesExist, LiveGoal
<1>6. AllocationsShareCurrency'
  BY <1>2, <1>4 DEF SavingsInv, AllocationsShareCurrency, OneCurrency
<1>7. \A i \in Stored, t \in Ids : allocations[i].transaction = t =>
          /\ transactions'[t] = transactions[t]
          /\ \A a \in Accounts : entries[t][a] # 0 => entries'[t][a] # 0
  BY ManagedStays DEF SavingsInv, SavedTransfersOwned, Backs
<1>8. SavedTransfersOwned'
  BY <1>2, <1>7, OwnedKept
<1>9. EffectsClaimed'
  <2>1. \A i \in Stored : LET t == allocations[i].transaction
                          IN  t # None => transactions'[t].key = transactions[t].key
    BY <1>7, StoredRow DEF AllocationRows, Stored
  <2>2. \A r \in KeyedRequests : Claimed(r) => Claimed(r)'
    BY <1>2, <2>1, ClaimsKept
  <2> QED BY <2>2 DEF SavingsInv, EffectsClaimed
<1> QED BY <1>1, <1>3, <1>5, <1>6, <1>8, <1>9 DEF SavingsInv

(* Operations of the ledger that savings do not restrict *)
LEMMA OtherLedgerStepKeeps ==
    ASSUME SavingsInv, OtherLedgerStep
    PROVE  SavingsInv'
<1>1. [Next]_vars
  BY DEF OtherLedgerStep, Next, AccountStep
<1>2. ASSUME NEW i \in Stored, NEW a \in Accounts, allocations[i].account = a
      PROVE  AccountExists(a)' /\ accounts'[a].currency = accounts[a].currency
  <2>1. AccountExists(a) /\ LedgerInv
    BY <1>2, LedgerConstants DEF SavingsInv, ReferencesExist
  <2> QED BY <2>1, AccountsStay DEF OtherLedgerStep
<1> QED BY <1>1, <1>2, LedgerStepKeepsSavings DEF OtherLedgerStep

(* A patch of an account that holds allocations leaves its currency. *)
LEMMA PatchAccountKeeps ==
    ASSUME SavingsInv, NEW b \in Accounts, NEW p \in Patches, PatchAccount(b, p)
    PROVE  SavingsInv'
<1>1. [Next]_vars
  BY DEF PatchAccount, Next, AccountStep
<1>2. ASSUME NEW i \in Stored, NEW a \in Accounts, allocations[i].account = a
      PROVE  AccountExists(a)' /\ accounts'[a].currency = accounts[a].currency
  <2>1. AccountExists(a) /\ LedgerInv
    BY <1>2, LedgerConstants DEF SavingsInv, ReferencesExist
  <2>2. b = a => p.currency = Unset
    BY <1>2 DEF PatchAccount, CurrencyPatchable, OfAccount
  <2> QED BY <2>1, <2>2, AccountsStay DEF PatchAccount
<1> QED BY <1>1, <1>2, LedgerStepKeepsSavings DEF PatchAccount

(* A removed account leaves its allocations without one: none of them was saved, *)
(* since a transfer restricts the removal of both its accounts.                 *)
LEMMA RemoveAccountKeeps ==
    ASSUME SavingsInv, NEW b \in Accounts, RemoveAccount(b)
    PROVE  SavingsInv'
<1>. LedgerInv /\ SavingsTypeOK /\ TypeOK
  BY DEF SavingsInv, LedgerInv
<1>1. [Next]_vars
  BY DEF RemoveAccount, Next, AccountStep
<1>2. LedgerInv'
  BY <1>1, LedgerStepKeeps
<1>3. ASSUME NEW i \in AllocationIds
      PROVE  /\ i \in Stored' <=> i \in Stored
             /\ i \in Stored =>
                   /\ allocations'[i] \in AllocationRows
                   /\ allocations'[i].goal = allocations[i].goal
                   /\ allocations'[i].amount = allocations[i].amount
                   /\ allocations'[i].key = allocations[i].key
                   /\ allocations'[i].transaction = allocations[i].transaction
                   /\ allocations'[i].account =
                          IF allocations[i].account = b THEN None ELSE allocations[i].account
             /\ i \notin Stored => allocations'[i] = Fresh
  <2>1. CASE i \notin Stored
    BY <2>1 DEF RemoveAccount, Orphaned, OfAccount, Stored
  <2>2. CASE i \in Stored
    <3>1. allocations[i] \in AllocationRows
      BY <2>2, StoredRow
    <3>2. allocations'[i] = IF allocations[i].account = b
                            THEN [allocations[i] EXCEPT !.account = None] ELSE allocations[i]
      BY <2>2 DEF RemoveAccount, Orphaned, OfAccount
    <3>3. allocations'[i] \in AllocationRows
      BY <3>1, <3>2 DEF AllocationRows
    <3> QED BY <2>2, <3>1, <3>2, <3>3, SavingsConstants DEF AllocationRows, Stored
  <2> QED BY <2>1, <2>2
<1>4. Stored' = Stored
  BY <1>3 DEF Stored
<1>5. ASSUME NEW g \in Goals
      PROVE  /\ LiveGoal(g) => /\ goals'[g] \in GoalRows
                               /\ goals'[g].amount = goals[g].amount
                               /\ goals'[g].target = goals[g].target
                               /\ goals'[g].completed = goals[g].completed
             /\ ~LiveGoal(g) => goals'[g] = goals[g]
             /\ LiveGoal(g)' <=> LiveGoal(g)
  <2>1. CASE ~LiveGoal(g)
    BY <2>1 DEF RemoveAccount, LiveGoal
  <2>2. CASE LiveGoal(g)
    <3>1. goals[g] \in GoalRows
      BY <2>2, GoalRow
    <3>2. goals'[g] = IF goals[g].account = b THEN [goals[g] EXCEPT !.account = None] ELSE goals[g]
      BY <2>2 DEF RemoveAccount
    <3>3. goals'[g] \in GoalRows
      BY <3>1, <3>2 DEF GoalRows
    <3> QED BY <2>2, <3>1, <3>2, <3>3, GoalRow DEF GoalRows, LiveGoal
  <2> QED BY <2>1, <2>2
<1>6. SavingsTypeOK'
  <2>1. \A g \in Goals : goals'[g] \in GoalRows \cup {Fresh, Deleted}
    BY <1>5 DEF SavingsTypeOK
  <2>2. goals' \in [Goals -> GoalRows \cup {Fresh, Deleted}]
    BY <2>1 DEF RemoveAccount
  <2>3. \A i \in AllocationIds : allocations'[i] \in AllocationRows \cup {Fresh}
    BY <1>3
  <2>4. allocations' \in [AllocationIds -> AllocationRows \cup {Fresh}]
    BY <2>3 DEF RemoveAccount, Orphaned
  <2> QED BY <2>2, <2>4 DEF RemoveAccount, SavingsTypeOK
<1>7. CompletionDerived'
  BY <1>5 DEF SavingsInv, CompletionDerived
<1>8. GoalsSumAllocations'
  <2>1. \A g \in Goals : Shares(allocations', g) = Shares(allocations, g)
    BY <1>3 DEF Shares, Stored
  <2> QED BY <1>5, <2>1, SumIsOfShares DEF SavingsInv, GoalsSumAllocations
<1>9. ASSUME NEW i \in Stored, allocations'[i].account # None
      PROVE  /\ allocations'[i].account = allocations[i].account
             /\ allocations[i].account \in Accounts \ {b}
             /\ AccountExists(allocations[i].account)
             /\ accounts'[allocations[i].account] = accounts[allocations[i].account]
  <2>1. allocations'[i].account = allocations[i].account /\ allocations[i].account # b
    BY <1>3, <1>9 DEF Stored
  <2>2. allocations[i].account \in Accounts
    BY <1>9, <2>1, StoredRow DEF AllocationRows, Stored
  <2>3. AccountExists(allocations[i].account)
    BY <1>9, <2>1 DEF SavingsInv, ReferencesExist
  <2> QED BY <2>1, <2>2, <2>3 DEF RemoveAccount, DeleteAccount, TypeOK
<1>10. ReferencesExist'
  <2>1. ASSUME NEW i \in Stored PROVE goals'[allocations'[i].goal] \notin {Fresh, Deleted}
    <3>1. allocations[i].goal \in Goals /\ allocations'[i].goal = allocations[i].goal
      BY <1>3, StoredRow DEF AllocationRows, Stored
    <3>2. LiveGoal(allocations[i].goal)
      BY DEF SavingsInv, ReferencesExist
    <3> QED BY <1>5, <3>1, <3>2 DEF LiveGoal
  <2>2. ASSUME NEW i \in Stored, allocations'[i].account # None
        PROVE  accounts'[allocations'[i].account] \in AccountRows
    BY <1>9, <2>2 DEF AccountExists
  <2> QED BY <1>4, <2>1, <2>2 DEF ReferencesExist, AccountExists, LiveGoal
<1>11. AllocationsShareCurrency'
  BY <1>4, <1>9 DEF SavingsInv, AllocationsShareCurrency, OneCurrency
<1>12. \A i \in Stored, t \in Ids : allocations[i].transaction = t =>
           /\ allocations[i].account # b
           /\ transactions'[t] = transactions[t]
           /\ \A a \in Accounts : entries[t][a] # 0 => entries'[t][a] # 0
  <2>. SUFFICES ASSUME NEW i \in Stored, NEW t \in Ids, allocations[i].transaction = t
                PROVE  /\ allocations[i].account # b
                       /\ transactions'[t] = transactions[t]
                       /\ \A a \in Accounts : entries[t][a] # 0 => entries'[t][a] # 0
    OBVIOUS
  <2>1. Backs(t, i)
    BY DEF SavingsInv, SavedTransfersOwned
  <2>2. b \notin Involved(Shape(t))
    BY <2>1 DEF Backs, RemoveAccount, DeleteAccount, Unreferenced
  <2>3. allocations[i].account # b
    BY <2>1, <2>2 DEF Backs, Involved
  <2> QED BY <1>1, <2>1, <2>3, ManagedStays DEF Backs
<1>13. SavedTransfersOwned'
  <2>1. ASSUME NEW i \in Stored, allocations'[i].transaction # None
        PROVE  allocations[i].account # b
    <3>1. allocations[i].transaction \in Ids
      BY <1>3, <2>1, StoredRow DEF AllocationRows, Stored
    <3> QED BY <1>12, <3>1
  <2> QED BY <1>3, <1>4, <1>12, <2>1, OwnedKept DEF Stored
<1>14. EffectsClaimed'
  <2>1. \A i \in Stored : LET t == allocations[i].transaction
                          IN  t # None => transactions'[t].key = transactions[t].key
    BY <1>12, StoredRow DEF AllocationRows, Stored
  <2>2. \A g \in Goals : goals[g] = Deleted => goals'[g] = Deleted
    BY <1>5 DEF LiveGoal
  <2>3. \A r \in KeyedRequests : Claimed(r) => Claimed(r)'
    BY <1>3, <1>4, <2>1, <2>2, ClaimsKept DEF Stored
  <2> QED BY <2>3 DEF SavingsInv, EffectsClaimed, RemoveAccount
<1> QED BY <1>2, <1>6, <1>7, <1>8, <1>10, <1>11, <1>13, <1>14 DEF SavingsInv

(* Creating or patching a goal touches one row, and no amount. *)
LEMMA GoalRewritten ==
    ASSUME SavingsInv, UNCHANGED <<vars, allocations, effects>>,
           NEW g \in Goals, goals[g] # Deleted, NEW row \in GoalRows,
           goals' = [goals EXCEPT ![g] = row],
           row.completed <=> row.amount >= row.target,
           row.amount = Sum(OfGoal(g))
    PROVE  SavingsInv'
<1>. LedgerInv /\ SavingsTypeOK
  BY DEF SavingsInv
<1>1. LedgerInv'
  BY LedgerStepKeeps
<1>2. Stored' = Stored
  BY DEF Stored
<1>3. \A h \in Goals : /\ h # g => goals'[h] = goals[h] /\ (LiveGoal(h)' <=> LiveGoal(h))
                       /\ h = g => goals'[h] = row /\ LiveGoal(h)'
  BY GoalRow DEF SavingsTypeOK, LiveGoal
<1>4. SavingsTypeOK' /\ CompletionDerived'
  BY <1>3 DEF SavingsInv, SavingsTypeOK, CompletionDerived
<1>5. GoalsSumAllocations'
  <2>1. \A h \in Goals : Sum(OfGoal(h))' = Sum(OfGoal(h))
    BY SumIsOfShares
  <2> QED BY <1>3, <2>1 DEF SavingsInv, GoalsSumAllocations
<1>6. ReferencesExist'
  <2>1. \A i \in Stored : allocations[i].goal \in Goals
    BY StoredRow DEF AllocationRows, Stored
  <2> QED BY <1>2, <1>3, <2>1 DEF SavingsInv, ReferencesExist, vars, AccountExists
<1>7. AllocationsShareCurrency'
  BY <1>2 DEF SavingsInv, AllocationsShareCurrency, OneCurrency, vars
<1>8. SavedTransfersOwned'
  BY <1>2, OwnedKept DEF vars
<1>9. EffectsClaimed'
  <2>1. \A h \in Goals : goals[h] = Deleted => goals'[h] = Deleted
    BY <1>3
  <2>2. \A r \in KeyedRequests : Claimed(r) => Claimed(r)'
    BY <1>2, <2>1, ClaimsKept DEF vars
  <2> QED BY <2>2 DEF SavingsInv, EffectsClaimed
<1> QED BY <1>1, <1>4, <1>5, <1>6, <1>7, <1>8, <1>9 DEF SavingsInv

(* A new goal has no rows, and nothing in it. *)
LEMMA CreateGoalKeeps ==
    ASSUME SavingsInv, NEW g \in Goals, NEW n \in Targets, NEW a \in Accounts \cup {None},
           CreateGoal(g, n, a)
    PROVE  SavingsInv'
<1>. DEFINE row == [amount |-> 0, target |-> n, account |-> a, completed |-> FALSE]
<1>1. row \in GoalRows /\ ~row.completed /\ row.amount = 0 /\ ~(row.amount >= row.target)
  BY LedgerConstants, SavingsConstants DEF GoalRows, Cents
<1>2. goals[g] # Deleted /\ ~LiveGoal(g)
  BY LedgerConstants DEF CreateGoal, LiveGoal
<1>3. Shares(allocations, g) = [i \in AllocationIds |-> 0]
  BY <1>2 DEF SavingsInv, ReferencesExist, Shares, Stored
<1>4. Sum(OfGoal(g)) = 0
  BY <1>3, SavingsConstants, SumIsOfShares, TotalZero
<1>5. goals' = [goals EXCEPT ![g] = row] /\ UNCHANGED <<vars, allocations, effects>>
  BY DEF CreateGoal
<1>. HIDE DEF row
<1> QED BY <1>1, <1>2, <1>4, <1>5, GoalRewritten

(* A patched goal is complete when it has reached the target it has then. *)
LEMMA UpdateGoalKeeps ==
    ASSUME SavingsInv, NEW g \in Goals, NEW n \in Targets \cup {Unset},
           NEW a \in Accounts \cup {None, Unset}, UpdateGoal(g, n, a)
    PROVE  SavingsInv'
<1>. DEFINE old  == goals[g]
            done == IF n = Unset THEN old.completed ELSE old.amount >= n
            row  == [amount |-> old.amount, target |-> Patched(n, old.target),
                     account |-> Patched(a, old.account), completed |-> done]
<1>. SavingsTypeOK
  BY DEF SavingsInv
<1>1. old \in GoalRows /\ LiveGoal(g) /\ old # Deleted
  BY GoalRow DEF UpdateGoal
<1>2. done \in BOOLEAN
  <2>1. CASE n = Unset
    BY <1>1, <2>1 DEF GoalRows
  <2>2. CASE n # Unset
    BY <2>2
  <2> QED BY <2>1, <2>2
<1>3. Patched(n, old.target) \in Cents \cap (Nat \ {0})
  BY <1>1, SavingsConstants DEF Patched, GoalRows
<1>4. Patched(a, old.account) \in Accounts \cup {None}
  BY <1>1 DEF Patched, GoalRows
<1>5. old.completed <=> old.amount >= old.target
  BY <1>1 DEF SavingsInv, CompletionDerived
<1>6. done <=> old.amount >= Patched(n, old.target)
  BY <1>5 DEF Patched
<1>7. old.amount = Sum(OfGoal(g))
  BY <1>1 DEF SavingsInv, GoalsSumAllocations
<1>8. goals' = [goals EXCEPT ![g] = row] /\ UNCHANGED <<vars, allocations, effects>>
  BY DEF UpdateGoal
<1>. HIDE DEF done
<1>9. /\ row \in GoalRows /\ row.amount = old.amount
      /\ row.completed = done /\ row.target = Patched(n, old.target)
  BY <1>1, <1>2, <1>3, <1>4 DEF GoalRows
<1>. HIDE DEF row
<1> QED BY <1>1, <1>6, <1>7, <1>8, <1>9, GoalRewritten

(* Deleting a goal takes its rows, which backs the claims of its requests from  *)
(* then on, and gives their transfers back to the user.                         *)
LEMMA DeleteGoalKeeps ==
    ASSUME SavingsInv, NEW g \in Goals, DeleteGoal(g)
    PROVE  SavingsInv'
<1>. LedgerInv /\ SavingsTypeOK /\ TypeOK
  BY DEF SavingsInv, LedgerInv
<1>. DEFINE freed == {t \in Ids : \E i \in OfGoal(g) : allocations[i].transaction = t}
<1>1. \A i \in AllocationIds :
        /\ i \in Stored' <=> i \in Stored /\ allocations[i].goal # g
        /\ i \in Stored' => allocations'[i] = allocations[i]
        /\ i \notin Stored' => allocations'[i] = Fresh
  BY DEF DeleteGoal, Stored, OfGoal
<1>2. \A h \in Goals : /\ h # g => goals'[h] = goals[h] /\ (LiveGoal(h)' <=> LiveGoal(h))
                       /\ h = g => goals'[h] = Deleted /\ ~LiveGoal(h)'
  BY DEF DeleteGoal, SavingsTypeOK, LiveGoal
<1>3. \A t \in Ids : /\ t \in freed => Live(t) /\ transactions[t] \in TransactionRows
                     /\ transactions'[t] = IF t \in freed
                                           THEN [transactions[t] EXCEPT !.owner = "user"]
                                           ELSE transactions[t]
  BY DEF DeleteGoal, OfGoal, SavingsInv, SavedTransfersOwned, Backs, Live
<1>. HIDE DEF freed
<1>4. ASSUME NEW t \in Ids
      PROVE  /\ Live(t)' <=> Live(t)
             /\ Live(t) => /\ transactions'[t] \in TransactionRows
                           /\ transactions'[t].key = transactions[t].key
                           /\ Shape(t)' = Shape(t)
             /\ ~Live(t) => transactions'[t] = transactions[t]
  <2>1. CASE t \in freed
    <3>1. transactions[t] \in TransactionRows /\ Live(t)
      BY <1>3, <2>1
    <3>2. transactions'[t] = [transactions[t] EXCEPT !.owner = "user"]
      BY <1>3, <2>1
    <3>3. /\ transactions'[t] \in TransactionRows
          /\ transactions'[t].key = transactions[t].key
          /\ transactions'[t].shape = transactions[t].shape
      BY <3>1, <3>2 DEF TransactionRows
    <3> QED BY <3>1, <3>3 DEF Live, Shape
  <2>2. CASE t \notin freed
    BY <1>3, <2>2 DEF Live, Shape
  <2> QED BY <2>1, <2>2
<1>5. LedgerInv'
  <2>1. transactions' \in [Ids -> TransactionRows \cup {Fresh, Deleted}]
    <3>1. \A t \in Ids : transactions'[t] \in TransactionRows \cup {Fresh, Deleted}
      BY <1>4 DEF TypeOK, Live
    <3> QED BY <3>1 DEF DeleteGoal
  <2>2. TypeOK'
    BY <2>1 DEF DeleteGoal, TypeOK, Tracked, AccountExists
  <2>3. ShapesValid' /\ KeysUnique'
    BY <1>4 DEF LedgerInv, ShapesValid, KeysUnique
  <2>4. EntriesFollowTransactions'
    <3>1. UNCHANGED <<accounts, entries>> /\ \A a \in Accounts : Tracked(a)' <=> Tracked(a)
      BY DEF DeleteGoal, Tracked, AccountExists
    <3>. SUFFICES ASSUME NEW t \in Ids, NEW a \in Accounts, entries'[t][a] # 0
                  PROVE  /\ Live(t)' /\ Shape(t)'.affects /\ a \in Involved(Shape(t)')
                         /\ Tracked(a)'
                         /\ entries'[t][a] = Delta(Shape(t)', a)
      BY DEF EntriesFollowTransactions
    <3>2. /\ Live(t) /\ Shape(t).affects /\ a \in Involved(Shape(t)) /\ Tracked(a)
          /\ entries[t][a] = Delta(Shape(t), a)
      BY <3>1 DEF LedgerInv, EntriesFollowTransactions
    <3>3. Live(t)' /\ Shape(t)' = Shape(t)
      BY <1>4, <3>2
    <3> QED BY <3>1, <3>2, <3>3
  <2>5. StatementPaymentsBacked'
    <3>1. \A t \in Ids : Live(t)' /\ Shape(t)'.statement # None =>
              /\ statements[Shape(t).statement] = Shape(t).dest
              /\ \A a \in Involved(Shape(t)) : entries[t][a] # 0
      BY <1>4 DEF LedgerInv, StatementPaymentsBacked
    <3>2. UNCHANGED <<statements, entries>>
      BY DEF DeleteGoal
    <3> QED BY <1>4, <3>1, <3>2 DEF StatementPaymentsBacked
  <2> QED BY <2>2, <2>3, <2>4, <2>5 DEF LedgerInv
<1>6. SavingsTypeOK'
  <2>1. goals' \in [Goals -> GoalRows \cup {Fresh, Deleted}]
    BY DEF DeleteGoal, SavingsTypeOK
  <2>2. allocations' \in [AllocationIds -> AllocationRows \cup {Fresh}]
    BY DEF DeleteGoal, SavingsTypeOK
  <2> QED BY <2>1, <2>2 DEF DeleteGoal, SavingsTypeOK
<1>7. CompletionDerived'
  BY <1>2 DEF SavingsInv, CompletionDerived
<1>8. GoalsSumAllocations'
  <2>1. \A h \in Goals : h # g => Shares(allocations', h) = Shares(allocations, h)
    BY <1>1 DEF Shares, Stored
  <2> QED BY <1>2, <2>1, SumIsOfShares DEF SavingsInv, GoalsSumAllocations
<1>9. \A i \in Stored' : /\ i \in Stored /\ i \in AllocationIds /\ allocations'[i] = allocations[i]
                         /\ allocations[i].goal \in Goals \ {g}
  BY <1>1, StoredRow DEF AllocationRows, Stored
<1>10. ReferencesExist'
  BY <1>2, <1>9 DEF SavingsInv, ReferencesExist, DeleteGoal, AccountExists
<1>11. AllocationsShareCurrency'
  <2>1. accounts' = accounts
    BY DEF DeleteGoal
  <2>2. \A i, j \in Stored' : allocations[i].account # None /\ allocations[j].account # None =>
            accounts[allocations[j].account].currency = accounts[allocations[i].account].currency
    BY <1>9 DEF SavingsInv, AllocationsShareCurrency, OneCurrency
  <2> QED BY <1>9, <2>1, <2>2 DEF AllocationsShareCurrency, OneCurrency
<1>12. \A i \in Stored', t \in Ids : allocations'[i].transaction = t => t \notin freed
  BY <1>9, LedgerConstants DEF SavingsInv, SavedTransfersOwned, freed, OfGoal
<1>13. SavedTransfersOwned'
  BY <1>3, <1>9, <1>12, OwnedKept DEF DeleteGoal
<1>14. EffectsClaimed'
  <2>1. \A i \in Stored : LET t == allocations[i].transaction
                          IN  t # None => transactions'[t].key = transactions[t].key
    <3>. SUFFICES ASSUME NEW i \in Stored, NEW t \in Ids, allocations[i].transaction = t
                  PROVE  transactions'[t].key = transactions[t].key
      BY StoredRow DEF AllocationRows, Stored
    <3> QED BY <1>4 DEF SavingsInv, SavedTransfersOwned, Backs
  <2>2. \A h \in Goals : goals[h] = Deleted => goals'[h] = Deleted
    BY <1>2
  <2>3. \A i \in Stored : goals'[allocations[i].goal] = Deleted \/ i \in Stored'
    BY <1>1, <1>2, StoredRow DEF AllocationRows, Stored
  <2>4. \A r \in KeyedRequests : Claimed(r) => Claimed(r)'
    BY <1>9, <2>1, <2>2, <2>3, ClaimsKept
  <2> QED BY <2>4 DEF SavingsInv, EffectsClaimed, DeleteGoal
<1> QED BY <1>5, <1>6, <1>7, <1>8, <1>10, <1>11, <1>13, <1>14 DEF SavingsInv

(* A row for each goal id, and no more *)
IsGoalTable(table) == DOMAIN table = Goals /\ table = [g \in Goals |-> table[g]]

(* Every goal there is moves to the sum of its rows, with its completion derived; *)
(* the others stay as they are.                                                   *)
GoalsFollow ==
    /\ IsGoalTable(goals')
    /\ \A g \in Goals :
           IF LiveGoal(g)
           THEN /\ goals'[g] \in GoalRows
                /\ goals'[g].completed <=> goals'[g].amount >= goals'[g].target
                /\ goals'[g].amount = Total(Shares(allocations', g))
           ELSE goals'[g] = goals[g]

(* Rows added in an account of the one currency, with the goals they move, for  *)
(* a request whose key nobody had claimed.                                      *)
LEMMA RowsAdded ==
    ASSUME SavingsInv, LedgerInv',
           NEW b \in Accounts, AccountExists(b), OneCurrency(accounts[b].currency),
           allocations' \in Tables,
           \A i \in Stored : allocations'[i] = allocations[i],
           \A i \in Stored' \ Stored :
               LiveGoal(allocations'[i].goal) /\ allocations'[i].account = b,
           \A i \in Stored' \ Stored, t \in Ids :
               allocations'[i].transaction = t => ~Live(t) /\ Backs(t, i)',
           \A i, j \in Stored' \ Stored :
               allocations'[i].transaction = allocations'[j].transaction
               /\ allocations'[i].transaction # None => i = j,
           GoalsFollow,
           \A a \in Accounts : AccountExists(a) =>
               AccountExists(a)' /\ accounts'[a].currency = accounts[a].currency,
           \A t \in Ids : Live(t) => transactions'[t] = transactions[t] /\ entries'[t] = entries[t],
           NEW r \in KeyedRequests, effects' = [effects EXCEPT ![r] = @ + 1],
           ~Claimed(r), Claimed(r)'
    PROVE  SavingsInv'
<1>. LedgerInv /\ SavingsTypeOK
  BY DEF SavingsInv
<1>1. /\ Stored \subseteq Stored' /\ Stored' \subseteq AllocationIds
      /\ \A i \in Stored' : allocations'[i] \in AllocationRows
  BY SavingsConstants, StoredRow DEF Stored, Tables
<1>2. \A g \in Goals : LiveGoal(g)' <=> LiveGoal(g)
  BY GoalRow DEF LiveGoal, GoalsFollow
<1>3. SavingsTypeOK'
  <2>1. \A g \in Goals : goals'[g] \in GoalRows \cup {Fresh, Deleted}
    BY DEF SavingsTypeOK, GoalsFollow
  <2>2. goals' \in [Goals -> GoalRows \cup {Fresh, Deleted}]
    BY <2>1 DEF GoalsFollow, IsGoalTable
  <2>3. effects' \in [KeyedRequests -> Nat]
    BY DEF SavingsTypeOK
  <2> QED BY <2>2, <2>3 DEF SavingsTypeOK, Tables
<1>4. CompletionDerived'
  BY <1>2 DEF CompletionDerived, GoalsFollow
<1>5. GoalsSumAllocations'
  BY <1>2, SumIsOfShares DEF GoalsSumAllocations, GoalsFollow
<1>6. ASSUME NEW i \in Stored' PROVE goals'[allocations'[i].goal] \notin {Fresh, Deleted}
  <2>1. allocations'[i].goal \in Goals
    BY <1>1 DEF AllocationRows
  <2>2. LiveGoal(allocations'[i].goal)
    BY <1>1 DEF SavingsInv, ReferencesExist
  <2> QED BY <1>2, <2>1, <2>2 DEF LiveGoal
<1>7. ASSUME NEW i \in Stored', NEW a \in Accounts, allocations'[i].account = a
      PROVE  AccountExists(a)' /\ accounts'[a].currency = accounts[b].currency
  <2>1. CASE i \in Stored
    <3>1. AccountExists(a) /\ accounts[a].currency = accounts[b].currency
      BY <1>7, <2>1, LedgerConstants DEF SavingsInv, ReferencesExist, OneCurrency
    <3> QED BY <3>1
  <2>2. CASE i \notin Stored
    BY <1>7, <2>2
  <2> QED BY <2>1, <2>2
<1>8. \A i \in Stored' : allocations'[i].account \in Accounts \cup {None}
  BY <1>1 DEF AllocationRows
<1>9. ReferencesExist'
  BY <1>6, <1>7, <1>8 DEF ReferencesExist, LiveGoal, AccountExists
<1>10. AllocationsShareCurrency'
  BY <1>7, <1>8 DEF AllocationsShareCurrency, OneCurrency
<1>11. SavedTransfersOwned'
  <2>1. ASSUME NEW i \in Stored, NEW t \in Ids, allocations[i].transaction = t
        PROVE  Live(t) /\ Backs(t, i)'
    <3>1. Backs(t, i)
      BY <2>1 DEF SavingsInv, SavedTransfersOwned
    <3>2. Live(t) /\ transactions'[t] = transactions[t] /\ entries'[t] = entries[t]
      BY <3>1 DEF Backs
    <3> QED BY <3>1, <3>2, BacksKept
  <2>2. ASSUME NEW i \in Stored', NEW t \in Ids, allocations'[i].transaction = t
        PROVE  Backs(t, i)' /\ (i \in Stored <=> Live(t))
    BY <2>1, <2>2
  <2>3. ASSUME NEW i \in Stored', NEW j \in Stored',
               allocations'[i].transaction = allocations'[j].transaction,
               allocations'[i].transaction # None
        PROVE  i = j
    <3>1. allocations'[i].transaction \in Ids
      BY <1>1, <2>3 DEF AllocationRows
    <3>2. i \in Stored <=> j \in Stored
      BY <2>2, <2>3, <3>1
    <3>3. CASE i \in Stored
      BY <2>3, <3>2, <3>3 DEF SavingsInv, SavedTransfersOwned
    <3>4. CASE i \notin Stored
      BY <2>3, <3>2, <3>4
    <3> QED BY <3>3, <3>4
  <2> QED BY <2>2, <2>3 DEF SavedTransfersOwned
<1>12. EffectsClaimed'
  <2>1. \A i \in Stored : LET t == allocations[i].transaction
                          IN  t # None => transactions'[t].key = transactions[t].key
    <3>. SUFFICES ASSUME NEW i \in Stored, NEW t \in Ids, allocations[i].transaction = t
                  PROVE  transactions'[t].key = transactions[t].key
      BY StoredRow DEF AllocationRows, Stored
    <3> QED BY DEF SavingsInv, SavedTransfersOwned, Backs
  <2>2. \A g \in Goals : goals[g] = Deleted => goals'[g] = Deleted
    BY DEF LiveGoal, GoalsFollow
  <2>3. \A q \in KeyedRequests : Claimed(q) => Claimed(q)'
    BY <1>1, <2>1, <2>2, ClaimsKept
  <2>4. effects[r] = 0 /\ effects'[r] = 1
    BY DEF SavingsInv, EffectsClaimed, SavingsTypeOK
  <2>5. \A q \in KeyedRequests : q # r => effects'[q] = effects[q]
    BY DEF SavingsTypeOK
  <2> QED BY <2>3, <2>4, <2>5 DEF SavingsInv, EffectsClaimed
<1> QED BY <1>3, <1>4, <1>5, <1>9, <1>10, <1>11, <1>12 DEF SavingsInv

(* What one new row does to the table, and to the goal it is of. *)
LEMMA RowStored ==
    ASSUME SavingsInv, NEW i \in AllocationIds, Free(i), NEW row \in AllocationRows,
           NEW g \in Goals, LiveGoal(g), row.goal = g, Movable(g, row.amount),
           NEW preferred \in Accounts \cup {None},
           allocations' = [allocations EXCEPT ![i] = row],
           goals' = [goals EXCEPT ![g] = Moved(@, row.amount, preferred)]
    PROVE  /\ allocations' \in Tables
           /\ \A j \in Stored : allocations'[j] = allocations[j]
           /\ Stored' = Stored \cup {i} /\ i \notin Stored /\ allocations'[i] = row
           /\ OfGoal(g)' = OfGoal(g) \cup {i}
           /\ GoalsFollow
<1>. SavingsTypeOK
  BY DEF SavingsInv
<1>1. allocations \in Tables /\ allocations[i] = Fresh
  BY DEF SavingsTypeOK, Tables, Free
<1>2. allocations' \in Tables
  BY <1>1 DEF Tables
<1>3. /\ allocations'[i] = row /\ i \notin Stored
      /\ \A j \in AllocationIds \ {i} : allocations'[j] = allocations[j]
  BY <1>1 DEF Stored, Tables
<1>4. \A h \in Goals :
        /\ Total(Shares(allocations, h)) \in Int /\ Share(row, h) \in Int
        /\ Total(Shares(allocations', h)) = Grown(allocations, row, h)
  <2>. DEFINE grown == allocations'
  <2>. SUFFICES ASSUME NEW h \in Goals
                PROVE  /\ Total(Shares(allocations, h)) \in Int /\ Share(row, h) \in Int
                       /\ Total(Shares(grown, h)) = Grown(allocations, row, h)
    OBVIOUS
  <2>1. grown \in Tables /\ grown[i] = row /\ \A j \in AllocationIds \ {i} : grown[j] = allocations[j]
    BY <1>2, <1>3
  <2>. HIDE DEF grown
  <2> QED BY <1>1, <2>1, SharesGrow
<1>5. \A h \in Goals : LiveGoal(h) => goals[h].amount = Total(Shares(allocations, h))
  BY SumIsOfShares DEF SavingsInv, GoalsSumAllocations
<1>6. Stored' = Stored \cup {i}
  BY <1>3, SavingsConstants DEF Stored
<1>7. OfGoal(g)' = OfGoal(g) \cup {i}
  BY <1>3, <1>6 DEF OfGoal, Stored
<1>8. row.amount \in Int
  BY DEF AllocationRows, Cents
<1>9. ASSUME NEW h \in Goals
      PROVE  IF LiveGoal(h)
             THEN /\ goals'[h] \in GoalRows
                  /\ goals'[h].completed <=> goals'[h].amount >= goals'[h].target
                  /\ goals'[h].amount = Total(Shares(allocations', h))
             ELSE goals'[h] = goals[h]
  <2>1. CASE h = g
    <3>. DEFINE moved == Moved(goals[g], row.amount, preferred)
    <3>1. goals'[g] = moved
      BY DEF SavingsTypeOK
    <3>2. goals[g] \in GoalRows /\ goals[g].amount + row.amount \in Cents \cap Nat
      BY GoalRow DEF Movable
    <3>3. /\ moved \in GoalRows /\ moved.amount = goals[g].amount + row.amount
          /\ moved.completed <=> moved.amount >= moved.target
      BY <1>8, <3>2, MovedRow
    <3>. HIDE DEF moved
    <3>4. Share(row, h) = row.amount
      BY <2>1 DEF Share
    <3> QED BY <1>4, <1>5, <2>1, <3>1, <3>3, <3>4 DEF Grown
  <2>2. CASE h # g
    <3>1. goals'[h] = goals[h]
      BY <2>2 DEF SavingsTypeOK
    <3>2. Total(Shares(allocations', h)) = Total(Shares(allocations, h))
      <4>1. Share(row, h) = 0 /\ Total(Shares(allocations, h)) \in Int
        BY <1>4, <2>2 DEF Share
      <4>2. Total(Shares(allocations', h)) = Total(Shares(allocations, h)) + 0
        BY <1>4, <4>1 DEF Grown
      <4> QED BY <4>1, <4>2
    <3> QED BY <1>5, <3>1, <3>2, GoalRow DEF SavingsInv, CompletionDerived
  <2> QED BY <2>1, <2>2
<1>10. IsGoalTable(goals')
  BY DEF SavingsTypeOK, IsGoalTable
<1>11. GoalsFollow
  BY <1>9, <1>10 DEF GoalsFollow
<1> QED BY <1>2, <1>3, <1>6, <1>7, <1>11 DEF Stored

(* A transfer, with the row it backs, under a key no live transaction has. *)
LEMMA SaveKeeps ==
    ASSUME SavingsInv, NEW i \in AllocationIds, NEW t \in Ids, NEW k \in Keys, NEW g \in Goals,
           NEW from \in Accounts, NEW a \in Accounts, NEW n \in Portions,
           Save(i, t, k, g, from, a, n)
    PROVE  SavingsInv'
<1>. LedgerInv /\ SavingsTypeOK /\ TypeOK
  BY DEF SavingsInv, LedgerInv
<1>. DEFINE x   == SavedTransfer(from, a, n)
            tx  == [shape |-> x, key |-> k, owner |-> "managed"]
            row == Row(g, a, n, None, t)
            r   == [kind |-> "save", key |-> k, goal |-> g, from |-> from,
                    account |-> a, amount |-> n]
<1>1. /\ x \in Shapes /\ x.type = "transfer" /\ x.statement = None /\ x.affects
      /\ x.account = from /\ x.dest = a /\ x.amount = n
  BY SavingsConstants DEF SavedTransfer, Shapes, TransactionTypes, Cents
<1>2. /\ tx \in TransactionRows /\ tx.shape = x /\ tx.key = k /\ tx.owner = "managed"
      /\ tx # Deleted /\ k # None /\ t # None
  BY <1>1, LedgerConstants DEF TransactionRows
<1>3. /\ row \in AllocationRows /\ row.goal = g /\ row.account = a /\ row.amount = n
      /\ row.key = None /\ row.transaction = t
  BY SavingsConstants DEF Row, AllocationRows
<1>4. r \in KeyedRequests /\ r.kind = "save" /\ r.key = k /\ Claimant(r) = g
  BY DEF KeyedRequests, Claimant
<1>5. /\ Free(i) /\ transactions[t] = Fresh /\ Tracked(from) /\ Tracked(a) /\ LiveGoal(g)
      /\ ~KeyTaken(k) /\ Acceptable(x) /\ InRange(NoEntries, Posted(x))
      /\ OneCurrency(accounts[a].currency) /\ Movable(g, n)
      /\ transactions' = [transactions EXCEPT ![t] = tx]
      /\ entries' = [entries EXCEPT ![t] = Posted(x)]
      /\ accounts' = Replace(NoEntries, Posted(x))
      /\ allocations' = [allocations EXCEPT ![i] = row]
      /\ goals' = [goals EXCEPT ![g] = Moved(@, n, a)]
      /\ effects' = [effects EXCEPT ![r] = @ + 1]
      /\ UNCHANGED <<audit, statements, receipts, openingLimit>>
  BY DEF Save, Holds, Counted
<1>. HIDE DEF x, tx, row, r
<1>6. ~Live(t) /\ entries[t] = NoEntries
  <2>1. ~Live(t)
    BY <1>5, LiveRow
  <2> QED BY <2>1, NoRowNoEntries
<1>7. /\ Posted(x) \in [Accounts -> Int]
      /\ \A b \in Accounts : Posted(x)[b] # 0 => Tracked(b)
      /\ \A b \in Involved(x) : Posted(x)[b] # 0
  <2>1. Involved(x) = {from, a} /\ ValidShape(x)
    BY <1>1, <1>5 DEF Involved, Acceptable
  <2> QED BY <1>1, <1>5, <2>1, PostedEntries
<1>8. TypeOK' /\ ShapesValid' /\ EntriesFollowTransactions' /\ StatementPaymentsBacked'
  <2>1. receipts' \in [Keys -> Receipts \cup {None}]
    BY <1>5 DEF TypeOK
  <2> QED BY <1>2, <1>5, <1>6, <1>7, <2>1, RowRewritten
<1>9. \A u \in Ids : /\ u # t => /\ transactions'[u] = transactions[u] /\ entries'[u] = entries[u]
                                 /\ (Live(u)' <=> Live(u))
                     /\ u = t => /\ transactions'[u] = tx /\ entries'[u] = Posted(x)
                                 /\ Live(u)' /\ Shape(u)' = x
  BY <1>2, <1>5 DEF TypeOK, Live, Shape
<1>10. LedgerInv'
  <2>1. \A u \in Ids : Live(u) => transactions[u].key # k
    BY <1>2, <1>5 DEF KeyTaken
  <2>2. KeysUnique'
    BY <1>2, <1>9, <2>1 DEF LedgerInv, KeysUnique
  <2> QED BY <1>8, <2>2 DEF LedgerInv
<1>11. /\ allocations' \in Tables
       /\ \A j \in Stored : allocations'[j] = allocations[j]
       /\ Stored' \ Stored = {i} /\ allocations'[i] = row
       /\ OfGoal(g)' = OfGoal(g) \cup {i}
       /\ GoalsFollow
  <2>1. /\ Movable(g, row.amount) /\ a \in Accounts \cup {None}
        /\ goals' = [goals EXCEPT ![g] = Moved(@, row.amount, a)]
    BY <1>3, <1>5
  <2>2. /\ allocations' \in Tables
        /\ \A j \in Stored : allocations'[j] = allocations[j]
        /\ Stored' = Stored \cup {i} /\ i \notin Stored /\ allocations'[i] = row
        /\ OfGoal(g)' = OfGoal(g) \cup {i}
        /\ GoalsFollow
    <3>1. Free(i) /\ LiveGoal(g) /\ row \in AllocationRows /\ row.goal = g
      BY <1>3, <1>5
    <3>2. allocations' = [allocations EXCEPT ![i] = row]
      BY <1>5
    <3> QED BY <2>1, <3>1, <3>2, RowStored
  <2> QED BY <2>2
<1>12. \A b \in Accounts : AccountExists(b) =>
           AccountExists(b)' /\ accounts'[b].currency = accounts[b].currency
  BY <1>5, <1>6, <1>7, BalancesMove
<1>13. Backs(t, i)'
  BY <1>1, <1>2, <1>3, <1>7, <1>9, <1>11 DEF Backs
<1>14. ~Claimed(r)
  <2>. SUFFICES ASSUME NEW j \in OfGoal(g), KeyOf(j) = k, allocations[j].transaction # None
                PROVE  FALSE
    BY <1>4, <1>5 DEF Claimed, LiveGoal
  <2>1. j \in Stored /\ allocations[j].transaction \in Ids
    BY StoredRow DEF OfGoal, Stored, AllocationRows
  <2>2. Live(allocations[j].transaction) /\ transactions[allocations[j].transaction].key = k
    BY <2>1 DEF SavingsInv, SavedTransfersOwned, Backs, KeyOf
  <2> QED BY <1>2, <1>5, <2>1, <2>2 DEF KeyTaken
<1>15. Claimed(r)'
  BY <1>2, <1>3, <1>4, <1>9, <1>11 DEF Claimed, KeyOf
<1>16. \A u \in Ids : Live(u) => transactions'[u] = transactions[u] /\ entries'[u] = entries[u]
  BY <1>6, <1>9
<1>17. \A j \in Stored' \ Stored : LiveGoal(allocations'[j].goal) /\ allocations'[j].account = a
  BY <1>3, <1>5, <1>11
<1>18. \A j \in Stored' \ Stored, u \in Ids :
           allocations'[j].transaction = u => ~Live(u) /\ Backs(u, j)'
  BY <1>3, <1>6, <1>11, <1>13
<1>19. \A j, l \in Stored' \ Stored :
           allocations'[j].transaction = allocations'[l].transaction
           /\ allocations'[j].transaction # None => j = l
  BY <1>11
<1>20. AccountExists(a)
  BY <1>5 DEF Tracked
<1> QED BY <1>4, <1>5, <1>10, <1>11, <1>12, <1>14, <1>15, <1>16, <1>17, <1>18, <1>19, <1>20, RowsAdded

(* Assigning or releasing writes one row, under a key no row has. *)
LEMMA AllocateKeeps ==
    ASSUME SavingsInv, NEW i \in AllocationIds, NEW k \in Keys, NEW g \in Goals,
           NEW a \in Accounts, NEW n \in Portions, Allocate(i, k, g, a, n)
    PROVE  SavingsInv'
<1>. LedgerInv /\ SavingsTypeOK
  BY DEF SavingsInv
<1>. DEFINE row == Row(g, a, n, k, None)
            r   == [kind |-> "allocate", key |-> k, goal |-> g, account |-> a, amount |-> n]
<1>1. /\ row \in AllocationRows /\ row.goal = g /\ row.account = a /\ row.amount = n
      /\ row.key = k /\ row.transaction = None
  BY SavingsConstants DEF Row, AllocationRows
<1>2. r \in KeyedRequests /\ r.kind = "allocate" /\ r.key = k /\ Claimant(r) = g
  BY DEF KeyedRequests, Claimant
<1>3. /\ Free(i) /\ Tracked(a) /\ OneCurrency(accounts[a].currency) /\ LiveGoal(g)
      /\ ~KeyUsed(k) /\ Movable(g, n)
      /\ allocations' = [allocations EXCEPT ![i] = row]
      /\ goals' = [goals EXCEPT ![g] = Moved(@, n, a)]
      /\ effects' = [effects EXCEPT ![r] = @ + 1]
      /\ UNCHANGED vars
  BY DEF Allocate, Holds, Counted
<1>. HIDE DEF row, r
<1>4. LedgerInv'
  BY <1>3, LedgerStepKeeps
<1>5. /\ allocations' \in Tables
      /\ \A j \in Stored : allocations'[j] = allocations[j]
      /\ Stored' = Stored \cup {i} /\ i \notin Stored /\ allocations'[i] = row
      /\ OfGoal(g)' = OfGoal(g) \cup {i}
      /\ GoalsFollow
  <2>1. /\ Movable(g, row.amount) /\ a \in Accounts \cup {None}
        /\ goals' = [goals EXCEPT ![g] = Moved(@, row.amount, a)]
    BY <1>1, <1>3
  <2>2. Free(i) /\ LiveGoal(g) /\ row \in AllocationRows /\ row.goal = g
    BY <1>1, <1>3
  <2>3. allocations' = [allocations EXCEPT ![i] = row]
    BY <1>3
  <2> QED BY <2>1, <2>2, <2>3, RowStored
<1>6. Stored' \ Stored = {i}
  BY <1>5
<1>7. ~Claimed(r)
  <2>. SUFFICES ASSUME NEW j \in OfGoal(g), KeyOf(j) = k, allocations[j].transaction = None
                PROVE  FALSE
    BY <1>2, <1>3 DEF Claimed, LiveGoal
  <2> QED BY <1>3 DEF KeyUsed, KeyOf, OfGoal
<1>8. Claimed(r)'
  BY <1>1, <1>2, <1>5 DEF Claimed, KeyOf
<1>9. \A b \in Accounts : AccountExists(b) =>
          AccountExists(b)' /\ accounts'[b].currency = accounts[b].currency
  BY <1>3 DEF vars, AccountExists
<1>10. \A u \in Ids : Live(u) => transactions'[u] = transactions[u] /\ entries'[u] = entries[u]
  BY <1>3 DEF vars
<1>11. \A j \in Stored' \ Stored : LiveGoal(allocations'[j].goal) /\ allocations'[j].account = a
  BY <1>1, <1>3, <1>5, <1>6
<1>12. \A j \in Stored' \ Stored, u \in Ids :
           allocations'[j].transaction = u => ~Live(u) /\ Backs(u, j)'
  BY <1>1, <1>5, <1>6, LedgerConstants
<1>13. \A j, l \in Stored' \ Stored :
           allocations'[j].transaction = allocations'[l].transaction
           /\ allocations'[j].transaction # None => j = l
  BY <1>6
<1>14. AccountExists(a)
  BY <1>3 DEF Tracked
<1> QED BY <1>2, <1>3, <1>4, <1>5, <1>7, <1>8, <1>9, <1>10, <1>11, <1>12, <1>13, <1>14, RowsAdded

(* Moving a share from one goal to another writes a row for each: what one    *)
(* loses, the other gains, and the sums of all the others stay.               *)
LEMMA TwoRowsStored ==
    ASSUME SavingsInv, NEW i \in AllocationIds, NEW j \in AllocationIds, i # j, Free(i), Free(j),
           NEW left \in AllocationRows, NEW right \in AllocationRows,
           NEW g \in Goals, NEW h \in Goals, g # h, LiveGoal(g), LiveGoal(h),
           left.goal = g, right.goal = h,
           Movable(g, left.amount), Movable(h, right.amount),
           NEW a \in Accounts \cup {None},
           allocations' \in Tables, allocations'[i] = left, allocations'[j] = right,
           \A l \in AllocationIds \ {i, j} : allocations'[l] = allocations[l],
           IsGoalTable(goals'),
           goals'[g] = Moved(goals[g], left.amount, None),
           goals'[h] = Moved(goals[h], right.amount, a),
           \A x \in Goals \ {g, h} : goals'[x] = goals[x]
    PROVE  /\ \A l \in Stored : allocations'[l] = allocations[l]
           /\ Stored' = Stored \cup {i, j} /\ i \notin Stored /\ j \notin Stored
           /\ OfGoal(g)' = OfGoal(g) \cup {i}
           /\ GoalsFollow
<1>. SavingsTypeOK
  BY DEF SavingsInv
<1>. DEFINE mid   == [allocations EXCEPT ![i] = left]
            final == allocations'
<1>1. allocations \in Tables /\ allocations[i] = Fresh /\ allocations[j] = Fresh
  BY DEF SavingsTypeOK, Tables, Free
<1>2. /\ mid \in Tables /\ mid[i] = left /\ mid[j] = Fresh
      /\ \A l \in AllocationIds \ {i} : mid[l] = allocations[l]
  BY <1>1 DEF Tables
<1>3. /\ final \in Tables /\ final[i] = left /\ final[j] = right
      /\ \A l \in AllocationIds \ {j} : final[l] = mid[l]
      /\ \A l \in AllocationIds \ {i, j} : final[l] = allocations[l]
  BY <1>1, <1>2
<1>4. Stored' = Stored \cup {i, j} /\ i \notin Stored /\ j \notin Stored
  <2>1. \A l \in AllocationIds : allocations'[l] # Fresh <=> allocations[l] # Fresh \/ l \in {i, j}
    BY SavingsConstants
  <2> QED BY <1>1, <2>1 DEF Stored
<1>5. OfGoal(g)' = OfGoal(g) \cup {i}
  <2>1. \A l \in Stored' : allocations'[l].goal = g <=> l \in OfGoal(g) \/ l = i
    BY <1>4 DEF OfGoal, Stored
  <2> QED BY <1>4, <2>1 DEF OfGoal
<1>. HIDE DEF mid, final
<1>6. ASSUME NEW x \in Goals
      PROVE  /\ Total(Shares(allocations, x)) \in Int /\ Share(left, x) \in Int
             /\ Share(right, x) \in Int
             /\ Total(Shares(final, x)) =
                    Total(Shares(allocations, x)) + Share(left, x) + Share(right, x)
  <2>1. /\ Total(Shares(allocations, x)) \in Int /\ Share(left, x) \in Int
        /\ Total(Shares(mid, x)) = Grown(allocations, left, x)
    BY <1>1, <1>2, SharesGrow
  <2>2. /\ Total(Shares(mid, x)) \in Int /\ Share(right, x) \in Int
        /\ Total(Shares(final, x)) = Grown(mid, right, x)
    BY <1>2, <1>3, SharesGrow
  <2> QED BY <2>1, <2>2 DEF Grown
<1>7. \A x \in Goals : LiveGoal(x) => goals[x].amount = Total(Shares(allocations, x))
  BY SumIsOfShares DEF SavingsInv, GoalsSumAllocations
<1>8. left.amount \in Int /\ right.amount \in Int
  BY DEF AllocationRows, Cents
<1>9. ASSUME NEW x \in Goals, NEW row \in AllocationRows, NEW p \in Accounts \cup {None},
             LiveGoal(x), Movable(x, row.amount), row.amount \in Int,
             goals'[x] = Moved(goals[x], row.amount, p),
             Total(Shares(final, x)) = Total(Shares(allocations, x)) + row.amount
      PROVE  /\ goals'[x] \in GoalRows
             /\ goals'[x].completed <=> goals'[x].amount >= goals'[x].target
             /\ goals'[x].amount = Total(Shares(final, x))
  <2>. DEFINE moved == Moved(goals[x], row.amount, p)
  <2>1. goals[x] \in GoalRows /\ goals[x].amount + row.amount \in Cents \cap Nat
    BY <1>9, GoalRow DEF Movable
  <2>2. /\ moved \in GoalRows /\ moved.amount = goals[x].amount + row.amount
        /\ moved.completed <=> moved.amount >= moved.target
    BY <1>9, <2>1, MovedRow
  <2>. HIDE DEF moved
  <2>3. goals'[x] = moved
    BY <1>9 DEF moved
  <2> QED BY <1>7, <1>9, <2>2, <2>3
<1>10. ASSUME NEW x \in Goals
       PROVE  IF LiveGoal(x)
              THEN /\ goals'[x] \in GoalRows
                   /\ goals'[x].completed <=> goals'[x].amount >= goals'[x].target
                   /\ goals'[x].amount = Total(Shares(final, x))
              ELSE goals'[x] = goals[x]
  <2>1. CASE x = g
    <3>1. goals'[x] = Moved(goals[x], left.amount, None)
      BY <2>1
    <3>2. Share(left, x) = left.amount /\ Share(right, x) = 0
      BY <2>1 DEF Share
    <3>3. Total(Shares(final, x)) = Total(Shares(allocations, x)) + left.amount
      BY <1>6, <1>8, <3>2
    <3> QED BY <1>8, <1>9, <2>1, <3>1, <3>3
  <2>2. CASE x = h
    <3>1. goals'[x] = Moved(goals[x], right.amount, a)
      BY <2>2
    <3>2. Share(left, x) = 0 /\ Share(right, x) = right.amount
      BY <2>2 DEF Share
    <3>3. Total(Shares(final, x)) = Total(Shares(allocations, x)) + right.amount
      BY <1>6, <1>8, <3>2
    <3> QED BY <1>8, <1>9, <2>2, <3>1, <3>3
  <2>3. CASE x \notin {g, h}
    <3>1. goals'[x] = goals[x]
      BY <2>3
    <3>2. Share(left, x) = 0 /\ Share(right, x) = 0
      BY <2>3 DEF Share
    <3>3. Total(Shares(final, x)) = Total(Shares(allocations, x))
      BY <1>6, <3>2
    <3> QED BY <1>7, <3>1, <3>3, GoalRow DEF SavingsInv, CompletionDerived
  <2> QED BY <2>1, <2>2, <2>3
<1>11. GoalsFollow
  BY <1>10 DEF GoalsFollow, final
<1>12. \A l \in Stored : final[l] = allocations[l]
  BY <1>3, <1>4 DEF Stored
<1> QED BY <1>4, <1>5, <1>11, <1>12 DEF final

(* A reallocation claims its key with the row of the goal that gives. *)
LEMMA ReallocateKeeps ==
    ASSUME SavingsInv, NEW i \in AllocationIds, NEW j \in AllocationIds, NEW k \in Keys,
           NEW g \in Goals, NEW h \in Goals, NEW a \in Accounts, NEW n \in Portions,
           Reallocate(i, j, k, g, h, a, n)
    PROVE  SavingsInv'
<1>. LedgerInv /\ SavingsTypeOK
  BY DEF SavingsInv
<1>. DEFINE left  == Row(g, a, -n, k, None)
            right == Row(h, a, n, None, None)
            r     == [kind |-> "reallocate", key |-> k, from |-> g, goal |-> h,
                      account |-> a, amount |-> n]
<1>1. -n \in Cents \ {0}
  BY SavingsConstants, LedgerConstants DEF Reallocate, Cents
<1>2. /\ left \in AllocationRows /\ left.goal = g /\ left.account = a /\ left.amount = -n
      /\ left.key = k /\ left.transaction = None
  BY <1>1 DEF Row, AllocationRows
<1>3. /\ right \in AllocationRows /\ right.goal = h /\ right.account = a /\ right.amount = n
      /\ right.transaction = None
  BY SavingsConstants DEF Row, AllocationRows
<1>4. r \in KeyedRequests /\ r.kind = "reallocate" /\ r.key = k /\ Claimant(r) = g
  BY DEF KeyedRequests, Claimant
<1>5. /\ i # j /\ g # h
      /\ Free(i) /\ Free(j) /\ Tracked(a) /\ OneCurrency(accounts[a].currency)
      /\ LiveGoal(g) /\ LiveGoal(h)
      /\ ~KeyUsed(k) /\ Movable(g, left.amount) /\ Movable(h, right.amount)
      /\ allocations' = [allocations EXCEPT ![i] = left, ![j] = right]
      /\ goals' = [goals EXCEPT ![g] = Moved(@, left.amount, None),
                                ![h] = Moved(@, right.amount, a)]
      /\ effects' = [effects EXCEPT ![r] = @ + 1]
      /\ UNCHANGED vars
  BY <1>2, <1>3 DEF Reallocate, Holds, Counted
<1>. HIDE DEF left, right, r
<1>6. LedgerInv'
  BY <1>5, LedgerStepKeeps
<1>7. /\ allocations' \in Tables
      /\ \A l \in Stored : allocations'[l] = allocations[l]
      /\ Stored' = Stored \cup {i, j} /\ i \notin Stored /\ j \notin Stored
      /\ allocations'[i] = left /\ allocations'[j] = right
      /\ OfGoal(g)' = OfGoal(g) \cup {i}
      /\ GoalsFollow
  <2>1. /\ IsGoalTable(goals')
        /\ goals'[g] = Moved(goals[g], left.amount, None)
        /\ goals'[h] = Moved(goals[h], right.amount, a)
        /\ \A x \in Goals \ {g, h} : goals'[x] = goals[x]
    BY <1>5 DEF SavingsTypeOK, IsGoalTable
  <2>2. a \in Accounts \cup {None}
    OBVIOUS
  <2>3. /\ allocations' \in Tables /\ allocations'[i] = left /\ allocations'[j] = right
        /\ \A l \in AllocationIds \ {i, j} : allocations'[l] = allocations[l]
    BY <1>2, <1>3, <1>5 DEF SavingsTypeOK, Tables
  <2>4. /\ \A l \in Stored : allocations'[l] = allocations[l]
        /\ Stored' = Stored \cup {i, j} /\ i \notin Stored /\ j \notin Stored
        /\ OfGoal(g)' = OfGoal(g) \cup {i}
        /\ GoalsFollow
    <3>1. i # j /\ g # h /\ Free(i) /\ Free(j) /\ LiveGoal(g) /\ LiveGoal(h)
          /\ Movable(g, left.amount) /\ Movable(h, right.amount)
      BY <1>5
    <3> QED BY <1>2, <1>3, <3>1, <2>1, <2>2, <2>3, TwoRowsStored
  <2> QED BY <2>3, <2>4
<1>8. Stored' \ Stored = {i, j}
  BY <1>7
<1>9. ~Claimed(r)
  <2>. SUFFICES ASSUME NEW l \in OfGoal(g), KeyOf(l) = k, allocations[l].transaction = None
                PROVE  FALSE
    BY <1>4, <1>5 DEF Claimed, LiveGoal
  <2> QED BY <1>5 DEF KeyUsed, KeyOf, OfGoal
<1>10. Claimed(r)'
  BY <1>2, <1>4, <1>7 DEF Claimed, KeyOf
<1>11. \A b \in Accounts : AccountExists(b) =>
           AccountExists(b)' /\ accounts'[b].currency = accounts[b].currency
  BY <1>5 DEF vars, AccountExists
<1>12. \A u \in Ids : Live(u) => transactions'[u] = transactions[u] /\ entries'[u] = entries[u]
  BY <1>5 DEF vars
<1>13. \A l \in Stored' \ Stored : LiveGoal(allocations'[l].goal) /\ allocations'[l].account = a
  BY <1>2, <1>3, <1>5, <1>7, <1>8
<1>14. \A l \in Stored' \ Stored : allocations'[l].transaction = None
  BY <1>2, <1>3, <1>7, <1>8
<1>15. \A l \in Stored' \ Stored, u \in Ids :
           allocations'[l].transaction = u => ~Live(u) /\ Backs(u, l)'
  BY <1>14, LedgerConstants
<1>16. \A l, m \in Stored' \ Stored :
           allocations'[l].transaction = allocations'[m].transaction
           /\ allocations'[l].transaction # None => l = m
  BY <1>14
<1>17. AccountExists(a)
  BY <1>5 DEF Tracked
<1> QED BY <1>4, <1>5, <1>6, <1>7, <1>9, <1>10, <1>11, <1>12, <1>13, <1>15, <1>16, <1>17, RowsAdded

-----------------------------------------------------------------------------
(* What the migrations leave satisfies the invariant: legacy rows name accounts *)
(* that exist, and no transaction.                                             *)
LEMMA SavingsInitEstablishes == SavingsInit => SavingsInv
<1>. SUFFICES ASSUME SavingsInit PROVE SavingsInv
  OBVIOUS
<1>1. LedgerInv
  BY InitEstablishes DEF SavingsInit, IInv, LedgerInv
<1>2. \A i \in AllocationIds :
        \/ allocations[i] = Fresh
        \/ \E g \in LegacyGoals : allocations[i] \in LegacyAllocation(g)
  <2>. DEFINE empty == [i \in AllocationIds |-> Fresh]
  <2>1. \/ allocations = empty
        \/ \E g \in LegacyGoals, i \in AllocationIds : \E q \in LegacyAllocation(g) :
               \/ allocations = [empty EXCEPT ![i] = q]
               \/ \E j \in AllocationIds \ {i} : \E s \in LegacyAllocation(g) :
                      allocations = [empty EXCEPT ![i] = q, ![j] = s]
    BY DEF SavingsInit
  <2> QED BY <2>1
<1>3. \A g \in LegacyGoals : \A q \in LegacyAllocation(g) :
        /\ q \in AllocationRows /\ q.transaction = None
        /\ q.account \in LegacyAccounts \cup {None}
  BY LedgerConstants, SavingsConstants DEF LegacyAllocation, AllocationRows
<1>4. \A i \in Stored : /\ allocations[i] \in AllocationRows
                        /\ allocations[i].transaction = None
                        /\ allocations[i].account \in LegacyAccounts \cup {None}
  BY <1>2, <1>3 DEF Stored
<1>5. PICK n \in Targets, a \in LegacyAccounts \cup {None} :
        goals = [g \in Goals |-> IF OfGoal(g) = {} THEN Fresh ELSE
            [amount |-> Sum(OfGoal(g)), target |-> n, account |-> a,
             completed |-> Sum(OfGoal(g)) >= n]]
  BY DEF SavingsInit
<1>6. ASSUME NEW g \in Goals
      PROVE  /\ OfGoal(g) = {} => goals[g] = Fresh
             /\ OfGoal(g) # {} => /\ goals[g] \in GoalRows
                                  /\ goals[g].amount = Sum(OfGoal(g))
                                  /\ goals[g].completed <=> goals[g].amount >= goals[g].target
  <2>. DEFINE sum  == Sum(OfGoal(g))
              done == sum >= n
  <2>1. sum \in Cents \cap Nat
    BY DEF SavingsInit
  <2>2. done \in BOOLEAN
    OBVIOUS
  <2>3. n \in Cents \cap (Nat \ {0}) /\ a \in Accounts \cup {None}
    BY LedgerConstants, SavingsConstants
  <2>4. OfGoal(g) # {} => goals[g] = [amount |-> sum, target |-> n, account |-> a, completed |-> done]
    BY <1>5
  <2>5. OfGoal(g) = {} => goals[g] = Fresh
    BY <1>5
  <2>. HIDE DEF sum, done
  <2>6. OfGoal(g) # {} => /\ goals[g] \in GoalRows /\ goals[g].amount = sum
                          /\ goals[g].completed = done /\ goals[g].target = n
    BY <2>1, <2>2, <2>3, <2>4 DEF GoalRows
  <2> QED BY <2>5, <2>6 DEF sum, done
<1>7. SavingsTypeOK
  <2>1. allocations \in [AllocationIds -> AllocationRows \cup {Fresh}]
    <3>1. \A i \in AllocationIds : allocations[i] \in AllocationRows \cup {Fresh}
      BY <1>2, <1>3
    <3>2. allocations = [i \in AllocationIds |-> allocations[i]]
      BY DEF SavingsInit
    <3> QED BY <3>1, <3>2
  <2>2. goals \in [Goals -> GoalRows \cup {Fresh, Deleted}]
    <3>1. \A g \in Goals : goals[g] \in GoalRows \cup {Fresh, Deleted}
      BY <1>6
    <3> QED BY <1>5, <3>1
  <2> QED BY <2>1, <2>2 DEF SavingsInit, SavingsTypeOK
<1>8. \A g \in Goals : LiveGoal(g) <=> OfGoal(g) # {}
  BY <1>6, <1>7, GoalRow DEF LiveGoal
<1>9. CompletionDerived /\ GoalsSumAllocations
  BY <1>6, <1>8 DEF CompletionDerived, GoalsSumAllocations
<1>10. ReferencesExist
  <2>1. \A i \in Stored : allocations[i].goal \in Goals /\ i \in OfGoal(allocations[i].goal)
    BY <1>4 DEF AllocationRows, OfGoal
  <2>2. \A b \in LegacyAccounts : AccountExists(b)
    <3>1. \A b \in LegacyAccounts : accounts[b] \in LegacyRows
      BY LedgerConstants DEF SavingsInit, Init
    <3>2. LegacyRows \subseteq AccountRows
      BY LedgerConstants DEF LegacyRows, AccountRows
    <3> QED BY <3>1, <3>2 DEF AccountExists
  <2> QED BY <1>4, <1>8, <2>1, <2>2 DEF ReferencesExist
<1>11. AllocationsShareCurrency
  BY DEF SavingsInit, AllocationsShareCurrency
<1>12. SavedTransfersOwned
  BY <1>4, LedgerConstants DEF SavedTransfersOwned
<1>13. EffectsClaimed
  BY DEF SavingsInit, EffectsClaimed
<1> QED BY <1>1, <1>7, <1>9, <1>10, <1>11, <1>12, <1>13 DEF SavingsInv

(* A stuttering step keeps it. *)
LEMMA NothingKeeps ==
    ASSUME SavingsInv, UNCHANGED savingsVars
    PROVE  SavingsInv'
<1>1. UNCHANGED vars /\ UNCHANGED <<goals, allocations, effects>>
  BY DEF savingsVars
<1>2. \A i \in Stored, a \in Accounts : allocations[i].account = a =>
          AccountExists(a)' /\ accounts'[a].currency = accounts[a].currency
  BY <1>1, LedgerConstants DEF SavingsInv, ReferencesExist, vars, AccountExists
<1> QED BY <1>1, <1>2, LedgerStepKeepsSavings

(* Every step of the goals and of the ledger beneath them keeps the invariant. *)
LEMMA SavingsStepKeeps == SavingsInv /\ [SavingsNext]_savingsVars => SavingsInv'
<1>. SUFFICES ASSUME SavingsInv, [SavingsNext]_savingsVars PROVE SavingsInv'
  OBVIOUS
<1>1. CASE GoalStep
  BY <1>1, CreateGoalKeeps, UpdateGoalKeeps, DeleteGoalKeeps, SaveKeeps, AllocateKeeps,
     ReallocateKeeps DEF GoalStep
<1>2. CASE OtherLedgerStep
  BY <1>2, OtherLedgerStepKeeps
<1>3. CASE \E a \in Accounts : (\E p \in Patches : PatchAccount(a, p)) \/ RemoveAccount(a)
  BY <1>3, PatchAccountKeeps, RemoveAccountKeeps
<1>4. CASE UNCHANGED savingsVars
  BY <1>4, NothingKeeps
<1> QED BY <1>1, <1>2, <1>3, <1>4 DEF SavingsNext

(* The invariant is inductive. *)
THEOREM SavingsInvariance == SavingsSpec => []SavingsInv
  BY SavingsInitEstablishes, SavingsStepKeeps, PTL DEF SavingsSpec

(* Every row of the goals keeps its type: no order of saving, releasing and    *)
(* reallocating leaves a goal with a negative amount or one beyond bigint.     *)
THEOREM SavingsTypeCorrect == SavingsSpec => []SavingsTypeOK
<1>1. SavingsInv => SavingsTypeOK
  BY DEF SavingsInv
<1> QED BY <1>1, SavingsInvariance, PTL

(* A goal is completed exactly when it has reached its target, whatever moved   *)
(* the one or the other.                                                       *)
THEOREM CompletionIsDerived == SavingsSpec => []CompletionDerived
<1>1. SavingsInv => CompletionDerived
  BY DEF SavingsInv
<1> QED BY <1>1, SavingsInvariance, PTL

(* The running amount of a goal is the sum of its allocation rows, for any      *)
(* number of rows and after any history.                                       *)
THEOREM GoalsSum == SavingsSpec => []GoalsSumAllocations
<1>1. SavingsInv => GoalsSumAllocations
  BY DEF SavingsInv
<1> QED BY <1>1, SavingsInvariance, PTL

(* Accounts that hold allocations have one currency, through patches, removals *)
(* and every way to assign money.                                              *)
THEOREM CurrencyShared == SavingsSpec => []AllocationsShareCurrency
<1>1. SavingsInv => AllocationsShareCurrency
  BY DEF SavingsInv
<1> QED BY <1>1, SavingsInvariance, PTL

(* The transfer an allocation was saved with is there as it was, in the ledger  *)
(* of both accounts, as long as the allocation is.                             *)
THEOREM SavedBacked == SavingsSpec => []SavedTransfersBacked
<1>1. SavingsInv => SavedTransfersBacked
  <2>. SUFFICES ASSUME SavingsInv, NEW i \in Stored, allocations[i].transaction # None
                PROVE  Backs(allocations[i].transaction, i)
    BY DEF SavedTransfersBacked, Backs
  <2>1. allocations[i].transaction \in Ids
    BY StoredRow DEF SavingsInv, Stored, AllocationRows
  <2> QED BY <2>1 DEF SavingsInv, SavedTransfersOwned
<1> QED BY <1>1, SavingsInvariance, PTL

(* No keyed request takes effect twice, also after its rows were deleted. *)
THEOREM RequestsOnce == SavingsSpec => []OncePerRequest
<1>1. SavingsInv => OncePerRequest
  <2>1. \A n \in {0, 1} : n <= 1
    OBVIOUS
  <2> QED BY <2>1 DEF SavingsInv, EffectsClaimed, OncePerRequest
<1> QED BY <1>1, SavingsInvariance, PTL

-----------------------------------------------------------------------------
(* Saving and deleting goals explain their balances like the ledger's own steps. *)
LEMMA ExplanationKeptBySavings ==
    ASSUME SavingsInv, LedgerExplainsValue, [SavingsNext]_savingsVars
    PROVE  LedgerExplainsValue'
<1>. LedgerInv
  BY DEF SavingsInv
<1>1. CASE [Next]_vars
  BY <1>1, ExplanationKept
<1>2. ASSUME NEW g \in Goals, DeleteGoal(g) PROVE LedgerExplainsValue'
  <2>1. UNCHANGED <<accounts, entries, audit, openingLimit>>
    BY <1>2 DEF DeleteGoal
  <2>2. \A a \in Accounts : Tracked(a)' => Tracked(a) /\ Gap(a)' = Gap(a)
    BY <2>1, SameGap DEF Tracked, AccountExists
  <2> QED BY <2>2 DEF LedgerExplainsValue, Gap, Entries
<1>3. ASSUME NEW i \in AllocationIds, NEW t \in Ids, NEW k \in Keys, NEW g \in Goals,
             NEW from \in Accounts, NEW a \in Accounts, NEW n \in Portions,
             Save(i, t, k, g, from, a, n)
      PROVE  LedgerExplainsValue'
  <2>. DEFINE x == SavedTransfer(from, a, n)
  <2>1. x \in Shapes
    BY SavingsConstants DEF SavedTransfer, Shapes, TransactionTypes, Cents
  <2>2. /\ InRange(NoEntries, Posted(x)) /\ transactions[t] = Fresh
        /\ entries' = [entries EXCEPT ![t] = Posted(x)]
        /\ accounts' = Replace(NoEntries, Posted(x))
        /\ UNCHANGED <<audit, openingLimit>>
    BY <1>3 DEF Save
  <2>. HIDE DEF x
  <2>3. entries[t] = NoEntries
    BY <2>2, LiveRow, NoRowNoEntries DEF LedgerInv
  <2>4. Posted(x) \in [Accounts -> Int] /\ \A b \in Accounts : Posted(x)[b] # 0 => Tracked(b)
    BY <2>1, PostedEntries
  <2>5. \A b \in Accounts : Tracked(b)' => Tracked(b) /\ Gap(b)' = Gap(b)
    BY <2>2, <2>3, <2>4, GapsBalanced
  <2> QED BY <2>5 DEF LedgerExplainsValue, Gap, Entries
<1>4. CASE GoalStep
  <2>1. CASE UNCHANGED vars
    BY <1>1, <2>1
  <2>2. /\ \A g \in Goals, n \in Targets, a \in Accounts \cup {None} :
               CreateGoal(g, n, a) => UNCHANGED vars
        /\ \A g \in Goals, n \in Targets \cup {Unset}, a \in Accounts \cup {None, Unset} :
               UpdateGoal(g, n, a) => UNCHANGED vars
    BY DEF CreateGoal, UpdateGoal
  <2>3. \A i \in AllocationIds, k \in Keys, g \in Goals, a \in Accounts, n \in Portions :
            /\ Allocate(i, k, g, a, n) => UNCHANGED vars
            /\ \A j \in AllocationIds, h \in Goals : Reallocate(i, j, k, g, h, a, n) => UNCHANGED vars
    BY DEF Allocate, Reallocate
  <2> QED BY <1>2, <1>3, <1>4, <2>1, <2>2, <2>3 DEF GoalStep
<1>5. CASE ~GoalStep
  BY <1>1, <1>5 DEF SavingsNext, OtherLedgerStep, PatchAccount, RemoveAccount, Next, AccountStep,
     savingsVars
<1> QED BY <1>4, <1>5

(* What savings write to the accounts is in their ledgers too: the value of a   *)
(* tracked account stays explained by its entries under savings as well.       *)
THEOREM LedgerExplainedUnderSavings == SavingsSpec => []LedgerExplainsValue
<1>1. SavingsInit => LedgerExplainsValue
  BY LedgerConstants
     DEF SavingsInit, Init, LedgerExplainsValue, Tracked, AccountExists, LegacyRows
<1> QED BY <1>1, ExplanationKeptBySavings, SavingsInvariance, PTL DEF SavingsSpec

(* Every entry is the effect of a live transaction, and every statement payment *)
(* moves two balances, with saved transfers and deleted goals among them.      *)
THEOREM EntriesFollowUnderSavings ==
    SavingsSpec => [](EntriesFollowTransactions /\ StatementPaymentsBacked)
<1>1. SavingsInv => EntriesFollowTransactions /\ StatementPaymentsBacked
  BY DEF SavingsInv, LedgerInv
<1> QED BY <1>1, SavingsInvariance, PTL
=============================================================================
