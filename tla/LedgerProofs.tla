---------------------------- MODULE LedgerProofs ----------------------------
(* Theorems about Ledger, for every set of accounts, transactions, keys and   *)
(* statements, every range of bigint and every amount.                        *)
EXTENDS Ledger, TotalProofs, TLAPS

(* The shape checks of validateTransactionShape hold of every stored row. *)
ShapesValid == \A t \in Ids : Live(t) => ValidShape(Shape(t))

(* The partial unique index on (user_id, idempotency_key). *)
KeysUnique ==
    \A t, u \in Ids : Live(t) /\ Live(u) /\ transactions[t].key = transactions[u].key
                      /\ transactions[t].key # None => t = u

IInv == /\ TypeOK
        /\ ShapesValid
        /\ KeysUnique
        /\ EntriesFollowTransactions
        /\ StatementPaymentsBacked
        /\ ReceiptNamesItsTransaction

(* The part of it that holds of the tables whoever writes the transactions: the *)
(* modules that write transactions of their own under a key keep this part, and *)
(* the receipts are the business of the requests that have them.                *)
LedgerInv ==
    TypeOK /\ ShapesValid /\ KeysUnique /\ EntriesFollowTransactions /\ StatementPaymentsBacked

(* What a request may carry is a shape. *)
LEMMA RequestsAreShapes == RequestShapes \subseteq Shapes
  BY LedgerConstants DEF RequestShapes, Shapes

(* A live row is neither of the two markers. *)
LEMMA LiveRow ==
    ASSUME TypeOK, NEW t \in Ids
    PROVE  /\ Live(t) => /\ transactions[t] \in TransactionRows
                         /\ Shape(t) \in Shapes
                         /\ transactions[t] # Fresh
           /\ Fresh \notin TransactionRows
           /\ Deleted \notin TransactionRows
  BY LedgerConstants DEF Live, Shape, TransactionRows

(* The effect of a valid shape on an account it involves is a non-zero amount. *)
LEMMA DeltaNonZero ==
    ASSUME NEW x \in Shapes, NEW a \in Accounts
    PROVE  /\ Delta(x, a) \in Int
           /\ ValidShape(x) => Delta(x, a) # 0
  BY DEF Shapes, Delta, ValidShape

(* A transaction posts an effect on exactly the tracked accounts it involves, *)
(* and only if it affects balances.                                           *)
LEMMA PostedEntries ==
    ASSUME NEW x \in Shapes
    PROVE  /\ Posted(x) \in [Accounts -> Int]
           /\ \A a \in Accounts : Posted(x)[a] # 0 =>
                  /\ x.affects /\ a \in Involved(x) /\ Tracked(a)
                  /\ Posted(x)[a] = Delta(x, a)
           /\ \A a \in Accounts :
                  ValidShape(x) /\ x.affects /\ a \in Involved(x) /\ Tracked(a)
                  => Posted(x)[a] # 0
  BY DeltaNonZero DEF Posted

(* Replacing entries touches values only, and only of accounts that exist. *)
LEMMA ReplaceKeepsRows ==
    ASSUME TypeOK,
           NEW old \in [Accounts -> Int], NEW new \in [Accounts -> Int],
           InRange(old, new),
           \A a \in Accounts : old[a] # 0 \/ new[a] # 0 => AccountExists(a)
    PROVE  /\ Replace(old, new) \in [Accounts -> AccountRows \cup {Fresh, Deleted}]
           /\ \A a \in Accounts :
                /\ AccountExists(a) => /\ Replace(old, new)[a] \in AccountRows
                                       /\ Replace(old, new)[a].tracking = accounts[a].tracking
                                       /\ Replace(old, new)[a].limit = accounts[a].limit
                                       /\ Replace(old, new)[a].currency = accounts[a].currency
                /\ ~AccountExists(a) => Replace(old, new)[a] = accounts[a]
<1>1. ASSUME NEW a \in Accounts
      PROVE  /\ AccountExists(a) => /\ Replace(old, new)[a] \in AccountRows
                                    /\ Replace(old, new)[a].tracking = accounts[a].tracking
                                    /\ Replace(old, new)[a].limit = accounts[a].limit
                                    /\ Replace(old, new)[a].currency = accounts[a].currency
             /\ ~AccountExists(a) => Replace(old, new)[a] = accounts[a]
  <2>1. CASE old[a] = 0 /\ new[a] = 0
    BY <2>1 DEF Replace, AccountExists
  <2>2. CASE ~(old[a] = 0 /\ new[a] = 0)
    <3>1. accounts[a] \in AccountRows
      BY <2>2 DEF AccountExists
    <3>2. accounts[a].value - old[a] + new[a] \in Cents
      BY <2>2 DEF InRange
    <3>3. Replace(old, new)[a] = [accounts[a] EXCEPT !.value = @ - old[a] + new[a]]
      BY <2>2 DEF Replace
    <3>. QED BY <3>1, <3>2, <3>3 DEF AccountRows, AccountExists
  <2>. QED BY <2>1, <2>2
<1>2. Replace(old, new) = [a \in Accounts |-> Replace(old, new)[a]]
  BY DEF Replace
<1>3. \A a \in Accounts : Replace(old, new)[a] \in AccountRows \cup {Fresh, Deleted}
  BY <1>1 DEF TypeOK, AccountExists
<1>. QED BY <1>1, <1>2, <1>3

-----------------------------------------------------------------------------
(* A row that does not exist has nothing in the ledger. *)
LEMMA NoRowNoEntries ==
    ASSUME LedgerInv, NEW t \in Ids, ~Live(t)
    PROVE  entries[t] = NoEntries
<1>1. \A a \in Accounts : entries[t][a] = 0
  BY DEF LedgerInv, EntriesFollowTransactions
<1>2. entries[t] \in [Accounts -> Int]
  BY DEF LedgerInv, TypeOK
<1>. QED BY <1>1, <1>2 DEF NoEntries

(* Moving balances from the entries of a transaction to new ones keeps every   *)
(* account row typed, and leaves existence, tracking, limits and currencies.   *)
LEMMA BalancesMove ==
    ASSUME LedgerInv, NEW t \in Ids, NEW new \in [Accounts -> Int],
           InRange(entries[t], new),
           \A a \in Accounts : new[a] # 0 => Tracked(a),
           accounts' = Replace(entries[t], new)
    PROVE  /\ accounts' \in [Accounts -> AccountRows \cup {Fresh, Deleted}]
           /\ \A a \in Accounts :
                /\ AccountExists(a)' <=> AccountExists(a)
                /\ Tracked(a)' <=> Tracked(a)
                /\ Tracked(a) => accounts'[a].limit = accounts[a].limit
                /\ AccountExists(a) => accounts'[a].currency = accounts[a].currency
<1>1. entries[t] \in [Accounts -> Int]
  BY DEF LedgerInv, TypeOK
<1>2. \A a \in Accounts : entries[t][a] # 0 \/ new[a] # 0 => AccountExists(a)
  BY DEF LedgerInv, EntriesFollowTransactions, Tracked
<1>3. TypeOK
  BY DEF LedgerInv
<1>. QED BY <1>1, <1>2, <1>3, ReplaceKeepsRows DEF AccountExists, Tracked

(* What storing a row, or deleting it, together with its entries preserves:    *)
(* Create, Update and Delete of a transaction all do this.                     *)
LEMMA RowRewritten ==
    ASSUME LedgerInv, NEW t \in Ids, NEW row \in TransactionRows \cup {Deleted},
           NEW new \in [Accounts -> Int],
           InRange(entries[t], new),
           row # Deleted => Acceptable(row.shape) /\ new = Posted(row.shape),
           row = Deleted => new = NoEntries,
           transactions' = [transactions EXCEPT ![t] = row],
           entries' = [entries EXCEPT ![t] = new],
           accounts' = Replace(entries[t], new),
           receipts' \in [Keys -> Receipts \cup {None}],
           UNCHANGED <<audit, statements, openingLimit>>
    PROVE  TypeOK' /\ ShapesValid' /\ EntriesFollowTransactions' /\ StatementPaymentsBacked'
<1>1. row # Deleted =>
        /\ row.shape \in Shapes
        /\ ValidShape(row.shape)
        /\ \A a \in Accounts : new[a] # 0 =>
              /\ row.shape.affects /\ a \in Involved(row.shape) /\ Tracked(a)
              /\ new[a] = Delta(row.shape, a)
        /\ \A a \in Accounts :
              row.shape.affects /\ a \in Involved(row.shape) /\ Tracked(a) => new[a] # 0
  BY PostedEntries DEF TransactionRows, Acceptable
<1>2. \A a \in Accounts : new[a] # 0 => row # Deleted /\ Tracked(a)
  BY <1>1 DEF NoEntries
<1>3. /\ accounts' \in [Accounts -> AccountRows \cup {Fresh, Deleted}]
      /\ \A a \in Accounts :
            /\ AccountExists(a)' <=> AccountExists(a)
            /\ Tracked(a)' <=> Tracked(a)
            /\ Tracked(a) => accounts'[a].limit = accounts[a].limit
  BY <1>2, BalancesMove
<1>4. \A u \in Ids : u # t =>
        /\ transactions'[u] = transactions[u] /\ entries'[u] = entries[u]
        /\ Live(u)' <=> Live(u)
        /\ Shape(u)' = Shape(u)
  BY DEF LedgerInv, TypeOK, Live, Shape
<1>5. /\ transactions'[t] = row /\ entries'[t] = new
      /\ Live(t)' <=> row # Deleted
      /\ row # Deleted => Shape(t)' = row.shape
  BY LedgerConstants DEF LedgerInv, TypeOK, Live, Shape
<1>6. TypeOK'
  <2>1. transactions' \in [Ids -> TransactionRows \cup {Fresh, Deleted}]
    BY DEF LedgerInv, TypeOK
  <2>2. entries' \in [Ids -> [Accounts -> Int]]
    BY DEF LedgerInv, TypeOK
  <2>3. \A a \in Accounts : Tracked(a)' /\ AccountType[a] = "credit" =>
            accounts'[a].limit # None /\ openingLimit'[a] # None
    BY <1>3 DEF LedgerInv, TypeOK
  <2>. QED BY <1>3, <2>1, <2>2, <2>3 DEF LedgerInv, TypeOK
<1>7. ShapesValid'
  BY <1>1, <1>4, <1>5 DEF LedgerInv, ShapesValid, ValidShape
<1>8. EntriesFollowTransactions'
  <2>1. \A a \in Accounts : entries'[t][a] # 0 =>
          /\ Live(t)' /\ Shape(t)'.affects /\ a \in Involved(Shape(t)')
          /\ Tracked(a)'
          /\ entries'[t][a] = Delta(Shape(t)', a)
    BY <1>1, <1>2, <1>3, <1>5
  <2>2. \A u \in Ids, a \in Accounts : u # t /\ entries'[u][a] # 0 =>
          /\ Live(u)' /\ Shape(u)'.affects /\ a \in Involved(Shape(u)')
          /\ Tracked(a)'
          /\ entries'[u][a] = Delta(Shape(u)', a)
    <3>. SUFFICES ASSUME NEW u \in Ids, NEW a \in Accounts, u # t, entries'[u][a] # 0
                  PROVE  /\ Live(u)' /\ Shape(u)'.affects /\ a \in Involved(Shape(u)')
                         /\ Tracked(a)'
                         /\ entries'[u][a] = Delta(Shape(u)', a)
      OBVIOUS
    <3>1. /\ entries[u][a] # 0 /\ entries'[u][a] = entries[u][a]
          /\ Live(u)' <=> Live(u)
          /\ Shape(u)' = Shape(u)
      BY <1>4
    <3>2. /\ Live(u) /\ Shape(u).affects /\ a \in Involved(Shape(u))
          /\ Tracked(a)
          /\ entries[u][a] = Delta(Shape(u), a)
      BY <3>1 DEF LedgerInv, EntriesFollowTransactions
    <3>. QED BY <1>3, <3>1, <3>2
  <2>. QED BY <2>1, <2>2 DEF EntriesFollowTransactions
<1>9. StatementPaymentsBacked'
  <2>1. row # Deleted /\ row.shape.statement # None =>
            /\ statements[row.shape.statement] = row.shape.dest
            /\ row.shape.affects
            /\ \A a \in Involved(row.shape) : Tracked(a) /\ a \in Accounts
    BY <1>1 DEF Acceptable, StatementMatches, StatementTracked, ValidShape, Involved, Shapes
  <2>. QED BY <1>1, <1>4, <1>5, <2>1 DEF LedgerInv, StatementPaymentsBacked, Involved
<1>. QED BY <1>6, <1>7, <1>8, <1>9

-----------------------------------------------------------------------------
(* Every step of TransactionRepository keeps the invariant. *)
LEMMA CreateTransactionKeeps ==
    ASSUME LedgerInv, NEW t \in Ids, NEW k \in Keys \cup {None}, NEW x \in RequestShapes,
           CreateTransaction(t, k, x)
    PROVE  LedgerInv' /\ (ReceiptNamesItsTransaction => ReceiptNamesItsTransaction')
<1>. DEFINE row == [shape |-> x, key |-> k, owner |-> "user"]
<1>1. x \in Shapes /\ row \in TransactionRows
  BY RequestsAreShapes DEF TransactionRows
<1>2. ~Live(t) /\ entries[t] = NoEntries
  <2>1. ~Live(t)
    BY LiveRow DEF LedgerInv, CreateTransaction
  <2>. QED BY <2>1, NoRowNoEntries
<1>3. receipts' \in [Keys -> Receipts \cup {None}]
  BY <1>1 DEF Completed, LedgerInv, TypeOK, CreateTransaction, Receipts
<1>4. row # Deleted
  BY <1>1, LedgerConstants
<1>5. TypeOK' /\ ShapesValid' /\ EntriesFollowTransactions' /\ StatementPaymentsBacked'
  <2>1. Posted(x) \in [Accounts -> Int]
    BY <1>1, PostedEntries
  <2>2. /\ InRange(entries[t], Posted(x))
        /\ transactions' = [transactions EXCEPT ![t] = row]
        /\ entries' = [entries EXCEPT ![t] = Posted(x)]
        /\ accounts' = Replace(entries[t], Posted(x))
        /\ UNCHANGED <<audit, statements, openingLimit>>
        /\ Acceptable(row.shape) /\ Posted(x) = Posted(row.shape)
    BY <1>2 DEF CreateTransaction
  <2>. HIDE DEF row
  <2>. QED BY <1>1, <1>3, <1>4, <2>1, <2>2, RowRewritten
<1>6. \A u \in Ids :
        /\ u # t => transactions'[u] = transactions[u] /\ (Live(u)' <=> Live(u))
        /\ u = t => transactions'[u] = row
  BY DEF LedgerInv, TypeOK, CreateTransaction, Live
<1>7. \A u \in Ids : Live(u) /\ k # None => transactions[u].key # k
  BY DEF CreateTransaction, KeyTaken
<1>8. KeysUnique'
  BY <1>6, <1>7 DEF LedgerInv, KeysUnique
<1>9. ASSUME ReceiptNamesItsTransaction PROVE ReceiptNamesItsTransaction'
  <2>. SUFFICES ASSUME NEW j \in Keys, NEW u \in Ids,
                       receipts'[j] # None, Live(u)', transactions'[u].key = j
                PROVE  receipts'[j].resource = u
    BY DEF ReceiptNamesItsTransaction
  <2>1. CASE u = t
    <3>1. j = k /\ k # None
      BY <1>6, <2>1, LedgerConstants
    <3>. QED BY <2>1, <3>1 DEF Completed, LedgerInv, TypeOK, CreateTransaction
  <2>2. CASE u # t
    <3>1. Live(u) /\ transactions[u].key = j /\ j # k
      BY <1>6, <1>7, <2>2, LedgerConstants
    <3>2. receipts'[j] = receipts[j]
      BY <3>1 DEF Completed, LedgerInv, TypeOK, CreateTransaction
    <3>. QED BY <1>9, <3>1, <3>2 DEF ReceiptNamesItsTransaction
  <2>. QED BY <2>1, <2>2
<1>. QED BY <1>5, <1>8, <1>9 DEF LedgerInv

(* Adopting a row only writes the receipt that names it. *)
LEMMA AdoptKeyedTransactionKeeps ==
    ASSUME LedgerInv, NEW t \in Ids, NEW k \in Keys, NEW x \in RequestShapes,
           AdoptKeyedTransaction(t, k, x)
    PROVE  LedgerInv' /\ (ReceiptNamesItsTransaction => ReceiptNamesItsTransaction')
<1>. USE DEF AdoptKeyedTransaction, Completed
<1>1. TypeOK'
  BY RequestsAreShapes DEF LedgerInv, TypeOK, Receipts, Tracked, AccountExists
<1>2. ShapesValid' /\ KeysUnique' /\ EntriesFollowTransactions' /\ StatementPaymentsBacked'
  BY DEF LedgerInv, ShapesValid, KeysUnique, EntriesFollowTransactions, StatementPaymentsBacked,
         Live, Shape, Tracked, AccountExists
<1>3. ASSUME ReceiptNamesItsTransaction PROVE ReceiptNamesItsTransaction'
  <2>. SUFFICES ASSUME NEW j \in Keys, NEW u \in Ids,
                       receipts'[j] # None, Live(u), transactions[u].key = j
                PROVE  receipts'[j].resource = u
    BY DEF ReceiptNamesItsTransaction, Live
  <2>1. CASE j = k
    <3>1. u = t
      BY <2>1, LedgerConstants DEF LedgerInv, KeysUnique
    <3>2. k # None
      BY LedgerConstants
    <3>. QED BY <2>1, <3>1, <3>2 DEF LedgerInv, TypeOK
  <2>2. CASE j # k
    BY <1>3, <2>2 DEF LedgerInv, TypeOK, ReceiptNamesItsTransaction
  <2>. QED BY <2>1, <2>2
<1>. QED BY <1>1, <1>2, <1>3 DEF LedgerInv

(* An edit rewrites the row and its entries together. *)
LEMMA UpdateTransactionKeeps ==
    ASSUME LedgerInv, NEW t \in Ids, NEW x \in RequestShapes, UpdateTransaction(t, x)
    PROVE  LedgerInv' /\ (ReceiptNamesItsTransaction => ReceiptNamesItsTransaction')
<1>. DEFINE row == [transactions[t] EXCEPT !.shape = x]
<1>1. x \in Shapes /\ transactions[t] \in TransactionRows
  BY RequestsAreShapes DEF UpdateTransaction, Live
<1>2. row \in TransactionRows /\ row # Deleted
  BY <1>1, LedgerConstants DEF TransactionRows
<1>3. transactions' = [transactions EXCEPT ![t] = row]
  BY <1>1 DEF UpdateTransaction, TransactionRows
<1>4. TypeOK' /\ ShapesValid' /\ EntriesFollowTransactions' /\ StatementPaymentsBacked'
  <2>1. Posted(x) \in [Accounts -> Int]
    BY <1>1, PostedEntries
  <2>2. /\ InRange(entries[t], Posted(x))
        /\ entries' = [entries EXCEPT ![t] = Posted(x)]
        /\ accounts' = Replace(entries[t], Posted(x))
        /\ UNCHANGED <<audit, statements, openingLimit>>
        /\ Acceptable(row.shape) /\ Posted(x) = Posted(row.shape)
        /\ receipts' \in [Keys -> Receipts \cup {None}]
    BY DEF UpdateTransaction, LedgerInv, TypeOK
  <2>. HIDE DEF row
  <2>. QED BY <1>2, <1>3, <2>1, <2>2, RowRewritten
<1>5. \A u \in Ids : Live(u)' => Live(u) /\ transactions'[u].key = transactions[u].key
  BY <1>1, <1>3 DEF LedgerInv, TypeOK, Live
<1>6. KeysUnique'
  BY <1>5 DEF LedgerInv, KeysUnique
<1>7. ReceiptNamesItsTransaction => ReceiptNamesItsTransaction'
  BY <1>5 DEF LedgerInv, ReceiptNamesItsTransaction, UpdateTransaction
<1>. QED BY <1>4, <1>6, <1>7 DEF LedgerInv

(* Clearing the statement alone leaves the entries, which the shape still *)
(* explains.                                                              *)
LEMMA UnlinkStatementKeeps ==
    ASSUME LedgerInv, NEW t \in Ids, UnlinkStatement(t)
    PROVE  LedgerInv' /\ (ReceiptNamesItsTransaction => ReceiptNamesItsTransaction')
<1>. DEFINE row == [transactions[t] EXCEPT !.shape.statement = None]
<1>1. Live(t) /\ transactions[t] \in TransactionRows /\ Shape(t) \in Shapes
  BY DEF UnlinkStatement, Live, Shape, TransactionRows
<1>2. row \in TransactionRows
  BY <1>1 DEF TransactionRows, Shapes
<1>3. transactions' = [transactions EXCEPT ![t] = row]
  BY <1>1 DEF UnlinkStatement, TransactionRows, Shapes, Shape
<1>4. \A u \in Ids :
        /\ Live(u)' <=> Live(u)
        /\ Live(u) => /\ transactions'[u].key = transactions[u].key
                      /\ Shape(u)'.type = Shape(u).type
                      /\ Shape(u)'.account = Shape(u).account
                      /\ Shape(u)'.dest = Shape(u).dest
                      /\ Shape(u)'.amount = Shape(u).amount
                      /\ Shape(u)'.affects = Shape(u).affects
                      /\ Shape(u)'.statement \in {None, Shape(u).statement}
  BY <1>1, <1>2, <1>3 DEF LedgerInv, TypeOK, Live, Shape
<1>5. TypeOK'
  BY <1>2, <1>3 DEF UnlinkStatement, LedgerInv, TypeOK, Tracked, AccountExists
<1>6. ShapesValid'
  BY <1>4 DEF LedgerInv, ShapesValid, ValidShape
<1>7. KeysUnique' /\ (ReceiptNamesItsTransaction => ReceiptNamesItsTransaction')
  BY <1>4 DEF UnlinkStatement, LedgerInv, KeysUnique, ReceiptNamesItsTransaction
<1>8. EntriesFollowTransactions'
  BY <1>4 DEF UnlinkStatement, LedgerInv, EntriesFollowTransactions, Involved, Delta, Tracked,
              AccountExists
<1>9. StatementPaymentsBacked'
  BY <1>4 DEF UnlinkStatement, LedgerInv, StatementPaymentsBacked, Involved
<1>. QED BY <1>5, <1>6, <1>7, <1>8, <1>9 DEF LedgerInv

(* A deletion takes the entries back with the row. *)
LEMMA DeleteTransactionKeeps ==
    ASSUME LedgerInv, NEW t \in Ids, DeleteTransaction(t)
    PROVE  LedgerInv' /\ (ReceiptNamesItsTransaction => ReceiptNamesItsTransaction')
<1>1. TypeOK' /\ ShapesValid' /\ EntriesFollowTransactions' /\ StatementPaymentsBacked'
  <2>1. NoEntries \in [Accounts -> Int]
    BY DEF NoEntries
  <2>2. receipts' \in [Keys -> Receipts \cup {None}]
    BY DEF DeleteTransaction, LedgerInv, TypeOK
  <2>. QED BY <2>1, <2>2, RowRewritten DEF DeleteTransaction
<1>2. \A u \in Ids : Live(u)' => Live(u) /\ transactions'[u] = transactions[u]
  BY LedgerConstants DEF DeleteTransaction, LedgerInv, TypeOK, Live
<1>3. KeysUnique' /\ (ReceiptNamesItsTransaction => ReceiptNamesItsTransaction')
  BY <1>2 DEF DeleteTransaction, LedgerInv, KeysUnique, ReceiptNamesItsTransaction
<1>. QED BY <1>1, <1>3 DEF LedgerInv

-----------------------------------------------------------------------------
(* Steps that change no transaction and no entry, and take tracking from no    *)
(* account, keep what the invariant says of transactions.                      *)
LEMMA RowsUntouched ==
    ASSUME LedgerInv, UNCHANGED <<transactions, entries>>,
           \A a \in Accounts : Tracked(a) => Tracked(a)',
           \A s \in Statements : statements[s] # None => statements'[s] = statements[s],
           UNCHANGED receipts
    PROVE  /\ ShapesValid' /\ KeysUnique' /\ EntriesFollowTransactions'
           /\ StatementPaymentsBacked' /\ (ReceiptNamesItsTransaction => ReceiptNamesItsTransaction')
<1>1. \A t \in Ids : (Live(t)' <=> Live(t)) /\ Shape(t)' = Shape(t)
  BY DEF Live, Shape
<1>2. ShapesValid' /\ KeysUnique' /\ (ReceiptNamesItsTransaction => ReceiptNamesItsTransaction')
  BY <1>1 DEF LedgerInv, ShapesValid, KeysUnique, ReceiptNamesItsTransaction
<1>3. EntriesFollowTransactions'
  BY <1>1 DEF LedgerInv, EntriesFollowTransactions
<1>4. StatementPaymentsBacked'
  <2>. SUFFICES ASSUME NEW t \in Ids, Live(t), Shape(t).statement # None
                PROVE  /\ statements'[Shape(t).statement] = Shape(t).dest
                       /\ \A a \in Involved(Shape(t)) : entries[t][a] # 0
    BY <1>1 DEF StatementPaymentsBacked
  <2>1. Shape(t) \in Shapes /\ ValidShape(Shape(t))
    BY DEF LedgerInv, ShapesValid, Live, Shape, TransactionRows
  <2>2. Shape(t).dest # None /\ Shape(t).statement \in Statements
    BY <2>1, LedgerConstants DEF ValidShape, Shapes
  <2>3. /\ statements[Shape(t).statement] = Shape(t).dest
        /\ \A a \in Involved(Shape(t)) : entries[t][a] # 0
    BY DEF LedgerInv, StatementPaymentsBacked
  <2>. QED BY <2>2, <2>3
<1>. QED BY <1>2, <1>3, <1>4

(* Every step of AccountRepository, and the confirmation of a statement, keeps *)
(* the invariant.                                                              *)
LEMMA CreateAccountKeeps ==
    ASSUME LedgerInv, NEW a \in Accounts, NEW c \in Currencies, NEW v \in Counts,
           NEW l \in Limits \cup {None}, CreateAccount(a, c, v, l)
    PROVE  LedgerInv' /\ (ReceiptNamesItsTransaction => ReceiptNamesItsTransaction')
<1>. DEFINE row == [currency |-> c, tracking |-> TRUE, value |-> v, limit |-> l]
<1>1. row \in AccountRows /\ row.tracking /\ row.limit = l /\ v \in Cents
  BY LedgerConstants DEF AccountRows
<1>2. accounts' = [accounts EXCEPT ![a] = row] /\ ~AccountExists(a)
  BY LedgerConstants DEF CreateAccount, AccountExists
<1>. HIDE DEF row
<1>3. \A b \in Accounts :
        /\ b # a => (Tracked(b)' <=> Tracked(b)) /\ accounts'[b] = accounts[b]
        /\ b = a => accounts'[b] = row /\ ~Tracked(b)
  BY <1>2 DEF LedgerInv, TypeOK, Tracked, AccountExists
<1>4. TypeOK'
  <2>1. accounts' \in [Accounts -> AccountRows \cup {Fresh, Deleted}]
    BY <1>1, <1>2 DEF LedgerInv, TypeOK
  <2>2. audit' \in [Accounts -> Seq(Cents)]
    BY <1>1 DEF LedgerInv, TypeOK, CreateAccount
  <2>3. openingLimit' \in [Accounts -> Cents \cup {None}]
    BY LedgerConstants DEF LedgerInv, TypeOK, CreateAccount
  <2>4. \A b \in Accounts : Tracked(b)' /\ AccountType[b] = "credit" =>
            accounts'[b].limit # None /\ openingLimit'[b] # None
    <3>1. AccountType[a] = "credit" => l # None
      BY DEF CreateAccount
    <3>. QED BY <1>1, <1>3, <3>1 DEF LedgerInv, TypeOK, CreateAccount
  <2>. QED BY <2>1, <2>2, <2>3, <2>4 DEF LedgerInv, TypeOK, CreateAccount
<1>5. \A b \in Accounts : Tracked(b) => Tracked(b)'
  BY <1>3
<1>. QED BY <1>4, <1>5, RowsUntouched DEF CreateAccount, LedgerInv

(* An account starts to be tracked with no entries, and a card with its *)
(* limit.                                                               *)
LEMMA EnableBalanceTrackingKeeps ==
    ASSUME LedgerInv, NEW a \in Accounts, NEW v \in Counts, EnableBalanceTracking(a, v)
    PROVE  LedgerInv' /\ (ReceiptNamesItsTransaction => ReceiptNamesItsTransaction')
<1>. DEFINE row == [accounts[a] EXCEPT !.tracking = TRUE, !.value = v]
<1>1. accounts[a] \in AccountRows
  BY DEF EnableBalanceTracking, AccountExists
<1>2. row \in AccountRows /\ row.tracking /\ row.limit = accounts[a].limit /\ v \in Cents
  BY <1>1, LedgerConstants DEF AccountRows
<1>3. accounts' = [accounts EXCEPT ![a] = row]
  BY DEF LedgerInv, TypeOK, EnableBalanceTracking
<1>. HIDE DEF row
<1>4. \A b \in Accounts :
        /\ b # a => (Tracked(b)' <=> Tracked(b)) /\ accounts'[b] = accounts[b]
        /\ b = a => accounts'[b] = row /\ ~Tracked(b)
  BY <1>3 DEF LedgerInv, TypeOK, Tracked, AccountExists, EnableBalanceTracking
<1>5. TypeOK'
  <2>1. accounts' \in [Accounts -> AccountRows \cup {Fresh, Deleted}]
    BY <1>2, <1>3 DEF LedgerInv, TypeOK
  <2>2. audit' \in [Accounts -> Seq(Cents)]
    BY <1>2 DEF LedgerInv, TypeOK, EnableBalanceTracking
  <2>3. openingLimit' \in [Accounts -> Cents \cup {None}]
    BY <1>1 DEF LedgerInv, TypeOK, EnableBalanceTracking, AccountRows
  <2>4. \A b \in Accounts : Tracked(b)' /\ AccountType[b] = "credit" =>
            accounts'[b].limit # None /\ openingLimit'[b] # None
    BY <1>2, <1>4 DEF LedgerInv, TypeOK, EnableBalanceTracking
  <2>. QED BY <2>1, <2>2, <2>3, <2>4 DEF LedgerInv, TypeOK, EnableBalanceTracking
<1>6. \A b \in Accounts : Tracked(b) => Tracked(b)'
  BY <1>4
<1>. QED BY <1>5, <1>6, RowsUntouched DEF EnableBalanceTracking, LedgerInv

(* What int64 wraps to fits bigint. *)
LEMMA WrapInCents == ASSUME NEW n \in Int PROVE Wrap(n) \in Cents
  BY LedgerConstants DEF Wrap, Cents

(* A reconciliation sets the value and writes its wrapped delta. *)
LEMMA ReconcileBalanceKeeps ==
    ASSUME LedgerInv, NEW a \in Accounts, NEW v \in Counts, ReconcileBalance(a, v)
    PROVE  LedgerInv' /\ (ReceiptNamesItsTransaction => ReceiptNamesItsTransaction')
<1>. DEFINE row == [accounts[a] EXCEPT !.value = v]
<1>1. accounts[a] \in AccountRows
  BY DEF ReconcileBalance, Tracked, AccountExists
<1>2. /\ row \in AccountRows /\ row.limit = accounts[a].limit
      /\ row.tracking = accounts[a].tracking
  BY <1>1, LedgerConstants DEF AccountRows
<1>3. accounts' = [accounts EXCEPT ![a] = row]
  BY DEF LedgerInv, TypeOK, ReconcileBalance
<1>. HIDE DEF row
<1>4. \A b \in Accounts :
        /\ Tracked(b)' <=> Tracked(b)
        /\ Tracked(b) => accounts'[b].limit = accounts[b].limit
  BY <1>1, <1>2, <1>3 DEF LedgerInv, TypeOK, Tracked, AccountExists
<1>5. TypeOK'
  <2>1. accounts' \in [Accounts -> AccountRows \cup {Fresh, Deleted}]
    BY <1>2, <1>3 DEF LedgerInv, TypeOK
  <2>2. audit' \in [Accounts -> Seq(Cents)]
    <3>1. v \in Int /\ accounts[a].value \in Int
      BY <1>1, LedgerConstants DEF AccountRows, Cents
    <3>2. Wrap(v - accounts[a].value) \in Cents
      BY <3>1, WrapInCents
    <3>. QED BY <3>2 DEF LedgerInv, TypeOK, ReconcileBalance
  <2>. QED BY <1>4, <2>1, <2>2 DEF LedgerInv, TypeOK, ReconcileBalance
<1>. QED BY <1>4, <1>5, RowsUntouched DEF ReconcileBalance, LedgerInv

(* A patched account keeps its tracking, and a tracked card a limit. *)
LEMMA UpdateAccountKeeps ==
    ASSUME LedgerInv, NEW a \in Accounts, NEW p \in Patches, UpdateAccount(a, p)
    PROVE  LedgerInv' /\ (ReceiptNamesItsTransaction => ReceiptNamesItsTransaction')
<1>. DEFINE old      == accounts[a]
            adjusted == Tracked(a) /\ p.limit # Unset
            value    == IF adjusted THEN AdjustedAvailable(old.limit, old.value, p.limit)
                        ELSE Patched(p.value, old.value)
            row      == [currency |-> Patched(p.currency, old.currency),
                         tracking |-> old.tracking, value |-> value,
                         limit |-> Patched(p.limit, old.limit)]
<1>1. old \in AccountRows
  BY DEF UpdateAccount, AccountExists
<1>2. accounts' = [accounts EXCEPT ![a] = row]
  BY DEF UpdateAccount
<1>3. value \in Cents
  <2>1. CASE adjusted
    BY <2>1 DEF UpdateAccount
  <2>2. CASE ~adjusted
    BY <1>1, <2>2, LedgerConstants DEF Patched, Patches, AccountRows
  <2>. QED BY <2>1, <2>2
<1>4. row \in AccountRows
  <2>1. Patched(p.currency, old.currency) \in Currencies
    BY <1>1 DEF Patched, Patches, AccountRows
  <2>2. Patched(p.limit, old.limit) \in Cents \cup {None}
    BY <1>1, LedgerConstants DEF Patched, Patches, AccountRows
  <2>3. old.tracking \in BOOLEAN
    BY <1>1 DEF AccountRows
  <2>. QED BY <1>3, <2>1, <2>2, <2>3 DEF AccountRows
<1>5. Tracked(a) /\ old.limit # None => row.limit # None
  BY DEF UpdateAccount, Patched
<1>6. row.tracking = old.tracking
  OBVIOUS
<1>. HIDE DEF row
<1>7. \A b \in Accounts :
        /\ Tracked(b)' <=> Tracked(b)
        /\ Tracked(b) /\ accounts[b].limit # None => accounts'[b].limit # None
  BY <1>1, <1>2, <1>4, <1>5, <1>6 DEF LedgerInv, TypeOK, Tracked, AccountExists
<1>8. TypeOK'
  BY <1>2, <1>4, <1>7 DEF LedgerInv, TypeOK, UpdateAccount
<1>. QED BY <1>7, <1>8, RowsUntouched DEF UpdateAccount, LedgerInv

(* The first confirmation of a cycle adds a statement nobody is linked to. *)
LEMMA ConfirmStatementKeeps ==
    ASSUME LedgerInv, NEW s \in Statements, NEW a \in Accounts, ConfirmStatement(s, a)
    PROVE  LedgerInv' /\ (ReceiptNamesItsTransaction => ReceiptNamesItsTransaction')
<1>1. \A b \in Accounts : Tracked(b)' <=> Tracked(b)
  BY DEF ConfirmStatement, Tracked, AccountExists
<1>2. \A u \in Statements : statements[u] # None => statements'[u] = statements[u]
  BY DEF ConfirmStatement, LedgerInv, TypeOK
<1>3. TypeOK'
  BY <1>1 DEF ConfirmStatement, LedgerInv, TypeOK
<1>. QED BY <1>1, <1>2, <1>3, RowsUntouched DEF ConfirmStatement, LedgerInv

(* An account nobody refers to goes with its entries, and its statements with *)
(* their links.                                                               *)
LEMMA DeleteAccountKeeps ==
    ASSUME LedgerInv, NEW a \in Accounts, DeleteAccount(a)
    PROVE  LedgerInv' /\ (ReceiptNamesItsTransaction => ReceiptNamesItsTransaction')
<1>1. Deleted \notin AccountRows \cup TransactionRows \cup Accounts /\ Deleted # None
  BY LedgerConstants
<1>2. \A b \in Accounts :
        /\ b # a => accounts'[b] = accounts[b] /\ (Tracked(b)' <=> Tracked(b))
        /\ b = a => ~Tracked(b)'
  BY <1>1 DEF DeleteAccount, LedgerInv, TypeOK, Tracked, AccountExists
<1>3. \A t \in Ids, b \in Accounts :
        /\ b # a => entries'[t][b] = entries[t][b]
        /\ b = a => entries'[t][b] = 0
  BY DEF DeleteAccount, LedgerInv, TypeOK
<1>4. \A t \in Ids : ~Live(t) => transactions'[t] = transactions[t] /\ ~Live(t)'
  BY DEF DeleteAccount, Live
<1>5. ASSUME NEW t \in Ids, Live(t)
      PROVE  /\ Live(t)' /\ transactions'[t].key = transactions[t].key
             /\ Shape(t)'.type = Shape(t).type /\ Shape(t)'.account = Shape(t).account
             /\ Shape(t)'.dest = Shape(t).dest /\ Shape(t)'.amount = Shape(t).amount
             /\ Shape(t)'.affects = Shape(t).affects
             /\ \/ Shape(t)'.statement = None
                \/ /\ Shape(t)'.statement = Shape(t).statement
                   /\ statements[Shape(t).statement] # a
  <2>. DEFINE linked   == Shape(t).statement # None /\ statements[Shape(t).statement] = a
              unlinked == [transactions[t] EXCEPT !.shape.statement = None]
  <2>1. transactions[t] \in TransactionRows /\ Shape(t) \in Shapes
    BY <1>5 DEF Live, Shape, TransactionRows
  <2>2. unlinked \in TransactionRows
    BY <2>1 DEF TransactionRows, Shapes
  <2>3. CASE linked
    <3>1. transactions'[t] = unlinked
      BY <1>5, <2>3 DEF DeleteAccount
    <3>. QED BY <2>1, <2>2, <3>1 DEF Live, Shape, TransactionRows, Shapes
  <2>4. CASE ~linked
    <3>1. transactions'[t] = transactions[t]
      BY <1>5, <2>4 DEF DeleteAccount
    <3>. QED BY <1>5, <2>4, <3>1 DEF Live, Shape
  <2>. QED BY <2>3, <2>4
<1>6. \A t \in Ids : Live(t) => a \notin Involved(Shape(t))
  BY DEF DeleteAccount, Unreferenced
<1>7. \A t \in Ids : Live(t) => Involved(Shape(t)') = Involved(Shape(t))
  BY <1>5 DEF Involved
<1>8. TypeOK'
  <2>1. transactions' \in [Ids -> TransactionRows \cup {Fresh, Deleted}]
    <3>1. \A t \in Ids : transactions'[t] \in TransactionRows \cup {Fresh, Deleted}
      BY <1>4, <1>5 DEF Live, LedgerInv, TypeOK
    <3>. QED BY <3>1 DEF DeleteAccount
  <2>2. entries' \in [Ids -> [Accounts -> Int]]
    BY DEF DeleteAccount, LedgerInv, TypeOK
  <2>3. audit' \in [Accounts -> Seq(Cents)]
    BY DEF DeleteAccount, LedgerInv, TypeOK
  <2>4. \A b \in Accounts : Tracked(b)' /\ AccountType[b] = "credit" =>
            accounts'[b].limit # None /\ openingLimit'[b] # None
    BY <1>2 DEF DeleteAccount, LedgerInv, TypeOK
  <2>. QED BY <2>1, <2>2, <2>3, <2>4 DEF DeleteAccount, LedgerInv, TypeOK
<1>9. ShapesValid'
  BY <1>4, <1>5 DEF LedgerInv, ShapesValid, ValidShape
<1>10. KeysUnique' /\ (ReceiptNamesItsTransaction => ReceiptNamesItsTransaction')
  BY <1>4, <1>5 DEF DeleteAccount, LedgerInv, KeysUnique, ReceiptNamesItsTransaction
<1>11. EntriesFollowTransactions'
  <2>. SUFFICES ASSUME NEW t \in Ids, NEW b \in Accounts, entries'[t][b] # 0
                PROVE  /\ Live(t)' /\ Shape(t)'.affects /\ b \in Involved(Shape(t)')
                       /\ Tracked(b)'
                       /\ entries'[t][b] = Delta(Shape(t)', b)
    BY DEF EntriesFollowTransactions
  <2>1. b # a /\ entries'[t][b] = entries[t][b]
    BY <1>3
  <2>2. /\ Live(t) /\ Shape(t).affects /\ b \in Involved(Shape(t)) /\ Tracked(b)
        /\ entries[t][b] = Delta(Shape(t), b)
    BY <2>1 DEF LedgerInv, EntriesFollowTransactions
  <2>3. Delta(Shape(t)', b) = Delta(Shape(t), b)
    BY <1>5, <2>2 DEF Delta
  <2>. QED BY <1>2, <1>5, <1>7, <2>1, <2>2, <2>3
<1>12. StatementPaymentsBacked'
  <2>. SUFFICES ASSUME NEW t \in Ids, Live(t)', Shape(t)'.statement # None
                PROVE  /\ statements'[Shape(t)'.statement] = Shape(t)'.dest
                       /\ \A b \in Involved(Shape(t)') : entries'[t][b] # 0
    BY DEF StatementPaymentsBacked
  <2>1. /\ Live(t) /\ Shape(t) \in Shapes
        /\ Shape(t)'.statement = Shape(t).statement
        /\ statements[Shape(t).statement] # a
    BY <1>4, <1>5 DEF Live, Shape, TransactionRows
  <2>2. /\ statements[Shape(t).statement] = Shape(t).dest
        /\ \A b \in Involved(Shape(t)) : entries[t][b] # 0
    BY <2>1 DEF LedgerInv, StatementPaymentsBacked
  <2>3. statements'[Shape(t).statement] = statements[Shape(t).statement]
    BY <2>1 DEF DeleteAccount, Shapes
  <2>4. \A b \in Involved(Shape(t)) : b \in Accounts /\ b # a
    <3>1. ValidShape(Shape(t))
      BY <2>1 DEF LedgerInv, ShapesValid
    <3>. QED BY <1>6, <2>1, <3>1 DEF Involved, ValidShape, Shapes
  <2>. QED BY <1>3, <1>5, <1>7, <2>1, <2>2, <2>3, <2>4
<1>. QED BY <1>8, <1>9, <1>10, <1>11, <1>12 DEF LedgerInv

-----------------------------------------------------------------------------
(* What the migrations leave satisfies the invariant. *)
LEMMA InitEstablishes == Init => IInv
<1>. SUFFICES ASSUME Init PROVE IInv
  OBVIOUS
<1>. USE LedgerConstants
<1>1. LegacyRows \subseteq AccountRows
  BY DEF LegacyRows, AccountRows
<1>2. LegacyTransactions \subseteq TransactionRows
  BY RequestsAreShapes DEF LegacyTransactions, TransactionRows
<1>3. \A a \in Accounts : ~Tracked(a)
  BY DEF Init, Tracked, AccountExists, LegacyRows
<1>4. \A t \in Ids : Live(t) => transactions[t] \in LegacyTransactions
  BY DEF Init, Live
<1>5. \A t \in Ids : Live(t) => ValidShape(Shape(t)) /\ Shape(t).statement = None
  BY <1>4 DEF LegacyTransactions, Shape, ValidShape
<1>6. KeysUnique
  BY DEF Init, KeysUnique, Live
<1>7. TypeOK
  <2>1. transactions \in [Ids -> TransactionRows \cup {Fresh, Deleted}]
    BY <1>2 DEF Init
  <2>2. audit \in [Accounts -> Seq(Cents)]
    BY DEF Init
  <2>. QED BY <1>1, <1>3, <2>1, <2>2 DEF Init, TypeOK, NoEntries
<1>8. EntriesFollowTransactions
  BY DEF Init, EntriesFollowTransactions, NoEntries
<1>. QED
  BY <1>5, <1>6, <1>7, <1>8
     DEF Init, IInv, ShapesValid, StatementPaymentsBacked, ReceiptNamesItsTransaction

(* Every step keeps what the tables hold, and the receipts if they were right. *)
LEMMA LedgerStepKeeps ==
    ASSUME LedgerInv, [Next]_vars
    PROVE  LedgerInv' /\ (ReceiptNamesItsTransaction => ReceiptNamesItsTransaction')
<1>1. CASE TransactionStep
  BY <1>1, CreateTransactionKeeps, AdoptKeyedTransactionKeeps, UpdateTransactionKeeps,
     UnlinkStatementKeeps, DeleteTransactionKeeps DEF TransactionStep
<1>2. CASE AccountStep
  BY <1>2, CreateAccountKeeps, EnableBalanceTrackingKeeps, ReconcileBalanceKeeps,
     UpdateAccountKeeps, DeleteAccountKeeps, ConfirmStatementKeeps DEF AccountStep
<1>3. CASE UNCHANGED vars
  BY <1>3 DEF vars, LedgerInv, TypeOK, ShapesValid, KeysUnique, EntriesFollowTransactions,
     StatementPaymentsBacked, ReceiptNamesItsTransaction, Live, Shape, Tracked, AccountExists
<1>. QED BY <1>1, <1>2, <1>3 DEF Next

(* The whole invariant is kept. *)
LEMMA StepKeeps == IInv /\ [Next]_vars => IInv'
  BY LedgerStepKeeps DEF IInv, LedgerInv

(* The invariant is inductive. *)
THEOREM Invariance == Spec => []IInv
  BY InitEstablishes, StepKeeps, PTL DEF Spec

(* Every row keeps its type, and every balance its width: no sequence of edits, *)
(* reconciliations and limit changes leaves bigint or a card without a limit.   *)
THEOREM TypeCorrect == Spec => []TypeOK
  BY Invariance, PTL DEF IInv

(* The ledger holds exactly effects of live rows on tracked accounts. *)
THEOREM EntriesFollow == Spec => []EntriesFollowTransactions
  BY Invariance, PTL DEF IInv

(* What a statement reports as paid is in the ledger of both accounts. *)
THEOREM PaymentsBacked == Spec => []StatementPaymentsBacked
  BY Invariance, PTL DEF IInv

(* A key's receipt names the only live row that carries the key. *)
THEOREM ReceiptsName == Spec => []ReceiptNamesItsTransaction
  BY Invariance, PTL DEF IInv

-----------------------------------------------------------------------------
(* Which rows a step inserts: only a create does, under the key it claims. *)
LEMMA InsertedByCreate ==
    ASSUME IInv, Next, NEW t \in Ids, transactions[t] = Fresh, transactions'[t] # Fresh
    PROVE  \E k \in Keys \cup {None}, x \in RequestShapes : CreateTransaction(t, k, x)
<1>1. ~Live(t)
  BY LiveRow DEF IInv
<1>2. CASE TransactionStep
  <2>1. ASSUME NEW u \in Ids, UnlinkStatement(u) \/ DeleteTransaction(u)
        PROVE  FALSE
    BY <1>1, <2>1 DEF UnlinkStatement, DeleteTransaction, IInv, TypeOK, Live
  <2>2. ASSUME NEW u \in Ids, NEW x \in RequestShapes, UpdateTransaction(u, x)
        PROVE  FALSE
    BY <1>1, <2>2 DEF UpdateTransaction, IInv, TypeOK, Live
  <2>3. ASSUME NEW u \in Ids, NEW k \in Keys \cup {None}, NEW x \in RequestShapes,
               CreateTransaction(u, k, x)
        PROVE  u = t
    BY <2>3 DEF CreateTransaction, IInv, TypeOK
  <2>4. ASSUME NEW u \in Ids, NEW k \in Keys, NEW x \in RequestShapes,
               AdoptKeyedTransaction(u, k, x)
        PROVE  FALSE
    BY <2>4 DEF AdoptKeyedTransaction
  <2>. QED BY <1>2, <2>1, <2>2, <2>3, <2>4 DEF TransactionStep
<1>3. CASE AccountStep
  BY <1>1, <1>3 DEF AccountStep, CreateAccount, EnableBalanceTracking, ReconcileBalance,
     UpdateAccount, DeleteAccount, ConfirmStatement
<1>. QED BY <1>2, <1>3 DEF Next

(* No replay of a key, however late, inserts a second row or moves the receipt. *)
THEOREM ReplaysCreateNothing == Spec => RetriesCreateNothing
<1>. DEFINE Step == \A k \in Keys : receipts[k] # None =>
                        /\ receipts'[k] = receipts[k]
                        /\ \A t \in Ids : transactions[t] = Fresh /\ transactions'[t] # Fresh
                                          => transactions'[t].key # k
<1>1. IInv /\ [Next]_vars => [Step]_vars
  <2>. SUFFICES ASSUME IInv, Next, NEW k \in Keys, receipts[k] # None
                PROVE  /\ receipts'[k] = receipts[k]
                       /\ \A t \in Ids : transactions[t] = Fresh /\ transactions'[t] # Fresh
                                         => transactions'[t].key # k
    OBVIOUS
  <2>1. ASSUME NEW t \in Ids, NEW j \in Keys \cup {None}, NEW x \in RequestShapes,
               CreateTransaction(t, j, x)
        PROVE  j # k /\ receipts'[k] = receipts[k] /\ transactions'[t].key = j
    <3>1. j # k
      BY <2>1, LedgerConstants DEF CreateTransaction, Claimable
    <3>. QED BY <2>1, <3>1 DEF Completed, CreateTransaction, IInv, TypeOK
  <2>2. ASSUME NEW t \in Ids, NEW j \in Keys, NEW x \in RequestShapes,
               AdoptKeyedTransaction(t, j, x)
        PROVE  receipts'[k] = receipts[k]
    BY <2>2, LedgerConstants DEF Completed, AdoptKeyedTransaction, Claimable, IInv, TypeOK
  <2>3. receipts'[k] = receipts[k]
    <3>1. CASE TransactionStep
      BY <2>1, <2>2, <3>1 DEF TransactionStep, UpdateTransaction, UnlinkStatement,
         DeleteTransaction
    <3>2. CASE AccountStep
      BY <3>2 DEF AccountStep, CreateAccount, EnableBalanceTracking, ReconcileBalance,
         UpdateAccount, DeleteAccount, ConfirmStatement
    <3>. QED BY <3>1, <3>2 DEF Next
  <2>. QED BY <2>1, <2>3, InsertedByCreate
<1>. QED BY <1>1, Invariance, PTL DEF Spec, RetriesCreateNothing

(* An effect leaves the ledger only with the transaction that has it. *)
THEOREM EffectsStay == Spec => EffectsStayRecorded
<1>. DEFINE Step == \A t \in Ids, a \in Accounts :
                        entries[t][a] # 0 /\ Live(t)' /\ Shape(t)'.affects
                            /\ a \in Involved(Shape(t)')
                        => entries'[t][a] # 0
<1>1. IInv /\ [Next]_vars => [Step]_vars
  <2>. SUFFICES ASSUME IInv, Next, NEW t \in Ids, NEW a \in Accounts, entries[t][a] # 0,
                       Live(t)', Shape(t)'.affects, a \in Involved(Shape(t)')
                PROVE  entries'[t][a] # 0
    OBVIOUS
  <2>1. Live(t) /\ a \in Involved(Shape(t)) /\ Tracked(a)
    BY DEF IInv, EntriesFollowTransactions
  <2>2. CASE TransactionStep
    <3>1. ASSUME NEW u \in Ids, NEW k \in Keys \cup {None}, NEW x \in RequestShapes,
                 CreateTransaction(u, k, x)
          PROVE  entries'[t] = entries[t]
      <4>1. t # u
        BY <2>1, <3>1, LiveRow DEF CreateTransaction, IInv
      <4>. QED BY <3>1, <4>1 DEF CreateTransaction, IInv, TypeOK
    <3>2. ASSUME NEW u \in Ids, NEW x \in RequestShapes, UpdateTransaction(u, x)
          PROVE  entries'[t][a] # 0
      <4>1. CASE u = t
        <5>1. Shape(t)' = x /\ entries'[t] = Posted(x)
          BY <3>2, <4>1 DEF UpdateTransaction, IInv, TypeOK, Shape, Live, TransactionRows
        <5>2. x \in Shapes /\ ValidShape(x)
          BY <3>2, RequestsAreShapes DEF UpdateTransaction, Acceptable
        <5>. QED BY <2>1, <5>1, <5>2, PostedEntries
      <4>2. CASE u # t
        BY <3>2, <4>2 DEF UpdateTransaction, IInv, TypeOK
      <4>. QED BY <4>1, <4>2
    <3>3. ASSUME NEW u \in Ids, DeleteTransaction(u)
          PROVE  entries'[t] = entries[t]
      <4>1. u # t
        BY <3>3, LedgerConstants DEF DeleteTransaction, IInv, TypeOK, Live
      <4>. QED BY <3>3, <4>1 DEF DeleteTransaction, IInv, TypeOK
    <3>. QED BY <2>2, <3>1, <3>2, <3>3
             DEF TransactionStep, AdoptKeyedTransaction, UnlinkStatement
  <2>3. CASE AccountStep
    <3>1. ASSUME NEW b \in Accounts, DeleteAccount(b)
          PROVE  entries'[t][a] # 0
      <4>1. a # b
        BY <2>1, <3>1 DEF DeleteAccount, Unreferenced
      <4>. QED BY <3>1, <4>1 DEF DeleteAccount, IInv, TypeOK
    <3>. QED BY <2>3, <3>1 DEF AccountStep, CreateAccount, EnableBalanceTracking,
             ReconcileBalance, UpdateAccount, ConfirmStatement
  <2>. QED BY <2>2, <2>3 DEF Next
<1>. QED BY <1>1, Invariance, PTL DEF Spec, EffectsStayRecorded

-----------------------------------------------------------------------------
(* What the ledger does not explain of the value of an account. *)
Entries(a) == [t \in Ids |-> entries[t][a]]

Gap(a) == accounts[a].value - Total(audit[a]) - Total(Entries(a)) - LimitMoved(a)

(* All the parts of the gap of a tracked account are numbers. *)
LEMMA GapParts ==
    ASSUME TypeOK, NEW a \in Accounts
    PROVE  /\ Entries(a) \in [Ids -> Int] /\ Total(Entries(a)) \in Int
           /\ audit[a] \in Seq(Int) /\ Total(audit[a]) \in Int
           /\ Tracked(a) => accounts[a].value \in Int /\ LimitMoved(a) \in Int /\ Gap(a) \in Int
<1>1. Cents \subseteq Int /\ None \notin Int
  BY LedgerConstants DEF Cents
<1>2. Entries(a) \in [Ids -> Int]
  BY DEF TypeOK, Entries
<1>3. Total(Entries(a)) \in Int
  BY <1>2, LedgerConstants, TotalType
<1>4. audit[a] \in Seq(Int)
  BY <1>1 DEF TypeOK
<1>5. Total(audit[a]) \in Int
  BY <1>4, TotalAppend
<1>6. ASSUME Tracked(a) PROVE accounts[a].value \in Int /\ LimitMoved(a) \in Int
  <2>1. accounts[a] \in AccountRows
    BY <1>6 DEF Tracked, AccountExists
  <2>2. accounts[a].value \in Int
    BY <1>1, <2>1 DEF AccountRows
  <2>3. ASSUME AccountType[a] = "credit"
        PROVE  accounts[a].limit \in Int /\ openingLimit[a] \in Int
    BY <1>1, <1>6, <2>1, <2>3 DEF AccountRows, TypeOK
  <2> QED BY <2>2, <2>3 DEF LimitMoved
<1> QED BY <1>2, <1>3, <1>4, <1>5, <1>6 DEF Gap

(* A step that leaves an account, its audit and its entries alone leaves its gap. *)
LEMMA SameGap ==
    ASSUME NEW a \in Accounts, accounts'[a] = accounts[a], audit'[a] = audit[a],
           openingLimit'[a] = openingLimit[a], \A t \in Ids : entries'[t][a] = entries[t][a]
    PROVE  (Tracked(a)' <=> Tracked(a)) /\ Gap(a)' = Gap(a)
<1>1. Entries(a)' = Entries(a)
  BY DEF Entries
<1> QED BY <1>1 DEF Gap, LimitMoved, Tracked, AccountExists

(* An untracked account has no entries. *)
LEMMA UntrackedHasNoEntries ==
    ASSUME EntriesFollowTransactions, NEW a \in Accounts, ~Tracked(a)
    PROVE  Total(Entries(a)) = 0
<1>1. Entries(a) = [t \in Ids |-> 0]
  BY DEF EntriesFollowTransactions, Entries
<1> QED BY <1>1, LedgerConstants, TotalZero

(* Tracking starts with nothing to explain: the opening entry is the value. *)
LEMMA GapOpens ==
    ASSUME LedgerInv, NEW a \in Accounts, ~Tracked(a), NEW v \in Int,
           accounts'[a].value = v, audit'[a] = <<v>>, entries' = entries,
           AccountType[a] = "credit" =>
               /\ openingLimit'[a] = accounts'[a].limit
               /\ accounts'[a].limit \in Int
    PROVE  Gap(a)' = 0
<1>1. Total(Entries(a)') = 0
  <2>1. Entries(a)' = Entries(a)
    BY DEF Entries
  <2> QED BY <2>1, UntrackedHasNoEntries DEF LedgerInv
<1>2. Total(<<v>>) = v
  <2>1. Append(<<>>, v) = <<v>>
    OBVIOUS
  <2>2. Total(<<>>) = 0
    BY TotalEmpty
  <2>3. <<>> \in Seq(Int)
    OBVIOUS
  <2>4. Total(Append(<<>>, v)) = Total(<<>>) + v
    BY <2>3, TotalAppend
  <2> QED BY <2>1, <2>2, <2>4
<1>3. LimitMoved(a)' = 0
  BY DEF LimitMoved
<1> QED BY <1>1, <1>2, <1>3 DEF Gap

(* Entries replaced with their balances keep the gap of every account: the sum *)
(* of the entries and the value move together.                                 *)
LEMMA GapsBalanced ==
    ASSUME LedgerInv, NEW t \in Ids, NEW new \in [Accounts -> Int],
           InRange(entries[t], new),
           \A a \in Accounts : new[a] # 0 => Tracked(a),
           entries' = [entries EXCEPT ![t] = new],
           accounts' = Replace(entries[t], new),
           UNCHANGED <<audit, openingLimit>>
    PROVE  \A a \in Accounts : Tracked(a)' => Tracked(a) /\ Gap(a)' = Gap(a)
<1>. SUFFICES ASSUME NEW a \in Accounts, Tracked(a)' PROVE Tracked(a) /\ Gap(a)' = Gap(a)
  OBVIOUS
<1>. TypeOK
  BY DEF LedgerInv
<1>1. Tracked(a) /\ accounts'[a].limit = accounts[a].limit
  BY BalancesMove
<1>2. accounts[a] \in AccountRows
  BY <1>1 DEF Tracked, AccountExists
<1>3. entries[t][a] \in Int /\ new[a] \in Int
  BY DEF TypeOK
<1>4. accounts'[a].value = accounts[a].value - entries[t][a] + new[a]
  <2>1. accounts[a].value \in Int
    BY <1>1, GapParts
  <2>2. CASE entries[t][a] = 0 /\ new[a] = 0
    BY <2>1, <2>2 DEF Replace
  <2>3. CASE ~(entries[t][a] = 0 /\ new[a] = 0)
    BY <1>2, <2>3 DEF Replace, AccountRows
  <2> QED BY <2>2, <2>3
<1>. DEFINE f == Entries(a)
            h == [u \in Ids |-> entries'[u][a]]
<1>5. f \in [Ids -> Int] /\ h \in [Ids -> Int]
  BY DEF TypeOK, Entries
<1>6. f[t] = entries[t][a] /\ h[t] = new[a] /\ \A u \in Ids \ {t} : h[u] = f[u]
  BY DEF TypeOK, Entries
<1>7. Entries(a)' = h
  BY DEF Entries
<1>. HIDE DEF f, h
<1>8. Total(h) = Total(f) - f[t] + h[t]
  BY <1>5, <1>6, LedgerConstants, TotalMoved
<1>9. LimitMoved(a)' = LimitMoved(a)
  BY <1>1 DEF LimitMoved
<1>10. /\ Total(f) \in Int /\ Total(audit[a]) \in Int
       /\ accounts[a].value \in Int /\ LimitMoved(a) \in Int
  BY <1>1, GapParts DEF f
<1>11. \A v, e, n, s, u, l \in Int : (v - e + n) - u - (s - e + n) - l = v - u - s - l
  OBVIOUS
<1>12. Gap(a)' = (accounts[a].value - entries[t][a] + new[a]) - Total(audit[a])
                 - (Total(f) - entries[t][a] + new[a]) - LimitMoved(a)
  BY <1>4, <1>6, <1>7, <1>8, <1>9 DEF Gap
<1>13. Gap(a) = accounts[a].value - Total(audit[a]) - Total(f) - LimitMoved(a)
  BY DEF Gap, f
<1> QED BY <1>1, <1>3, <1>10, <1>11, <1>12, <1>13

(* A reconciliation closes its gap up to a multiple of the width: its delta is *)
(* computed in int64, which wraps.                                             *)
LEMMA GapWraps ==
    ASSUME LedgerInv, NEW a \in Accounts, NEW v \in Counts, ReconcileBalance(a, v),
           Gap(a) % (2 * HalfRange) = 0
    PROVE  Gap(a)' % (2 * HalfRange) = 0
<1>. DEFINE m == 2 * HalfRange
            d == v - accounts[a].value
            x == d + HalfRange
            r == x % m
<1>. TypeOK
  BY DEF LedgerInv
<1>0. m \in Nat \ {0} /\ HalfRange \in Int
  BY LedgerConstants
<1>1. Tracked(a) /\ accounts[a] \in AccountRows /\ v \in Int
  BY LedgerConstants DEF ReconcileBalance, Tracked, AccountExists, Cents
<1>2. /\ Gap(a) \in Int /\ d \in Int /\ x \in Int
      /\ accounts[a].value \in Int /\ LimitMoved(a) \in Int
      /\ Total(Entries(a)) \in Int /\ Total(audit[a]) \in Int
  BY <1>0, <1>1, GapParts
<1>3. r \in Int /\ Wrap(d) = r - HalfRange
  <2>1. r \in Int
    <3>1. \A y \in Int : y % m \in Int
      <4>. HIDE DEF m
      <4> QED BY <1>0, Division
    <3> QED BY <1>2, <3>1
  <2> QED BY <2>1 DEF Wrap
<1>4. /\ accounts'[a].value = v
      /\ accounts'[a].limit = accounts[a].limit
      /\ audit'[a] = Append(audit[a], Wrap(d))
      /\ openingLimit' = openingLimit /\ entries' = entries
  BY <1>1 DEF ReconcileBalance, TypeOK, AccountRows
<1>5. Entries(a)' = Entries(a) /\ LimitMoved(a)' = LimitMoved(a)
  BY <1>4 DEF Entries, LimitMoved
<1>. HIDE DEF r, x, d
<1>6. Total(audit'[a]) = Total(audit[a]) + (r - HalfRange)
  <2>1. audit[a] \in Seq(Int) /\ r - HalfRange \in Int
    BY <1>0, <1>3, GapParts
  <2> QED BY <1>3, <1>4, <2>1, TotalAppend
<1>7. Gap(a)' = v - (Total(audit[a]) + (r - HalfRange)) - Total(Entries(a)) - LimitMoved(a)
  BY <1>4, <1>5, <1>6 DEF Gap
<1>8. Gap(a) = accounts[a].value - Total(audit[a]) - Total(Entries(a)) - LimitMoved(a)
  BY DEF Gap
<1>9. \A w, c, u, s, l, h, q \in Int :
        w - (u + (q - h)) - s - l = ((c - u - s - l) + ((w - c) + h)) - q
  OBVIOUS
<1>10. Gap(a)' = Gap(a) + x - r
  <2>. DEFINE c == accounts[a].value
              u == Total(audit[a])
              s == Total(Entries(a))
              l == LimitMoved(a)
  <2>1. c \in Int /\ u \in Int /\ s \in Int /\ l \in Int /\ v \in Int /\ HalfRange \in Int /\ r \in Int
    BY <1>0, <1>1, <1>2, <1>3
  <2>2. Gap(a)' = v - (u + (r - HalfRange)) - s - l /\ Gap(a) = c - u - s - l
    BY <1>7, <1>8
  <2>3. x = (v - c) + HalfRange
    BY DEF x, d
  <2>. HIDE DEF c, u, s, l
  <2>4. v - (u + (r - HalfRange)) - s - l = ((c - u - s - l) + ((v - c) + HalfRange)) - r
    BY <1>9, <2>1
  <2> QED BY <2>1, <2>2, <2>3, <2>4
<1>11. (Gap(a) + x - r) % m = 0
  BY <1>0, <1>2, RemainderTakenOff DEF r
<1> QED BY <1>10, <1>11

(* No operation of the store leaves a tracked balance unexplained. *)
LEMMA ExplanationKept ==
    ASSUME LedgerInv, LedgerExplainsValue, [Next]_vars
    PROVE  LedgerExplainsValue'
<1>. TypeOK
  BY DEF LedgerInv
<1>. USE LedgerConstants
<1>. DEFINE Closed(n) == n % (2 * HalfRange) = 0
<1>1. \A a \in Accounts : Tracked(a) => Closed(Gap(a))
  BY DEF LedgerExplainsValue, Gap, Entries
<1>2. SUFFICES ASSUME NEW a \in Accounts, Tracked(a)' PROVE Closed(Gap(a)')
  BY DEF LedgerExplainsValue, Gap, Entries
<1>0. Closed(0)
  BY MultipleHasNoRemainder
<1>3. CASE \/ UNCHANGED vars
           \/ \E t \in Ids, k \in Keys, x \in RequestShapes : AdoptKeyedTransaction(t, k, x)
           \/ \E t \in Ids : UnlinkStatement(t)
           \/ \E b \in Accounts, s \in Statements : ConfirmStatement(s, b)
  <2>1. UNCHANGED <<accounts, entries, audit, openingLimit>>
    BY <1>3 DEF vars, AdoptKeyedTransaction, UnlinkStatement, ConfirmStatement
  <2>2. Tracked(a) /\ Gap(a)' = Gap(a)
    BY <1>2, <2>1, SameGap
  <2> QED BY <1>1, <2>2
<1>4. ASSUME NEW t \in Ids, NEW k \in Keys \cup {None}, NEW x \in RequestShapes,
             CreateTransaction(t, k, x)
      PROVE  Closed(Gap(a)')
  <2>1. entries[t] = NoEntries
    BY <1>4, LiveRow, NoRowNoEntries DEF CreateTransaction
  <2>2. /\ Posted(x) \in [Accounts -> Int]
        /\ \A b \in Accounts : Posted(x)[b] # 0 => Tracked(b)
    BY RequestsAreShapes, PostedEntries
  <2>3. Tracked(a) /\ Gap(a)' = Gap(a)
    BY <1>2, <1>4, <2>1, <2>2, GapsBalanced DEF CreateTransaction
  <2> QED BY <1>1, <2>3
<1>5. ASSUME NEW t \in Ids, NEW x \in RequestShapes, UpdateTransaction(t, x)
      PROVE  Closed(Gap(a)')
  <2>1. /\ Posted(x) \in [Accounts -> Int]
        /\ \A b \in Accounts : Posted(x)[b] # 0 => Tracked(b)
    BY RequestsAreShapes, PostedEntries
  <2>2. Tracked(a) /\ Gap(a)' = Gap(a)
    BY <1>2, <1>5, <2>1, GapsBalanced DEF UpdateTransaction
  <2> QED BY <1>1, <2>2
<1>6. ASSUME NEW t \in Ids, DeleteTransaction(t) PROVE Closed(Gap(a)')
  <2>1. NoEntries \in [Accounts -> Int] /\ \A b \in Accounts : NoEntries[b] = 0
    BY DEF NoEntries
  <2>2. Tracked(a) /\ Gap(a)' = Gap(a)
    BY <1>2, <1>6, <2>1, GapsBalanced DEF DeleteTransaction
  <2> QED BY <1>1, <2>2
<1>7. ASSUME NEW b \in Accounts, NEW c \in Currencies, NEW v \in Counts,
             NEW l \in Limits \cup {None}, CreateAccount(b, c, v, l)
      PROVE  Closed(Gap(a)')
  <2>1. CASE a = b
    <3>1. ~Tracked(a) /\ v \in Int
      BY <1>7, <2>1 DEF CreateAccount, Tracked, AccountExists, Cents
    <3>2. AccountType[a] = "credit" => l \in Int
      BY <1>7, <2>1 DEF CreateAccount
    <3>3. /\ accounts'[a].value = v /\ accounts'[a].limit = l
          /\ audit'[a] = <<v>> /\ openingLimit'[a] = l /\ entries' = entries
      BY <1>7, <2>1 DEF CreateAccount, TypeOK
    <3> QED BY <1>0, <3>1, <3>2, <3>3, GapOpens
  <2>2. CASE a # b
    <3>1. /\ accounts'[a] = accounts[a] /\ audit'[a] = audit[a] /\ entries' = entries
          /\ openingLimit'[a] = openingLimit[a]
      BY <1>7, <2>2 DEF CreateAccount, TypeOK
    <3> QED BY <1>1, <1>2, <3>1, SameGap
  <2> QED BY <2>1, <2>2
<1>8. ASSUME NEW b \in Accounts, NEW v \in Counts, EnableBalanceTracking(b, v)
      PROVE  Closed(Gap(a)')
  <2>1. CASE a = b
    <3>1. ~Tracked(a) /\ v \in Int /\ accounts[a] \in AccountRows
      BY <1>8, <2>1 DEF EnableBalanceTracking, Tracked, AccountExists, Cents
    <3>2. AccountType[a] = "credit" => accounts[a].limit \in Int
      BY <1>8, <2>1, <3>1 DEF EnableBalanceTracking, AccountRows, Cents
    <3>3. /\ accounts'[a].value = v /\ accounts'[a].limit = accounts[a].limit
          /\ audit'[a] = <<v>> /\ openingLimit'[a] = accounts[a].limit /\ entries' = entries
      BY <1>8, <2>1, <3>1 DEF EnableBalanceTracking, TypeOK, AccountRows
    <3> QED BY <1>0, <3>1, <3>2, <3>3, GapOpens
  <2>2. CASE a # b
    <3>1. /\ accounts'[a] = accounts[a] /\ audit'[a] = audit[a] /\ entries' = entries
          /\ openingLimit'[a] = openingLimit[a]
      BY <1>8, <2>2 DEF EnableBalanceTracking, TypeOK
    <3> QED BY <1>1, <1>2, <3>1, SameGap
  <2> QED BY <2>1, <2>2
<1>9. ASSUME NEW b \in Accounts, NEW v \in Counts, ReconcileBalance(b, v)
      PROVE  Closed(Gap(a)')
  <2>1. CASE a = b
    BY <1>1, <1>9, <2>1, GapWraps DEF ReconcileBalance
  <2>2. CASE a # b
    <3>1. /\ accounts'[a] = accounts[a] /\ audit'[a] = audit[a] /\ entries' = entries
          /\ openingLimit'[a] = openingLimit[a]
      BY <1>9, <2>2 DEF ReconcileBalance, TypeOK
    <3> QED BY <1>1, <1>2, <3>1, SameGap
  <2> QED BY <2>1, <2>2
<1>10. ASSUME NEW b \in Accounts, NEW p \in Patches, UpdateAccount(b, p)
       PROVE  Closed(Gap(a)')
  <2>1. /\ entries' = entries /\ audit' = audit /\ openingLimit' = openingLimit
        /\ Entries(a)' = Entries(a)
    BY <1>10 DEF UpdateAccount, Entries
  <2>2. CASE a # b
    <3>1. accounts'[a] = accounts[a]
      BY <1>10, <2>2 DEF UpdateAccount, TypeOK
    <3> QED BY <1>1, <1>2, <2>1, <3>1, SameGap
  <2>3. CASE a = b
    <3>. DEFINE row      == accounts[a]
                adjusted == Tracked(a) /\ p.limit # Unset
                value    == IF adjusted THEN AdjustedAvailable(row.limit, row.value, p.limit)
                            ELSE Patched(p.value, row.value)
    <3>1. row \in AccountRows
      BY <1>10, <2>3 DEF UpdateAccount, AccountExists
    <3>2. accounts'[a] = [currency |-> Patched(p.currency, row.currency),
                          tracking |-> row.tracking, value |-> value,
                          limit |-> Patched(p.limit, row.limit)]
      BY <1>10, <2>3 DEF UpdateAccount, TypeOK
    <3>3. Tracked(a)
      BY <1>2, <3>1, <3>2 DEF Tracked, AccountExists
    <3>4. /\ row.value \in Int /\ LimitMoved(a) \in Int
          /\ Total(audit[a]) \in Int /\ Total(Entries(a)) \in Int
      BY <3>3, GapParts
    <3>5. CASE p.limit = Unset
      <4>1. accounts'[a].value = row.value /\ accounts'[a].limit = row.limit
        BY <1>10, <2>3, <3>2, <3>3, <3>5 DEF UpdateAccount, Patched
      <4>2. Gap(a)' = Gap(a)
        BY <2>1, <4>1 DEF Gap, LimitMoved
      <4> QED BY <1>1, <3>3, <4>2
    <3>6. CASE p.limit # Unset
      <4>1. AccountType[a] = "credit" /\ p.limit # None
        BY <1>10, <2>3, <3>3, <3>6 DEF UpdateAccount
      <4>2. row.limit \in Int /\ p.limit \in Int /\ openingLimit[a] \in Int
        <5>1. row.limit \in Int /\ openingLimit[a] \in Int
          BY <3>1, <3>3, <4>1 DEF TypeOK, AccountRows, Cents
        <5>2. p.limit \in Limits
          BY <3>6, <4>1 DEF Patches
        <5> QED BY <5>1, <5>2
      <4>3. /\ accounts'[a].value = row.value + (p.limit - row.limit)
            /\ accounts'[a].limit = p.limit
        BY <3>2, <3>3, <3>6 DEF Patched, AdjustedAvailable
      <4>4. /\ LimitMoved(a) = row.limit - openingLimit[a]
            /\ LimitMoved(a)' = p.limit - openingLimit[a]
        BY <2>1, <4>1, <4>3 DEF LimitMoved
      <4>5. \A v, n, o, i, u, s \in Int :
              (v + (n - o)) - u - s - (n - i) = v - u - s - (o - i)
        OBVIOUS
      <4>. HIDE DEF row
      <4>6. Gap(a)' = (row.value + (p.limit - row.limit)) - Total(audit[a]) - Total(Entries(a))
                      - (p.limit - openingLimit[a])
        BY <2>1, <4>3, <4>4 DEF Gap
      <4>7. Gap(a) = row.value - Total(audit[a]) - Total(Entries(a))
                     - (row.limit - openingLimit[a])
        BY <4>4 DEF Gap, row
      <4>8. Gap(a)' = Gap(a)
        BY <3>4, <4>2, <4>5, <4>6, <4>7
      <4> QED BY <1>1, <3>3, <4>8
    <3> QED BY <3>5, <3>6
  <2> QED BY <2>2, <2>3
<1>11. ASSUME NEW b \in Accounts, DeleteAccount(b) PROVE Closed(Gap(a)')
  <2>1. a # b
    BY <1>2, <1>11 DEF DeleteAccount, TypeOK, Tracked, AccountExists
  <2>2. /\ accounts'[a] = accounts[a] /\ audit'[a] = audit[a]
        /\ openingLimit'[a] = openingLimit[a]
        /\ \A t \in Ids : entries'[t][a] = entries[t][a]
    BY <1>11, <2>1 DEF DeleteAccount, TypeOK
  <2> QED BY <1>1, <1>2, <2>2, SameGap
<1>. HIDE DEF Closed
<1>12. CASE TransactionStep
  BY <1>3, <1>4, <1>5, <1>6, <1>12 DEF TransactionStep
<1>13. CASE AccountStep
  BY <1>3, <1>7, <1>8, <1>9, <1>10, <1>11, <1>13 DEF AccountStep
<1> QED BY <1>3, <1>12, <1>13 DEF Next

(* The value of every tracked account is its opening and reconciliation        *)
(* entries, its transaction entries and the moves of its credit limit, modulo  *)
(* the width of bigint, whatever edits, deletions, recounts and limit changes  *)
(* came before.                                                                *)
THEOREM LedgerExplained == Spec => []LedgerExplainsValue
<1>1. Init => LedgerExplainsValue
  BY LedgerConstants
     DEF Init, LedgerExplainsValue, Tracked, AccountExists, LegacyRows
<1>2. IInv => LedgerInv
  BY DEF IInv, LedgerInv
<1> QED BY <1>1, <1>2, ExplanationKept, Invariance, PTL DEF Spec

-----------------------------------------------------------------------------
(* What the operations of the ledger leave alone, for the modules on top of it *)

(* An account keeps its currency unless a patch changes it, and exists until it *)
(* is removed.                                                                 *)
LEMMA AccountsStay ==
    ASSUME LedgerInv, NEW a \in Accounts, AccountExists(a),
           \/ UNCHANGED vars
           \/ TransactionStep
           \/ \E b \in Accounts :
                  \/ \E c \in Currencies, v \in Counts, l \in Limits \cup {None} :
                         CreateAccount(b, c, v, l)
                  \/ \E v \in Counts : EnableBalanceTracking(b, v) \/ ReconcileBalance(b, v)
                  \/ \E s \in Statements : ConfirmStatement(s, b)
                  \/ \E p \in Patches : UpdateAccount(b, p) /\ (b = a => p.currency = Unset)
                  \/ b # a /\ DeleteAccount(b)
    PROVE  AccountExists(a)' /\ accounts'[a].currency = accounts[a].currency
<1>. TypeOK
  BY DEF LedgerInv
<1>1. ASSUME NEW t \in Ids, NEW k \in Keys \cup {None}, NEW x \in RequestShapes,
             CreateTransaction(t, k, x)
      PROVE  AccountExists(a)' /\ accounts'[a].currency = accounts[a].currency
  <2>1. entries[t] = NoEntries
    BY <1>1, LiveRow, NoRowNoEntries DEF CreateTransaction
  <2>2. /\ Posted(x) \in [Accounts -> Int]
        /\ \A b \in Accounts : Posted(x)[b] # 0 => Tracked(b)
    BY RequestsAreShapes, PostedEntries
  <2> QED BY <1>1, <2>1, <2>2, BalancesMove DEF CreateTransaction
<1>2. ASSUME NEW t \in Ids, NEW x \in RequestShapes, UpdateTransaction(t, x)
      PROVE  AccountExists(a)' /\ accounts'[a].currency = accounts[a].currency
  <2>1. /\ Posted(x) \in [Accounts -> Int]
        /\ \A b \in Accounts : Posted(x)[b] # 0 => Tracked(b)
    BY RequestsAreShapes, PostedEntries
  <2> QED BY <1>2, <2>1, BalancesMove DEF UpdateTransaction
<1>3. ASSUME NEW t \in Ids, DeleteTransaction(t)
      PROVE  AccountExists(a)' /\ accounts'[a].currency = accounts[a].currency
  <2>1. NoEntries \in [Accounts -> Int] /\ \A b \in Accounts : NoEntries[b] = 0
    BY DEF NoEntries
  <2> QED BY <1>3, <2>1, BalancesMove DEF DeleteTransaction
<1>4. ASSUME NEW b \in Accounts, NEW c \in Currencies, NEW v \in Counts,
             NEW l \in Limits \cup {None}, CreateAccount(b, c, v, l)
      PROVE  accounts'[a] = accounts[a]
  <2>1. a # b
    BY <1>4, LedgerConstants DEF CreateAccount, AccountExists
  <2> QED BY <1>4, <2>1 DEF CreateAccount, TypeOK
<1>5. ASSUME NEW b \in Accounts, NEW v \in Counts,
             EnableBalanceTracking(b, v) \/ ReconcileBalance(b, v)
      PROVE  AccountExists(a)' /\ accounts'[a].currency = accounts[a].currency
  <2>1. /\ a = b => accounts'[a] \in {[accounts[a] EXCEPT !.tracking = TRUE, !.value = v],
                                     [accounts[a] EXCEPT !.value = v]}
        /\ a # b => accounts'[a] = accounts[a]
    <3>1. CASE EnableBalanceTracking(b, v)
      BY <3>1 DEF EnableBalanceTracking, TypeOK
    <3>2. CASE ReconcileBalance(b, v)
      BY <3>2 DEF ReconcileBalance, TypeOK
    <3> QED BY <1>5, <3>1, <3>2
  <2>2. v \in Cents
    BY LedgerConstants
  <2> QED BY <2>1, <2>2 DEF AccountExists, AccountRows
<1>6. ASSUME NEW b \in Accounts, NEW p \in Patches, UpdateAccount(b, p), b = a => p.currency = Unset
      PROVE  AccountExists(a)' /\ accounts'[a].currency = accounts[a].currency
  <2>1. LedgerInv'
    BY <1>6, UpdateAccountKeeps
  <2>2. CASE a # b
    BY <1>6, <2>2 DEF UpdateAccount, TypeOK, AccountExists
  <2>3. CASE a = b
    <3>1. p.currency = Unset /\ accounts'[a].currency = accounts[a].currency
      BY <1>6, <2>3 DEF UpdateAccount, TypeOK, Patched
    <3>2. accounts'[a] \in AccountRows \cup {Fresh, Deleted}
      BY <2>1 DEF LedgerInv, TypeOK
    <3>3. accounts'[a] \notin {Fresh, Deleted}
      <4>. DEFINE value == IF Tracked(a) /\ p.limit # Unset
                           THEN AdjustedAvailable(accounts[a].limit, accounts[a].value, p.limit)
                           ELSE Patched(p.value, accounts[a].value)
      <4>1. accounts'[a] = [currency |-> Patched(p.currency, accounts[a].currency),
                            tracking |-> accounts[a].tracking, value |-> value,
                            limit |-> Patched(p.limit, accounts[a].limit)]
        BY <1>6, <2>3 DEF UpdateAccount, TypeOK
      <4>2. Patched(p.currency, accounts[a].currency) \in Currencies
        BY DEF AccountExists, AccountRows, Patches, Patched
      <4>3. Patched(p.limit, accounts[a].limit) \in Cents \cup {None}
        BY LedgerConstants DEF AccountExists, AccountRows, Patches, Patched
      <4>4. accounts[a].tracking \in BOOLEAN
        BY DEF AccountExists, AccountRows
      <4>5. value \in Cents
        <5>1. CASE Tracked(a) /\ p.limit # Unset
          BY <1>6, <2>3, <5>1 DEF UpdateAccount
        <5>2. CASE ~(Tracked(a) /\ p.limit # Unset)
          BY <5>2, LedgerConstants DEF AccountExists, AccountRows, Patches, Patched
        <5> QED BY <5>1, <5>2
      <4>6. accounts'[a] \in AccountRows
        BY <4>1, <4>2, <4>3, <4>4, <4>5 DEF AccountRows
      <4> QED BY <4>6, LedgerConstants
    <3> QED BY <3>1, <3>2, <3>3 DEF AccountExists
  <2> QED BY <2>2, <2>3
<1>7. ASSUME NEW b \in Accounts, b # a, DeleteAccount(b)
      PROVE  accounts'[a] = accounts[a]
  BY <1>7 DEF DeleteAccount, TypeOK
<1>8. CASE TransactionStep
  BY <1>1, <1>2, <1>3, <1>8
     DEF TransactionStep, AdoptKeyedTransaction, UnlinkStatement, AccountExists
<1>9. CASE UNCHANGED accounts
  BY <1>9 DEF AccountExists
<1> QED BY <1>4, <1>5, <1>6, <1>7, <1>8, <1>9 DEF ConfirmStatement, vars, AccountExists

(* Nothing but its owner rewrites a managed transaction that pays no statement, *)
(* or takes its effects out of the ledger.                                     *)
LEMMA ManagedStays ==
    ASSUME LedgerInv, [Next]_vars, NEW t \in Ids, Live(t),
           transactions[t].owner = "managed", Shape(t).statement = None
    PROVE  /\ transactions'[t] = transactions[t]
           /\ \A a \in Accounts : entries[t][a] # 0 => entries'[t][a] # 0
<1>. TypeOK
  BY DEF LedgerInv
<1>1. CASE TransactionStep
  <2>1. transactions'[t] = transactions[t] /\ entries'[t] = entries[t]
    <3>1. ASSUME NEW u \in Ids, NEW k \in Keys \cup {None}, NEW x \in RequestShapes,
                 CreateTransaction(u, k, x)
          PROVE  transactions'[t] = transactions[t] /\ entries'[t] = entries[t]
      <4>1. t # u
        BY <3>1, LiveRow DEF CreateTransaction
      <4> QED BY <3>1, <4>1 DEF CreateTransaction, TypeOK
    <3>2. ASSUME NEW u \in Ids, UnlinkStatement(u) \/ DeleteTransaction(u)
                                \/ \E x \in RequestShapes : UpdateTransaction(u, x)
          PROVE  transactions'[t] = transactions[t] /\ entries'[t] = entries[t]
      <4>1. t # u
        BY <3>2 DEF UnlinkStatement, DeleteTransaction, UpdateTransaction
      <4> QED BY <3>2, <4>1 DEF UnlinkStatement, DeleteTransaction, UpdateTransaction, TypeOK
    <3> QED BY <1>1, <3>1, <3>2 DEF TransactionStep, AdoptKeyedTransaction
  <2> QED BY <2>1
<1>2. CASE AccountStep
  <2>1. ASSUME NEW b \in Accounts, DeleteAccount(b)
        PROVE  /\ transactions'[t] = transactions[t]
               /\ \A a \in Accounts : entries[t][a] # 0 => entries'[t][a] # 0
    <3>1. b \notin Involved(Shape(t))
      BY <2>1 DEF DeleteAccount, Unreferenced
    <3>2. entries[t][b] = 0
      BY <3>1 DEF LedgerInv, EntriesFollowTransactions
    <3>3. \A a \in Accounts \ {b} : entries'[t][a] = entries[t][a]
      BY <2>1 DEF DeleteAccount, TypeOK
    <3> QED BY <2>1, <3>2, <3>3 DEF DeleteAccount
  <2> QED BY <1>2, <2>1 DEF AccountStep, CreateAccount, EnableBalanceTracking,
             ReconcileBalance, UpdateAccount, ConfirmStatement
<1> QED BY <1>1, <1>2 DEF Next, vars
=============================================================================
