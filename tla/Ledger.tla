------------------------------- MODULE Ledger -------------------------------
(***************************************************************************)
(* The account-balance ledger of one user (backend/internal/store:         *)
(* accounts.go, transactions.go, balance_automation.go,                    *)
(* create_idempotency.go, credit_card_statements.go).                      *)
(*                                                                         *)
(* Every repository method runs inside one PostgreSQL transaction          *)
(* (RunScoped) and any error rolls it back, so a method that succeeds is   *)
(* one action here and a method that fails is a stuttering step.  How the  *)
(* statements of concurrent methods interleave under row locks is the      *)
(* subject of LedgerSessions, which implements this specification.         *)
(*                                                                         *)
(* Kept: accounts, transactions, ledger entries, statement links and       *)
(* idempotency receipts.  Left out, because no property depends on them:   *)
(* names, categories, dates, merchants, is_active and the yield settings.  *)
(***************************************************************************)
EXTENDS Integers, Sequences, FiniteSets, Functions, Totals

CONSTANTS
    Accounts,           \* account ids
    AccountType,        \* [Accounts -> {"debit", "credit"}]; type is immutable
    Currencies,
    Ids,                \* transaction ids: as many as uuids, none generated twice
    Keys,               \* idempotency keys
    Statements,         \* credit-card statement ids
    Amounts,            \* amounts a request may carry
    Counts,             \* values a user may confirm for an account
    Limits,             \* credit limits
    HalfRange,          \* bigint holds -HalfRange .. HalfRange - 1
    MaxReconciliations, \* bound on the reconciliation entries of one account
    LegacyAccounts,     \* accounts that predate the balance automation
    None,               \* SQL NULL, and "field absent" in a patch's optional
    Unset,              \* a patch field that was not sent
    Fresh, Deleted      \* rows that do not exist yet, or no longer

-----------------------------------------------------------------------------
Cents == -HalfRange .. HalfRange - 1

(* Go's int64 subtraction wraps; SQL's bigint addition raises an error. *)
Wrap(n) == ((n + HalfRange) % (2 * HalfRange)) - HalfRange

TransactionTypes == {"expense", "income", "transfer"}

(* The fields of TransactionInput that reach the balances. *)
Shapes == [type: TransactionTypes, account: Accounts, dest: Accounts \cup {None},
           amount: Int, affects: BOOLEAN, statement: Statements \cup {None}]

(* owner is "managed" when an MSI purchase, a loan payment, a savings        *)
(* allocation or a yield reconciliation refers to the transaction.           *)
TransactionRows == [shape: Shapes, key: Keys \cup {None}, owner: {"user", "managed"}]

(* value is balance_cents of a debit account, available_credit_cents of a credit one. *)
AccountRows == [currency: Currencies, tracking: BOOLEAN, value: Cents,
                limit: Cents \cup {None}]

Receipts == [request: Shapes, resource: Ids]

ASSUME LedgerConstants ==
    /\ AccountType \in [Accounts -> {"debit", "credit"}]
    /\ IsFiniteSet(Ids)
    /\ LegacyAccounts \subseteq Accounts
    /\ HalfRange \in Nat \ {0}
    /\ MaxReconciliations \in Nat
    /\ Amounts \subseteq Int
    /\ Counts \subseteq Cents
    /\ Limits \subseteq Cents \cap Nat
    /\ None \notin Accounts \cup Ids \cup Keys \cup Statements \cup Int \cup Receipts
    /\ Unset \notin Currencies \cup Int \cup {None}
    /\ {Fresh, Deleted} \cap (AccountRows \cup TransactionRows \cup Accounts \cup {None}) = {}
    /\ Fresh # Deleted

VARIABLES
    accounts,           \* account rows
    transactions,       \* transaction rows
    entries,            \* account_balance_entries of kind 'transaction'
    audit,              \* entries of kind 'opening' (first) and 'reconciliation'
    statements,         \* the account each statement belongs to
    receipts,           \* create_idempotency_receipts, resource 'transaction'
    openingLimit        \* history: the credit limit when tracking started

vars == <<accounts, transactions, entries, audit, statements, receipts, openingLimit>>

-----------------------------------------------------------------------------
(* A row exists exactly when its delta is not zero: amounts are positive and *)
(* (transaction_id, account_id) is unique.                                   *)
NoEntries == [a \in Accounts |-> 0]

AccountExists(a) == accounts[a] \in AccountRows
Tracked(a)       == AccountExists(a) /\ accounts[a].tracking
Live(t)          == transactions[t] \in TransactionRows
Shape(t)         == transactions[t].shape

TypeOK ==
    /\ accounts \in [Accounts -> AccountRows \cup {Fresh, Deleted}]
    /\ transactions \in [Ids -> TransactionRows \cup {Fresh, Deleted}]
    /\ entries \in [Ids -> [Accounts -> Int]]
    /\ audit \in [Accounts -> Seq(Cents)]
    /\ statements \in [Statements -> Accounts \cup {None, Deleted}]
    /\ receipts \in [Keys -> Receipts \cup {None}]
    /\ openingLimit \in [Accounts -> Cents \cup {None}]
    /\ \A a \in Accounts : Tracked(a) /\ AccountType[a] = "credit" =>
           accounts[a].limit # None /\ openingLimit[a] # None

-----------------------------------------------------------------------------
(* ComputeTransactionDeltas *)
Involved(x) == {x.account} \cup (IF x.type = "transfer" THEN {x.dest} ELSE {})

Delta(x, a) == IF x.type = "income" \/ a # x.account THEN x.amount ELSE -x.amount

(* Fault: ignore trackingEnabled. *)
PostedUntracked(x) ==
    [a \in Accounts |-> IF x.affects /\ a \in Involved(x) THEN Delta(x, a) ELSE 0]

(* applyTransactionEffects: the entries a transaction of shape x posts *)
Posted(x) ==
    [a \in Accounts |-> IF x.affects /\ a \in Involved(x) /\ Tracked(a)
                        THEN Delta(x, a) ELSE 0]

(* Fault: apply the new effects without reversing the old ones. *)
ReplaceUnreversed(old, new) ==
    [a \in Accounts |-> IF new[a] = 0 THEN accounts[a]
                        ELSE [accounts[a] EXCEPT !.value = @ + new[a]]]

(* reverseTransactionBalanceEntries then applyTransactionEffects *)
Replace(old, new) ==
    [a \in Accounts |-> IF old[a] = 0 /\ new[a] = 0 THEN accounts[a]
                        ELSE [accounts[a] EXCEPT !.value = @ - old[a] + new[a]]]

(* Fault: a balance column without a width. *)
Unbounded(old, new) == TRUE

(* Each UPDATE of a balance must stay inside bigint. *)
InRange(old, new) ==
    \A a \in Accounts : ~(old[a] = 0 /\ new[a] = 0) =>
        /\ accounts[a].value - old[a] \in Cents
        /\ accounts[a].value - old[a] + new[a] \in Cents

ValidShape(x) ==
    /\ x.amount > 0
    /\ x.type = "transfer" => x.dest \in Accounts \ {x.account}
    /\ x.type # "transfer" => x.dest = None /\ x.statement = None
    /\ x.statement # None => x.affects

ValidAccounts(x) ==
    /\ \A a \in Involved(x) : AccountExists(a)
    /\ x.type = "transfer" => accounts[x.account].currency = accounts[x.dest].currency

(* A linked transfer pays the card the statement belongs to. *)
StatementMatches(x) == x.statement # None => statements[x.statement] = x.dest

(* Fault: validateStatementBalanceTracking forgotten. *)
AnyTracking(x) == TRUE

(* ... and moves two tracked balances. *)
StatementTracked(x) == x.statement # None => \A a \in Involved(x) : Tracked(a)

Acceptable(x) ==
    ValidShape(x) /\ ValidAccounts(x) /\ StatementMatches(x) /\ StatementTracked(x)

(* Faults: the receipt, or the unique index on the key, is not consulted. *)
Unclaimed(k) == TRUE
NeverTaken(k) == FALSE

(* beginIdempotentCreate: a key is claimed once. *)
Claimable(k) == k # None => receipts[k] = None

(* completeIdempotentCreate *)
Completed(k, x, t) ==
    IF k = None THEN receipts ELSE [receipts EXCEPT ![k] = [request |-> x, resource |-> t]]

(* The partial unique index on the key of a transaction. *)
KeyTaken(k) == k # None /\ \E t \in Ids : Live(t) /\ transactions[t].key = k

-----------------------------------------------------------------------------
(* TransactionRepository *)

CreateTransaction(t, k, x) ==
    /\ transactions[t] = Fresh
    /\ Claimable(k) /\ ~KeyTaken(k)
    /\ Acceptable(x)
    /\ InRange(NoEntries, Posted(x))
    /\ transactions' = [transactions EXCEPT ![t] = [shape |-> x, key |-> k, owner |-> "user"]]
    /\ entries' = [entries EXCEPT ![t] = Posted(x)]
    /\ accounts' = Replace(NoEntries, Posted(x))
    /\ receipts' = Completed(k, x, t)
    /\ UNCHANGED <<audit, statements, openingLimit>>

(* INSERT ... ON CONFLICT: the key belongs to a row written before receipts existed. *)
AdoptKeyedTransaction(t, k, x) ==
    /\ Claimable(k)
    /\ Live(t) /\ transactions[t].key = k
    /\ Acceptable(x)
    /\ Shape(t) = x
    /\ receipts' = Completed(k, x, t)
    /\ UNCHANGED <<accounts, transactions, entries, audit, statements, openingLimit>>

(* A patch that touches the balance shape; x is the patched transaction. *)
UpdateTransaction(t, x) ==
    /\ Live(t) /\ transactions[t].owner = "user"
    /\ Acceptable(x)
    /\ InRange(entries[t], Posted(x))
    /\ transactions' = [transactions EXCEPT ![t].shape = x]
    /\ entries' = [entries EXCEPT ![t] = Posted(x)]
    /\ accounts' = Replace(entries[t], Posted(x))
    /\ UNCHANGED <<audit, statements, receipts, openingLimit>>

(* Clearing the statement alone is no balance patch: the entries stay. *)
UnlinkStatement(t) ==
    /\ Live(t) /\ transactions[t].owner = "user"
    /\ Shape(t).statement # None
    /\ transactions' = [transactions EXCEPT ![t].shape.statement = None]
    /\ UNCHANGED <<accounts, entries, audit, statements, receipts, openingLimit>>

DeleteTransaction(t) ==
    /\ Live(t) /\ transactions[t].owner = "user"
    /\ InRange(entries[t], NoEntries)
    /\ transactions' = [transactions EXCEPT ![t] = Deleted]
    /\ entries' = [entries EXCEPT ![t] = NoEntries]
    /\ accounts' = Replace(entries[t], NoEntries)
    /\ UNCHANGED <<audit, statements, receipts, openingLimit>>

-----------------------------------------------------------------------------
(* AccountRepository *)

(* The HTTP handler forces TrackBalance, and asks a credit account for its limit. *)
CreateAccount(a, c, v, l) ==
    /\ accounts[a] = Fresh
    /\ (l = None) <=> (AccountType[a] = "debit")
    /\ accounts' = [accounts EXCEPT ![a] =
           [currency |-> c, tracking |-> TRUE, value |-> v, limit |-> l]]
    /\ audit' = [audit EXCEPT ![a] = <<v>>]
    /\ openingLimit' = [openingLimit EXCEPT ![a] = l]
    /\ UNCHANGED <<transactions, entries, statements, receipts>>

EnableBalanceTracking(a, v) ==
    /\ AccountExists(a) /\ ~accounts[a].tracking
    /\ AccountType[a] = "credit" => accounts[a].limit # None
    /\ accounts' = [accounts EXCEPT ![a].tracking = TRUE, ![a].value = v]
    /\ audit' = [audit EXCEPT ![a] = <<v>>]
    /\ openingLimit' = [openingLimit EXCEPT ![a] = accounts[a].limit]
    /\ UNCHANGED <<transactions, entries, statements, receipts>>

ReconcileBalance(a, v) ==
    /\ Tracked(a) /\ v # accounts[a].value
    /\ Len(audit[a]) <= MaxReconciliations
    /\ accounts' = [accounts EXCEPT ![a].value = v]
    /\ audit' = [audit EXCEPT ![a] = Append(@, Wrap(v - accounts[a].value))]
    /\ UNCHANGED <<transactions, entries, statements, receipts, openingLimit>>

Patches == [currency: Currencies \cup {Unset},
            value: Counts \cup {Unset},
            limit: Limits \cup {None, Unset}]

Patched(field, old) == IF field = Unset THEN old ELSE field

AdjustedAvailable(old, available, new) == available + (new - old)

(* Update: raising or lowering the limit of a tracked card moves its available credit. *)
UpdateAccount(a, p) ==
    LET row      == accounts[a]
        adjusted == Tracked(a) /\ p.limit # Unset
        value    == IF adjusted THEN AdjustedAvailable(row.limit, row.value, p.limit)
                    ELSE Patched(p.value, row.value)
    IN  /\ AccountExists(a)
        /\ AccountType[a] = "debit" => p.limit = Unset
        /\ Tracked(a) => p.value = Unset
        /\ adjusted => p.limit # None /\ value \in Cents
        /\ accounts' = [accounts EXCEPT ![a] =
               [currency |-> Patched(p.currency, row.currency), tracking |-> row.tracking,
                value |-> value, limit |-> Patched(p.limit, row.limit)]]
        /\ UNCHANGED <<transactions, entries, audit, statements, receipts, openingLimit>>

(* Fault: only account_id restricts the delete. *)
UnreferencedAsSource(a) == \A t \in Ids : Live(t) => a # Shape(t).account

Unreferenced(a) == \A t \in Ids : Live(t) => a \notin Involved(Shape(t))

(* transactions restrict the delete; entries and statements cascade, and a     *)
(* cascaded statement sets the links to it to NULL.                            *)
DeleteAccount(a) ==
    /\ AccountExists(a)
    /\ Unreferenced(a)
    /\ accounts' = [accounts EXCEPT ![a] = Deleted]
    /\ audit' = [audit EXCEPT ![a] = <<>>]
    /\ entries' = [t \in Ids |-> [entries[t] EXCEPT ![a] = 0]]
    /\ statements' = [s \in Statements |->
           IF statements[s] = a THEN Deleted ELSE statements[s]]
    /\ transactions' = [t \in Ids |->
           IF Live(t) /\ Shape(t).statement # None /\ statements[Shape(t).statement] = a
           THEN [transactions[t] EXCEPT !.shape.statement = None]
           ELSE transactions[t]]
    /\ openingLimit' = [openingLimit EXCEPT ![a] = None]
    /\ UNCHANGED receipts

(* CreditCardStatementRepository.Confirm: the first confirmation of a cycle. *)
(* A later one updates amounts and dates only.                               *)
ConfirmStatement(s, a) ==
    /\ statements[s] = None
    /\ AccountExists(a) /\ AccountType[a] = "credit"
    /\ statements' = [statements EXCEPT ![s] = a]
    /\ UNCHANGED <<accounts, transactions, entries, audit, receipts, openingLimit>>

-----------------------------------------------------------------------------
RequestShapes == [type: TransactionTypes, account: Accounts, dest: Accounts \cup {None},
                  amount: Amounts, affects: BOOLEAN, statement: Statements \cup {None}]

LegacyRows == [currency: Currencies, tracking: {FALSE}, value: Counts,
               limit: Limits \cup {None}]

(* Databases the migrations leave behind: untracked accounts, and at most one *)
(* historical transaction, which carries a key if it was written between      *)
(* migrations 00013 and 00019.                                                *)
LegacyTransactions ==
    {r \in [shape: RequestShapes, key: Keys \cup {None}, owner: {"user", "managed"}] :
        /\ ValidShape(r.shape) /\ ~r.shape.affects
        /\ Involved(r.shape) \subseteq LegacyAccounts}

Init ==
    /\ accounts \in [Accounts -> LegacyRows \cup {Fresh}]
    /\ \A a \in Accounts :
           /\ (accounts[a] = Fresh) <=> (a \notin LegacyAccounts)
           /\ a \in LegacyAccounts /\ AccountType[a] = "debit" => accounts[a].limit = None
    /\ \/ transactions = [t \in Ids |-> Fresh]
       \/ \E t \in Ids, r \in LegacyTransactions :
              /\ ValidAccounts(r.shape)
              /\ transactions = [[u \in Ids |-> Fresh] EXCEPT ![t] = r]
    /\ entries = [t \in Ids |-> NoEntries]
    /\ audit = [a \in Accounts |-> <<>>]
    /\ statements = [s \in Statements |-> None]
    /\ receipts = [k \in Keys |-> None]
    /\ openingLimit = [a \in Accounts |-> None]

TransactionStep ==
    \E t \in Ids :
        \/ \E k \in Keys \cup {None}, x \in RequestShapes : CreateTransaction(t, k, x)
        \/ \E k \in Keys, x \in RequestShapes : AdoptKeyedTransaction(t, k, x)
        \/ \E x \in RequestShapes : UpdateTransaction(t, x)
        \/ UnlinkStatement(t)
        \/ DeleteTransaction(t)

AccountStep ==
    \E a \in Accounts :
        \/ \E c \in Currencies, v \in Counts, l \in Limits \cup {None} :
               CreateAccount(a, c, v, l)
        \/ \E v \in Counts : EnableBalanceTracking(a, v)
        \/ \E v \in Counts : ReconcileBalance(a, v)
        \/ \E p \in Patches : UpdateAccount(a, p)
        \/ DeleteAccount(a)
        \/ \E s \in Statements : ConfirmStatement(s, a)

Next == TransactionStep \/ AccountStep

Spec == Init /\ [][Next]_vars

-----------------------------------------------------------------------------
(* Properties *)

LimitMoved(a) ==
    IF AccountType[a] = "credit" THEN accounts[a].limit - openingLimit[a] ELSE 0

(* The value of a tracked account is its opening and reconciliation entries,   *)
(* plus its transaction entries, plus whatever its credit limit moved since    *)
(* tracking started; modulo 2^64, since a reconciliation delta is computed in  *)
(* int64.  Every create, edit, delete, reconciliation and limit change of      *)
(* accounts.go and transactions.go has to keep it so.                          *)
LedgerExplainsValue ==
    \A a \in Accounts : Tracked(a) =>
        (accounts[a].value - Total(audit[a]) - Total([t \in Ids |-> entries[t][a]])
            - LimitMoved(a)) % (2 * HalfRange) = 0

(* An entry is always the effect of the current shape of a live transaction on *)
(* a tracked account: nothing of an earlier shape, a deleted row or an          *)
(* untracked account survives in the ledger (Update and Delete reverse what     *)
(* they find before they rewrite the row).                                      *)
EntriesFollowTransactions ==
    \A t \in Ids, a \in Accounts : entries[t][a] # 0 =>
        /\ Live(t) /\ Shape(t).affects /\ a \in Involved(Shape(t))
        /\ Tracked(a)
        /\ entries[t][a] = Delta(Shape(t), a)

(* A transfer linked to a credit-card statement pays the card of that          *)
(* statement, and its effect is in the ledger of both accounts: the amount the *)
(* statement reports as paid has really left one account and reached the card. *)
StatementPaymentsBacked ==
    \A t \in Ids : Live(t) /\ Shape(t).statement # None =>
        /\ statements[Shape(t).statement] = Shape(t).dest
        /\ \A a \in Involved(Shape(t)) : entries[t][a] # 0

(* While a key's receipt exists, no live transaction but the one the receipt   *)
(* names carries the key: a replay answers with the only row the key made,     *)
(* even when that row was written before receipts existed.                     *)
ReceiptNamesItsTransaction ==
    \A k \in Keys, t \in Ids :
        receipts[k] # None /\ Live(t) /\ transactions[t].key = k => receipts[k].resource = t

(* Once a key has a receipt, no later create under that key inserts a row, not *)
(* even after the first one was deleted, and the receipt never changes.        *)
RetriesCreateNothing ==
    [][\A k \in Keys : receipts[k] # None =>
           /\ receipts'[k] = receipts[k]
           /\ \A t \in Ids : transactions[t] = Fresh /\ transactions'[t] # Fresh
                             => transactions'[t].key # k]_vars

(* An effect that is in the ledger leaves it only when the transaction stops   *)
(* having that effect; edits of other fields, and operations on accounts,      *)
(* never drop it.                                                              *)
EffectsStayRecorded ==
    [][\A t \in Ids, a \in Accounts :
           entries[t][a] # 0 /\ Live(t)' /\ Shape(t)'.affects /\ a \in Involved(Shape(t)')
           => entries'[t][a] # 0]_vars

-----------------------------------------------------------------------------
(* What the documents say and the code does not keep *)

(* docs/account-balance-automation-spec.md:175: "Opening plus subsequent deltas *)
(* equals the materialized account value."  A credit-limit change moves the    *)
(* available credit of a tracked card and writes no entry.                     *)
LedgerSumsToValue ==
    \A a \in Accounts : Tracked(a) =>
        accounts[a].value = Total(audit[a]) + Total([t \in Ids |-> entries[t][a]])

(* backend/migrations/00011: historical rows are marked "so later edits cannot *)
(* apply or reverse a balance effect that never happened".  A transaction made *)
(* while its account was untracked has affects_balance true and no entry; the  *)
(* first edit after tracking starts posts its whole amount.                    *)
SkippedEffectsStaySkipped ==
    [][\A t \in Ids, a \in Accounts :
           Live(t) /\ Shape(t).affects /\ a \in Involved(Shape(t)) /\ Tracked(a)
               /\ entries[t][a] = 0
           => entries'[t][a] = 0]_vars
=============================================================================
