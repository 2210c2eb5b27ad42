--------------------------- MODULE LedgerSessions ---------------------------
(***************************************************************************)
(* The sessions that execute the operations of Ledger concurrently.  Every *)
(* request runs in one PostgreSQL transaction at READ COMMITTED (RunScoped) *)
(* and takes row locks as it goes: a create claims its idempotency key,     *)
(* then locks its accounts; an update or delete locks the transaction row,  *)
(* reads its entries, then locks the accounts of the old and new shape; the *)
(* removal of an account locks the account and then meets the rows that     *)
(* refer to it.  Accounts are locked one at a time in the order of their    *)
(* ids.  What a session reads it keeps (existing, booked, rows) and uses    *)
(* when it commits.                                                        *)
(*                                                                         *)
(* After the last lock a session touches only rows it has locked, so the   *)
(* statements from there to COMMIT are one step.  Nothing is visible to     *)
(* others before it, and a rollback at any point only releases the locks.   *)
(* An operation that locks a single row is the one step Ledger has for it,  *)
(* taken while nobody else has the row.                                    *)
(***************************************************************************)
EXTENDS Ledger

CONSTANTS
    Sessions,           \* database sessions, one request at a time each
    Requests,           \* the requests clients send
    Rank,               \* [Accounts -> Nat]: the order of account ids
    MaxRequests         \* bound on the requests ever started

Creates  == [kind: {"create"}, key: Keys \cup {None}, shape: RequestShapes]
Updates  == [kind: {"update"}, id: Ids, shape: RequestShapes]
Deletes  == [kind: {"delete"}, id: Ids]
Removals == [kind: {"remove"}, account: Accounts]

ASSUME SessionConstants ==
    /\ Requests \subseteq Creates \cup Updates \cup Deletes \cup Removals
    /\ Rank \in [Accounts -> Nat]
    /\ \A a, b \in Accounts : Rank[a] = Rank[b] => a = b
    /\ MaxRequests \in Nat
    /\ None \notin AccountRows \cup [id: Ids, shape: Shapes]

VARIABLES
    pc,                 \* where each session is in its request
    request,            \* the request it serves
    claim,              \* the key whose receipt it has inserted, uncommitted
    existing,           \* the transaction row it has locked, as it read it
    booked,             \* the entries it has read for that row
    rows,               \* the account rows it has locked, as it read them
    started,            \* how many requests were started
    answers             \* history: the transactions returned for each key

sessionVars == <<pc, request, claim, existing, booked, rows>>
svars == <<vars, sessionVars, started, answers>>

Steps == {"idle", "claim", "row", "entries", "accounts", "remove", "references"}

NoRows == [a \in Accounts |-> None]

SessionsTypeOK ==
    /\ pc \in [Sessions -> Steps]
    /\ request \in [Sessions -> Requests \cup {None}]
    /\ claim \in [Sessions -> Keys \cup {None}]
    /\ existing \in [Sessions -> [id: Ids, shape: Shapes] \cup {None}]
    /\ booked \in [Sessions -> [Accounts -> Int]]
    /\ rows \in [Sessions -> [Accounts -> AccountRows \cup {None}]]
    /\ started \in 0 .. MaxRequests
    /\ answers \in [Keys -> SUBSET Ids]

(* Ledger as a session sees it: validations and effects read the account rows *)
(* it has locked, not the table.                                             *)
Seen(p) == INSTANCE Ledger WITH accounts <- rows[p]

-----------------------------------------------------------------------------
(* Locks *)

Locked(p)    == {a \in Accounts : rows[p][a] # None}
LockedRow(p) == IF existing[p] = None THEN None ELSE existing[p].id

(* Fault: the account is read without FOR UPDATE. *)
NoAccountHolders(a) == {}

AccountHolders(a) == {p \in Sessions : a \in Locked(p)}
RowHolders(t)     == {p \in Sessions : LockedRow(p) = t}
KeyHolders(k)     == {p \in Sessions : claim[p] = k}

(* transactionAccountIDs of the old and the new shape, and of the entries *)
ToLock(p) ==
    LET r == request[p]
        named == CASE r.kind = "create" -> Involved(r.shape)
                   [] r.kind = "update" -> Involved(r.shape) \cup Involved(existing[p].shape)
                   [] r.kind = "delete" -> Involved(existing[p].shape)
    IN  (named \cup {a \in Accounts : booked[p][a] # 0}) \ Locked(p)

(* Fault: accounts are locked in the order the request names them. *)
AnyOrder(a, S) == TRUE

(* sort.Strings(sortedIDs) *)
First(a, S) == \A b \in S : Rank[a] <= Rank[b]

(* The sessions p waits for, at the statement it is about to run. *)
WaitsFor(p) ==
    (CASE pc[p] = "claim"  -> KeyHolders(request[p].key)
       [] pc[p] = "row"    -> RowHolders(request[p].id)
       [] pc[p] = "accounts" ->
            UNION {AccountHolders(a) : a \in {b \in ToLock(p) : First(b, ToLock(p))}}
       [] pc[p] = "remove" -> AccountHolders(request[p].account)
       [] pc[p] = "references" ->
            UNION {RowHolders(t) : t \in {u \in Ids : Live(u) /\
                                             request[p].account \in Involved(Shape(u))}}
       [] OTHER -> {}) \ {p}

(* A set of sessions that wait for one another, with nothing to spare. *)
Blocked(S) == S # {} /\ \A p \in S : WaitsFor(p) \cap S # {}
WaitCycle(S) == Blocked(S) /\ \A T \in SUBSET S : Blocked(T) => T = S

-----------------------------------------------------------------------------
(* The end of a PostgreSQL transaction, committed or not, releases its locks. *)
Release(p) ==
    /\ pc' = [pc EXCEPT ![p] = "idle"]
    /\ request' = [request EXCEPT ![p] = None]
    /\ claim' = [claim EXCEPT ![p] = None]
    /\ existing' = [existing EXCEPT ![p] = None]
    /\ booked' = [booked EXCEPT ![p] = NoEntries]
    /\ rows' = [rows EXCEPT ![p] = NoRows]

Answer(k, t) == answers' = IF k = None THEN answers
                           ELSE [answers EXCEPT ![k] = @ \cup {t}]

(* Fault: the error path leaves the PostgreSQL transaction open. *)
FailHoldingLocks(p) ==
    /\ pc' = [pc EXCEPT ![p] = "idle"]
    /\ request' = [request EXCEPT ![p] = None]
    /\ UNCHANGED <<vars, claim, existing, booked, rows, started, answers>>

(* The deferred tx.Rollback of RunScoped *)
Fail(p) == Release(p) /\ UNCHANGED <<vars, started, answers>>

Start(p, r) ==
    /\ pc[p] = "idle" /\ started < MaxRequests
    /\ r.kind = "create" => ValidShape(r.shape)
    /\ request' = [request EXCEPT ![p] = r]
    /\ pc' = [pc EXCEPT ![p] =
           CASE r.kind = "create" -> IF r.key = None THEN "accounts" ELSE "claim"
             [] r.kind = "remove" -> "remove"
             [] OTHER             -> "row"]
    /\ started' = started + 1
    /\ UNCHANGED <<vars, claim, existing, booked, rows, answers>>

(* Fault: an uncommitted claim does not make the next one wait. *)
IgnoreClaims(k) == {}

Claimants(k) == KeyHolders(k)

(* beginIdempotentCreate: the INSERT waits for an uncommitted claim of the key. *)
ClaimKey(p) ==
    LET k == request[p].key
    IN  /\ pc[p] = "claim" /\ Claimants(k) = {}
        /\ Claimable(k)
        /\ claim' = [claim EXCEPT ![p] = k]
        /\ pc' = [pc EXCEPT ![p] = "accounts"]
        /\ UNCHANGED <<vars, request, existing, booked, rows, started, answers>>

(* A replay is answered with the receipt's transaction; a request that differs, *)
(* or a transaction deleted since, is an error.                                 *)
Replay(p) ==
    LET r == receipts[request[p].key]
    IN  /\ pc[p] = "claim" /\ Claimants(request[p].key) = {}
        /\ r # None
        /\ IF r.request = request[p].shape /\ Live(r.resource)
           THEN Answer(request[p].key, r.resource)
           ELSE UNCHANGED answers
        /\ Release(p)
        /\ UNCHANGED <<vars, started>>

(* SELECT ... FOR UPDATE of the transaction, then the checks on what it returns *)
LockRow(p) ==
    LET r == request[p]
    IN  /\ pc[p] = "row" /\ RowHolders(r.id) = {}
        /\ Live(r.id) /\ transactions[r.id].owner = "user"
        /\ r.kind = "update" => ValidShape(r.shape)
        /\ existing' = [existing EXCEPT ![p] = [id |-> r.id, shape |-> Shape(r.id)]]
        /\ pc' = [pc EXCEPT ![p] = "entries"]
        /\ UNCHANGED <<vars, request, claim, booked, rows, started, answers>>

RefuseRow(p) ==
    LET r == request[p]
    IN  /\ pc[p] = "row" /\ RowHolders(r.id) = {}
        /\ Live(r.id) /\ transactions[r.id].owner = "user"
               => r.kind = "update" /\ ~ValidShape(r.shape)
        /\ Fail(p)

(* loadTransactionBalanceEntries *)
ReadEntries(p) ==
    /\ pc[p] = "entries"
    /\ booked' = [booked EXCEPT ![p] = entries[existing[p].id]]
    /\ pc' = [pc EXCEPT ![p] = "accounts"]
    /\ UNCHANGED <<vars, request, claim, existing, rows, started, answers>>

(* Fault: the SELECT of an account that is gone is taken for a row. *)
AssumeFound(a) == TRUE

Found(a) == AccountExists(a)

(* lockTransactionAccounts, one iteration *)
LockAccount(p, a) ==
    /\ pc[p] = "accounts"
    /\ a \in ToLock(p) /\ First(a, ToLock(p))
    /\ AccountHolders(a) = {}
    /\ Found(a)
    /\ rows' = [rows EXCEPT ![p][a] = accounts[a]]
    /\ UNCHANGED <<vars, pc, request, claim, existing, booked, started, answers>>

MissAccount(p, a) ==
    /\ pc[p] = "accounts"
    /\ a \in ToLock(p) /\ First(a, ToLock(p))
    /\ AccountHolders(a) = {}
    /\ ~Found(a)
    /\ Fail(p)

(* Every account is locked; the rest of the method runs to its COMMIT. *)
Ready(p, kind) == pc[p] = "accounts" /\ request[p].kind = kind /\ ToLock(p) = {}

(* The checks on the locked accounts, and of each new balance against bigint *)
Passes(p, x) == Seen(p)!Acceptable(x) /\ Seen(p)!InRange(booked[p], Seen(p)!Posted(x))

(* createTransactionWithLockedAccounts: the row is new *)
CommitCreate(p, t) ==
    LET r == request[p]
    IN  /\ Ready(p, "create") /\ Passes(p, r.shape)
        /\ ~KeyTaken(r.key)
        /\ transactions[t] = Fresh
        /\ transactions' = [transactions EXCEPT ![t] =
               [shape |-> r.shape, key |-> r.key, owner |-> "user"]]
        /\ entries' = [entries EXCEPT ![t] = Seen(p)!Posted(r.shape)]
        /\ accounts' = Replace(NoEntries, Seen(p)!Posted(r.shape))
        /\ receipts' = Completed(r.key, r.shape, t)
        /\ Answer(r.key, t)
        /\ Release(p)
        /\ UNCHANGED <<audit, statements, openingLimit, started>>

(* ... the key belongs to an older row of the same shape *)
CommitAdopted(p, t) ==
    LET r == request[p]
    IN  /\ Ready(p, "create") /\ Seen(p)!Acceptable(r.shape)
        /\ KeyTaken(r.key) /\ Live(t) /\ transactions[t].key = r.key
        /\ Shape(t) = r.shape
        /\ receipts' = Completed(r.key, r.shape, t)
        /\ Answer(r.key, t)
        /\ Release(p)
        /\ UNCHANGED <<accounts, transactions, entries, audit, statements, openingLimit, started>>

(* ... or the create is refused *)
RefuseCreate(p) ==
    LET r == request[p]
    IN  /\ Ready(p, "create")
        /\ \/ ~Seen(p)!Acceptable(r.shape)
           \/ ~KeyTaken(r.key) /\ ~Passes(p, r.shape)
           \/ \E t \in Ids : KeyTaken(r.key) /\ Live(t) /\ transactions[t].key = r.key
                             /\ Shape(t) # r.shape
        /\ Fail(p)

(* Reverse the entries it read, then post those of the new shape. *)
CommitUpdate(p) ==
    LET t == existing[p].id
        x == request[p].shape
    IN  /\ Ready(p, "update") /\ Passes(p, x)
        /\ transactions' = [transactions EXCEPT ![t].shape = x]
        /\ entries' = [entries EXCEPT ![t] = Seen(p)!Posted(x)]
        /\ accounts' = Replace(booked[p], Seen(p)!Posted(x))
        /\ Release(p)
        /\ UNCHANGED <<audit, statements, receipts, openingLimit, started, answers>>

RefuseUpdate(p) == Ready(p, "update") /\ ~Passes(p, request[p].shape) /\ Fail(p)

CommitDelete(p) ==
    LET t == existing[p].id
    IN  /\ Ready(p, "delete") /\ Seen(p)!InRange(booked[p], NoEntries)
        /\ transactions' = [transactions EXCEPT ![t] = Deleted]
        /\ entries' = [entries EXCEPT ![t] = NoEntries]
        /\ accounts' = Replace(booked[p], NoEntries)
        /\ Release(p)
        /\ UNCHANGED <<audit, statements, receipts, openingLimit, started, answers>>

RefuseDelete(p) ==
    Ready(p, "delete") /\ ~Seen(p)!InRange(booked[p], NoEntries) /\ Fail(p)

(* DELETE FROM accounts: the row lock, then the foreign keys that refer to it.  *)
LockRemoved(p) ==
    LET a == request[p].account
    IN  /\ pc[p] = "remove" /\ AccountHolders(a) = {}
        /\ AccountExists(a)
        /\ rows' = [rows EXCEPT ![p][a] = accounts[a]]
        /\ pc' = [pc EXCEPT ![p] = "references"]
        /\ UNCHANGED <<vars, request, claim, existing, booked, started, answers>>

MissRemoved(p) ==
    /\ pc[p] = "remove" /\ AccountHolders(request[p].account) = {}
    /\ ~AccountExists(request[p].account)
    /\ Fail(p)

CommitRemoval(p) ==
    /\ pc[p] = "references"
    /\ DeleteAccount(request[p].account)
    /\ Release(p)
    /\ UNCHANGED <<started, answers>>

(* A row that refers to the account and that nobody holds restricts the delete; *)
(* a row somebody holds is waited for.                                          *)
RefuseRemoval(p) ==
    /\ pc[p] = "references"
    /\ \E t \in Ids : /\ Live(t) /\ request[p].account \in Involved(Shape(t))
                      /\ RowHolders(t) = {}
    /\ Fail(p)

Proceed(p) ==
    \/ ClaimKey(p) \/ Replay(p)
    \/ LockRow(p) \/ RefuseRow(p) \/ ReadEntries(p)
    \/ \E a \in Accounts : LockAccount(p, a) \/ MissAccount(p, a)
    \/ \E t \in Ids : CommitCreate(p, t) \/ CommitAdopted(p, t)
    \/ RefuseCreate(p)
    \/ CommitUpdate(p) \/ RefuseUpdate(p)
    \/ CommitDelete(p) \/ RefuseDelete(p)
    \/ LockRemoved(p) \/ MissRemoved(p) \/ CommitRemoval(p) \/ RefuseRemoval(p)

(* A lost connection, a cancelled request or a crash: the transaction ends      *)
(* without effect.                                                              *)
Rollback(p) == pc[p] # "idle" /\ Fail(p)

(* PostgreSQL ends one session of a wait cycle. *)
AbortDeadlocked(p) == (\E S \in SUBSET Sessions : WaitCycle(S) /\ p \in S) /\ Fail(p)

(* Operations that lock a single row *)
SingleRowStep ==
    /\ \/ \E a \in Accounts :
           /\ AccountHolders(a) = {}
           /\ \/ \E c \in Currencies, v \in Counts, l \in Limits \cup {None} :
                     CreateAccount(a, c, v, l)
              \/ \E v \in Counts : EnableBalanceTracking(a, v) \/ ReconcileBalance(a, v)
              \/ \E q \in Patches : UpdateAccount(a, q)
              \/ \E s \in Statements : ConfirmStatement(s, a)
       \/ \E t \in Ids : RowHolders(t) = {} /\ UnlinkStatement(t)
    /\ UNCHANGED <<sessionVars, started, answers>>

SessionsInit ==
    /\ Init
    /\ pc = [p \in Sessions |-> "idle"]
    /\ request = [p \in Sessions |-> None]
    /\ claim = [p \in Sessions |-> None]
    /\ existing = [p \in Sessions |-> None]
    /\ booked = [p \in Sessions |-> NoEntries]
    /\ rows = [p \in Sessions |-> NoRows]
    /\ started = 0
    /\ answers = [k \in Keys |-> {}]

SessionsNext ==
    \/ \E p \in Sessions :
           \/ \E r \in Requests : Start(p, r)
           \/ Proceed(p)
           \/ Rollback(p)
           \/ AbortDeadlocked(p)
    \/ SingleRowStep

(* A session that can run its next statement does; the deadlock detector runs. *)
Fairness == \A p \in Sessions : WF_svars(Proceed(p)) /\ WF_svars(AbortDeadlocked(p))

SessionsSpec == SessionsInit /\ [][SessionsNext]_svars /\ Fairness

-----------------------------------------------------------------------------
(* Properties *)

(* However the statements of concurrent requests interleave, every commit is   *)
(* one operation of Ledger on the state it finds: what a session read under    *)
(* its locks is still true when it writes, so no update is lost and no         *)
(* validation is stale.                                                        *)
ImplementsLedger == Spec

(* docs/account-balance-automation-spec.md:189: "Stable lock order prevents    *)
(* deadlocks when concurrent transfers touch the same accounts".  Creates,     *)
(* updates and deletes of transactions never wait in a cycle, in whichever     *)
(* direction their transfers go; only the removal of an account, which meets   *)
(* the transaction rows after the account, can be part of one.                 *)
OnlyRemovalsDeadlock ==
    \A S \in SUBSET Sessions :
        WaitCycle(S) => \E p \in S : request[p].kind = "remove"

(* However often and however concurrently a create is sent under one key, all  *)
(* answers it gets name one transaction.                                       *)
SameKeySameAnswer == \A k \in Keys : \A t, u \in answers[k] : t = u

(* Every request ends: it commits, is refused, or is rolled back. *)
EveryRequestEnds == \A p \in Sessions : pc[p] # "idle" ~> pc[p] = "idle"
=============================================================================
