--------------------------- MODULE SessionsProofs ---------------------------
(* Theorems about LedgerSessions, for every set of sessions, requests, accounts *)
(* and transactions: however the statements of concurrent requests interleave.  *)
EXTENDS LedgerSessions, LedgerProofs, TLAPS

(* Where a session is in its request says what it holds. *)
StepsHold(p) ==
    /\ pc[p] # "idle" => request[p] \in Requests
    /\ pc[p] # "idle" /\ request[p].kind = "create" => ValidShape(request[p].shape)
    /\ pc[p] = "claim" => request[p].kind = "create" /\ request[p].key # None
    /\ pc[p] \in {"row", "entries"} => request[p].kind \in {"update", "delete"}
    /\ pc[p] = "accounts" => request[p].kind \in {"create", "update", "delete"}
    /\ pc[p] \in {"remove", "references"} => request[p].kind = "remove"
    /\ pc[p] \in {"entries", "accounts"} /\ request[p].kind = "update" =>
           ValidShape(request[p].shape)
    /\ claim[p] # None => pc[p] = "accounts" /\ request[p].kind = "create"
    /\ pc[p] = "accounts" /\ request[p].kind = "create" => claim[p] = request[p].key
    /\ existing[p] # None <=>
           pc[p] \in {"entries", "accounts"} /\ request[p].kind \in {"update", "delete"}
    /\ existing[p] # None => existing[p].id = request[p].id
    /\ pc[p] # "accounts" \/ existing[p] = None => booked[p] = NoEntries
    /\ Locked(p) # {} => pc[p] \in {"accounts", "references"}
    /\ pc[p] = "references" => request[p].account \in Locked(p)

RequestsFollowed == \A p \in Sessions : StepsHold(p)

(* What a session has read under a lock, or claimed, is what the tables hold. *)
ReadsHold(p) ==
    /\ \A a \in Locked(p) : rows[p][a] = accounts[a]
    /\ existing[p] # None =>
           /\ Live(existing[p].id) /\ transactions[existing[p].id].owner = "user"
           /\ Shape(existing[p].id) = existing[p].shape
           /\ pc[p] = "accounts" => booked[p] = entries[existing[p].id]
    /\ claim[p] # None => receipts[claim[p]] = None

ReadsStayTrue == \A p \in Sessions : ReadsHold(p)

(* No two sessions hold the same account, transaction or key. *)
LocksExclude ==
    \A p, q \in Sessions : p # q =>
        /\ Locked(p) \cap Locked(q) = {}
        /\ existing[p] # None /\ existing[q] # None => existing[p].id # existing[q].id
        /\ claim[p] # None => claim[p] # claim[q]

(* A session never waits for an account below one it holds. *)
LocksOrdered ==
    \A p \in Sessions : pc[p] = "accounts" =>
        \A a \in Locked(p), b \in ToLock(p) : Rank[a] < Rank[b]

(* An answer under a key is the transaction its receipt names. *)
AnswersReceipted ==
    \A k \in Keys : \A t \in answers[k] : receipts[k] # None /\ receipts[k].resource = t

SInv ==
    /\ IInv
    /\ SessionsTypeOK
    /\ RequestsFollowed
    /\ ReadsStayTrue
    /\ LocksExclude
    /\ LocksOrdered
    /\ AnswersReceipted

(* Each request is of the kind it says. *)
LEMMA RequestKinds ==
    ASSUME NEW r \in Requests
    PROVE  /\ r.kind \in {"create", "update", "delete", "remove"}
           /\ r.kind = "create" => /\ r.key \in Keys \cup {None}
                                   /\ r.shape \in RequestShapes /\ r.shape \in Shapes
           /\ r.kind = "update" => /\ r.id \in Ids
                                   /\ r.shape \in RequestShapes /\ r.shape \in Shapes
           /\ r.kind = "delete" => r.id \in Ids
           /\ r.kind = "remove" => r.account \in Accounts
  BY SessionConstants, RequestsAreShapes DEF Creates, Updates, Deletes, Removals

(* NULL is no row and no key. *)
LEMMA NoneIsNoRow ==
    /\ None \notin AccountRows /\ None \notin [id: Ids, shape: Shapes]
    /\ None \notin Keys /\ None \notin Ids /\ None \notin Receipts
  BY SessionConstants, LedgerConstants

(* The rows a session holds, when it holds every account of a shape, are the *)
(* table as far as the operation is concerned: its checks and its effects    *)
(* come out as they would on the table itself.                               *)
LEMMA SeenIsTable ==
    ASSUME SInv, NEW p \in Sessions, NEW x \in Shapes, Involved(x) \cap Accounts \subseteq Locked(p)
    PROVE  /\ Seen(p)!Posted(x) = Posted(x)
           /\ Seen(p)!Acceptable(x) => Acceptable(x)
<1>1. \A a \in Accounts : a \in Locked(p) => rows[p][a] = accounts[a]
  BY DEF SInv, ReadsStayTrue, ReadsHold
<1>. USE DEF Seen!Tracked, Tracked, Seen!AccountExists, AccountExists, Seen!AccountRows, AccountRows,
     Seen!Cents, Cents, Seen!Involved, Involved
<1>2. Seen(p)!Posted(x) = Posted(x)
  BY <1>1 DEF Seen!Posted, Posted, Seen!Delta, Delta
<1>3. ASSUME Seen(p)!Acceptable(x) PROVE Acceptable(x)
  <2>1. ValidShape(x)
    BY <1>3 DEF Seen!Acceptable, Seen!ValidShape, ValidShape
  <2>2. Involved(x) \subseteq Accounts
    BY <2>1 DEF ValidShape, Shapes
  <2>3. \A a \in Involved(x) : a \in Accounts /\ rows[p][a] = accounts[a]
    BY <1>1, <2>2
  <2>4. ValidAccounts(x)
    BY <1>3, <2>3 DEF Seen!Acceptable, Seen!ValidAccounts, ValidAccounts
  <2>5. StatementMatches(x)
    BY <1>3 DEF Seen!Acceptable, Seen!StatementMatches, StatementMatches
  <2>6. StatementTracked(x)
    BY <1>3, <2>3 DEF Seen!Acceptable, Seen!StatementTracked, StatementTracked
  <2> QED BY <2>1, <2>4, <2>5, <2>6 DEF Acceptable
<1> QED BY <1>2, <1>3

(* ... and so does the check of each new balance against bigint. *)
LEMMA SeenInRange ==
    ASSUME SInv, NEW p \in Sessions, NEW old, NEW new,
           \A a \in Accounts : old[a] # 0 \/ new[a] # 0 => a \in Locked(p)
    PROVE  Seen(p)!InRange(old, new) => InRange(old, new)
<1>1. \A a \in Accounts : a \in Locked(p) => rows[p][a] = accounts[a]
  BY DEF SInv, ReadsStayTrue, ReadsHold
<1> QED BY <1>1 DEF Seen!InRange, InRange, Seen!Cents, Cents

-----------------------------------------------------------------------------
(* Steps of one session *)

SessionTypes ==
    /\ pc \in [Sessions -> Steps]
    /\ request \in [Sessions -> Requests \cup {None}]
    /\ claim \in [Sessions -> Keys \cup {None}]
    /\ existing \in [Sessions -> [id: Ids, shape: Shapes] \cup {None}]
    /\ booked \in [Sessions -> [Accounts -> Int]]
    /\ rows \in [Sessions -> [Accounts -> AccountRows \cup {None}]]

(* What a session holds and has read is untouched by a step of another one. *)
Untouched(q) ==
    /\ pc'[q] = pc[q] /\ request'[q] = request[q] /\ claim'[q] = claim[q]
    /\ existing'[q] = existing[q] /\ booked'[q] = booked[q] /\ rows'[q] = rows[q]

TablesAgree(q) ==
    /\ \A a \in Locked(q) : accounts'[a] = accounts[a]
    /\ existing[q] # None =>
           /\ transactions'[existing[q].id] = transactions[existing[q].id]
           /\ pc[q] = "accounts" => entries'[existing[q].id] = entries[existing[q].id]
    /\ claim[q] # None => receipts'[claim[q]] = receipts[claim[q]]

(* A session nobody touches stays where it is in its request ... *)
LEMMA UntouchedHolds ==
    ASSUME NEW q, Untouched(q), StepsHold(q)
    PROVE  StepsHold(q)' /\ Locked(q)' = Locked(q) /\ ToLock(q)' = ToLock(q)
<1>1. Locked(q)' = Locked(q) /\ ToLock(q)' = ToLock(q)
  BY DEF Untouched, Locked, ToLock
<1> QED BY <1>1 DEF Untouched, StepsHold

(* ... and what it has read stays true while the tables keep it. *)
LEMMA UntouchedReads ==
    ASSUME NEW q, Untouched(q), TablesAgree(q), ReadsHold(q)
    PROVE  ReadsHold(q)'
<1>1. Locked(q)' = Locked(q)
  BY DEF Untouched, Locked
<1> QED BY <1>1 DEF Untouched, TablesAgree, ReadsHold, Live, Shape

(* A step of one session keeps the invariant when that session keeps its part, *)
(* takes no lock that another one holds, and leaves what the others have read. *)
LEMMA SessionStep ==
    ASSUME SInv, NEW p \in Sessions, IInv', SessionTypes',
           started' \in 0 .. MaxRequests, answers' \in [Keys -> SUBSET Ids], AnswersReceipted',
           \A q \in Sessions \ {p} : Untouched(q) /\ TablesAgree(q),
           StepsHold(p)', ReadsHold(p)',
           \A q \in Sessions \ {p} :
               /\ Locked(p)' \cap Locked(q) = {}
               /\ existing'[p] # None /\ existing[q] # None => existing'[p].id # existing[q].id
               /\ claim'[p] # None => claim'[p] # claim[q],
           pc'[p] = "accounts" => \A a \in Locked(p)', b \in ToLock(p)' : Rank[a] < Rank[b]
    PROVE  SInv'
<1>1. SessionsTypeOK'
  BY DEF SessionTypes, SessionsTypeOK
<1>2. \A q \in Sessions \ {p} : /\ StepsHold(q)' /\ ReadsHold(q)'
                               /\ Locked(q)' = Locked(q) /\ ToLock(q)' = ToLock(q)
  BY UntouchedHolds, UntouchedReads DEF SInv, RequestsFollowed, ReadsStayTrue
<1>3. RequestsFollowed' /\ ReadsStayTrue'
  BY <1>2 DEF RequestsFollowed, ReadsStayTrue
<1>4. LocksExclude'
  <2>. SUFFICES ASSUME NEW q \in Sessions, NEW r \in Sessions, q # r
       PROVE  /\ Locked(q)' \cap Locked(r)' = {}
              /\ existing'[q] # None /\ existing'[r] # None => existing'[q].id # existing'[r].id
              /\ claim'[q] # None => claim'[q] # claim'[r]
    BY DEF LocksExclude
  <2>1. CASE q # p /\ r # p
    BY <2>1, <1>2 DEF SInv, LocksExclude, Untouched
  <2>2. CASE q = p
    BY <2>2, <1>2 DEF Untouched
  <2>3. CASE r = p
    BY <2>3, <1>2 DEF Untouched
  <2> QED BY <2>1, <2>2, <2>3
<1>5. LocksOrdered'
  <2>. SUFFICES ASSUME NEW q \in Sessions, pc'[q] = "accounts"
       PROVE  \A a \in Locked(q)', b \in ToLock(q)' : Rank[a] < Rank[b]
    BY DEF LocksOrdered
  <2>1. CASE q # p
    BY <2>1, <1>2 DEF SInv, LocksOrdered, Untouched
  <2> QED BY <2>1
<1> QED BY <1>1, <1>3, <1>4, <1>5 DEF SInv

(* A step that reads and locks writes nothing. *)
LEMMA ReadingStep ==
    ASSUME SInv, NEW p \in Sessions, UNCHANGED <<vars, answers>>
    PROVE  /\ IInv' /\ answers' \in [Keys -> SUBSET Ids] /\ AnswersReceipted'
           /\ \A q \in Sessions : TablesAgree(q)
<1>1. IInv'
  BY StepKeeps DEF SInv
<1>2. answers' \in [Keys -> SUBSET Ids] /\ AnswersReceipted'
  BY DEF SInv, SessionsTypeOK, AnswersReceipted, vars
<1> QED BY <1>1, <1>2 DEF vars, TablesAgree

(* The end of a request leaves its session with nothing. *)
LEMMA Released ==
    ASSUME SInv, NEW p \in Sessions, Release(p)
    PROVE  /\ SessionTypes' /\ StepsHold(p)' /\ ReadsHold(p)'
           /\ pc'[p] = "idle" /\ existing'[p] = None /\ claim'[p] = None /\ Locked(p)' = {}
           /\ \A q \in Sessions \ {p} : Untouched(q)
<1>1. /\ pc'[p] = "idle" /\ request'[p] = None /\ claim'[p] = None /\ existing'[p] = None
      /\ booked'[p] = NoEntries /\ rows'[p] = NoRows
  BY DEF Release, SInv, SessionsTypeOK
<1>2. Locked(p)' = {}
  BY <1>1 DEF Locked, NoRows
<1>3. \A q \in Sessions \ {p} : Untouched(q)
  BY DEF Release, SInv, SessionsTypeOK, Untouched
<1>4. SessionTypes'
  <2>1. NoEntries \in [Accounts -> Int] /\ NoRows \in [Accounts -> AccountRows \cup {None}]
    BY DEF NoEntries, NoRows
  <2> QED BY <2>1 DEF Release, SInv, SessionsTypeOK, SessionTypes, Steps
<1>5. StepsHold(p)' /\ ReadsHold(p)'
  BY <1>1, <1>2 DEF StepsHold, ReadsHold
<1> QED BY <1>1, <1>2, <1>3, <1>4, <1>5

(* After a release, what is left to see is that the tables changed only where *)
(* no other session has read.                                                 *)
LEMMA CommitStep ==
    ASSUME SInv, NEW p \in Sessions, Release(p), IInv', UNCHANGED started,
           answers' \in [Keys -> SUBSET Ids], AnswersReceipted',
           \A q \in Sessions \ {p} : TablesAgree(q)
    PROVE  SInv'
<1>1. started' \in 0 .. MaxRequests
  BY DEF SInv, SessionsTypeOK
<1> QED BY <1>1, Released, SessionStep

(* A failed request rolls back: nothing is written and its locks are gone. *)
LEMMA FailKeeps == ASSUME SInv, NEW p \in Sessions, Fail(p) PROVE SInv'
  BY ReadingStep, CommitStep DEF Fail

-----------------------------------------------------------------------------
(* Before the first request nobody holds anything. *)
LEMMA SessionsInitEstablishes == SessionsInit => SInv
<1>. SUFFICES ASSUME SessionsInit PROVE SInv
  OBVIOUS
<1>1. IInv
  BY InitEstablishes DEF SessionsInit
<1>2. NoEntries \in [Accounts -> Int] /\ NoRows \in [Accounts -> AccountRows \cup {None}]
  BY DEF NoEntries, NoRows
<1>3. SessionsTypeOK
  BY <1>2, SessionConstants DEF SessionsInit, SessionsTypeOK, Steps
<1>4. \A p \in Sessions : /\ pc[p] = "idle" /\ request[p] = None /\ claim[p] = None
                          /\ existing[p] = None /\ booked[p] = NoEntries /\ rows[p] = NoRows
  BY DEF SessionsInit
<1>5. \A p \in Sessions : Locked(p) = {}
  BY <1>4 DEF Locked, NoRows
<1>6. RequestsFollowed /\ ReadsStayTrue
  BY <1>4, <1>5 DEF RequestsFollowed, StepsHold, ReadsStayTrue, ReadsHold
<1>7. LocksExclude /\ LocksOrdered
  BY <1>4, <1>5 DEF LocksExclude, LocksOrdered
<1>8. AnswersReceipted
  BY DEF SessionsInit, AnswersReceipted
<1> QED BY <1>1, <1>3, <1>6, <1>7, <1>8 DEF SInv

(* A session that waits for a receipt, a row or an account waits for a step *)
(* that leaves every table alone: what remains is its own part.             *)
LEMMA ReadingKeeps ==
    ASSUME SInv, NEW p \in Sessions, UNCHANGED <<vars, answers>>,
           SessionTypes', started' \in 0 .. MaxRequests,
           \A q \in Sessions \ {p} : Untouched(q),
           StepsHold(p)', ReadsHold(p)',
           \A q \in Sessions \ {p} :
               /\ Locked(p)' \cap Locked(q) = {}
               /\ existing'[p] # None /\ existing[q] # None => existing'[p].id # existing[q].id
               /\ claim'[p] # None => claim'[p] # claim[q],
           pc'[p] = "accounts" => \A a \in Locked(p)', b \in ToLock(p)' : Rank[a] < Rank[b]
    PROVE  SInv'
  BY ReadingStep, SessionStep

(* A request starts with no lock. *)
LEMMA StartKeeps ==
    ASSUME SInv, NEW p \in Sessions, NEW r \in Requests, Start(p, r)
    PROVE  SInv'
<1>. USE DEF Start
<1>1. StepsHold(p)
  BY DEF SInv, RequestsFollowed
<1>2. /\ claim[p] = None /\ existing[p] = None /\ booked[p] = NoEntries /\ Locked(p) = {}
      /\ claim'[p] = None /\ existing'[p] = None /\ booked'[p] = NoEntries /\ Locked(p)' = {}
  BY <1>1 DEF StepsHold, Locked
<1>3. request'[p] = r /\ pc'[p] \in {"claim", "accounts", "remove", "row"}
      /\ (r.kind = "create" => pc'[p] = IF r.key = None THEN "accounts" ELSE "claim")
      /\ (r.kind = "remove" => pc'[p] = "remove")
      /\ (r.kind \in {"update", "delete"} => pc'[p] = "row")
  BY RequestKinds DEF SInv, SessionsTypeOK
<1>4. SessionTypes'
  <2>1. pc' \in [Sessions -> Steps]
    BY <1>3 DEF SInv, SessionsTypeOK, Steps
  <2>2. request' \in [Sessions -> Requests \cup {None}]
    BY DEF SInv, SessionsTypeOK
  <2> QED BY <2>1, <2>2 DEF SInv, SessionsTypeOK, SessionTypes
<1>5. started' \in 0 .. MaxRequests
  BY SessionConstants DEF SInv, SessionsTypeOK
<1>6. StepsHold(p)'
  BY <1>2, <1>3, RequestKinds DEF StepsHold
<1>7. ReadsHold(p)'
  BY <1>2 DEF ReadsHold
<1>8. \A q \in Sessions \ {p} : Untouched(q)
  BY DEF Untouched, SInv, SessionsTypeOK
<1> QED BY <1>2, <1>4, <1>5, <1>6, <1>7, <1>8, ReadingKeeps

(* A claim is of a key that no one else has claimed or completed. *)
LEMMA ClaimKeyKeeps ==
    ASSUME SInv, NEW p \in Sessions, ClaimKey(p)
    PROVE  SInv'
<1>. DEFINE k == request[p].key
<1>1. StepsHold(p)
  BY DEF SInv, RequestsFollowed
<1>2. /\ request[p] \in Requests /\ request[p].kind = "create" /\ k # None /\ k \in Keys
      /\ ValidShape(request[p].shape) /\ receipts[k] = None
  BY <1>1, RequestKinds DEF StepsHold, ClaimKey, Claimable
<1>3. /\ pc'[p] = "accounts" /\ claim'[p] = k /\ request'[p] = request[p]
      /\ existing'[p] = None /\ booked'[p] = NoEntries /\ Locked(p)' = {} /\ rows'[p] = rows[p]
  BY <1>1, <1>2 DEF ClaimKey, StepsHold, Locked, SInv, SessionsTypeOK
<1>4. SessionTypes' /\ started' \in 0 .. MaxRequests
  BY <1>2 DEF ClaimKey, SInv, SessionsTypeOK, SessionTypes, Steps
<1>5. StepsHold(p)'
  BY <1>2, <1>3 DEF StepsHold
<1>6. ReadsHold(p)'
  BY <1>2, <1>3 DEF ReadsHold, ClaimKey, vars
<1>7. \A q \in Sessions \ {p} : Untouched(q) /\ claim[q] # k
  BY DEF Untouched, SInv, SessionsTypeOK, ClaimKey, Claimants, KeyHolders
<1>8. UNCHANGED <<vars, answers>>
  BY DEF ClaimKey
<1>. HIDE DEF k
<1> QED BY <1>3, <1>4, <1>5, <1>6, <1>7, <1>8, ReadingKeeps

(* A replay answers with the transaction of the receipt. *)
LEMMA ReplayKeeps ==
    ASSUME SInv, NEW p \in Sessions, Replay(p)
    PROVE  SInv'
<1>. DEFINE k == request[p].key
            t == receipts[k].resource
<1>1. StepsHold(p)
  BY DEF SInv, RequestsFollowed
<1>2. k \in Keys /\ receipts[k] # None /\ UNCHANGED vars /\ Release(p) /\ UNCHANGED started
  BY <1>1, RequestKinds DEF StepsHold, Replay
<1>3. t \in Ids
  BY <1>2 DEF SInv, IInv, TypeOK, Receipts
<1>4. k # None
  BY <1>2, NoneIsNoRow
<1>5. answers' = answers \/ answers' = [answers EXCEPT ![k] = @ \cup {t}]
  BY <1>4 DEF Replay, Answer
<1>. HIDE DEF t, k
<1>6. answers' \in [Keys -> SUBSET Ids]
  BY <1>2, <1>3, <1>5 DEF SInv, SessionsTypeOK
<1>7. AnswersReceipted'
  <2>1. \A j \in Keys : \A u \in answers'[j] : u \in answers[j] \/ (j = k /\ u = t)
    BY <1>2, <1>5 DEF SInv, SessionsTypeOK
  <2>2. UNCHANGED receipts
    BY <1>2 DEF vars
  <2> QED BY <1>2, <2>1, <2>2 DEF SInv, AnswersReceipted, t
<1>8. IInv' /\ \A q \in Sessions : TablesAgree(q)
  <2>1. IInv'
    BY <1>2, StepKeeps DEF SInv
  <2> QED BY <1>2, <2>1 DEF vars, TablesAgree
<1> QED BY <1>2, <1>6, <1>7, <1>8, CommitStep

(* What a session has still to lock are accounts. *)
LEMMA ToLockAccounts ==
    ASSUME SInv, NEW p \in Sessions, pc[p] = "accounts"
    PROVE  ToLock(p) \subseteq Accounts
<1>1. StepsHold(p) /\ ReadsHold(p)
  BY DEF SInv, RequestsFollowed, ReadsStayTrue
<1>2. request[p] \in Requests /\ request[p].kind \in {"create", "update", "delete"}
  BY <1>1 DEF StepsHold
<1>3. \A x \in Shapes : ValidShape(x) => Involved(x) \subseteq Accounts
  BY DEF Shapes, ValidShape, Involved
<1>4. request[p].kind # "delete" => Involved(request[p].shape) \subseteq Accounts
  BY <1>1, <1>2, <1>3, RequestKinds DEF StepsHold
<1>5. request[p].kind # "create" => Involved(existing[p].shape) \subseteq Accounts
  <2>. SUFFICES ASSUME request[p].kind # "create" PROVE Involved(existing[p].shape) \subseteq Accounts
    OBVIOUS
  <2>1. existing[p] # None
    BY <1>1, <1>2 DEF StepsHold
  <2>2. existing[p] \in [id: Ids, shape: Shapes]
    BY <2>1 DEF SInv, SessionsTypeOK
  <2>3. ValidShape(existing[p].shape)
    BY <1>1, <2>1, <2>2 DEF ReadsHold, SInv, IInv, ShapesValid
  <2> QED BY <1>3, <2>2, <2>3
<1> QED BY <1>2, <1>4, <1>5 DEF ToLock

(* The row a session locks is one it may edit, as the table has it. *)
LEMMA LockRowKeeps ==
    ASSUME SInv, NEW p \in Sessions, LockRow(p)
    PROVE  SInv'
<1>. DEFINE r == request[p]
            row == [id |-> r.id, shape |-> Shape(r.id)]
<1>1. StepsHold(p)
  BY DEF SInv, RequestsFollowed
<1>2. /\ r \in Requests /\ r.kind \in {"update", "delete"} /\ r.id \in Ids
      /\ r.kind = "update" => ValidShape(r.shape)
      /\ Live(r.id) /\ transactions[r.id].owner = "user"
  BY <1>1, RequestKinds DEF StepsHold, LockRow
<1>3. row \in [id: Ids, shape: Shapes]
  BY <1>2 DEF Live, Shape, TransactionRows
<1>4. row # None /\ row.id = r.id /\ row.shape = Shape(r.id)
  BY <1>3, NoneIsNoRow
<1>5. existing' = [existing EXCEPT ![p] = row]
  BY DEF LockRow
<1>6. \A q \in Sessions \ {p} : existing[q] # None => existing[q].id # r.id
  <2>1. \A q \in Sessions : LockedRow(q) # r.id
    BY DEF LockRow, RowHolders
  <2> QED BY <2>1 DEF LockedRow
<1>. HIDE DEF row
<1>7. /\ pc'[p] = "entries" /\ existing'[p] = row /\ request'[p] = request[p]
      /\ claim[p] = None /\ claim'[p] = None /\ booked'[p] = NoEntries
      /\ rows'[p] = rows[p] /\ Locked(p) = {}
  BY <1>1, <1>2, <1>5 DEF LockRow, StepsHold, Locked, SInv, SessionsTypeOK
<1>8. Locked(p)' = {}
  BY <1>7 DEF Locked
<1>9. SessionTypes' /\ started' \in 0 .. MaxRequests
  BY <1>3, <1>5 DEF LockRow, SInv, SessionsTypeOK, SessionTypes, Steps
<1>10. UNCHANGED <<vars, answers>>
  BY DEF LockRow
<1>11. StepsHold(p)'
  BY <1>2, <1>4, <1>7, <1>8 DEF StepsHold
<1>12. ReadsHold(p)'
  BY <1>2, <1>4, <1>7, <1>8, <1>10 DEF ReadsHold, vars, Live, Shape
<1>13. \A q \in Sessions \ {p} : Untouched(q)
  BY <1>5 DEF Untouched, SInv, SessionsTypeOK, LockRow
<1>. HIDE DEF r
<1> QED BY <1>4, <1>6, <1>7, <1>8, <1>9, <1>10, <1>11, <1>12, <1>13, ReadingKeeps DEF r

(* The entries a session reads under the lock of their row stay what they are. *)
LEMMA ReadEntriesKeeps ==
    ASSUME SInv, NEW p \in Sessions, ReadEntries(p)
    PROVE  SInv'
<1>. DEFINE read == entries[existing[p].id]
<1>1. StepsHold(p) /\ ReadsHold(p)
  BY DEF SInv, RequestsFollowed, ReadsStayTrue
<1>2. /\ request[p] \in Requests /\ request[p].kind \in {"update", "delete"} /\ existing[p] # None
      /\ claim[p] = None /\ Locked(p) = {}
  BY <1>1 DEF ReadEntries, StepsHold
<1>3. existing[p].id \in Ids
  BY <1>2 DEF SInv, SessionsTypeOK
<1>4. read \in [Accounts -> Int]
  BY <1>3 DEF SInv, IInv, TypeOK
<1>5. booked' = [booked EXCEPT ![p] = read]
  BY DEF ReadEntries
<1>. HIDE DEF read
<1>6. SessionTypes' /\ started' \in 0 .. MaxRequests
  BY <1>4, <1>5 DEF ReadEntries, SInv, SessionsTypeOK, SessionTypes, Steps
<1>7. /\ pc'[p] = "accounts" /\ booked'[p] = read /\ UNCHANGED <<vars, answers>>
      /\ UNCHANGED <<request, claim, existing, rows>>
  BY <1>5 DEF ReadEntries, SInv, SessionsTypeOK
<1>8. Locked(p)' = {} /\ \A q \in Sessions : Locked(q)' = Locked(q)
  BY <1>2, <1>7 DEF Locked
<1>9. StepsHold(p)'
  BY <1>1, <1>2, <1>7, <1>8 DEF StepsHold, ReadEntries
<1>10. ReadsHold(p)'
  BY <1>1, <1>2, <1>7, <1>8 DEF ReadsHold, Live, Shape, vars, read
<1>11. \A q \in Sessions \ {p} : Untouched(q)
  BY <1>5, <1>7 DEF Untouched, SInv, SessionsTypeOK, ReadEntries
<1>12. \A q \in Sessions \ {p} : existing[q] # None => existing[p].id # existing[q].id
  BY <1>2 DEF SInv, LocksExclude
<1> QED BY <1>2, <1>6, <1>7, <1>8, <1>9, <1>10, <1>11, <1>12, ReadingKeeps

(* The next account a session locks is above those it holds and below those it *)
(* has still to lock.                                                          *)
LEMMA LockAccountKeeps ==
    ASSUME SInv, NEW p \in Sessions, NEW c \in Accounts, LockAccount(p, c)
    PROVE  SInv'
<1>1. StepsHold(p) /\ ReadsHold(p)
  BY DEF SInv, RequestsFollowed, ReadsStayTrue
<1>2. accounts[c] \in AccountRows /\ accounts[c] # None
  BY NoneIsNoRow DEF LockAccount, Found, AccountExists
<1>3. /\ rows' = [rows EXCEPT ![p][c] = accounts[c]] /\ UNCHANGED <<vars, answers>>
      /\ UNCHANGED <<pc, request, claim, existing, booked, started>>
      /\ pc[p] = "accounts"
  BY DEF LockAccount
<1>4. rows \in [Sessions -> [Accounts -> AccountRows \cup {None}]]
  BY DEF SInv, SessionsTypeOK
<1>5. /\ rows'[p][c] = accounts[c]
      /\ \A b \in Accounts : b # c => rows'[p][b] = rows[p][b]
      /\ \A q \in Sessions : q # p => rows'[q] = rows[q]
  BY <1>3, <1>4
<1>6. Locked(p)' = Locked(p) \cup {c}
  BY <1>2, <1>5 DEF Locked
<1>7. ToLock(p)' = ToLock(p) \ {c}
  BY <1>3, <1>6 DEF ToLock
<1>8. SessionTypes' /\ started' \in 0 .. MaxRequests
  BY <1>2, <1>3, <1>4 DEF SInv, SessionsTypeOK, SessionTypes
<1>9. StepsHold(p)'
  BY <1>1, <1>3, <1>6 DEF StepsHold
<1>10. ReadsHold(p)'
  BY <1>1, <1>3, <1>5, <1>6 DEF ReadsHold, vars, Live, Shape, Locked
<1>11. \A q \in Sessions \ {p} : Untouched(q)
  BY <1>3, <1>5 DEF Untouched
<1>12. \A q \in Sessions \ {p} : c \notin Locked(q)
  BY DEF LockAccount, AccountHolders
<1>13. \A q \in Sessions \ {p} :
           /\ Locked(p)' \cap Locked(q) = {}
           /\ existing'[p] # None /\ existing[q] # None => existing'[p].id # existing[q].id
           /\ claim'[p] # None => claim'[p] # claim[q]
  BY <1>3, <1>6, <1>12 DEF SInv, LocksExclude
<1>14. \A d \in Locked(p)', b \in ToLock(p)' : Rank[d] < Rank[b]
  <2>. SUFFICES ASSUME NEW d \in Locked(p)', NEW b \in ToLock(p)' PROVE Rank[d] < Rank[b]
    OBVIOUS
  <2>1. b \in Accounts /\ b \in ToLock(p) /\ b # c /\ Rank[b] \in Nat /\ Rank[c] \in Nat
    BY <1>3, <1>7, ToLockAccounts, SessionConstants
  <2>2. CASE d = c
    BY <2>1, <2>2, SessionConstants DEF LockAccount, First
  <2>3. CASE d \in Locked(p)
    BY <1>3, <2>1, <2>3 DEF SInv, LocksOrdered
  <2> QED BY <1>6, <2>2, <2>3
<1>15. UNCHANGED <<vars, answers>>
  BY <1>3
<1> QED BY <1>8, <1>9, <1>10, <1>11, <1>13, <1>14, <1>15, ReadingKeeps

(* The removal of an account locks it first. *)
LEMMA LockRemovedKeeps ==
    ASSUME SInv, NEW p \in Sessions, LockRemoved(p)
    PROVE  SInv'
<1>. DEFINE a == request[p].account
<1>1. StepsHold(p) /\ ReadsHold(p)
  BY DEF SInv, RequestsFollowed, ReadsStayTrue
<1>2. /\ pc[p] = "remove" /\ request[p] \in Requests /\ request[p].kind = "remove" /\ a \in Accounts
      /\ claim[p] = None /\ existing[p] = None /\ booked[p] = NoEntries /\ Locked(p) = {}
  BY <1>1, RequestKinds DEF StepsHold, LockRemoved
<1>3. accounts[a] \in AccountRows /\ accounts[a] # None
  BY NoneIsNoRow DEF LockRemoved, AccountExists
<1>4. /\ rows' = [rows EXCEPT ![p][a] = accounts[a]] /\ UNCHANGED <<vars, answers>>
      /\ UNCHANGED <<request, claim, existing, booked, started>>
      /\ pc' = [pc EXCEPT ![p] = "references"]
  BY DEF LockRemoved
<1>5. \A q \in Sessions : a \notin Locked(q)
  BY DEF LockRemoved, AccountHolders
<1>. HIDE DEF a
<1>6. rows \in [Sessions -> [Accounts -> AccountRows \cup {None}]] /\ pc \in [Sessions -> Steps]
  BY DEF SInv, SessionsTypeOK
<1>7. /\ rows'[p][a] = accounts[a]
      /\ \A b \in Accounts : b # a => rows'[p][b] = rows[p][b]
      /\ \A q \in Sessions : q # p => rows'[q] = rows[q] /\ pc'[q] = pc[q]
      /\ pc'[p] = "references"
  BY <1>2, <1>4, <1>6
<1>8. Locked(p)' = {a}
  BY <1>2, <1>3, <1>7 DEF Locked
<1>9. SessionTypes' /\ started' \in 0 .. MaxRequests
  BY <1>2, <1>3, <1>4, <1>6 DEF SInv, SessionsTypeOK, SessionTypes, Steps
<1>10. StepsHold(p)'
  BY <1>2, <1>4, <1>7, <1>8 DEF StepsHold, a
<1>11. ReadsHold(p)'
  BY <1>2, <1>4, <1>7, <1>8 DEF ReadsHold, vars
<1>12. \A q \in Sessions \ {p} : Untouched(q)
  BY <1>4, <1>7 DEF Untouched
<1> QED BY <1>2, <1>4, <1>5, <1>7, <1>8, <1>9, <1>10, <1>11, <1>12, ReadingKeeps

-----------------------------------------------------------------------------
(* What a session commits is one operation of Ledger *)

(* With every lock it needs, a create has its shape's accounts, ... *)
LEMMA ReadyToCreate ==
    ASSUME SInv, NEW p \in Sessions, Ready(p, "create")
    PROVE  LET r == request[p]
           IN  /\ r \in Requests /\ r.kind = "create" /\ r.key \in Keys \cup {None}
               /\ r.shape \in RequestShapes /\ r.shape \in Shapes
               /\ Involved(r.shape) \subseteq Locked(p)
               /\ booked[p] = NoEntries /\ claim[p] = r.key /\ Claimable(r.key)
<1>1. StepsHold(p) /\ ReadsHold(p)
  BY DEF SInv, RequestsFollowed, ReadsStayTrue
<1>2. request[p] \in Requests /\ request[p].kind = "create"
  BY <1>1 DEF Ready, StepsHold
<1>3. Involved(request[p].shape) \subseteq Locked(p)
  BY <1>2 DEF Ready, ToLock
<1>4. booked[p] = NoEntries /\ claim[p] = request[p].key
  BY <1>1, <1>2 DEF Ready, StepsHold
<1>5. Claimable(request[p].key)
  BY <1>1, <1>4 DEF ReadsHold, Claimable
<1> QED BY <1>2, <1>3, <1>4, <1>5, RequestKinds

(* ... and an edit has those of the entries of its row, as the table has them. *)
LEMMA ReadyToEdit ==
    ASSUME SInv, NEW p \in Sessions, NEW kind \in {"update", "delete"}, Ready(p, kind)
    PROVE  LET r == request[p]
               t == existing[p].id
           IN  /\ r \in Requests /\ r.kind = kind
               /\ kind = "update" => /\ r.shape \in RequestShapes /\ r.shape \in Shapes
                                     /\ Involved(r.shape) \subseteq Locked(p)
               /\ existing[p] # None /\ t \in Ids
               /\ Live(t) /\ transactions[t].owner = "user"
               /\ booked[p] = entries[t] /\ booked[p] \in [Accounts -> Int]
               /\ \A a \in Accounts : booked[p][a] # 0 => a \in Locked(p)
               /\ claim[p] = None
<1>1. StepsHold(p) /\ ReadsHold(p)
  BY DEF SInv, RequestsFollowed, ReadsStayTrue
<1>2. request[p] \in Requests /\ request[p].kind = kind /\ pc[p] = "accounts"
  BY <1>1 DEF Ready, StepsHold
<1>3. existing[p] # None /\ claim[p] = None
  BY <1>1, <1>2 DEF StepsHold
<1>4. existing[p].id \in Ids
  BY <1>3 DEF SInv, SessionsTypeOK
<1>5. /\ Live(existing[p].id) /\ transactions[existing[p].id].owner = "user"
      /\ booked[p] = entries[existing[p].id]
  BY <1>1, <1>2, <1>3 DEF ReadsHold
<1>6. kind = "update" => Involved(request[p].shape) \subseteq Locked(p)
  BY <1>2 DEF Ready, ToLock
<1>7. \A a \in Accounts : booked[p][a] # 0 => a \in Locked(p)
  BY DEF Ready, ToLock
<1>8. booked[p] \in [Accounts -> Int]
  BY DEF SInv, SessionsTypeOK
<1> QED BY <1>2, <1>3, <1>4, <1>5, <1>6, <1>7, <1>8, RequestKinds

(* Posting a shape whose accounts are locked moves locked accounts only. *)
LEMMA PostedIsLocked ==
    ASSUME NEW p \in Sessions, NEW x \in Shapes, Involved(x) \subseteq Locked(p)
    PROVE  \A a \in Accounts : Posted(x)[a] # 0 => a \in Locked(p)
  BY PostedEntries

(* The commit of a create inserts the row on the state it finds. *)
LEMMA CommitCreateImplements ==
    ASSUME SInv, NEW p \in Sessions, NEW t \in Ids, CommitCreate(p, t)
    PROVE  CreateTransaction(t, request[p].key, request[p].shape)
<1>. DEFINE k == request[p].key
            x == request[p].shape
<1>1. Ready(p, "create")
  BY DEF CommitCreate
<1>2. /\ k \in Keys \cup {None} /\ x \in RequestShapes /\ x \in Shapes
      /\ Involved(x) \subseteq Locked(p) /\ booked[p] = NoEntries /\ Claimable(k)
  BY <1>1, ReadyToCreate
<1>3. Seen(p)!Posted(x) = Posted(x) /\ Acceptable(x)
  BY <1>2, SeenIsTable DEF CommitCreate, Passes
<1>4. Seen(p)!InRange(NoEntries, Posted(x))
  BY <1>2, <1>3 DEF CommitCreate, Passes
<1>5. \A a \in Accounts : NoEntries[a] # 0 \/ Posted(x)[a] # 0 => a \in Locked(p)
  BY <1>2, PostedIsLocked DEF NoEntries
<1>6. InRange(NoEntries, Posted(x))
  <2>. DEFINE posted == Posted(x)
  <2>1. Seen(p)!InRange(NoEntries, posted)
    BY <1>4
  <2>2. \A a \in Accounts : NoEntries[a] # 0 \/ posted[a] # 0 => a \in Locked(p)
    BY <1>5
  <2>. HIDE DEF posted
  <2>3. InRange(NoEntries, posted)
    BY <2>1, <2>2, SeenInRange
  <2> QED BY <2>3 DEF posted
<1> QED BY <1>2, <1>3, <1>6 DEF CommitCreate, CreateTransaction

(* The commit of a create that adopts an older row under its key adopts it. *)
LEMMA CommitAdoptedImplements ==
    ASSUME SInv, NEW p \in Sessions, NEW t \in Ids, CommitAdopted(p, t)
    PROVE  /\ request[p].key \in Keys
           /\ AdoptKeyedTransaction(t, request[p].key, request[p].shape)
<1>1. Ready(p, "create")
  BY DEF CommitAdopted
<1>2. request[p].key \in Keys
  BY <1>1, ReadyToCreate DEF CommitAdopted, KeyTaken
<1>3. Acceptable(request[p].shape)
  BY <1>1, ReadyToCreate, SeenIsTable DEF CommitAdopted
<1> QED BY <1>1, <1>2, <1>3, ReadyToCreate DEF CommitAdopted, AdoptKeyedTransaction

(* The commit of an update reverses and posts on the state it finds. *)
LEMMA CommitUpdateImplements ==
    ASSUME SInv, NEW p \in Sessions, CommitUpdate(p)
    PROVE  UpdateTransaction(existing[p].id, request[p].shape)
<1>. DEFINE t == existing[p].id
            x == request[p].shape
<1>1. Ready(p, "update")
  BY DEF CommitUpdate
<1>2. /\ x \in Shapes /\ Involved(x) \subseteq Locked(p)
      /\ Live(t) /\ transactions[t].owner = "user" /\ booked[p] = entries[t]
      /\ \A a \in Accounts : booked[p][a] # 0 => a \in Locked(p)
  BY <1>1, ReadyToEdit
<1>3. Seen(p)!Posted(x) = Posted(x) /\ Acceptable(x)
  BY <1>2, SeenIsTable DEF CommitUpdate, Passes
<1>4. InRange(entries[t], Posted(x))
  <2>. DEFINE posted == Posted(x)
              old == booked[p]
  <2>1. Seen(p)!InRange(old, posted)
    BY <1>3 DEF CommitUpdate, Passes
  <2>2. \A a \in Accounts : old[a] # 0 \/ posted[a] # 0 => a \in Locked(p)
    BY <1>2, PostedIsLocked
  <2>. HIDE DEF posted, old
  <2>3. InRange(old, posted)
    BY <2>1, <2>2, SeenInRange
  <2> QED BY <2>3, <1>2 DEF posted, old
<1> QED BY <1>2, <1>3, <1>4 DEF CommitUpdate, UpdateTransaction

(* The commit of a delete reverses on the state it finds. *)
LEMMA CommitDeleteImplements ==
    ASSUME SInv, NEW p \in Sessions, CommitDelete(p)
    PROVE  DeleteTransaction(existing[p].id)
<1>. DEFINE t == existing[p].id
            old == booked[p]
<1>1. Ready(p, "delete")
  BY DEF CommitDelete
<1>2. /\ Live(t) /\ transactions[t].owner = "user" /\ old = entries[t]
      /\ \A a \in Accounts : old[a] # 0 => a \in Locked(p)
  BY <1>1, ReadyToEdit
<1>3. \A a \in Accounts : old[a] # 0 \/ NoEntries[a] # 0 => a \in Locked(p)
  BY <1>2 DEF NoEntries
<1>4. Seen(p)!InRange(old, NoEntries)
  BY DEF CommitDelete
<1>. HIDE DEF old
<1>5. InRange(old, NoEntries)
  BY <1>3, <1>4, SeenInRange
<1> QED BY <1>2, <1>5 DEF CommitDelete, DeleteTransaction, old

-----------------------------------------------------------------------------
(* What a session commits is nothing another one has read *)

(* Balances move on accounts the session holds, so no other one has read them. *)
LEMMA BalancesElsewhere ==
    ASSUME SInv, NEW p \in Sessions, NEW old, NEW new,
           \A a \in Accounts : old[a] # 0 \/ new[a] # 0 => a \in Locked(p),
           accounts' = Replace(old, new), NEW q \in Sessions \ {p}
    PROVE  \A a \in Locked(q) : accounts'[a] = accounts[a]
<1>1. \A a \in Locked(q) : a \in Accounts /\ a \notin Locked(p)
  BY DEF SInv, LocksExclude, Locked
<1>2. \A a \in Locked(q) : old[a] = 0 /\ new[a] = 0
  BY <1>1
<1> QED BY <1>1, <1>2 DEF Replace

(* The first answer under a key is the one its receipt names. *)
LEMMA CompletedAnswers ==
    ASSUME SInv, NEW k \in Keys \cup {None}, NEW x \in Shapes, NEW t \in Ids,
           Claimable(k), receipts' = Completed(k, x, t), Answer(k, t)
    PROVE  answers' \in [Keys -> SUBSET Ids] /\ AnswersReceipted'
<1>1. receipts \in [Keys -> Receipts \cup {None}] /\ answers \in [Keys -> SUBSET Ids]
  BY DEF SInv, IInv, TypeOK, SessionsTypeOK
<1>2. CASE k = None
  BY <1>1, <1>2 DEF Completed, Answer, SInv, AnswersReceipted
<1>3. CASE k # None
  <2>. DEFINE r == [request |-> x, resource |-> t]
  <2>1. r \in Receipts /\ r # None /\ r.resource = t
    BY NoneIsNoRow DEF Receipts
  <2>. HIDE DEF r
  <2>2. k \in Keys /\ receipts' = [receipts EXCEPT ![k] = r]
    BY <1>3 DEF Completed, r
  <2>3. answers' = [answers EXCEPT ![k] = @ \cup {t}] /\ answers[k] = {}
    BY <1>3, <2>2 DEF Answer, Claimable, SInv, AnswersReceipted
  <2>4. answers' \in [Keys -> SUBSET Ids]
    BY <1>1, <2>3
  <2>5. ASSUME NEW j \in Keys, NEW u \in answers'[j]
        PROVE  receipts'[j] # None /\ receipts'[j].resource = u
    <3>1. CASE j = k
      BY <1>1, <2>1, <2>2, <2>3, <2>5, <3>1
    <3>2. CASE j # k
      <4>1. answers'[j] = answers[j] /\ receipts'[j] = receipts[j]
        BY <1>1, <2>2, <2>3, <3>2
      <4> QED BY <2>5, <4>1 DEF SInv, AnswersReceipted
    <3> QED BY <3>1, <3>2
  <2> QED BY <2>4, <2>5 DEF AnswersReceipted
<1> QED BY <1>2, <1>3

(* The commit of a create writes a fresh row, locked accounts and its receipt. *)
LEMMA CommitCreateKeeps ==
    ASSUME SInv, NEW p \in Sessions, NEW t \in Ids, CommitCreate(p, t)
    PROVE  SInv' /\ Next
<1>. DEFINE k == request[p].key
            x == request[p].shape
<1>1. Ready(p, "create")
  BY DEF CommitCreate
<1>2. /\ k \in Keys \cup {None} /\ x \in RequestShapes /\ x \in Shapes
      /\ Involved(x) \subseteq Locked(p) /\ claim[p] = k /\ Claimable(k)
  BY <1>1, ReadyToCreate
<1>3. CreateTransaction(t, k, x)
  BY CommitCreateImplements
<1>4. Release(p) /\ UNCHANGED started /\ Answer(k, t)
  BY DEF CommitCreate
<1>. HIDE DEF k, x
<1>5. Next
  BY <1>2, <1>3 DEF Next, TransactionStep
<1>6. IInv'
  BY <1>5, StepKeeps DEF SInv
<1>7. receipts' = Completed(k, x, t) /\ accounts' = Replace(NoEntries, Posted(x))
  BY <1>3 DEF CreateTransaction
<1>8. answers' \in [Keys -> SUBSET Ids] /\ AnswersReceipted'
  BY <1>2, <1>4, <1>7, CompletedAnswers
<1>9. ASSUME NEW q \in Sessions \ {p} PROVE TablesAgree(q)
  <2>1. \A a \in Locked(q) : accounts'[a] = accounts[a]
    <3>. DEFINE posted == Posted(x)
    <3>1. \A a \in Accounts : NoEntries[a] # 0 \/ posted[a] # 0 => a \in Locked(p)
      BY <1>2, PostedIsLocked DEF NoEntries
    <3>2. accounts' = Replace(NoEntries, posted)
      BY <1>7
    <3>. HIDE DEF posted
    <3> QED BY <3>1, <3>2, BalancesElsewhere
  <2>2. ASSUME existing[q] # None
        PROVE  /\ transactions'[existing[q].id] = transactions[existing[q].id]
               /\ entries'[existing[q].id] = entries[existing[q].id]
    <3>1. existing[q].id \in Ids /\ Live(existing[q].id)
      BY <2>2 DEF SInv, SessionsTypeOK, ReadsStayTrue, ReadsHold
    <3>2. existing[q].id # t
      BY <1>3, <3>1, LiveRow DEF CreateTransaction, SInv, IInv
    <3> QED BY <1>3, <3>1, <3>2 DEF CreateTransaction, SInv, IInv, TypeOK
  <2>3. ASSUME claim[q] # None PROVE receipts'[claim[q]] = receipts[claim[q]]
    <3>1. claim[q] # k /\ claim[q] \in Keys
      BY <1>2, <2>3 DEF SInv, LocksExclude, SessionsTypeOK
    <3> QED BY <1>7, <3>1 DEF Completed, SInv, IInv, TypeOK
  <2> QED BY <2>1, <2>2, <2>3 DEF TablesAgree
<1> QED BY <1>4, <1>5, <1>6, <1>8, <1>9, CommitStep

(* The commit of a create that adopts a row writes its receipt only. *)
LEMMA CommitAdoptedKeeps ==
    ASSUME SInv, NEW p \in Sessions, NEW t \in Ids, CommitAdopted(p, t)
    PROVE  SInv' /\ Next
<1>. DEFINE k == request[p].key
            x == request[p].shape
<1>1. Ready(p, "create")
  BY DEF CommitAdopted
<1>2. /\ x \in RequestShapes /\ x \in Shapes /\ claim[p] = k /\ Claimable(k)
  BY <1>1, ReadyToCreate
<1>3. k \in Keys /\ AdoptKeyedTransaction(t, k, x)
  BY CommitAdoptedImplements
<1>4. Release(p) /\ UNCHANGED started /\ Answer(k, t)
  BY DEF CommitAdopted
<1>. HIDE DEF k, x
<1>5. Next
  BY <1>2, <1>3 DEF Next, TransactionStep
<1>6. IInv'
  BY <1>5, StepKeeps DEF SInv
<1>7. receipts' = Completed(k, x, t) /\ UNCHANGED <<accounts, transactions, entries>>
  BY <1>3 DEF AdoptKeyedTransaction
<1>8. answers' \in [Keys -> SUBSET Ids] /\ AnswersReceipted'
  BY <1>2, <1>3, <1>4, <1>7, CompletedAnswers
<1>9. ASSUME NEW q \in Sessions \ {p} PROVE TablesAgree(q)
  <2>1. ASSUME claim[q] # None PROVE receipts'[claim[q]] = receipts[claim[q]]
    <3>1. claim[q] # k /\ claim[q] \in Keys
      BY <1>2, <2>1 DEF SInv, LocksExclude, SessionsTypeOK
    <3> QED BY <1>7, <3>1 DEF Completed, SInv, IInv, TypeOK
  <2> QED BY <1>7, <2>1 DEF TablesAgree
<1> QED BY <1>4, <1>5, <1>6, <1>8, <1>9, CommitStep

(* An edit of a row writes that row, its entries and accounts the session holds. *)
LEMMA EditElsewhere ==
    ASSUME SInv, NEW p \in Sessions, NEW kind \in {"update", "delete"}, Ready(p, kind),
           NEW row, NEW new,
           \A a \in Accounts : new[a] # 0 => a \in Locked(p),
           transactions' = [transactions EXCEPT ![existing[p].id] = row],
           entries' = [entries EXCEPT ![existing[p].id] = new],
           accounts' = Replace(booked[p], new),
           UNCHANGED receipts, NEW q \in Sessions \ {p}
    PROVE  TablesAgree(q)
<1>. DEFINE old == booked[p]
            t == existing[p].id
<1>1. /\ existing[p] # None /\ t \in Ids
      /\ \A a \in Accounts : old[a] # 0 => a \in Locked(p)
  BY ReadyToEdit
<1>2. \A a \in Accounts : old[a] # 0 \/ new[a] # 0 => a \in Locked(p)
  BY <1>1
<1>3. accounts' = Replace(old, new)
  OBVIOUS
<1>. HIDE DEF old
<1>4. \A a \in Locked(q) : accounts'[a] = accounts[a]
  BY <1>2, <1>3, BalancesElsewhere
<1>5. ASSUME existing[q] # None
      PROVE  /\ transactions'[existing[q].id] = transactions[existing[q].id]
             /\ entries'[existing[q].id] = entries[existing[q].id]
  <2>1. existing[q].id \in Ids /\ existing[q].id # t
    BY <1>1, <1>5 DEF SInv, SessionsTypeOK, LocksExclude
  <2> QED BY <2>1 DEF SInv, IInv, TypeOK
<1> QED BY <1>4, <1>5 DEF TablesAgree

(* The commit of an update keeps to it, ... *)
LEMMA CommitUpdateKeeps ==
    ASSUME SInv, NEW p \in Sessions, CommitUpdate(p)
    PROVE  SInv' /\ Next
<1>. DEFINE t == existing[p].id
            x == request[p].shape
            row == [transactions[t] EXCEPT !.shape = x]
            new == Posted(x)
<1>1. Ready(p, "update")
  BY DEF CommitUpdate
<1>2. x \in RequestShapes /\ x \in Shapes /\ Involved(x) \subseteq Locked(p) /\ t \in Ids
  BY <1>1, ReadyToEdit
<1>3. UpdateTransaction(t, x)
  BY CommitUpdateImplements
<1>4. Next
  BY <1>2, <1>3 DEF Next, TransactionStep
<1>5. IInv'
  BY <1>4, StepKeeps DEF SInv
<1>6. Seen(p)!Posted(x) = new
  BY <1>2, SeenIsTable
<1>7. /\ transactions' = [transactions EXCEPT ![t] = row]
      /\ entries' = [entries EXCEPT ![t] = new]
      /\ accounts' = Replace(booked[p], new)
      /\ UNCHANGED <<receipts, started, answers>> /\ Release(p)
  BY <1>6 DEF CommitUpdate
<1>8. \A a \in Accounts : new[a] # 0 => a \in Locked(p)
  BY <1>2, PostedIsLocked
<1>. HIDE DEF row, new
<1>9. \A q \in Sessions \ {p} : TablesAgree(q)
  BY <1>1, <1>7, <1>8, EditElsewhere
<1>10. answers' \in [Keys -> SUBSET Ids] /\ AnswersReceipted'
  BY <1>7 DEF SInv, SessionsTypeOK, AnswersReceipted
<1> QED BY <1>4, <1>5, <1>7, <1>9, <1>10, CommitStep

(* ... and so does the commit of a delete. *)
LEMMA CommitDeleteKeeps ==
    ASSUME SInv, NEW p \in Sessions, CommitDelete(p)
    PROVE  SInv' /\ Next
<1>. DEFINE t == existing[p].id
<1>1. Ready(p, "delete")
  BY DEF CommitDelete
<1>2. t \in Ids
  BY <1>1, ReadyToEdit
<1>3. DeleteTransaction(t)
  BY CommitDeleteImplements
<1>4. Next
  BY <1>2, <1>3 DEF Next, TransactionStep
<1>5. IInv'
  BY <1>4, StepKeeps DEF SInv
<1>6. /\ transactions' = [transactions EXCEPT ![t] = Deleted]
      /\ entries' = [entries EXCEPT ![t] = NoEntries]
      /\ accounts' = Replace(booked[p], NoEntries)
      /\ UNCHANGED <<receipts, started, answers>> /\ Release(p)
  BY DEF CommitDelete
<1>7. \A a \in Accounts : NoEntries[a] # 0 => a \in Locked(p)
  BY DEF NoEntries
<1>8. \A q \in Sessions \ {p} : TablesAgree(q)
  BY <1>1, <1>6, <1>7, EditElsewhere
<1>9. answers' \in [Keys -> SUBSET Ids] /\ AnswersReceipted'
  BY <1>6 DEF SInv, SessionsTypeOK, AnswersReceipted
<1> QED BY <1>4, <1>5, <1>6, <1>8, <1>9, CommitStep

(* The removal of an account that nothing refers to cascades to no row that    *)
(* another session holds: a payment linked to one of its statements refers to it. *)
LEMMA CommitRemovalKeeps ==
    ASSUME SInv, NEW p \in Sessions, CommitRemoval(p)
    PROVE  SInv' /\ Next
<1>. DEFINE a == request[p].account
<1>1. StepsHold(p)
  BY DEF SInv, RequestsFollowed
<1>2. a \in Accounts /\ a \in Locked(p)
  BY <1>1, RequestKinds DEF StepsHold, CommitRemoval
<1>3. DeleteAccount(a) /\ Release(p) /\ UNCHANGED <<started, answers>>
  BY DEF CommitRemoval
<1>. HIDE DEF a
<1>4. Next
  BY <1>2, <1>3 DEF Next, AccountStep
<1>5. IInv'
  BY <1>4, StepKeeps DEF SInv
<1>6. answers' \in [Keys -> SUBSET Ids] /\ AnswersReceipted'
  BY <1>3 DEF DeleteAccount, SInv, SessionsTypeOK, AnswersReceipted
<1>7. ASSUME NEW q \in Sessions \ {p} PROVE TablesAgree(q)
  <2>1. \A b \in Locked(q) : accounts'[b] = accounts[b]
    <3>1. \A b \in Locked(q) : b \in Accounts /\ b # a
      BY <1>2 DEF SInv, LocksExclude, Locked
    <3> QED BY <1>3, <3>1 DEF DeleteAccount, SInv, IInv, TypeOK
  <2>2. ASSUME existing[q] # None
        PROVE  /\ transactions'[existing[q].id] = transactions[existing[q].id]
               /\ entries'[existing[q].id] = entries[existing[q].id]
    <3>. DEFINE t == existing[q].id
    <3>1. t \in Ids /\ Live(t)
      BY <2>2 DEF SInv, SessionsTypeOK, ReadsStayTrue, ReadsHold
    <3>2. a \notin Involved(Shape(t))
      BY <1>3, <3>1 DEF DeleteAccount, Unreferenced
    <3>3. entries[t] \in [Accounts -> Int] /\ entries[t][a] = 0
      BY <1>2, <3>1, <3>2 DEF SInv, IInv, TypeOK, EntriesFollowTransactions
    <3>4. Shape(t).statement # None => statements[Shape(t).statement] # a
      BY <3>1, <3>2 DEF SInv, IInv, StatementPaymentsBacked, ShapesValid, ValidShape, Involved
    <3>5. transactions'[t] = transactions[t]
      BY <1>3, <3>1, <3>4 DEF DeleteAccount
    <3>6. entries'[t] = entries[t]
      BY <1>3, <3>1, <3>3 DEF DeleteAccount
    <3> QED BY <3>5, <3>6
  <2>3. UNCHANGED receipts
    BY <1>3 DEF DeleteAccount
  <2> QED BY <2>1, <2>2, <2>3 DEF TablesAgree
<1> QED BY <1>3, <1>4, <1>5, <1>6, <1>7, CommitStep

(* An operation on a single row that nobody holds changes nothing anyone read. *)
LEMMA SingleRowKeeps ==
    ASSUME SInv, SingleRowStep
    PROVE  SInv' /\ Next
<1>1. UNCHANGED <<sessionVars, started, answers>>
  BY Zenon DEF SingleRowStep
<1>2. Next /\ UNCHANGED receipts
  <2>1. \/ \E a \in Accounts :
              \/ \E c \in Currencies, v \in Counts, l \in Limits \cup {None} :
                     CreateAccount(a, c, v, l)
              \/ \E v \in Counts : EnableBalanceTracking(a, v) \/ ReconcileBalance(a, v)
              \/ \E q \in Patches : UpdateAccount(a, q)
              \/ \E s \in Statements : ConfirmStatement(s, a)
        \/ \E t \in Ids : UnlinkStatement(t)
    BY Zenon DEF SingleRowStep
  <2>2. Next
    BY <2>1 DEF Next, AccountStep, TransactionStep
  <2>3. UNCHANGED receipts
    BY <2>1 DEF CreateAccount, EnableBalanceTracking, ReconcileBalance, UpdateAccount,
       ConfirmStatement, UnlinkStatement
  <2> QED BY <2>2, <2>3
<1>3. IInv'
  BY <1>2, StepKeeps DEF SInv
<1>4. ASSUME NEW q \in Sessions PROVE TablesAgree(q)
  <2>1. CASE \E a \in Accounts :
               /\ AccountHolders(a) = {}
               /\ \E row : accounts' = [accounts EXCEPT ![a] = row] \/ accounts' = accounts
               /\ UNCHANGED <<transactions, entries>>
    <3>1. PICK a \in Accounts : /\ a \notin Locked(q)
                                /\ \E row : accounts' = [accounts EXCEPT ![a] = row]
                                            \/ accounts' = accounts
                                /\ UNCHANGED <<transactions, entries>>
      BY <2>1 DEF AccountHolders
    <3>2. \A b \in Locked(q) : accounts'[b] = accounts[b]
      <4>1. \A b \in Locked(q) : b \in Accounts /\ b # a
        BY <3>1 DEF Locked
      <4> QED BY <3>1, <4>1 DEF SInv, IInv, TypeOK
    <3> QED BY <1>2, <3>1, <3>2 DEF TablesAgree
  <2>2. CASE \E t \in Ids : RowHolders(t) = {} /\ UnlinkStatement(t)
    <3>1. PICK t \in Ids : RowHolders(t) = {} /\ UnlinkStatement(t)
      BY <2>2
    <3>2. existing[q] # None => existing[q].id \in Ids /\ existing[q].id # t
      BY <3>1 DEF RowHolders, LockedRow, SInv, SessionsTypeOK
    <3>3. existing[q] # None => transactions'[existing[q].id] = transactions[existing[q].id]
      BY <3>1, <3>2 DEF UnlinkStatement, SInv, IInv, TypeOK
    <3> QED BY <3>1, <3>3 DEF TablesAgree, UnlinkStatement
  <2>3. ASSUME NEW a \in Accounts, AccountHolders(a) = {},
               \/ \E c \in Currencies, v \in Counts, l \in Limits \cup {None} :
                      CreateAccount(a, c, v, l)
               \/ \E v \in Counts : EnableBalanceTracking(a, v) \/ ReconcileBalance(a, v)
               \/ \E r \in Patches : UpdateAccount(a, r)
               \/ \E s \in Statements : ConfirmStatement(s, a)
        PROVE  /\ \E row : accounts' = [accounts EXCEPT ![a] = row] \/ accounts' = accounts
               /\ UNCHANGED <<transactions, entries>>
    <3>1. CASE \E c \in Currencies, v \in Counts, l \in Limits \cup {None} :
                   CreateAccount(a, c, v, l)
      BY <3>1 DEF CreateAccount
    <3>2. CASE \E v \in Counts : EnableBalanceTracking(a, v)
      <4>. PICK v \in Counts : EnableBalanceTracking(a, v)
        BY <3>2
      <4>. DEFINE row == [accounts[a] EXCEPT !.tracking = TRUE, !.value = v]
      <4>1. accounts' = [accounts EXCEPT ![a] = row] /\ UNCHANGED <<transactions, entries>>
        BY DEF EnableBalanceTracking, SInv, IInv, TypeOK
      <4> QED BY <4>1
    <3>3. CASE \E v \in Counts : ReconcileBalance(a, v)
      <4>. PICK v \in Counts : ReconcileBalance(a, v)
        BY <3>3
      <4>. DEFINE row == [accounts[a] EXCEPT !.value = v]
      <4>1. accounts' = [accounts EXCEPT ![a] = row] /\ UNCHANGED <<transactions, entries>>
        BY DEF ReconcileBalance, SInv, IInv, TypeOK
      <4> QED BY <4>1
    <3>4. CASE \E r \in Patches : UpdateAccount(a, r)
      BY <3>4 DEF UpdateAccount
    <3>5. CASE \E s \in Statements : ConfirmStatement(s, a)
      BY <3>5 DEF ConfirmStatement
    <3> QED BY <2>3, <3>1, <3>2, <3>3, <3>4, <3>5
  <2>4. (\E a \in Accounts :
           /\ AccountHolders(a) = {}
           /\ \/ \E c \in Currencies, v \in Counts, l \in Limits \cup {None} :
                     CreateAccount(a, c, v, l)
              \/ \E v \in Counts : EnableBalanceTracking(a, v) \/ ReconcileBalance(a, v)
              \/ \E r \in Patches : UpdateAccount(a, r)
              \/ \E s \in Statements : ConfirmStatement(s, a))
        \/ \E t \in Ids : RowHolders(t) = {} /\ UnlinkStatement(t)
    BY DEF SingleRowStep
  <2> QED BY <2>1, <2>2, <2>3, <2>4
<1>5. \A q \in Sessions : /\ StepsHold(q)' /\ ReadsHold(q)'
                          /\ Locked(q)' = Locked(q) /\ ToLock(q)' = ToLock(q)
  <2>1. \A q \in Sessions : Untouched(q)
    BY <1>1 DEF Untouched, sessionVars
  <2> QED BY <1>4, <2>1, UntouchedHolds, UntouchedReads DEF SInv, RequestsFollowed, ReadsStayTrue
<1>6. SessionsTypeOK' /\ AnswersReceipted'
  BY <1>1, <1>2 DEF sessionVars, SInv, SessionsTypeOK, AnswersReceipted
<1>7. RequestsFollowed' /\ ReadsStayTrue'
  BY <1>5 DEF RequestsFollowed, ReadsStayTrue
<1>8. LocksExclude' /\ LocksOrdered'
  BY <1>1, <1>5 DEF sessionVars, SInv, LocksExclude, LocksOrdered
<1> QED BY <1>2, <1>3, <1>6, <1>7, <1>8 DEF SInv

-----------------------------------------------------------------------------
(* Every step keeps the invariant and is a step of Ledger or leaves its tables *)
(* alone.                                                                      *)
LEMMA SessionsStepKeeps == SInv /\ [SessionsNext]_svars => SInv' /\ [Next]_vars
<1>. SUFFICES ASSUME SInv, [SessionsNext]_svars PROVE SInv' /\ [Next]_vars
  OBVIOUS
<1>1. ASSUME NEW p \in Sessions, NEW r \in Requests, Start(p, r) PROVE SInv' /\ UNCHANGED vars
  BY <1>1, StartKeeps DEF Start
<1>2. ASSUME NEW p \in Sessions, Fail(p) PROVE SInv' /\ UNCHANGED vars
  BY <1>2, FailKeeps DEF Fail
<1>3. ASSUME NEW p \in Sessions, Proceed(p) PROVE SInv' /\ [Next]_vars
  <2>1. CASE ClaimKey(p) \/ Replay(p)
    BY <2>1, ClaimKeyKeeps, ReplayKeeps DEF ClaimKey, Replay
  <2>2. CASE LockRow(p) \/ ReadEntries(p)
    BY <2>2, LockRowKeeps, ReadEntriesKeeps DEF LockRow, ReadEntries
  <2>3. CASE \E a \in Accounts : LockAccount(p, a)
    BY <2>3, LockAccountKeeps DEF LockAccount
  <2>4. CASE \/ RefuseRow(p) \/ RefuseCreate(p) \/ RefuseUpdate(p) \/ RefuseDelete(p)
             \/ MissRemoved(p) \/ RefuseRemoval(p)
             \/ \E a \in Accounts : MissAccount(p, a)
    <3>1. Fail(p)
      BY <2>4 DEF RefuseRow, RefuseCreate, RefuseUpdate, RefuseDelete, MissRemoved,
         RefuseRemoval, MissAccount
    <3> QED BY <1>2, <3>1
  <2>5. CASE \E t \in Ids : CommitCreate(p, t) \/ CommitAdopted(p, t)
    BY <2>5, CommitCreateKeeps, CommitAdoptedKeeps
  <2>6. CASE CommitUpdate(p) \/ CommitDelete(p) \/ CommitRemoval(p)
    BY <2>6, CommitUpdateKeeps, CommitDeleteKeeps, CommitRemovalKeeps
  <2>7. CASE LockRemoved(p)
    BY <2>7, LockRemovedKeeps DEF LockRemoved
  <2> QED BY <1>3, <2>1, <2>2, <2>3, <2>4, <2>5, <2>6, <2>7 DEF Proceed
<1>4. CASE SingleRowStep
  BY <1>4, SingleRowKeeps
<1>5. CASE UNCHANGED svars
  <2>1. IInv' /\ UNCHANGED vars
    BY <1>5, StepKeeps DEF SInv, svars
  <2>. /\ UNCHANGED <<pc, request, claim, existing, booked, rows, started, answers>>
       /\ UNCHANGED <<accounts, transactions, entries, audit, statements, receipts, openingLimit>>
    BY <1>5 DEF svars, vars, sessionVars
  <2>. SInv
    OBVIOUS
  <2>2. SessionsTypeOK' /\ AnswersReceipted'
    BY DEF SInv, SessionsTypeOK, AnswersReceipted
  <2>3. RequestsFollowed'
    BY DEF SInv, RequestsFollowed, StepsHold, Locked
  <2>4. ReadsStayTrue'
    BY DEF SInv, ReadsStayTrue, ReadsHold, Locked, Live, Shape
  <2>5. LocksExclude' /\ LocksOrdered'
    BY DEF SInv, LocksExclude, LocksOrdered, Locked, ToLock
  <2> QED BY <2>1, <2>2, <2>3, <2>4, <2>5 DEF SInv
<1> QED BY <1>1, <1>2, <1>3, <1>4, <1>5 DEF SessionsNext, Rollback, AbortDeadlocked

(* The invariant holds in every state the sessions can reach. *)
THEOREM SessionsInvariance == SessionsSpec => []SInv
  BY SessionsInitEstablishes, SessionsStepKeeps, PTL DEF SessionsSpec

(* Whatever a session holds and has read is of the type its statements give it. *)
THEOREM SessionsTypeCorrect == SessionsSpec => []SessionsTypeOK
  BY SessionsInvariance, PTL DEF SInv

(* However the statements of concurrent requests interleave, every commit is one *)
(* operation of Ledger on the state it finds: the row locks suffice, for any     *)
(* number of sessions.                                                           *)
THEOREM LedgerImplemented == SessionsSpec => ImplementsLedger
<1>1. SessionsInit => Init
  BY DEF SessionsInit
<1>2. SInv /\ [SessionsNext]_svars => [Next]_vars
  BY SessionsStepKeeps
<1> QED BY <1>1, <1>2, SessionsInvariance, PTL DEF SessionsSpec, ImplementsLedger, Spec

(* What is proved of Ledger holds of the concurrent sessions: a key's receipt *)
(* names the only live row that carries the key, ...                          *)
THEOREM ReceiptsNameUnderSessions == SessionsSpec => []ReceiptNamesItsTransaction
  BY LedgerImplemented, ReceiptsName, PTL DEF ImplementsLedger

(* ... and no request that races with the first one under its key, or repeats *)
(* it later, inserts another row.                                             *)
THEOREM RetriesCreateNothingUnderSessions == SessionsSpec => RetriesCreateNothing
  BY LedgerImplemented, ReplaysCreateNothing, PTL DEF ImplementsLedger

(* No update of a balance is lost: what the entries explain of a value does not *)
(* depend on how the requests that moved it interleaved.                        *)
THEOREM LedgerExplainedUnderSessions == SessionsSpec => []LedgerExplainsValue
  BY LedgerImplemented, LedgerExplained, PTL DEF ImplementsLedger

(* However often and however concurrently a create is sent under one key, all *)
(* answers it gets name one transaction: a key is claimed by one session at a *)
(* time, and its receipt is never rewritten.                                  *)
THEOREM SameAnswer == SessionsSpec => []SameKeySameAnswer
<1>1. SInv => SameKeySameAnswer
  BY DEF SInv, AnswersReceipted, SameKeySameAnswer
<1> QED BY <1>1, SessionsInvariance, PTL

-----------------------------------------------------------------------------
(* A session whose request removes no account, and that waits for a session of *)
(* a set in which everyone waits and no one removes an account, waits for one   *)
(* that is at its accounts.  If it is at its accounts itself, the account it    *)
(* waits for comes before the one that the other waits for.                     *)
LEMMA WaitsAtAccounts ==
    ASSUME SInv, NEW S \in SUBSET Sessions, Blocked(S),
           \A p \in S : request[p].kind # "remove", NEW p \in S
    PROVE  /\ \E q \in S : pc[q] = "accounts"
           /\ pc[p] = "accounts" =>
                  \E a \in ToLock(p) : /\ First(a, ToLock(p)) /\ a \in Accounts
                                       /\ \E q \in S : /\ q # p /\ pc[q] = "accounts"
                                                       /\ a \in Locked(q) /\ q \in WaitsFor(p)
<1>1. \A q \in S : StepsHold(q) /\ WaitsFor(q) # {} /\ q \in Sessions
  BY DEF Blocked, SInv, RequestsFollowed
<1>2. \A q \in S : pc[q] \in {"claim", "row", "accounts"}
  <2>. SUFFICES ASSUME NEW q \in S PROVE pc[q] \in {"claim", "row", "accounts"}
    OBVIOUS
  <2>1. pc[q] \in Steps
    BY DEF SInv, SessionsTypeOK
  <2>2. pc[q] \notin {"idle", "entries"}
    BY <1>1 DEF WaitsFor
  <2>3. pc[q] \notin {"remove", "references"}
    BY <1>1 DEF StepsHold
  <2> QED BY <2>1, <2>2, <2>3 DEF Steps
<1>3. PICK q \in S : q \in WaitsFor(p)
  BY DEF Blocked
<1>4. CASE pc[p] = "claim"
  <2>1. claim[q] = request[p].key
    BY <1>3, <1>4 DEF WaitsFor, KeyHolders
  <2> QED BY <1>1, <1>4, <2>1 DEF StepsHold
<1>5. CASE pc[p] = "row"
  <2>1. LockedRow(q) = request[p].id
    BY <1>3, <1>5 DEF WaitsFor, RowHolders
  <2>2. request[p].id \in Ids
    BY <1>1, <1>5, RequestKinds DEF StepsHold
  <2>3. existing[q] # None
    BY <2>1, <2>2, NoneIsNoRow DEF LockedRow
  <2> QED BY <1>1, <1>2, <1>5, <2>3 DEF StepsHold
<1>6. CASE pc[p] = "accounts"
  <2>1. PICK a \in ToLock(p) : First(a, ToLock(p)) /\ q \in AccountHolders(a) /\ q # p
    BY <1>3, <1>6 DEF WaitsFor
  <2>2. a \in Accounts
    BY <1>1, <1>6, ToLockAccounts
  <2>3. a \in Locked(q)
    BY <2>1 DEF AccountHolders
  <2>4. pc[q] = "accounts"
    BY <1>1, <1>2, <2>3 DEF StepsHold
  <2> QED BY <1>3, <1>6, <2>1, <2>2, <2>3, <2>4
<1> QED BY <1>2, <1>4, <1>5, <1>6

(* Creates, updates and deletes of transactions never wait in a cycle: along a *)
(* chain of waiting sessions the accounts waited for only go up.  A wait cycle  *)
(* has a session that removes an account.                                       *)
THEOREM NoDeadlockWithoutRemoval == SessionsSpec => []OnlyRemovalsDeadlock
<1>1. SInv => OnlyRemovalsDeadlock
  <2>. SUFFICES ASSUME SInv, NEW S \in SUBSET Sessions, WaitCycle(S),
                       \A p \in S : request[p].kind # "remove"
       PROVE  FALSE
    BY DEF OnlyRemovalsDeadlock
  <2>. DEFINE At == {p \in S : pc[p] = "accounts"}
              Waits(p, a) == a \in ToLock(p) /\ First(a, ToLock(p)) /\ a \in Accounts
  <2>1. Blocked(S) /\ \A T \in SUBSET S : Blocked(T) => T = S
    BY DEF WaitCycle
  <2>2. \A p \in S : pc[p] = "accounts" =>
            \E a : /\ Waits(p, a)
                   /\ \E q \in S : /\ q # p /\ pc[q] = "accounts"
                                   /\ a \in Locked(q) /\ q \in WaitsFor(p)
    BY <2>1, WaitsAtAccounts
  <2>3. At = S
    <3>1. At # {}
      BY <2>1, WaitsAtAccounts DEF Blocked
    <3>2. \A p \in At : WaitsFor(p) \cap At # {}
      BY <2>2
    <3>3. Blocked(At)
      BY <3>1, <3>2 DEF Blocked
    <3> QED BY <2>1, <3>3
  <2>4. \A p \in S : \A a : Waits(p, a) => Rank[a] \in Nat
    BY SessionConstants
  <2>5. \A p \in S : \A a, b : Waits(p, a) /\ Waits(p, b) => Rank[a] = Rank[b]
    BY <2>4 DEF First
  <2>6. \A q \in S : \A a, b : a \in Locked(q) /\ Waits(q, b) => Rank[a] < Rank[b]
    BY <2>3 DEF SInv, LocksOrdered
  <2>7. PICK p \in S : TRUE
    BY <2>1 DEF Blocked
  <2>8. PICK a : Waits(p, a) /\ \E q \in S : a \in Locked(q)
    BY <2>2, <2>3
  <2>. DEFINE Above == {q \in S : \E b : Waits(q, b) /\ Rank[a] < Rank[b]}
  <2>. HIDE DEF Waits
  <2>9. Above # {}
    <3>1. PICK q \in S : a \in Locked(q)
      BY <2>8
    <3>2. PICK b : Waits(q, b)
      BY <2>2, <2>3
    <3>3. Rank[a] < Rank[b]
      BY <2>6, <3>1, <3>2
    <3> QED BY <3>2, <3>3
  <2>10. ASSUME NEW q \in Above PROVE WaitsFor(q) \cap Above # {}
    <3>1. PICK b : Waits(q, b) /\ Rank[a] < Rank[b]
      OBVIOUS
    <3>2. PICK c : Waits(q, c) /\ \E r \in S : c \in Locked(r) /\ r \in WaitsFor(q)
      BY <2>2, <2>3
    <3>3. PICK r \in S : c \in Locked(r) /\ r \in WaitsFor(q)
      BY <3>2
    <3>4. PICK d : Waits(r, d)
      BY <2>2, <2>3
    <3>5. Rank[b] = Rank[c] /\ Rank[c] < Rank[d]
      BY <2>5, <2>6, <3>1, <3>2, <3>3, <3>4
    <3>6. Rank[a] < Rank[d]
      BY <2>4, <2>8, <3>1, <3>2, <3>4, <3>5
    <3> QED BY <3>3, <3>4, <3>6
  <2>11. Above = S
    <3>1. Blocked(Above)
      BY <2>9, <2>10 DEF Blocked
    <3> QED BY <2>1, <3>1
  <2>12. PICK b : Waits(p, b) /\ Rank[a] < Rank[b]
    BY <2>11
  <2>13. Rank[a] = Rank[b] /\ Rank[a] \in Nat
    BY <2>4, <2>5, <2>8, <2>12
  <2> QED BY <2>12, <2>13
<1> QED BY <1>1, SessionsInvariance, PTL
=============================================================================
