----------------------------- MODULE MCSessions -----------------------------
(* Small instances of LedgerSessions.  Each run chooses the requests whose    *)
(* interleavings it explores.                                                 *)
EXTENDS LedgerSessions, TLC

CONSTANTS cash, card, t1, t2, k1, s1

OneCard == cash :> "debit" @@ card :> "credit"
Order == cash :> 1 @@ card :> 2

Transfer(a, b) == [type |-> "transfer", account |-> a, dest |-> b, amount |-> 1,
                   affects |-> TRUE, statement |-> None]
Movement(kind, n) == [type |-> kind, account |-> cash, dest |-> None, amount |-> n,
                      affects |-> TRUE, statement |-> None]

(* The payment of a card statement, and edits that link and unlink it.  *)
Payment == [Transfer(cash, card) EXCEPT !.statement = s1]

TransfersAndPayments ==
    {[kind |-> "create", key |-> None, shape |-> Payment],
     [kind |-> "create", key |-> None, shape |-> Movement("expense", 1)],
     [kind |-> "update", id |-> t1, shape |-> Transfer(card, cash)],
     [kind |-> "update", id |-> t1, shape |-> Payment],
     [kind |-> "delete", id |-> t1],
     [kind |-> "remove", account |-> cash],
     [kind |-> "remove", account |-> card]}

(* One key sent with three shapes, one of them what a row written before      *)
(* receipts may hold; an edit that turns what it made round, its delete, and   *)
(* the removal of either account.                                              *)
Retries ==
    {[kind |-> "create", key |-> k1, shape |-> Transfer(cash, card)],
     [kind |-> "create", key |-> k1, shape |-> Movement("expense", 1)],
     [kind |-> "create", key |-> k1,
      shape |-> [Movement("expense", 1) EXCEPT !.affects = FALSE]],
     [kind |-> "update", id |-> t1, shape |-> Transfer(card, cash)],
     [kind |-> "delete", id |-> t1],
     [kind |-> "remove", account |-> cash],
     [kind |-> "remove", account |-> card]}

SessionSymmetry == Permutations(Sessions)
=============================================================================
