------------------------------ MODULE MCLedger ------------------------------
(* Small instances of Ledger: a debit account, a credit card, or both.        *)
EXTENDS Ledger, TLC

CONSTANTS cash, card

OneCard == cash :> "debit" @@ card :> "credit"
CashOnly == cash :> "debit"
CardOnly == card :> "credit"

(* Counts at both ends of a small bigint; the delta between them wraps. *)
Edges == {-3, 1}

IdSymmetry == Permutations(Ids)
=============================================================================
