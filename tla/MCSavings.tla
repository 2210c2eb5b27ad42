----------------------------- MODULE MCSavings -----------------------------
(* Small instances of Savings: a debit account the savings come from and one  *)
(* they go to.                                                                *)
EXTENDS Savings, TLC

CONSTANTS cash, vault

TwoDebits == cash :> "debit" @@ vault :> "debit"

BothWays == {-1, 1}

RowSymmetry ==
    Permutations(Goals) \cup Permutations(Ids) \cup Permutations(Keys)
        \cup Permutations(AllocationIds)
=============================================================================
