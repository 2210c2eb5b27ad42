------------------------------- MODULE Yields -------------------------------
(* What an account earns between two reconciliations, as the client        *)
(* estimates it.                                                           *)
EXTENDS Integers

\* A difference far beyond the estimate is not all yield: what was estimated
\* is, and the rest is left as an adjustment.
SuggestYieldSplit(difference, estimate) ==
    LET tolerance == IF estimate > 5000 THEN estimate * 2 ELSE estimate + 5000
    IN  IF difference <= 0
        THEN [yieldAmount |-> 0, suspicious |-> difference < 0]
        ELSE IF estimate > 0 /\ difference > tolerance
        THEN [yieldAmount |-> IF estimate < difference THEN estimate ELSE difference,
              suspicious |-> TRUE]
        ELSE [yieldAmount |-> difference, suspicious |-> FALSE]
=============================================================================
