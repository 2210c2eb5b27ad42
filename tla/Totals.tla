------------------------------- MODULE Totals -------------------------------
(* The sum of a function's values over its domain: what SUM(...) of a query *)
(* and the accumulating loops of the code compute.                          *)
EXTENDS Integers, Functions

Total(f) == FoldFunction(+, 0, f)
=============================================================================
