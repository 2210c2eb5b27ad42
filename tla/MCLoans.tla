------------------------------ MODULE MCLoans ------------------------------
(* A small instance of Loans: two accounts that can pay and one that cannot,  *)
(* and a loan at 12 % from the end of January, whose second payment takes in  *)
(* what rounding leaves; in a single payment it is refused.                   *)
EXTENDS Loans, TLC

CONSTANTS cash, vault, card

Day(m, d) == FirstOf[m] + d - 1

Loan(months) == [principal |-> 59150, rate |-> 1200, months |-> months,
                 payment |-> 30000, start |-> Day(0, 31), day |-> 31]

MCTerms == {Loan(1), Loan(3)}

Paying(total, principal, interest) ==
    [total |-> total, principal |-> principal, interest |-> interest]

(* As scheduled, with insurance and less principal, and with parts above the  *)
(* total.                                                                     *)
MCOverrides == {Paying(None, None, None), Paying(31000, 10000, None),
                Paying(20000, 25000, 0)}

AsScheduled == {Paying(None, None, None)}

MCEventDates == {Day(0, 20), Day(1, 10)}

LoanSymmetry == Permutations(Payable) \cup Permutations(Keys)
=============================================================================
