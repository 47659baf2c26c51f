------------------------- MODULE MCLoanPositionToken ------------------------
(* Instances of LoanPositionToken for TLC. *)
EXTENDS LoanPositionToken, TLC

UserSymmetry == Permutations(Users)

Request(principal, interestBps, collateralBps, freeze, activation, repayment) ==
  [principal |-> principal, interestBps |-> interestBps, collateralBps |-> collateralBps,
   loanWithdrawFreezeDeadline |-> freeze, activationDeadline |-> activation,
   repaymentDeadline |-> repayment]

(* A loan of 2 for 3 back, with collateral of 1. *)
SmallRequests == {Request(2, 5000, 5000, 2, 3, 4)}

(* A loan of 1 for 2 back with collateral of 1, or of 1 for 1 back with none:  *)
(* half of 1 rounds to 0.                                                      *)
UnitRequests == {Request(1, 10000, 10000, 2, 2, 3), Request(1, 5000, 5000, 1, 2, 3)}

(* A loan of 6 without interest, which a payment of 3 covers by half. *)
HalfRequests == {Request(6, 0, 1, 1, 2, 3)}
=============================================================================
