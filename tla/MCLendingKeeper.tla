-------------------------- MODULE MCLendingKeeper ---------------------------
(* Instance of LendingKeeper for TLC: two loans, the newer of which cannot be  *)
(* activated because its borrower does not take the YES tokens.                *)
EXTENDS LendingKeeper

OneRequest == {[principal |-> 1, interestBps |-> 0, collateralBps |-> 10000,
                loanWithdrawFreezeDeadline |-> 1, activationDeadline |-> 2,
                repaymentDeadline |-> 3]}
ClockSkews == {-1, 1}
NewerRefuses == {2}
=============================================================================
