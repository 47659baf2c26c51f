---------------------------- MODULE MCWalletForms ---------------------------
(* Instance of WalletForms for TLC. *)
EXTENDS WalletForms

OneRequest == {[principal |-> 1, interestBps |-> 0, collateralBps |-> 10000,
                loanWithdrawFreezeDeadline |-> 2, activationDeadline |-> 2,
                repaymentDeadline |-> 3]}
=============================================================================
