--------------------------- MODULE MCLoanRefinement -------------------------
(* Instance of LoanRefinement for TLC. *)
EXTENDS LoanRefinement, MCLoanPositionToken
=============================================================================
