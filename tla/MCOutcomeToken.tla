--------------------------- MODULE MCOutcomeToken ---------------------------
(* Instance of OutcomeToken for TLC. *)
EXTENDS OutcomeToken, TLC

AccountSymmetry == Permutations(Users)
=============================================================================
