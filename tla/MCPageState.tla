------------------------------ MODULE MCPageState ---------------------------
(* Instance of PageState for TLC. *)
EXTENDS PageState
=============================================================================
