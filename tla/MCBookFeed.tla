------------------------------ MODULE MCBookFeed ----------------------------
(* Instance of BookFeed for TLC. *)
EXTENDS BookFeed
=============================================================================
