------------------------------- MODULE Totals -------------------------------
(***************************************************************************)
(* The total of a ledger: the sum of f[x] over a finite set S of accounts. *)
(*                                                                         *)
(* The sum is defined as the number of units the accounts hold, a unit     *)
(* being a pair of an account and a number from 1 to what it holds.  The   *)
(* definition needs no recursion, so the facts below can be derived from   *)
(* those about the cardinality of finite sets.                             *)
(***************************************************************************)
EXTENDS Integers, FiniteSets

Units(f, S) == UNION {{x} \X (1 .. f[x]) : x \in S}

Total(f, S) == Cardinality(Units(f, S))

=============================================================================
