---------------------------- MODULE LoanLifecycle ---------------------------
(***************************************************************************)
(* What the lending contract promises of a loan, whatever its amounts,     *)
(* positions and markets: a loan that raises funds either starts or is     *)
(* abandoned; one that is live is repaid exactly when it was paid up       *)
(* before it fell due, and defaults exactly when it was not; and the       *)
(* verdict its market pays out by is the one of the loan.                  *)
(*                                                                         *)
(* LoanRefinement shows LoanPositionToken to implement this.               *)
(***************************************************************************)
CONSTANT Loans

VARIABLES
  phase,     \* phase[l]: the stage the loan is in
  verdict,   \* verdict[l]: what the market of the loan is resolved to
  paidUp,    \* paidUp[l]: the repayment amount was reached while not due
  due        \* due[l]: the loan was started and its deadline has passed

vars == <<phase, verdict, paidUp, due>>

Init ==
  /\ phase = [l \in Loans |-> "Absent"]
  /\ verdict = [l \in Loans |-> "None"]
  /\ paidUp = [l \in Loans |-> FALSE]
  /\ due = [l \in Loans |-> FALSE]

Open(l) ==
  /\ phase[l] = "Absent"
  /\ phase' = [phase EXCEPT ![l] = "Raising"]
  /\ UNCHANGED <<verdict, paidUp, due>>

Start(l) ==
  /\ phase[l] = "Raising"
  /\ phase' = [phase EXCEPT ![l] = "Live"]
  /\ UNCHANGED <<verdict, paidUp, due>>

Abandon(l) ==
  /\ phase[l] = "Raising"
  /\ phase' = [phase EXCEPT ![l] = "Cancelled"]
  /\ UNCHANGED <<verdict, paidUp, due>>

PayUp(l) ==
  /\ phase[l] = "Live"
  /\ ~due[l]
  /\ paidUp' = [paidUp EXCEPT ![l] = TRUE]
  /\ UNCHANGED <<phase, verdict, due>>

(* Several loans may fall due at the same time. *)
FallDue(S) ==
  /\ \A l \in S : phase[l] \in {"Live", "Repaid", "Defaulted"}
  /\ due' = [l \in Loans |-> due[l] \/ l \in S]
  /\ UNCHANGED <<phase, verdict, paidUp>>

Repay(l) ==
  /\ phase[l] = "Live" /\ paidUp[l]
  /\ phase' = [phase EXCEPT ![l] = "Repaid"]
  /\ verdict' = [verdict EXCEPT ![l] = "Yes"]
  /\ UNCHANGED <<paidUp, due>>

Default(l) ==
  /\ phase[l] = "Live" /\ due[l] /\ ~paidUp[l]
  /\ phase' = [phase EXCEPT ![l] = "Defaulted"]
  /\ verdict' = [verdict EXCEPT ![l] = "No"]
  /\ UNCHANGED <<paidUp, due>>

Next ==
  \/ \E l \in Loans : \/ Open(l) \/ Start(l) \/ Abandon(l)
                      \/ PayUp(l) \/ Repay(l) \/ Default(l)
  \/ \E S \in SUBSET Loans : FallDue(S)

Spec == Init /\ [][Next]_vars

(* A loan is not left raising funds, nor live, for ever. *)
FairSpec ==
  /\ Spec
  /\ \A l \in Loans : /\ WF_vars(Start(l) \/ Abandon(l))
                      /\ WF_vars(Repay(l) \/ Default(l))
                      /\ WF_vars(FallDue({l}))

=============================================================================
