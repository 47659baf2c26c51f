---------------------------- MODULE LoanRefinement --------------------------
(* LoanPositionToken, with its markets, implements LoanLifecycle.             *)
EXTENDS LoanPositionToken

Started(l) == loans[l].state \in {"Active", "Repaid", "Defaulted"}

(* The phase of a loan.  An id that was cancelled before a loan was opened    *)
(* under it is still Absent.                                                  *)
PhaseOf(l) ==
  IF ~Created(l) THEN "Absent"
  ELSE IF loans[l].state \in {"Funding", "Funded"} THEN "Raising"
  ELSE IF loans[l].state = "Active" THEN "Live"
  ELSE loans[l].state

Due(l) == Started(l) /\ now > loans[l].repaymentDeadline

(* The variables of LoanLifecycle. *)
phase == [l \in Loans |-> PhaseOf(l)]
verdict == [l \in Loans |-> markets[l].winningOutcome]
paidUp == [l \in Loans |-> loans[l].repaymentSatisfiedAt # 0]
due == [l \in Loans |-> Due(l)]

Lifecycle == INSTANCE LoanLifecycle

(* The two contracts together behave as LoanLifecycle says: every sequence of *)
(* calls that funds, activates, pays, cancels and settles a loan moves its    *)
(* phase and the verdict of its market as promised, and, with the fairness of *)
(* the keeper, to an end.                                                     *)
ImplementsLifecycle == Lifecycle!FairSpec

=============================================================================
