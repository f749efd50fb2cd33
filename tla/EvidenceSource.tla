--------------------------- MODULE EvidenceSource ---------------------------
(***************************************************************************)
(* What run() of collect/__init__.py relies on when it calls an evidence   *)
(* source: the contribution is admitted whole or not at all, nothing is    *)
(* admitted once the call has ended, and a call that returns without a     *)
(* contribution returns a problem.  Collect's CollectSource is this, taken *)
(* as one step.                                                            *)
(***************************************************************************)
VARIABLES phase,         \* working, returned or interrupted
          contribution,  \* one is admitted
          problem        \* the call returned a problem

vars == <<phase, contribution, problem>>

Init == phase = "working" /\ contribution = FALSE /\ problem = FALSE

Admit ==
  /\ phase = "working" /\ ~contribution
  /\ contribution' = TRUE
  /\ UNCHANGED <<phase, problem>>

Return ==
  /\ phase = "working"
  /\ phase' = "returned"
  /\ problem' \in BOOLEAN
  /\ contribution \/ problem'
  /\ UNCHANGED contribution

Interrupt ==
  /\ phase = "working"
  /\ phase' = "interrupted"
  /\ UNCHANGED <<contribution, problem>>

Next == Admit \/ Return \/ Interrupt

Spec == Init /\ [][Next]_vars

=============================================================================
