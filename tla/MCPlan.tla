------------------------------- MODULE MCPlan -------------------------------
(* Instances of PlanExecution for TLC. *)
EXTENDS PlanExecution, TLC

\* Turns are interchangeable, and so are operations.
Symmetry == Permutations(Turns) \cup Permutations(Ops)
=============================================================================
