----------------------------- MODULE MCScheduler -----------------------------
(* Instances of Scheduler for TLC. *)
EXTENDS Scheduler, TLC

\* Requests are interchangeable, and so are jobs (used in safety-only runs).
Symmetry == Permutations(Reqs) \cup Permutations(Jobs)
=============================================================================
