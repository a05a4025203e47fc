------------------------------- MODULE MCGate -------------------------------
(* Instances of SessionGate for TLC. *)
EXTENDS SessionGate, TLC

\* Requests are interchangeable (used in safety-only runs).
RequestSymmetry == Permutations(Requests)
=============================================================================
