----------------------------- MODULE MCRegistry ------------------------------
(* SessionRegistry with three turns and two requests over two sessions.        *)
EXTENDS SessionRegistry, TLC

CONSTANTS s1, s2, t1, t2, t3, q1, q2, k1

Symmetry == Permutations({s1, s2}) \cup Permutations({t1, t2, t3}) \cup Permutations({q1, q2})
=============================================================================
