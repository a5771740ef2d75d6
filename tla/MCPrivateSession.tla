-------------------------- MODULE MCPrivateSession --------------------------
(* Constants of the model-checking instances of PrivateSession.            *)
EXTENDS PrivateSession, TLC

CONSTANTS r1, r2, teacher, student, guest, s1, s2

Symmetry == Permutations({r1, r2}) \cup Permutations({s1, s2})
=============================================================================
