---------------------------- MODULE MCLiveClass -----------------------------
(* Constants of the model-checking instances of LiveClass.                 *)
EXTENDS LiveClass, TLC

CONSTANTS teacher, ana, r1

OneStart == {1}
LateStart == {3}
=============================================================================
