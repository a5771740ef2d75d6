------------------------- MODULE MCScholarshipExam --------------------------
(* Constants of the model-checking instances of ScholarshipExam.           *)
EXTENDS ScholarshipExam

CONSTANTS h1, sweeper
=============================================================================
