------------------------- MODULE MCCourseEnrollment --------------------------
(* One learner and nothing but calls of free enrollment, which may overlap  *)
(* (a double-click): some of the behaviours of CourseEnrollment.            *)
EXTENDS CourseEnrollment

CONSTANTS student, morning, t1, t2

OneSeat == [b \in Batches |-> 1]

FreeCalls ==
    \E t \in Handlers :
        \/ \E l \in Learners : FreeEnroll(t, l)
        \/ CheckSubscription(t) \/ GrantFree(t)

FreeCallsSpec == AccessInit /\ [][FreeCalls]_accessVars
=============================================================================
