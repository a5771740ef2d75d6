---------------------------- MODULE MCOccupancy -----------------------------
(* Two places that count who is in them, checked side by side: a behaviour *)
(* is one of the sockets of a private room or of the seats of a batch, and *)
(* the other stays as it is.                                               *)
EXTENDS PrivateRoom, CourseEnrollment, TLC

CONSTANTS teacher, student,  \* the people of the room, the learners of the course
          h1, t1, t2, w1, w2, s1, morning

VARIABLE part

occupancyVars == <<part, vars, accessVars>>

OneSeat == [b \in Batches |-> 1]

OccupancyInit == part \in {"room", "course"} /\ RoomInit /\ AccessInit

OccupancyNext ==
    \/ part = "room" /\ RoomNext /\ UNCHANGED <<part, accessVars>>
    \/ part = "course" /\ AccessNext /\ UNCHANGED <<part, vars>>

OccupancySpec == OccupancyInit /\ [][OccupancyNext]_occupancyVars

(* The invariants of the room speak of an ongoing session; what sockets    *)
(* and timers still do after its end is not explored.                      *)
NotOver == part = "room" => session.status \in {"approved", "ongoing"}

(* Once two handlers of one learner have overlapped the properties of the  *)
(* course claim nothing more of that learner.                              *)
NoOverlap == overlapped = {}

Symmetry == Permutations({teacher, student}) \cup Permutations({w1, w2})
                \cup Permutations({t1, t2})
=============================================================================
