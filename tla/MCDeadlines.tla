---------------------------- MODULE MCDeadlines -----------------------------
(* What has to end in the end, checked side by side: a behaviour is one of *)
(* an emptying private room, of a skill booking, of a chat message or of a *)
(* scholarship exam.  The others stay in their initial state.              *)
EXTENDS PrivateRoom, SkillBooking, ChatOutbox, ScholarshipExam, TLC

CONSTANTS teacher, student, h1, t1, w1, s1, b1, m1, m2, m3, k1, k2, p1, p2, x1, x2, sweeper

VARIABLE part

deadlinesVars == <<part, vars, bookingVars, outboxVars, examVars>>

AllOpen == {GridSlots}
Carry == (m1 :> k1) @@ (m2 :> k1) @@ (m3 :> k2)

DeadlinesInit ==
    /\ part \in {"room", "skill", "chat", "exam"}
    /\ RoomInit /\ BookingInit /\ OutboxInit /\ ExamInit

DeadlinesNext ==
    \/ part = "room" /\ RoomNext /\ UNCHANGED <<part, bookingVars, outboxVars, examVars>>
    \/ part = "skill" /\ BookingNext /\ UNCHANGED <<part, vars, outboxVars, examVars>>
    \/ part = "chat" /\ OutboxNext /\ UNCHANGED <<part, vars, bookingVars, examVars>>
    \/ part = "exam" /\ ExamNext /\ UNCHANGED <<part, vars, bookingVars, outboxVars>>

(* The fairness of each module, for the part that moves.                   *)
DeadlinesFairness ==
    /\ WF_vars(part = "room" /\ Tick)
    /\ WF_vars(part = "room" /\ CleanupExpiredSessions)
    /\ \A t \in Tasks : WF_vars(part = "room" /\ Continue(t) /\ UNCHANGED roomVars)
    /\ \A t \in Timers : WF_vars(part = "room" /\ TryAutoEnd(t))
    /\ \A p \in People : /\ WF_vars(part = "room" /\ IncrementConnections(p))
                         /\ WF_vars(part = "room" /\ CancelTimer(p))
                         /\ WF_vars(part = "room" /\ Depart(p))
    /\ SF_bookingVars(part = "skill" /\ StartAutoDecline)
    /\ WF_bookingVars(part = "skill" /\ AutoRelease)
    /\ WF_bookingVars(part = "skill" /\ \E b \in Bookings : AutoDecline(b) \/ Lapse(b))
    /\ \A c \in Clerks : WF_bookingVars(part = "skill" /\ ClerkGoesOn(c))
    /\ \A r \in Relays : WF_outboxVars(part = "chat" /\ RelayStep(r))
    /\ \A t \in Examiners : WF_examVars(part = "exam" /\ ExamStep(t))
    /\ WF_examVars(part = "exam" /\ SweepBegins)
    /\ WF_examVars(part = "exam" /\ \E r \in Entries : SweepTakes(r))

DeadlinesSpec == DeadlinesInit /\ [][DeadlinesNext]_deadlinesVars /\ DeadlinesFairness

(* What sockets and timers still do after the end of the private session   *)
(* is not explored.                                                        *)
NotOver == part = "room" => session.status \in {"approved", "ongoing"}
=============================================================================
