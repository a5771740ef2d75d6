----------------------------- MODULE LiveClass ------------------------------
(***************************************************************************)
(* One live class (livestream): its row, its attendance, its LiveKit room. *)
(*                                                                         *)
(* The teacher's requests and the jobs of the beat read the row, decide,   *)
(* and later save some of its columns, without a lock.  The webhooks of    *)
(* LiveKit lock the row and are one step each; they arrive late, in any    *)
(* order, and an event whose handler fails is acknowledged and lost.       *)
(*                                                                         *)
(* Abstractions.  Time is a counter of ticks.  A person is an account with *)
(* its learner profile.  Of the attendance the open intervals are kept     *)
(* (open_interval leaves at most one per person); a token, once minted, is *)
(* good for as long as the behaviour.  Other classes, the moderation of    *)
(* participants, chat, reviews, notifications and analytics are left out.  *)
(***************************************************************************)
EXTENDS Integers, FiniteSets, Sequences

CONSTANTS
    Teacher,       \* created_by
    Students,      \* learners whose subscription and batch admit them
    Requests,      \* the HTTP handlers that may be under way
    Starts,        \* start times the class may be planned or moved to
    Length,        \* end_time - start_time
    Early,         \* how long before the start a learner may join
    Grace,         \* LIVE_GRACE
    Extension,     \* the minutes one extension asks for
    MaxExtension,  \* MAX_EXTENSION
    Reconnect,     \* ten minutes
    Abandon,       \* sixty minutes
    None,          \* a null column
    Horizon,       \* bound on the clock
    MaxActs,       \* bound on the requests and room entries of people
    MaxFailures    \* bound on failed tasks, webhooks and LiveKit calls

People == {Teacher} \cup Students
Jobs == {"sync", "auto", "sample"}
Tasks == Requests \cup Jobs

ASSUME LiveClassAssumption ==
    /\ Teacher \notin Students /\ IsFiniteSet(Students)
    /\ Requests \cap Jobs = {}
    /\ Starts \subseteq Nat /\ \E s \in Starts : \A r \in Starts : r <= s
    /\ Length \in Nat \ {0} /\ Early \in Nat
    /\ Grace \in Nat /\ Extension \in Nat \ {0} /\ MaxExtension \in Nat
    /\ Reconnect \in Nat /\ Abandon \in Nat /\ Reconnect <= Abandon
    /\ None \notin Nat
    /\ Horizon \in Nat /\ MaxActs \in Nat /\ MaxFailures \in Nat

VARIABLES
    now,       \* the clock
    session,   \* the LiveSession row
    open,      \* the people with an open attendance interval
    room,      \* the people connected to the LiveKit room
    tokens,    \* the people who hold a token
    hooks,     \* webhooks not handled yet
    task,      \* what each task still has to do
    acts,      \* requests and entries of people so far
    failures   \* failures so far

vars == <<now, session, open, room, tokens, hooks, task, acts, failures>>

Terminal == {"COMPLETED", "CANCELLED"}
OpenStatuses == {"LIVE", "RECONNECTING", "WAITING", "PAUSED"}
Statuses == {"SCHEDULED"} \cup OpenStatuses \cup Terminal

Latest == CHOOSE s \in Starts : \A r \in Starts : r <= s
Times == 0..(Latest + Length + MaxExtension)

Row == [status : Statuses, left : 0..Horizon \cup {None}, start : Starts,
        end : Times, extended : Times \cup {None}]
Columns == {"status", "left", "start", "end", "extended"}
Steps == {"save", "close", "room", "token", "reconcile"}
Hook == [kind : {"joined", "left"}, who : People]
            \cup [kind : {"finished"}, who : {None}]

(* A save(update_fields): the named columns are written, the others kept.  *)
Written(row, write) ==
    [c \in Columns |-> IF c \in DOMAIN write THEN write[c] ELSE row[c]]

NoWrite == [c \in {} |-> None]
Idle == [todo |-> <<>>, write |-> NoWrite, who |-> {}]

TypeOK ==
    /\ now \in 0..Horizon
    /\ session \in Row
    /\ open \subseteq People /\ room \subseteq People /\ tokens \subseteq People
    /\ hooks \subseteq Hook
    /\ \A t \in Tasks :
         /\ \A i \in DOMAIN task[t].todo : task[t].todo[i] \in Steps
         /\ Written(session, task[t].write) \in Row
         /\ task[t].who \subseteq People
    /\ acts \in 0..MaxActs /\ failures \in 0..MaxFailures

Init ==
    /\ now = 0
    /\ session \in {[status |-> "SCHEDULED", left |-> None, start |-> s,
                     end |-> s + Length, extended |-> None] : s \in Starts}
    /\ open = {} /\ room = {} /\ tokens = {} /\ hooks = {}
    /\ task = [t \in Tasks |-> Idle]
    /\ acts = 0 /\ failures = 0

-----------------------------------------------------------------------------
(* What a row says at the present time.                                    *)

HardEnd(row) ==
    (IF row.extended = None THEN row.end ELSE row.extended) + Grace

Age(row) == now - row.left

Ladder(row) ==
    IF Age(row) <= Reconnect THEN "RECONNECTING"
    ELSE IF Age(row) <= Abandon THEN "PAUSED" ELSE "COMPLETED"

(* faulty: a manual pause outranks the end of the class.                   *)
ComputedPausedForever(row) ==
    IF row.status \in Terminal \cup {"PAUSED"} THEN row.status
    ELSE IF now >= HardEnd(row) THEN "COMPLETED"
    ELSE IF row.left # None THEN Ladder(row)
    ELSE IF row.status = "LIVE" THEN row.status
    ELSE IF now < row.start THEN "SCHEDULED" ELSE "WAITING"

(* faulty: a manual pause outranks the teacher's absence.                  *)
ComputedPausedAlone(row) ==
    IF row.status \in Terminal THEN row.status
    ELSE IF now >= HardEnd(row) THEN "COMPLETED"
    ELSE IF row.status = "PAUSED" THEN row.status
    ELSE IF row.left # None THEN Ladder(row)
    ELSE IF row.status = "LIVE" THEN row.status
    ELSE IF now < row.start THEN "SCHEDULED" ELSE "WAITING"

computed_status(row) ==
    IF row.status \in Terminal THEN row.status
    ELSE IF now >= HardEnd(row) THEN "COMPLETED"
    ELSE IF row.left # None THEN Ladder(row)
    ELSE IF row.status \in {"PAUSED", "LIVE"} THEN row.status
    ELSE IF now < row.start THEN "SCHEDULED" ELSE "WAITING"

Completed == [status |-> "COMPLETED", left |-> None]

(* The columns sync_status saves for a row whose derived status differs.   *)
Synced(row) ==
    LET new == computed_status(row) IN
    IF new = "COMPLETED" THEN Completed ELSE [status |-> new]

-----------------------------------------------------------------------------
(* Tasks: the first half of a handler, and its later steps.                *)

Begin(t, todo, write, who) ==
    /\ task[t] = Idle
    /\ task' = [task EXCEPT ![t] = [todo |-> todo, write |-> write, who |-> who]]
    /\ UNCHANGED <<now, session, open, room, tokens, hooks, failures>>

Request(t, todo, write, who) ==
    /\ t \in Requests /\ acts < MaxActs
    /\ acts' = acts + 1
    /\ Begin(t, todo, write, who)

Active == session.status \notin Terminal

Cancel(t) ==
    /\ session.status = "SCHEDULED"
    /\ Request(t, <<"save">>, [status |-> "CANCELLED"], {})

(* One UPDATE for the classes of a series that are still to come.          *)
CancelSeries(t) ==
    /\ task[t] = Idle /\ acts < MaxActs
    /\ Active /\ session.start > now
    /\ session' = [session EXCEPT !.status = "CANCELLED"]
    /\ acts' = acts + 1
    /\ UNCHANGED <<now, open, room, tokens, hooks, task, failures>>

(* The serializer saves the whole row.                                     *)
Reschedule(t) ==
    /\ Active /\ now < session.start
    /\ \E s \in Starts :
         /\ s > now
         /\ Request(t, <<"save">>,
                    [session EXCEPT !.start = s, !.end = s + Length], {})

(* faulty: no cap.                                                         *)
AllowedAlways(until) == TRUE

Allowed(until) == until <= session.end + MaxExtension

Extend(t) ==
    LET agreed == IF session.extended = None THEN session.end ELSE session.extended
        until == (IF agreed < now THEN now ELSE agreed) + Extension
    IN /\ Active /\ Allowed(until)
       /\ Request(t, <<"save">>, [extended |-> until], {})

End(t) ==
    /\ Active
    /\ Request(t, <<"save", "close", "room">>, Completed, {})

AdminEnd(t) ==
    /\ Active
    /\ Request(t, <<"close", "save", "room">>, Completed, {})

(* The same button pauses and resumes.                                     *)
Pause(t) ==
    /\ Active
    /\ Request(t, <<"save">>,
         [status |-> IF session.status = "PAUSED" /\ session.left = None
                     THEN "LIVE" ELSE "PAUSED", left |-> None], {})

(* The gate of the room: it ends a class that is over, else mints a token. *)
OverAtGate == now >= HardEnd(session)
AbandonedAtGate == session.left # None /\ Age(session) > Abandon

JoinOver(t) ==
    /\ Active
    /\ \/ OverAtGate /\ Request(t, <<"save">>, [status |-> "COMPLETED"], {})
       \/ ~OverAtGate /\ AbandonedAtGate /\ Request(t, <<"save">>, Completed, {})

Admitted(p) ==
    /\ Active /\ ~OverAtGate /\ ~AbandonedAtGate
    /\ p = Teacher \/ now >= session.start - Early

(* A teacher who comes back in time revives the class.                     *)
JoinBack(t) ==
    /\ Admitted(Teacher) /\ session.left # None
    /\ Request(t, <<"save", "token">>, [status |-> "LIVE", left |-> None], {Teacher})

(* Every other admission writes nothing.                                   *)
Join(t, p) ==
    /\ Admitted(p) /\ ~(p = Teacher /\ session.left # None)
    /\ task[t] = Idle /\ acts < MaxActs
    /\ p \notin tokens
    /\ tokens' = tokens \cup {p}
    /\ acts' = acts + 1
    /\ UNCHANGED <<now, session, open, room, hooks, task, failures>>

-----------------------------------------------------------------------------
(* The jobs of the beat.                                                   *)

Job(j, todo, write, who) == Begin(j, todo, write, who) /\ UNCHANGED acts

(* sync_open_session_statuses, every minute.                               *)
Sync ==
    /\ Active /\ computed_status(session) # session.status
    /\ Job("sync", <<"save">>, Synced(session), {})

(* auto_complete_expired_sessions, every five minutes: the classes that    *)
(* are overdue or abandoned and not completed yet.                         *)
AutoComplete ==
    /\ Active /\ computed_status(session) # session.status
    /\ now >= HardEnd(session) \/ (session.left # None /\ Age(session) >= Abandon)
    /\ Job("auto", IF computed_status(session) = "COMPLETED"
                   THEN <<"save", "close", "room">> ELSE <<"save">>,
           Synced(session), {})

(* faulty: a class whose teacher is away is not sampled.                   *)
SampledWhenHeld == {"LIVE", "PAUSED"}

SampledStatuses == OpenStatuses

(* sample_live_viewers, every minute: LiveKit is asked first, the open     *)
(* intervals are compared with its answer afterwards.                      *)
Sample ==
    /\ session.status \in SampledStatuses /\ now <= session.end
    /\ Job("sample", <<"reconcile">>, NoWrite, room)

-----------------------------------------------------------------------------
(* The later steps of a task.                                              *)

(* LiveKit drops the people of a deleted room and reports it.              *)
DeleteRoom ==
    /\ room' = {}
    /\ hooks' = IF room = {} THEN hooks
                ELSE hooks \cup [kind : {"left"}, who : room]
                       \cup {[kind |-> "finished", who |-> None]}

Do(step, t) ==
    \/ /\ step = "save"
       /\ session' = Written(session, task[t].write)
       /\ UNCHANGED <<open, room, tokens, hooks>>
    \/ /\ step = "close"
       /\ open' = {}
       /\ UNCHANGED <<session, room, tokens, hooks>>
    \/ /\ step = "room"
       /\ DeleteRoom
       /\ UNCHANGED <<session, open, tokens>>
    \/ /\ step = "token"
       /\ tokens' = tokens \cup task[t].who
       /\ UNCHANGED <<session, open, room, hooks>>
    \/ /\ step = "reconcile"
       /\ open' = open \cap task[t].who
       /\ UNCHANGED <<session, room, tokens, hooks>>

Forget(t) ==
    IF Len(task[t].todo) = 1 THEN Idle
    ELSE [task[t] EXCEPT !.todo = Tail(@)]

Continue(t) ==
    /\ task[t] # Idle
    /\ Do(Head(task[t].todo), t)
    /\ task' = [task EXCEPT ![t] = Forget(t)]
    /\ UNCHANGED <<now, acts, failures>>

Fail ==
    /\ failures < MaxFailures
    /\ failures' = failures + 1
    /\ UNCHANGED <<now, session, open, room, tokens, acts>>

Die(t) ==
    /\ task[t] # Idle
    /\ task' = [task EXCEPT ![t] = Idle]
    /\ Fail /\ UNCHANGED hooks

(* close_room swallows the error of an unreachable LiveKit.                *)
RoomStays(t) ==
    /\ task[t] # Idle /\ Head(task[t].todo) = "room"
    /\ task' = [task EXCEPT ![t] = Forget(t)]
    /\ Fail /\ UNCHANGED hooks

-----------------------------------------------------------------------------
(* LiveKit and its webhooks.                                               *)

(* At most one unhandled webhook of a kind and a person.                   *)
Enter(p) ==
    /\ p \in tokens /\ p \notin room /\ acts < MaxActs
    /\ [kind |-> "joined", who |-> p] \notin hooks
    /\ room' = room \cup {p}
    /\ hooks' = hooks \cup {[kind |-> "joined", who |-> p]}
    /\ acts' = acts + 1
    /\ UNCHANGED <<now, session, open, tokens, task, failures>>

(* A room left empty may be finished, or be entered again before that.     *)
Leave(p) ==
    /\ p \in room
    /\ [kind |-> "left", who |-> p] \notin hooks
    /\ room' = room \ {p}
    /\ \E finished \in SUBSET {[kind |-> "finished", who |-> None]} :
         /\ room = {p} \/ finished = {}
         /\ hooks' = hooks \cup {[kind |-> "left", who |-> p]} \cup finished
    /\ UNCHANGED <<now, session, open, tokens, task, acts, failures>>

Handled(e) ==
    /\ e \in hooks
    /\ hooks' = hooks \ {e}
    /\ UNCHANGED <<now, room, tokens, task, acts>>

ParticipantJoined(e) ==
    /\ e.kind = "joined"
    /\ Handled(e)
    /\ open' = open \cup {e.who}
    /\ session' = IF e.who = Teacher
                  THEN [session EXCEPT !.left = None, !.status = "LIVE"]
                  ELSE session
    /\ UNCHANGED failures

ParticipantLeft(e) ==
    /\ e.kind = "left"
    /\ Handled(e)
    /\ open' = open \ {e.who}
    /\ session' = IF e.who = Teacher
                  THEN [session EXCEPT !.left = now,
                          !.status = IF @ = "PAUSED" THEN @ ELSE "RECONNECTING"]
                  ELSE session
    /\ UNCHANGED failures

RoomFinished(e) ==
    /\ e.kind = "finished"
    /\ Handled(e)
    /\ open' = {}
    /\ session' = IF session.status # "CANCELLED" /\ now >= HardEnd(session)
                  THEN Written(session, Completed) ELSE session
    /\ UNCHANGED failures

Deliver == \E e \in hooks :
             ParticipantJoined(e) \/ ParticipantLeft(e) \/ RoomFinished(e)

(* The handler fails; the event is logged and acknowledged all the same.   *)
Lose(e) ==
    /\ e \in hooks
    /\ hooks' = hooks \ {e}
    /\ Fail /\ UNCHANGED task

Tick ==
    /\ now < Horizon
    /\ now' = now + 1
    /\ UNCHANGED <<session, open, room, tokens, hooks, task, acts, failures>>

-----------------------------------------------------------------------------
Next ==
    \/ \E t \in Requests :
         \/ Cancel(t) \/ CancelSeries(t) \/ Reschedule(t) \/ Extend(t)
         \/ End(t) \/ AdminEnd(t) \/ Pause(t)
         \/ JoinOver(t) \/ JoinBack(t) \/ \E p \in People : Join(t, p)
    \/ Sync \/ AutoComplete \/ Sample
    \/ \E t \in Tasks : Continue(t) \/ Die(t) \/ RoomStays(t)
    \/ \E p \in People : Enter(p) \/ Leave(p)
    \/ Deliver
    \/ \E e \in hooks : Lose(e)
    \/ Tick

Spec == Init /\ [][Next]_vars

(* Code that has started goes on, LiveKit reports what happened, and the   *)
(* beat runs its jobs.  Nothing is asked of the people, nor of the clock.  *)
Fairness ==
    /\ WF_vars(Sync \/ Continue("sync"))
    /\ WF_vars(AutoComplete \/ Continue("auto"))
    /\ WF_vars(Sample \/ Continue("sample"))
    /\ \A t \in Requests : WF_vars(Continue(t))
    /\ WF_vars(Deliver)

FairSpec == Spec /\ Fairness

-----------------------------------------------------------------------------
(* Properties                                                              *)

(* A class past its hard end settles in a terminal status, whatever late   *)
(* webhook or stale save moved it off one before ("the single path to      *)
(* COMPLETED", livestream/tasks.py 233-239).                               *)
Overdue == now >= HardEnd(session)
OverdueClassEnds == <>[]Overdue => <>[](session.status \in Terminal)

(* A class whose teacher has been gone for over an hour is ended, also a   *)
(* paused one (views.py 1366-1376: "a session that had no timer at all").  *)
Abandoned == Active /\ session.left # None /\ Age(session) > Abandon
AbandonedClassEnds == Abandoned ~> ~Abandoned

(* A class ends, on the clock or because its teacher is gone, whatever     *)
(* stale saves and late webhooks write in between.                         *)
ClassEnds == OverdueClassEnds /\ AbandonedClassEnds

(* While the class runs, a leave whose webhook was lost does not keep the  *)
(* attendance open: the sweep compares with the room (tasks.py 140-174).   *)
Missed(p) == /\ p \in open /\ p \notin room
             /\ session.status \in OpenStatuses /\ now <= session.end
MissedLeaveIsRepaired == \A p \in Students : Missed(p) ~> ~Missed(p)

(* A completed class stays completed (models.py 250-254: terminal states   *)
(* "are never moved off of").                                              *)
CompletedIsFinal ==
    [][session.status = "COMPLETED" => session'.status = "COMPLETED"]_vars
=============================================================================
