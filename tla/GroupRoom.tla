----------------------------- MODULE GroupRoom ------------------------------
(***************************************************************************)
(* A group session from its invitations to its end: the host's handlers,   *)
(* sockets, Celery tasks that cut the room off when its time is up, and    *)
(* the cleanup command that is the net below them.                         *)
(*                                                                         *)
(* A handler reads the row, checks it, and saves some columns later; only  *)
(* the start looks at the status again under a lock.  Each database call   *)
(* of a departing socket is a step of its own.                             *)
(*                                                                         *)
(* Abstractions.  Time is counted from the start of the room; before it,   *)
(* only whether the scheduled start has come, and six hours with it.  The  *)
(* 7-minute timers of the socket servers do what the cleanup command does. *)
(* A socket is one from its counting on, each person has one at a time,    *)
(* and no socket server dies (PrivateRoom lets them).  Sockets opened when *)
(* all is over, which nobody counts, are left out, and so are the start    *)
(* time of an open room, chat, attendance rows, guests without an account, *)
(* lobby and capacity.                                                     *)
(***************************************************************************)
EXTENDS Integers, FiniteSets

CONSTANTS
    Kinds,         \* session_type of the rooms considered
    Host, Invited,
    Desks,         \* HTTP handlers that may be under way
    Serves,        \* bound on the operations each of them is used for
    Lengths,       \* values of duration_minutes
    Edits,         \* what an edit may name: a duration or Kept, and a new start or none
    Callers,       \* bound on who opens sockets in a room of each kind
    MaxDeclines,   \* bound on how often one invitation is declined; the code stops at two
    Step, Ceiling, Extensions,  \* length, limit and number of extensions
    Retries,       \* max_retries of the cutoff task
    Horizon,       \* bound on the clock
    MaxLost        \* bound on Celery tasks that are never delivered

Kept == 0   \* an edit that leaves duration_minutes alone
HandlerOps == {"update", "join", "end", "cancel", "extend"}

ASSUME GroupRoomAssumption ==
    /\ Kinds \subseteq {"scheduled", "instant"}
    /\ Host \notin Invited /\ IsFiniteSet(Invited)
    /\ Desks \cap {"worker", "cron"} = {} /\ Serves \in [Desks -> SUBSET HandlerOps]
    /\ Lengths \subseteq Nat \ {0} /\ Edits \subseteq (Lengths \cup {Kept}) \X BOOLEAN
    /\ MaxDeclines \in 0..2 /\ Callers \in [Kinds -> SUBSET (Invited \cup {Host})]
    /\ Step \in Nat /\ Ceiling \in Nat /\ Extensions \in Nat
    /\ Retries \in Nat /\ Horizon \in Nat /\ MaxLost \in Nat

VARIABLES
    room,     \* the GroupSession row
    due,      \* has the scheduled start come, and six more hours?
    invites,  \* GroupSessionInvite rows
    socket,   \* where each person's socket is
    cutoffs,  \* hard_expire_group_session tasks under way
    desk,     \* what each handler, the worker and the command still have to do
    lost,
    agreed,   \* history: the latest end the room has had since the last task was queued
    raised    \* history: late edits that moved the deadline beyond what that task knew

taskVars == <<cutoffs, lost, agreed, raised>>
groupVars == <<room, due, invites, socket, desk, taskVars>>

Comers == Invited \cup {Host}
Hands == Desks \cup {"worker", "cron"}
Over == {"completed", "cancelled", "expired"}
RoomStatuses == Over \cup {"scheduled", "live"}
DeskIdle == [op |-> "none"]

\* Places of a socket: counted; then leaving, to read the count back, to clamp it, to
\* mark the room empty; and away, or gone if it left a live room.
Leaving == {"reading", "clamping", "marking"}
Places == {"away", "gone", "in"} \cup Leaving

GroupTypeOK ==
    /\ room \in [kind : Kinds, status : RoomStatuses, clock : -1..Horizon, len : Lengths,
                 used : 0..Extensions, cap : Nat, conns : Int, left : {"no", "just", "long"}]
    /\ due \in {"ahead", "come", "missed"}
    /\ invites \in [Invited -> [status : {"pending", "accepted", "declined"}, declines : 0..2,
                                again : BOOLEAN]]
    /\ socket \in [Comers -> Places]
    /\ cutoffs \subseteq [eta : Nat, tries : 0..Retries]
    /\ \A h \in Hands : desk[h].op \in {"none", "update", "join", "end", "cancel", "extend",
                                        "expire", "unattended"}
    /\ lost \in 0..MaxLost /\ agreed \in Nat /\ raised \in Nat

\* create_group_session, or instant_create, whose room is open at once.
GroupInit ==
    /\ \E kind \in Kinds, len \in Lengths :
           room = [kind |-> kind, status |-> IF kind = "instant" THEN "live" ELSE "scheduled",
                   clock |-> IF kind = "instant" THEN 0 ELSE -1, len |-> len, used |-> 0,
                   cap |-> 0, conns |-> 0, left |-> "no"]
    /\ due = IF room.kind = "instant" THEN "come" ELSE "ahead"
    /\ invites = [u \in Invited |-> [status |-> "pending", declines |-> 0, again |-> FALSE]]
    /\ socket = [u \in Comers |-> "away"]
    /\ cutoffs = IF room.kind = "instant" THEN {[eta |-> room.len, tries |-> 0]} ELSE {}
    /\ desk = [h \in Hands |-> DeskIdle]
    /\ lost = 0 /\ raised = 0
    /\ agreed = IF room.kind = "instant" THEN room.len ELSE 0

-----------------------------------------------------------------------------
Live == room.status = "live"
RoomStarted == room.clock >= 0
Later(a, b) == IF a > b THEN a ELSE b

\* group_session_policy.deadline and live_rules.cap_ends_at.
Deadline == Later(room.len, room.cap)
Sooner(a, b) == IF a < b THEN a ELSE b
CapAfter(len, used) == Later(len, Sooner(len + used * Step, Ceiling))

MayTalk(u) == IF u = Host \/ room.kind = "instant" THEN TRUE ELSE invites[u].status = "accepted"

Take(h, job) == desk[h] = DeskIdle /\ desk' = [desk EXCEPT ![h] = job]
Begin(h, job) == job.op \in Serves[h] /\ Take(h, job)
Leave(h) == desk' = [desk EXCEPT ![h] = DeskIdle]

(* faulty: one step after the end.                                         *)
QueueLater(eta) ==
    /\ agreed' = Later(eta, Deadline') /\ raised' = IF Deadline' > eta THEN 1 ELSE 0
    /\ \/ cutoffs' = cutoffs \cup {[eta |-> eta + 1, tries |-> 0]} /\ UNCHANGED lost
       \/ lost < MaxLost /\ lost' = lost + 1 /\ UNCHANGED cutoffs

\* A task is queued, or the broker loses it.
Queue(eta) ==
    /\ agreed' = Later(eta, Deadline') /\ raised' = IF Deadline' > eta THEN 1 ELSE 0
    /\ \/ cutoffs' = cutoffs \cup {[eta |-> eta, tries |-> 0]} /\ UNCHANGED lost
       \/ lost < MaxLost /\ lost' = lost + 1 /\ UNCHANGED cutoffs

-----------------------------------------------------------------------------
(* Invitations.  An answer counts until the scheduled start.               *)

CanAnswer == room.status = "scheduled" => due = "ahead"
RoomRests == UNCHANGED <<room, socket, desk, taskVars>>

Answers(u, row) == invites' = [invites EXCEPT ![u] = row] /\ UNCHANGED due /\ RoomRests

AcceptGroupInvite(u) ==
    /\ room.kind = "scheduled" /\ invites[u].status # "accepted"
    /\ room.status \in {"scheduled", "live"} /\ CanAnswer
    /\ Answers(u, [invites[u] EXCEPT !.status = "accepted"])

DeclineGroupInvite(u) ==
    /\ room.kind = "scheduled" /\ invites[u].declines < 2 /\ CanAnswer
    /\ invites[u].declines < MaxDeclines
    /\ Answers(u, [invites[u] EXCEPT !.status = "declined", !.declines = @ + 1])

Reinvite(u) ==
    /\ room.status = "scheduled" /\ due = "ahead"
    /\ invites[u].status = "declined" /\ invites[u].declines < 2 /\ ~invites[u].again
    /\ Answers(u, [invites[u] EXCEPT !.status = "pending", !.again = TRUE])

UnacceptInvite(u) ==
    /\ invites[u].status = "accepted" /\ room.status = "scheduled" /\ ~RoomStarted /\ due = "ahead"
    /\ Answers(u, [invites[u] EXCEPT !.status = "pending"])

\* An edit names a new start, a new duration or both, for a start that has not come.
BeginUpdate(h, len, ahead) ==
    /\ room.status = "scheduled" /\ (ahead \/ due = "ahead")
    /\ Begin(h, [op |-> "update", len |-> len, ahead |-> ahead])
    /\ UNCHANGED <<room, due, invites, socket, taskVars>>

(* faulty: the whole row is saved, with the status that was read.          *)
EditedWhole(len) == [room EXCEPT !.status = "scheduled", !.len = IF len = Kept THEN @ ELSE len]

Edited(len) == [room EXCEPT !.len = IF len = Kept THEN @ ELSE len]

\* The columns are saved, whatever has happened to the room.
UpdateGroupSession(h) ==
    /\ desk[h].op = "update"
    /\ room' = Edited(desk[h].len)
    /\ due' = IF desk[h].ahead /\ ~RoomStarted THEN "ahead" ELSE due
    /\ agreed' = IF Live THEN Later(agreed, Deadline') ELSE agreed
    /\ raised' = IF Live /\ Deadline' > Deadline THEN raised + 1 ELSE raised
    /\ Leave(h)
    /\ UNCHANGED <<invites, socket, cutoffs, lost>>

-----------------------------------------------------------------------------
(* join_group_session.                                                     *)

RowsRest == UNCHANGED <<due, invites>>

BeginJoin(h, u) ==
    /\ MayTalk(u)
    /\ \/ Live
       \/ /\ room.status = "scheduled" /\ u = Host
          /\ \E v \in Invited : invites[v].status = "accepted"
    /\ Begin(h, [op |-> "join", saw |-> room.status, over |-> Live /\ room.clock >= Deadline])
    /\ UNCHANGED <<room, socket, taskVars>> /\ RowsRest

Opened == [room EXCEPT !.status = "live", !.clock = 0, !.conns = 0, !.left = "no"]

(* faulty: the status is not looked at again.                              *)
StartRoomAnyway(h) ==
    /\ desk[h].op = "join" /\ desk[h].saw = "scheduled"
    /\ room' = Opened /\ due' = "come" /\ Queue(room.len)
    /\ desk' = [desk EXCEPT ![h].saw = "live"]
    /\ UNCHANGED <<invites, socket>>

\* The row is locked and read again; only the first start opens the room.
StartRoom(h) ==
    /\ desk[h].op = "join" /\ desk[h].saw = "scheduled"
    /\ IF room.status = "scheduled"
       THEN room' = Opened /\ due' = "come" /\ Queue(room.len)
       ELSE UNCHANGED <<room, due, taskVars>>
    /\ desk' = [desk EXCEPT ![h].saw = IF room.status = "scheduled" THEN "live" ELSE room.status]
    /\ UNCHANGED <<invites, socket>>

\* _end_group_session_internal, for a row that was live when it was read.
EndedInternally == room' = [room EXCEPT !.status = "completed"]

\* A room whose time was up when the row was read is ended by whoever comes; otherwise
\* the caller gets a token.  The row in hand may be old.
Enter(h) ==
    /\ desk[h].op = "join" /\ desk[h].saw # "scheduled"
    /\ IF desk[h].over /\ desk[h].saw = "live" THEN EndedInternally ELSE UNCHANGED room
    /\ Leave(h)
    /\ UNCHANGED <<socket, taskVars>> /\ RowsRest

-----------------------------------------------------------------------------
(* The host's other handlers.                                              *)

BeginHost(h, op) ==
    /\ \/ op = "end" /\ room.status \notin Over
       \/ op = "cancel" /\ room.status = "scheduled" /\ ~RoomStarted
    /\ Begin(h, [op |-> op])
    /\ UNCHANGED <<room, socket, taskVars>> /\ RowsRest

BeginExtend(h) ==
    /\ Live /\ room.kind = "scheduled" /\ room.used < Extensions
    /\ Begin(h, [op |-> "extend", used |-> room.used, len |-> room.len])
    /\ UNCHANGED <<room, socket, taskVars>> /\ RowsRest

EndGroupSession(h) ==
    /\ desk[h].op = "end"
    /\ room' = [room EXCEPT !.status = "completed", !.conns = 0, !.left = "just"]
    /\ Leave(h)
    /\ UNCHANGED <<socket, taskVars>> /\ RowsRest

CancelGroupSession(h) ==
    /\ desk[h].op = "cancel"
    /\ room' = [room EXCEPT !.status = "cancelled"]
    /\ Leave(h)
    /\ UNCHANGED <<socket, taskVars>> /\ RowsRest

\* The new end counts from the row as it was read; it gets a task of its own.
ExtendGroupSession(h) ==
    /\ desk[h].op = "extend"
    /\ LET used == desk[h].used + 1
           cap == CapAfter(desk[h].len, used)
       IN  room' = [room EXCEPT !.used = used, !.cap = cap] /\ Queue(cap)
    /\ Leave(h)
    /\ UNCHANGED socket /\ RowsRest

-----------------------------------------------------------------------------
(* Sockets.  Who may talk may connect at any time; only a live room counts *)
(* them.                                                                   *)

Move(u, from, to) == socket[u] \in from /\ socket' = [socket EXCEPT ![u] = to]
OnlyRoom == UNCHANGED <<desk, taskVars>> /\ RowsRest
Out == IF Live THEN "gone" ELSE "away"

GroupConnect(u) ==
    /\ MayTalk(u) /\ u \in Callers[room.kind] /\ room.status \notin Over
    /\ Move(u, {"away", "gone"}, "in")
    /\ room' = IF Live THEN [room EXCEPT !.conns = @ + 1, !.left = "no"] ELSE room
    /\ OnlyRoom

(* faulty: the filter also spares the last connection.                     *)
DisconnectAboveOne(u) ==
    /\ Move(u, {"in"}, "reading")
    /\ room' = IF Live /\ room.conns > 1 THEN [room EXCEPT !.conns = @ - 1] ELSE room
    /\ OnlyRoom

\* disconnect: the count, the count read back, and the room marked if it is empty.
GroupDisconnect(u) ==
    /\ Move(u, {"in"}, "reading")
    /\ room' = IF Live THEN [room EXCEPT !.conns = @ - 1] ELSE room
    /\ OnlyRoom

(* faulty: only a count below zero shows an empty room.                    *)
AfterReadingBelow(count) == IF count < 0 THEN "clamping" ELSE Out

AfterReading(count) == IF count < 0 THEN "clamping" ELSE IF count = 0 THEN "marking" ELSE Out

ReadBack(u) ==
    /\ Move(u, {"reading"}, AfterReading(room.conns))
    /\ UNCHANGED room /\ OnlyRoom

\* The one write that does not ask whether the room is live.
Clamp(u) ==
    /\ Move(u, {"clamping"}, "marking")
    /\ room' = [room EXCEPT !.conns = 0]
    /\ OnlyRoom

MarkAllLeft(u) ==
    /\ Move(u, {"marking"}, Out)
    /\ room' = IF Live THEN [room EXCEPT !.conns = 0, !.left = "just"] ELSE room
    /\ OnlyRoom

Depart(u) == ReadBack(u) \/ Clamp(u) \/ MarkAllLeft(u)

-----------------------------------------------------------------------------
(* hard_expire_group_session.                                              *)

(* faulty: a task that comes early is dropped.                             *)
NeverRetried(t) == {}

\* A task that comes early goes back to the queue, but not for ever.
Retried(t) ==
    IF t.tries < Retries THEN {[eta |-> Deadline, tries |-> t.tries + 1]} ELSE {}

HardExpire(t) ==
    /\ t \in cutoffs /\ RoomStarted /\ room.clock >= t.eta /\ desk["worker"] = DeskIdle
    /\ cutoffs' = IF Live /\ room.clock < Deadline THEN (cutoffs \ {t}) \cup Retried(t) ELSE cutoffs \ {t}
    /\ desk' = IF Live /\ room.clock >= Deadline THEN [desk EXCEPT !["worker"] = [op |-> "expire"]] ELSE desk
    /\ UNCHANGED <<room, socket, lost, agreed, raised>> /\ RowsRest

-----------------------------------------------------------------------------
(* cleanup_expired_sessions: each pass reads its rows, then writes them.   *)

(* faulty: only a counter below zero counts as empty.                      *)
AllLeftBelowZero == Live /\ room.left = "long" /\ room.conns < 0

AllLeft == Live /\ room.left = "long" /\ room.conns <= 0

(* faulty: no safety net for the duration.                                 *)
NothingOutlasted == FALSE

\* The safety net of the duration; it does not know of extensions.
Outlasted == Live /\ room.clock >= room.len

(* faulty: a session that nobody opened stays.                             *)
NothingMissed == FALSE

Missed == room.status = "scheduled" /\ ~RoomStarted /\ due = "missed"

Cleanup ==
    /\ \/ (AllLeft \/ Outlasted) /\ Take("cron", [op |-> "expire"])
       \/ Missed /\ Take("cron", [op |-> "unattended"])
    /\ UNCHANGED <<room, socket, taskVars>> /\ RowsRest

Expire(h) ==
    /\ desk[h].op = "expire"
    /\ EndedInternally
    /\ Leave(h)
    /\ UNCHANGED <<socket, taskVars>> /\ RowsRest

MarkUnattended ==
    /\ desk["cron"].op = "unattended"
    /\ room' = [room EXCEPT !.status = "expired"]
    /\ Leave("cron")
    /\ UNCHANGED <<socket, taskVars>> /\ RowsRest

-----------------------------------------------------------------------------
\* The grace of a room that all have left runs out.
GraceRuns == Live /\ room.left = "just" /\ room' = [room EXCEPT !.left = "long"] /\ UNCHANGED due

TimePasses ==
    /\ \/ GraceRuns
       \/ Live /\ room.clock < Horizon /\ room' = [room EXCEPT !.clock = @ + 1] /\ UNCHANGED due
       \/ room.status = "scheduled" /\ due = "ahead" /\ due' = "come" /\ UNCHANGED room
       \/ room.status = "scheduled" /\ due = "come" /\ due' = "missed" /\ UNCHANGED room
    /\ UNCHANGED <<invites, socket, desk, taskVars>>

Finish(h) ==
    \/ UpdateGroupSession(h) \/ StartRoom(h) \/ Enter(h) \/ EndGroupSession(h)
    \/ CancelGroupSession(h) \/ ExtendGroupSession(h) \/ Expire(h)

GroupNext ==
    \/ \E u \in Invited : AcceptGroupInvite(u) \/ DeclineGroupInvite(u) \/ Reinvite(u) \/ UnacceptInvite(u)
    \/ \E h \in Desks :
           \/ \E edit \in Edits : BeginUpdate(h, edit[1], edit[2])
           \/ \E u \in Comers : BeginJoin(h, u)
           \/ \E op \in {"end", "cancel"} : BeginHost(h, op)
           \/ BeginExtend(h)
    \/ \E h \in Hands : Finish(h)
    \/ \E u \in Comers : GroupConnect(u) \/ GroupDisconnect(u) \/ Depart(u)
    \/ \E t \in cutoffs : HardExpire(t)
    \/ Cleanup \/ MarkUnattended
    \/ TimePasses

\* Cron starts the command every three minutes, the clock runs, and whoever has read
\* a row or begun to leave goes on.  Nobody is made to come, leave or press a button,
\* and no task has to be delivered.
GroupFairness ==
    /\ WF_groupVars(Cleanup) /\ WF_groupVars(MarkUnattended)
    /\ WF_groupVars(GraceRuns /\ TimePasses)
    /\ \A h \in Hands : WF_groupVars(Finish(h))
    /\ \A u \in Comers : WF_groupVars(Depart(u))

GroupSpec == GroupInit /\ [][GroupNext]_groupVars
FairGroupSpec == GroupSpec /\ GroupFairness

-----------------------------------------------------------------------------
(* Properties.                                                             *)

\* Once over, always over: no handler that read the row before brings the room
\* back (group_session_views.py:1245).
NeverReopened == [][room.status \in Over => room'.status \in Over]_groupVars

\* As long as the broker loses nothing, a live room has a task that will end it by the
\* end that was last agreed, or the worker is at it.  Tasks that come early, stale
\* extensions and retries never leave it without; edits saved after the start may
\* shorten it, and may lengthen it as often as a task is retried.
CutoffStands ==
    Live /\ lost = 0 /\ raised <= Retries =>
        \/ \E t \in cutoffs : t.eta <= agreed
        \/ desk["worker"].op = "expire"

\* The count never exceeds the sockets that hold one: however departures, clamps and
\* marks cross arrivals, an empty room does not look occupied.
Present == {u \in Comers : socket[u] = "in"}
CountIsCovered == Live => room.conns <= Cardinality(Present)

\* A live room that everybody has left is marked: no crossing of the last departures
\* with an arrival loses all_left_at, without which nothing ends the room early.
EmptyGroupIsNoticed ==
    /\ Live /\ \A u \in Comers : socket[u] \in {"away", "gone"}
    /\ \E u \in Comers : socket[u] = "gone"
    => room.left # "no"

\* A room whose time is up is ended and a session nobody opened in six hours is
\* closed, whatever the broker loses, unless an edit or an extension moves their time.
Overstayed ==
    \/ Live /\ room.clock >= Deadline
    \/ room.status = "scheduled" /\ due = "missed"
OverstayedRoomEnds == Overstayed ~> ~Overstayed

\* So is one that all have left, unless somebody returns.
Deserted == Live /\ Present = {} /\ \E u \in Comers : socket[u] # "away"
DesertedGroupEnds == Deserted ~> (~Live \/ Present # {})

\* The time the host has added is granted: the cleanup command picks no room that
\* is in use before its extended deadline (group_session_views.py:1431).
ExtensionHonoured ==
    [][desk'["cron"].op = "expire" /\ desk["cron"] = DeskIdle
           => AllLeft \/ room.clock >= Deadline]_groupVars

\* The state invariant: the row, the tasks that will end it and the sockets agree.
GroupInv == GroupTypeOK /\ CutoffStands /\ CountIsCovered /\ EmptyGroupIsNoticed

\* A room that is overdue or deserted and a session nobody opened do not stay,
\* whatever tasks the broker loses.
GroupRoomsEnd == OverstayedRoomEnds /\ DesertedGroupEnds
=============================================================================
