---------------------------- MODULE PrivateRoom -----------------------------
(***************************************************************************)
(* The live room of a private session (sessions_app/consumers.py,          *)
(* PrivateSessionChatConsumer): chat sockets that count themselves in the  *)
(* session row, the five-minute timer that ends an empty room, and the     *)
(* cleanup command of cron that ends it when the timer was lost.  It       *)
(* composes with PrivateSession: the counters are columns of the same row  *)
(* that the handlers there save whole.                                     *)
(*                                                                         *)
(* Each database call of a consumer is a step of its own: they run in a    *)
(* thread pool while the event loop serves other sockets, and the workers  *)
(* share nothing but the row.  A worker keeps the map _expire_tasks, so it *)
(* can cancel only its own timers.                                         *)
(*                                                                         *)
(* Abstractions.  all_left_at is the ticks since it was set, up to Grace.  *)
(* Each person has one socket at a time.                                   *)
(***************************************************************************)
EXTENDS PrivateSession

CONSTANTS
    Workers,   \* server processes (uvicorn --workers)
    Timers,    \* bound on the timer tasks that sleep or end at one time
    Cron       \* the cleanup command

ASSUME PrivateRoomAssumption ==
    /\ Background = Timers \cup {Cron} /\ Cron \notin Timers
    /\ Workers # {} /\ None \notin Workers /\ None \notin Timers

VARIABLES
    socket,    \* where each person's socket is, and on which worker
    timer,     \* worker and remaining ticks of each sleeping timer
    expire,    \* _expire_tasks[session_id] of each worker
    visited    \* somebody has been counted since the start

roomVars == <<socket, timer, expire, visited>>
vars == <<sessionVars, roomVars>>

(* Places of a socket: accepted by connect; counted in the row; in the     *)
(* room; then disconnecting: leaving (about to be uncounted), reading the  *)
(* count back, clamping it, marking the room empty, setting the timer.     *)
Departing == {"leaving", "reading", "clamping", "marking", "scheduling"}
Places == {"out", "accepted", "counted", "in"} \cup Departing
Out == [at |-> "out", worker |-> None]
Asleep == [worker : Workers, remaining : 0..Grace]

(* A null column is not a timer.                                           *)
ASSUME NoneIsNoTimer == None \notin Asleep

RoomTypeOK ==
    /\ TypeOK
    /\ socket \in [People -> [at : Places, worker : Workers \cup {None}]]
    /\ timer \in [Timers -> Asleep \cup {None}]
    /\ expire \in [Workers -> Timers \cup {None}]
    /\ visited \in BOOLEAN

(* The negotiation is over: PrivateSession checks it, and no socket sees   *)
(* any of it.                                                              *)
Agreed == {[NewSession(slot) EXCEPT !.status = "approved"] : slot \in Slots}

RoomInit ==
    /\ session \in Agreed
    /\ history = {}
    /\ invite = [p \in Invitees |-> "pending"]
    /\ chat = FALSE
    /\ call = {}
    /\ task = [t \in Tasks |-> Idle]
    /\ failures = 0
    /\ socket = [p \in People |-> Out]
    /\ timer = [t \in Timers |-> None]
    /\ expire = [w \in Workers |-> None]
    /\ visited = FALSE

(* The sockets that are connected, and those that may hold a count.        *)
Present == {p \in People : socket[p].at \in {"counted", "in"}}
Holders == Present \cup {p \in People : socket[p].at = "leaving"}

Move(p, from, to) ==
    /\ socket[p].at = from
    /\ socket' = [socket EXCEPT ![p] =
                     IF to = "out" THEN Out ELSE [@ EXCEPT !.at = to]]

(* A write of some columns of the row by a socket.                         *)
Update(row) ==
    /\ session' = row
    /\ UNCHANGED <<history, invite, chat, call, task, failures>>

-----------------------------------------------------------------------------
(* Connecting: the gate, the count, then the timer of this worker.         *)

Connect(p, w) ==
    /\ p \in MayConnect
    /\ socket[p].at = "out"
    /\ socket' = [socket EXCEPT ![p] = [at |-> "accepted", worker |-> w]]
    /\ UNCHANGED <<sessionVars, timer, expire, visited>>

(* The filter on the status makes the update miss a session that is not    *)
(* ongoing; the socket takes itself for counted all the same.              *)
IncrementConnections(p) ==
    /\ Move(p, "accepted", "counted")
    /\ IF session.status = "ongoing"
       THEN /\ Update([session EXCEPT !.conns = @ + 1, !.left = None])
            /\ visited' = TRUE
       ELSE UNCHANGED <<sessionVars, visited>>
    /\ UNCHANGED <<timer, expire>>

(* The popped timer is cancelled if it still sleeps.                       *)
CancelTimer(p) ==
    LET w == socket[p].worker IN
    /\ Move(p, "counted", "in")
    /\ timer' = [t \in Timers |-> IF t = expire[w] THEN None ELSE timer[t]]
    /\ expire' = [expire EXCEPT ![w] = None]
    /\ UNCHANGED <<sessionVars, visited>>

-----------------------------------------------------------------------------
(* Disconnecting: uncount, read back, mark the empty room, set a timer.    *)

Disconnect(p) ==
    /\ Move(p, "in", "leaving")
    /\ UNCHANGED <<sessionVars, timer, expire, visited>>

(* faulty: the filter also spares the last connection.                     *)
DecrementAboveOne(p) ==
    /\ Move(p, "leaving", "reading")
    /\ IF session.status = "ongoing" /\ session.conns > 1
       THEN Update([session EXCEPT !.conns = @ - 1])
       ELSE UNCHANGED sessionVars
    /\ UNCHANGED <<timer, expire, visited>>

DecrementConnections(p) ==
    /\ Move(p, "leaving", "reading")
    /\ IF session.status = "ongoing"
       THEN Update([session EXCEPT !.conns = @ - 1])
       ELSE UNCHANGED sessionVars
    /\ UNCHANGED <<timer, expire, visited>>

(* faulty: off by one, the room is empty only below zero.                  *)
AfterReadingBelow(count) == IF count < 0 THEN "clamping" ELSE "out"

(* What the socket does after it has read the count back.                  *)
AfterReading(count) ==
    IF count < 0 THEN "clamping" ELSE IF count = 0 THEN "marking" ELSE "out"

ReadBack(p) ==
    /\ Move(p, "reading", AfterReading(session.conns))
    /\ UNCHANGED <<sessionVars, timer, expire, visited>>

Clamp(p) ==
    /\ Move(p, "clamping", "marking")
    /\ Update([session EXCEPT !.conns = 0])
    /\ UNCHANGED <<timer, expire, visited>>

MarkAllLeft(p) ==
    /\ Move(p, "marking", "scheduling")
    /\ IF session.status = "ongoing"
       THEN Update([session EXCEPT !.left = 0, !.conns = 0])
       ELSE UNCHANGED sessionVars
    /\ UNCHANGED <<timer, expire, visited>>

(* The new timer takes the place of an older one in the map, which then    *)
(* nobody can cancel.                                                      *)
ScheduleExpiry(p, t) ==
    LET w == socket[p].worker IN
    /\ timer[t] = None /\ task[t] = Idle
    /\ Move(p, "scheduling", "out")
    /\ timer' = [timer EXCEPT ![t] = [worker |-> w, remaining |-> Grace]]
    /\ expire' = [expire EXCEPT ![w] = t]
    /\ UNCHANGED <<sessionVars, visited>>

-----------------------------------------------------------------------------
(* Ending an empty room.                                                   *)

(* faulty: off by one.                                                     *)
StillBelowZero == session.left # None /\ session.conns < 0

StillEmpty == session.left # None /\ session.conns <= 0

(* faulty: the timer leaves itself in the map.                             *)
TryAutoEndKeepsEntry(t) ==
    /\ timer[t] # None /\ timer[t].remaining = 0
    /\ timer' = [timer EXCEPT ![t] = None]
    /\ IF session.status = "ongoing" /\ StillEmpty
       THEN BeginEnd(t)
       ELSE UNCHANGED sessionVars
    /\ UNCHANGED <<socket, expire, visited>>

(* The timer forgets whatever timer the map of its worker holds, reads the *)
(* row and ends the session from that copy.                                *)
TryAutoEnd(t) ==
    /\ timer[t] # None /\ timer[t].remaining = 0
    /\ timer' = [timer EXCEPT ![t] = None]
    /\ expire' = [expire EXCEPT ![timer[t].worker] = None]
    /\ IF session.status = "ongoing" /\ StillEmpty
       THEN BeginEnd(t)
       ELSE UNCHANGED sessionVars
    /\ UNCHANGED <<socket, visited>>

(* faulty: the cutoff is never reached.                                    *)
CleanupBeyondGrace ==
    /\ StillEmpty /\ session.left > Grace
    /\ BeginEnd(Cron)
    /\ UNCHANGED roomVars

CleanupExpiredSessions ==
    /\ StillEmpty /\ session.left = Grace
    /\ BeginEnd(Cron)
    /\ UNCHANGED roomVars

-----------------------------------------------------------------------------
(* Time passes; a worker dies with its sockets, its timers and its map.    *)

Tick ==
    /\ session' = [session EXCEPT !.left =
                     IF @ = None \/ @ = Grace THEN @ ELSE @ + 1]
    /\ timer' = [t \in Timers |->
                   IF timer[t] = None \/ timer[t].remaining = 0 THEN timer[t]
                   ELSE [timer[t] EXCEPT !.remaining = @ - 1]]
    /\ <<session', timer'>> # <<session, timer>>
    /\ UNCHANGED <<history, invite, chat, call, task, failures,
                   socket, expire, visited>>

WorkerDies(w) ==
    /\ failures < MaxFailures
    /\ failures' = failures + 1
    /\ socket' = [p \in People |->
                    IF socket[p].worker = w THEN Out ELSE socket[p]]
    /\ timer' = [t \in Timers |->
                   IF timer[t] # None /\ timer[t].worker = w THEN None
                   ELSE timer[t]]
    /\ expire' = [expire EXCEPT ![w] = None]
    /\ UNCHANGED <<session, history, invite, chat, call, task, visited>>

(* The database steps of a departing socket.                               *)
Depart(p) ==
    \/ DecrementConnections(p) \/ ReadBack(p) \/ Clamp(p) \/ MarkAllLeft(p)
    \/ \E t \in Timers : ScheduleExpiry(p, t)

SocketStep(p) ==
    \/ \E w \in Workers : Connect(p, w)
    \/ IncrementConnections(p) \/ CancelTimer(p) \/ Disconnect(p) \/ Depart(p)

(* The handlers that read or write the row of an agreed session; the call  *)
(* and the chat stay out of it.                                            *)
Handler ==
    \/ \E t \in Requests : StartSession(t) \/ EndSession(t) \/ CancelSession(t)
    \/ \E t \in Tasks : Continue(t) \/ Die(t)

RoomNext ==
    \/ Handler /\ UNCHANGED roomVars
    \/ \E p \in People : SocketStep(p)
    \/ \E t \in Timers : TryAutoEnd(t)
    \/ CleanupExpiredSessions
    \/ Tick
    \/ \E w \in Workers : WorkerDies(w)

RoomSpec == RoomInit /\ [][RoomNext]_vars

(* Code that has started goes on, clocks run, a sleeping timer fires, and  *)
(* cron runs the cleanup every three minutes.  Nobody is made to connect,  *)
(* to leave, or to press a button.                                         *)
Fairness ==
    /\ WF_vars(Tick)
    /\ WF_vars(CleanupExpiredSessions)
    /\ \A t \in Tasks : WF_vars(Continue(t) /\ UNCHANGED roomVars)
    /\ \A t \in Timers : WF_vars(TryAutoEnd(t))
    /\ \A p \in People : WF_vars(IncrementConnections(p))
                         /\ WF_vars(CancelTimer(p)) /\ WF_vars(Depart(p))

FairRoomSpec == RoomSpec /\ Fairness

-----------------------------------------------------------------------------
(* Properties                                                              *)

(* The count never exceeds the sockets that may hold one: however the      *)
(* increments, decrements, clamps and resets interleave, a room whose      *)
(* sockets are gone cannot look occupied (consumers.py 149-196).           *)
CountIsCovered ==
    session.status = "ongoing" => session.conns <= Cardinality(Holders)

(* A room that has been used and that every socket has left is marked as   *)
(* left: no interleaving of the last departures with a new arrival loses   *)
(* all_left_at, without which neither the timer nor cron ends the room.    *)
EmptyRoomIsNoticed ==
    /\ session.status = "ongoing" /\ visited
    /\ \A p \in People : socket[p].at \in {"out", "accepted", "scheduling"}
    => session.left # None

(* A timer that _expire_tasks names still sleeps, on that worker: the map  *)
(* never keeps a timer that ended or was cancelled.                        *)
PendingSleeps ==
    \A w \in Workers :
        expire[w] # None => timer[expire[w]] # None
                            /\ timer[expire[w]].worker = w

(* As long as no process dies, a used room in which nobody stays is ended: *)
(* some departing socket marks it, and a timer or cron acts on the mark.   *)
Deserted == session.status = "ongoing" /\ visited /\ Present = {}
DesertedRoomEnds ==
    (Deserted /\ failures = 0)
        ~> (session.status # "ongoing" \/ Present # {} \/ failures > 0)

(* The safety net of cron: once a room is marked as left, it is ended even *)
(* if the worker that held its timer died ("edge cases where Daphne        *)
(* restarted and the in-memory asyncio timer was lost").                   *)
Marked == session.status = "ongoing" /\ StillEmpty /\ Present = {}
MarkedRoomEnds == Marked ~> (session.status # "ongoing" \/ Present # {})

(* However it was deserted, a room that nobody returns to is ended.        *)
EmptyRoomEnds == DesertedRoomEnds /\ MarkedRoomEnds
=============================================================================
