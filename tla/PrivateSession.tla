--------------------------- MODULE PrivateSession ---------------------------
(***************************************************************************)
(* One private tutoring session (sessions_app/views.py): the request, its  *)
(* negotiation, the start and the end, with the invitations, the chat and  *)
(* the people let into the call.                                           *)
(*                                                                         *)
(* No handler locks the row and none runs in a transaction: a handler      *)
(* reads the session, checks its status, changes its copy, and later saves *)
(* the WHOLE row.  A handler is therefore a task of several steps, and     *)
(* tasks interleave.  An ending goes on after the save: it deletes the     *)
(* chat and closes the call.  A task may also die between two of its steps *)
(* (a killed process, a lost database connection).                         *)
(*                                                                         *)
(* Abstractions.  A date and its time are one slot.  Of the chat only      *)
(* whether rows exist is kept.  LiveKit is the set of people let into the  *)
(* call: the token and the connection it buys are one step.  Notifications *)
(* and the free texts are left out.                                        *)
(***************************************************************************)
EXTENDS Integers, FiniteSets

CONSTANTS
    Requests,     \* the request handlers that may be under way
    Background,   \* the other tasks that end a session (timers, cron)
    Hosts,        \* the teacher and the student who asked
    Invitees,     \* the other students of a group request
    Slots,        \* dates with their times
    None,         \* a null column
    Grace,        \* five minutes, in ticks: AUTO_EXPIRE_DELAY = GRACE_PERIOD
    MaxFailures   \* bound on the processes that die

Tasks == Requests \cup Background
People == Hosts \cup Invitees

ASSUME PrivateSessionAssumption ==
    /\ Requests \cap Background = {} /\ Hosts \cap Invitees = {}
    /\ IsFiniteSet(People) /\ Slots # {}
    /\ None \notin Slots /\ None \notin Int
    /\ Grace \in Nat \ {0} /\ MaxFailures \in Nat

VARIABLES
    session,   \* the PrivateSession row
    history,   \* the slots of its SessionRescheduleHistory rows
    invite,    \* SessionParticipant.status of the invitees
    chat,      \* ChatMessage rows of the session exist
    call,      \* the people let into the LiveKit room
    task,      \* what each task still has to do, with the row it read
    failures   \* processes that died

sessionVars == <<session, history, invite, chat, call, task, failures>>

Statuses == {"pending", "approved", "declined", "needs_reconfirmation",
             "ongoing", "completed", "cancelled"}

Session == [status : Statuses, date : Slots, proposal : Slots \cup {None},
            room : BOOLEAN, conns : Int, left : 0..Grace \cup {None}]

(* The statuses in which either side may still call the session off.       *)
Cancellable == {"pending", "approved", "needs_reconfirmation"}

Idle == [step |-> "idle"]
Task == [step : {"record", "save", "purge", "close", "post"}, row : Session]

TypeOK ==
    /\ session \in Session
    /\ history \subseteq Slots
    /\ invite \in [Invitees -> {"pending", "accepted", "declined"}]
    /\ chat \in BOOLEAN
    /\ call \subseteq People
    /\ task \in [Tasks -> Task \cup {Idle}]
    /\ failures \in 0..MaxFailures

(* The requester's own participant row is never what admits the requester. *)
Answered(answers) == {p \in Invitees : invite[p] \in answers}
MayChat == Hosts \cup Answered({"accepted"})
MayConnect == Hosts \cup Answered({"accepted"})
MayJoin == Hosts \cup Answered({"accepted", "pending"})

NewSession(slot) ==
    [status |-> "pending", date |-> slot, proposal |-> None,
     room |-> FALSE, conns |-> 0, left |-> None]

Init ==
    /\ session \in {NewSession(slot) : slot \in Slots}
    /\ history = {}
    /\ invite = [p \in Invitees |-> "pending"]
    /\ chat = FALSE
    /\ call = {}
    /\ task = [t \in Tasks |-> Idle]
    /\ failures = 0

-----------------------------------------------------------------------------
(* The first half of a handler: read, check, change the copy.              *)

Begin(t, from, step, row) ==
    /\ task[t] = Idle
    /\ session.status \in from
    /\ task' = [task EXCEPT ![t] = [step |-> step, row |-> row]]
    /\ UNCHANGED <<session, history, invite, chat, call, failures>>

CancelSession(t) ==
    Begin(t, Cancellable, "save", [session EXCEPT !.status = "cancelled"])

TeacherCancelSession(t) ==
    Begin(t, Cancellable, "save", [session EXCEPT !.status = "cancelled"])

(* faulty: the proposal stays.                                            *)
ConfirmedKeepsProposal(row) ==
    [row EXCEPT !.status = "approved", !.date = row.proposal]

(* faulty: no history row.                                                 *)
NoRecord == "save"

(* The proposed slot becomes the slot of the session.                      *)
Confirmed(row) ==
    [row EXCEPT !.status = "approved", !.date = row.proposal, !.proposal = None]

ConfirmReschedule(t) ==
    Begin(t, {"needs_reconfirmation"}, "save", Confirmed(session))

DeclineReschedule(t) ==
    Begin(t, {"needs_reconfirmation"}, "save",
          [session EXCEPT !.status = "declined"])

(* The teacher may move the session while accepting it.                    *)
AcceptRequest(t) ==
    \E slot \in Slots :
        Begin(t, {"pending"}, "save",
              [session EXCEPT !.status = "approved", !.date = slot])

DeclineRequest(t) ==
    Begin(t, {"pending"}, "save", [session EXCEPT !.status = "declined"])

(* The history row is written before the session is saved.                 *)
FirstStepOfReschedule == "record"

RescheduleRequest(t) ==
    \E slot \in Slots :
        Begin(t, {"pending", "approved"}, FirstStepOfReschedule,
              [session EXCEPT !.status = "needs_reconfirmation",
                              !.proposal = slot])

Started(row) ==
    [row EXCEPT !.status = "ongoing", !.room = TRUE,
                !.conns = 0, !.left = None]

StartSession(t) == Begin(t, {"approved"}, "save", Started(session))

(* _end_session_internal checks the status of the copy it was handed.      *)
BeginEnd(t) ==
    Begin(t, {"ongoing"}, "save", [session EXCEPT !.status = "completed"])

EndSession(t) == BeginEnd(t)

SendChatMessage(t) ==
    /\ MayChat # {}
    /\ Begin(t, {"ongoing"}, "post", session)

-----------------------------------------------------------------------------
(* The rest of a handler.                                                  *)

RecordProposal(t) ==
    /\ task[t].step = "record"
    /\ history' = history \cup {task[t].row.proposal}
    /\ task' = [task EXCEPT ![t].step = "save"]
    /\ UNCHANGED <<session, invite, chat, call, failures>>

(* session.save() writes every column from the copy.                       *)
AfterSave(t) ==
    IF task[t].row.status = "completed"
    THEN [task[t] EXCEPT !.step = "purge"] ELSE Idle

Save(t) ==
    /\ task[t].step = "save"
    /\ session' = task[t].row
    /\ task' = [task EXCEPT ![t] = AfterSave(t)]
    /\ UNCHANGED <<history, invite, chat, call, failures>>

PurgeChat(t) ==
    /\ task[t].step = "purge"
    /\ chat' = FALSE
    /\ task' = [task EXCEPT ![t].step = "close"]
    /\ UNCHANGED <<session, history, invite, call, failures>>

(* Closing the room is best effort: an error is only logged.               *)
CloseRoom(t) ==
    /\ task[t].step = "close"
    /\ call' \in {{}, call}
    /\ task' = [task EXCEPT ![t] = Idle]
    /\ UNCHANGED <<session, history, invite, chat, failures>>

PostMessage(t) ==
    /\ task[t].step = "post"
    /\ chat' = TRUE
    /\ task' = [task EXCEPT ![t] = Idle]
    /\ UNCHANGED <<session, history, invite, call, failures>>

(* The process of the task dies before the task is finished.               *)
Die(t) ==
    /\ task[t] # Idle
    /\ failures < MaxFailures
    /\ failures' = failures + 1
    /\ task' = [task EXCEPT ![t] = Idle]
    /\ UNCHANGED <<session, history, invite, chat, call>>

-----------------------------------------------------------------------------
(* Invitations are answered whatever the status of the session.            *)

Answer(p, answer) ==
    /\ invite' = [invite EXCEPT ![p] = answer]
    /\ UNCHANGED <<session, history, chat, call, task, failures>>

AcceptInvite(p) == Answer(p, "accepted")
DeclineInvite(p) == Answer(p, "declined")

JoinPrivateSession(p) ==
    /\ p \in MayJoin
    /\ session.status = "ongoing"
    /\ session.room
    /\ call' = call \cup {p}
    /\ UNCHANGED <<session, history, invite, chat, task, failures>>

LeaveCall(p) ==
    /\ p \in call
    /\ call' = call \ {p}
    /\ UNCHANGED <<session, history, invite, chat, task, failures>>

Handle(t) ==
    \/ CancelSession(t) \/ TeacherCancelSession(t)
    \/ ConfirmReschedule(t) \/ DeclineReschedule(t)
    \/ AcceptRequest(t) \/ DeclineRequest(t) \/ RescheduleRequest(t)
    \/ StartSession(t) \/ EndSession(t) \/ SendChatMessage(t)

Continue(t) ==
    \/ RecordProposal(t) \/ Save(t) \/ PurgeChat(t) \/ CloseRoom(t)
    \/ PostMessage(t)

Next ==
    \/ \E t \in Requests : Handle(t)
    \/ \E t \in Tasks : Continue(t) \/ Die(t)
    \/ \E p \in Invitees : AcceptInvite(p) \/ DeclineInvite(p)
    \/ \E p \in People : JoinPrivateSession(p) \/ LeaveCall(p)

Spec == Init /\ [][Next]_sessionVars

-----------------------------------------------------------------------------
(* Properties                                                              *)

(* Every save writes one consistent row, whatever it overwrites: a session *)
(* that waits for the student names the slot it waits for, and one that    *)
(* went live has the room its call runs in (confirm_reschedule,            *)
(* reschedule_request, start_session, _end_session_internal).              *)
RowIsCoherent ==
    /\ session.status = "needs_reconfirmation" => session.proposal \in Slots
    /\ session.status \in {"ongoing", "completed"} => session.room
    /\ session.status = "approved" => session.proposal = None

(* reschedule_request writes the history row first: whatever dies or       *)
(* overwrites what, a proposal a student can see has its history row.      *)
ProposalIsRecorded == session.proposal # None => session.proposal \in history

Phase ==
    CASE session.status \in Cancellable -> "asked"
      [] session.status = "ongoing" -> "live"
      [] OTHER -> "over"

Lifecycle == INSTANCE SessionLifecycle WITH phase <- Phase

(* The detailed session keeps the promise of SessionLifecycle.  It holds   *)
(* when the handlers of one session do not overlap, and only then.         *)
LifecycleKept == Lifecycle!Spec
=============================================================================
