-------------------------- MODULE PrivateRoomProofs ------------------------
(***************************************************************************)
(* Theorems about PrivateSession and PrivateRoom, for every value of their *)
(* constants: first the handlers of the session (SessionInv), then the     *)
(* room with its sockets, counts and timers (IInv).                        *)
(***************************************************************************)
EXTENDS PrivateRoom, FiniteSetTheorems, TLAPS

(* A row that may be saved: RowIsCoherent of the row, and a request that   *)
(* still waits has no counter-proposal.                                    *)
Coherent(row) ==
    /\ row.status = "needs_reconfirmation" => row.proposal \in Slots
    /\ row.status \in {"ongoing", "completed"} => row.room
    /\ row.status \in {"approved", "pending"} => row.proposal = None

Recorded(row, slots) == row.proposal # None => row.proposal \in slots

(* What a task may still write is as good as what is stored: a coherent    *)
(* row whose proposal is in the history, or will be before it is saved.    *)
TaskOK(work, slots) ==
    /\ work.step \in {"record", "save"} => Coherent(work.row)
    /\ work.step = "save" => Recorded(work.row, slots)
    /\ work.step = "record" => work.row.proposal \in Slots

RowsOK == Coherent(session) /\ Recorded(session, history)
WorkInHandOK == \A t \in Tasks : TaskOK(task[t], history)
SessionInv == TypeOK /\ RowsOK /\ WorkInHandOK

LEMMA InitSessionInv == Init => SessionInv
PROOF
  <1> SUFFICES ASSUME Init PROVE SessionInv
    OBVIOUS
  <1>1. PICK slot \in Slots : session = NewSession(slot)
    BY DEF Init
  <1>2. session \in Session
    BY <1>1, PrivateSessionAssumption DEF NewSession, Session, Statuses
  <1>3. \A t \in Tasks : task[t] = Idle
    BY DEF Init
  <1>4. 0 \in 0..MaxFailures
    BY PrivateSessionAssumption
  <1>5. invite \in [Invitees -> {"pending", "accepted", "declined"}]
    BY DEF Init
  <1>6. task \in [Tasks -> Task \cup {Idle}]
    BY DEF Init
  <1>7. TypeOK
    BY <1>2, <1>4, <1>5, <1>6 DEF Init, TypeOK
  <1>8. RowsOK
    BY <1>1 DEF RowsOK, Coherent, Recorded, NewSession
  <1>9. WorkInHandOK
    BY <1>3 DEF WorkInHandOK, TaskOK, Idle
  <1> QED
    BY <1>7, <1>8, <1>9 DEF SessionInv

(* The first half of a handler stores nothing; its copy must be right.     *)
LEMMA BeginIInv ==
  ASSUME NEW t \in Tasks, NEW from, NEW step \in {"record", "save", "post"},
         NEW row \in Session, SessionInv, Begin(t, from, step, row),
         TaskOK([step |-> step, row |-> row], history)
  PROVE  SessionInv'
PROOF
  <1> DEFINE work == [step |-> step, row |-> row]
  <1>1. work \in Task
    BY DEF Task
  <1>2. task' = [task EXCEPT ![t] = work]
    BY DEF Begin
  <1>3. UNCHANGED <<session, history, invite, chat, call, failures>>
    BY DEF Begin
  <1>4. task \in [Tasks -> Task \cup {Idle}]
    BY DEF SessionInv, TypeOK
  <1>5. TaskOK(work, history)
    OBVIOUS
  <1> HIDE DEF work
  <1>6. TypeOK'
    BY <1>1, <1>2, <1>3, <1>4 DEF SessionInv, TypeOK
  <1>7. WorkInHandOK'
    <2> SUFFICES ASSUME NEW s \in Tasks PROVE TaskOK(task'[s], history')
      BY DEF WorkInHandOK
    <2>1. TaskOK(task[s], history)
      BY DEF SessionInv, WorkInHandOK
    <2>2. task'[s] = IF s = t THEN work ELSE task[s]
      BY <1>2, <1>4
    <2> QED
      BY <2>1, <2>2, <1>3, <1>5
  <1>8. RowsOK'
    BY <1>3 DEF SessionInv, RowsOK, Coherent, Recorded
  <1> QED
    BY <1>6, <1>7, <1>8 DEF SessionInv

(* A handler that only changes the status of its copy and gives it no      *)
(* proposal it did not have.                                               *)
LEMMA SaveIInv ==
  ASSUME NEW t \in Tasks, NEW from, NEW row \in Session, SessionInv,
         Begin(t, from, "save", row), Coherent(row),
         row.proposal \in {session.proposal, None}
  PROVE  SessionInv'
PROOF
  <1>1. Recorded(row, history)
    BY DEF SessionInv, RowsOK, Recorded
  <1>2. TaskOK([step |-> "save", row |-> row], history)
    BY <1>1 DEF TaskOK
  <1> QED
    BY <1>2, BeginIInv

LEMMA HandleIInv ==
  ASSUME NEW t \in Tasks, SessionInv, Handle(t)
  PROVE  SessionInv'
PROOF
  <1>1. session \in Session /\ Coherent(session)
    BY DEF SessionInv, TypeOK, RowsOK
  <1>2. CASE CancelSession(t) \/ TeacherCancelSession(t)
    <2> DEFINE row == [session EXCEPT !.status = "cancelled"]
    <2>1. row \in Session /\ Coherent(row) /\ row.proposal = session.proposal
      BY <1>1 DEF Session, Statuses, Coherent
    <2>2. Begin(t, Cancellable, "save", row)
      BY <1>2 DEF CancelSession, TeacherCancelSession
    <2> HIDE DEF row
    <2> QED
      BY <2>1, <2>2, SaveIInv
  <1>3. CASE ConfirmReschedule(t)
    <2> DEFINE row == Confirmed(session)
    <2>1. session.status = "needs_reconfirmation"
      BY <1>3 DEF ConfirmReschedule, Begin
    <2>2. row \in Session /\ Coherent(row) /\ row.proposal = None
      BY <1>1, <2>1 DEF Session, Statuses, Coherent, Confirmed
    <2>3. Begin(t, {"needs_reconfirmation"}, "save", row)
      BY <1>3 DEF ConfirmReschedule
    <2> HIDE DEF row
    <2> QED
      BY <2>2, <2>3, SaveIInv
  <1>4. CASE DeclineReschedule(t) \/ DeclineRequest(t)
    <2> DEFINE row == [session EXCEPT !.status = "declined"]
    <2>1. row \in Session /\ Coherent(row) /\ row.proposal = session.proposal
      BY <1>1 DEF Session, Statuses, Coherent
    <2>2. \E from : Begin(t, from, "save", row)
      BY <1>4 DEF DeclineReschedule, DeclineRequest
    <2> HIDE DEF row
    <2> QED
      BY <2>1, <2>2, SaveIInv
  <1>5. CASE AcceptRequest(t)
    <2>1. PICK slot \in Slots :
            Begin(t, {"pending"}, "save",
                  [session EXCEPT !.status = "approved", !.date = slot])
      BY <1>5 DEF AcceptRequest
    <2> DEFINE row == [session EXCEPT !.status = "approved", !.date = slot]
    <2>2. session.status = "pending"
      BY <2>1 DEF Begin
    <2>3. row \in Session /\ Coherent(row) /\ row.proposal = session.proposal
      BY <1>1, <2>2 DEF Session, Statuses, Coherent
    <2>4. Begin(t, {"pending"}, "save", row)
      BY <2>1
    <2> HIDE DEF row
    <2> QED
      BY <2>3, <2>4, SaveIInv
  <1>6. CASE RescheduleRequest(t)
    <2>1. PICK slot \in Slots :
            Begin(t, {"pending", "approved"}, "record",
                  [session EXCEPT !.status = "needs_reconfirmation", !.proposal = slot])
      BY <1>6 DEF RescheduleRequest, FirstStepOfReschedule
    <2> DEFINE row == [session EXCEPT !.status = "needs_reconfirmation", !.proposal = slot]
    <2>2. row \in Session /\ Coherent(row) /\ row.proposal \in Slots
      BY <1>1 DEF Session, Statuses, Coherent
    <2>3. TaskOK([step |-> "record", row |-> row], history)
      BY <2>2 DEF TaskOK
    <2>4. Begin(t, {"pending", "approved"}, "record", row)
      BY <2>1
    <2> HIDE DEF row
    <2> QED
      BY <2>2, <2>3, <2>4, BeginIInv
  <1>7. CASE StartSession(t)
    <2> DEFINE row == Started(session)
    <2>1. row \in Session
      <3> DEFINE opened == [session EXCEPT !.status = "ongoing", !.room = TRUE]
                 emptied == [opened EXCEPT !.conns = 0]
      <3>1. opened \in Session
        BY <1>1 DEF Session, Statuses
      <3>2. emptied \in [status : Statuses, date : Slots, proposal : Slots \cup {None},
                         room : BOOLEAN, conns : Int, left : 0..Grace \cup {None}]
        <4> HIDE DEF opened
        <4> QED
          BY <3>1 DEF Session
      <3>3. row = [emptied EXCEPT !.left = None]
        BY DEF Started
      <3> HIDE DEF opened, emptied, row
      <3> QED
        BY <3>2, <3>3 DEF Session
    <2>2. /\ row.status = "ongoing" /\ row.room = TRUE
          /\ row.proposal = session.proposal
      BY <1>1 DEF Session, Started
    <2>3. Begin(t, {"approved"}, "save", row)
      BY <1>7 DEF StartSession
    <2> HIDE DEF row
    <2>4. Coherent(row)
      BY <2>2 DEF Coherent
    <2> QED
      BY <2>1, <2>2, <2>3, <2>4, SaveIInv
  <1>8. CASE EndSession(t)
    <2> DEFINE row == [session EXCEPT !.status = "completed"]
    <2>1. Begin(t, {"ongoing"}, "save", row)
      BY <1>8 DEF EndSession, BeginEnd
    <2>2. session.status = "ongoing"
      BY <2>1 DEF Begin
    <2>3. row \in Session /\ Coherent(row) /\ row.proposal = session.proposal
      BY <1>1, <2>2 DEF Session, Statuses, Coherent
    <2> HIDE DEF row
    <2> QED
      BY <2>1, <2>3, SaveIInv
  <1>9. CASE SendChatMessage(t)
    <2>1. TaskOK([step |-> "post", row |-> session], history)
      BY DEF TaskOK
    <2> QED
      BY <1>1, <1>9, <2>1, BeginIInv DEF SendChatMessage
  <1> QED
    BY <1>2, <1>3, <1>4, <1>5, <1>6, <1>7, <1>8, <1>9 DEF Handle

-----------------------------------------------------------------------------
(* A task that only forgets, or goes on to a step that saves nothing.      *)
LEMMA TaskStepIInv ==
  ASSUME NEW t \in Tasks, NEW work \in Task \cup {Idle}, SessionInv,
         work.step \notin {"record", "save"},
         task' = [task EXCEPT ![t] = work],
         UNCHANGED <<session, history, invite>>,
         chat' \in BOOLEAN, call' \subseteq People, failures' \in 0..MaxFailures
  PROVE  SessionInv'
PROOF
  <1>1. task \in [Tasks -> Task \cup {Idle}]
    BY DEF SessionInv, TypeOK
  <1>2. TypeOK'
    BY <1>1 DEF SessionInv, TypeOK
  <1>3. WorkInHandOK'
    <2> SUFFICES ASSUME NEW s \in Tasks PROVE TaskOK(task'[s], history')
      BY DEF WorkInHandOK
    <2>1. TaskOK(task[s], history)
      BY DEF SessionInv, WorkInHandOK
    <2>2. TaskOK(work, history)
      BY DEF TaskOK
    <2>3. task'[s] = IF s = t THEN work ELSE task[s]
      BY <1>1
    <2> QED
      BY <2>1, <2>2, <2>3
  <1>4. RowsOK'
    BY DEF SessionInv, RowsOK, Coherent, Recorded
  <1> QED
    BY <1>2, <1>3, <1>4 DEF SessionInv

LEMMA TaskType ==
  ASSUME NEW t \in Tasks, SessionInv, task[t] # Idle
  PROVE  task[t] \in Task
PROOF
  BY DEF SessionInv, TypeOK

LEMMA RecordIInv ==
  ASSUME NEW t \in Tasks, SessionInv, RecordProposal(t)
  PROVE  SessionInv'
PROOF
  <1> DEFINE row == task[t].row
             work == [task[t] EXCEPT !.step = "save"]
  <1>1. task[t].step = "record" /\ task[t] \in Task
    BY TaskType DEF RecordProposal, Idle
  <1>2. TaskOK(task[t], history)
    BY DEF SessionInv, WorkInHandOK
  <1>3. row \in Session /\ Coherent(row) /\ row.proposal \in Slots
    BY <1>1, <1>2 DEF TaskOK, Task
  <1>4. work \in Task /\ work.step = "save" /\ work.row = row
    BY <1>1 DEF Task
  <1>5. task' = [task EXCEPT ![t] = work] /\ history' = history \cup {row.proposal}
    BY DEF RecordProposal
  <1>6. UNCHANGED <<session, invite, chat, call, failures>>
    BY DEF RecordProposal
  <1> HIDE DEF row, work
  <1>7. task \in [Tasks -> Task \cup {Idle}]
    BY DEF SessionInv, TypeOK
  <1>8. TypeOK'
    BY <1>3, <1>4, <1>5, <1>6, <1>7 DEF SessionInv, TypeOK
  <1>9. WorkInHandOK'
    <2> SUFFICES ASSUME NEW s \in Tasks PROVE TaskOK(task'[s], history')
      BY DEF WorkInHandOK
    <2>1. TaskOK(task[s], history)
      BY DEF SessionInv, WorkInHandOK
    <2>2. TaskOK(work, history')
      BY <1>3, <1>4, <1>5 DEF TaskOK, Recorded
    <2>3. task'[s] = IF s = t THEN work ELSE task[s]
      BY <1>5, <1>7
    <2>4. TaskOK(task[s], history')
      BY <2>1, <1>5 DEF TaskOK, Recorded
    <2> QED
      BY <2>2, <2>3, <2>4
  <1>10. RowsOK'
    BY <1>5, <1>6 DEF SessionInv, RowsOK, Coherent, Recorded
  <1> QED
    BY <1>8, <1>9, <1>10 DEF SessionInv

LEMMA SaveStepIInv ==
  ASSUME NEW t \in Tasks, SessionInv, Save(t)
  PROVE  SessionInv'
PROOF
  <1> DEFINE row == task[t].row
             work == AfterSave(t)
  <1>1. task[t].step = "save" /\ task[t] \in Task
    BY TaskType DEF Save, Idle
  <1>2. row \in Session /\ Coherent(row) /\ Recorded(row, history)
    BY <1>1 DEF SessionInv, WorkInHandOK, TaskOK, Task
  <1>3. work \in Task \cup {Idle} /\ work.step \notin {"record", "save"}
    BY <1>1 DEF AfterSave, Task, Idle
  <1>4. /\ session' = row /\ task' = [task EXCEPT ![t] = work]
        /\ UNCHANGED <<history, invite, chat, call, failures>>
    BY DEF Save
  <1> HIDE DEF row, work
  <1>5. task \in [Tasks -> Task \cup {Idle}]
    BY DEF SessionInv, TypeOK
  <1>6. TypeOK'
    BY <1>2, <1>3, <1>4, <1>5 DEF SessionInv, TypeOK
  <1>7. WorkInHandOK'
    <2> SUFFICES ASSUME NEW s \in Tasks PROVE TaskOK(task'[s], history')
      BY DEF WorkInHandOK
    <2>1. TaskOK(task[s], history)
      BY DEF SessionInv, WorkInHandOK
    <2>2. TaskOK(work, history)
      BY <1>3 DEF TaskOK
    <2>3. task'[s] = IF s = t THEN work ELSE task[s]
      BY <1>4, <1>5
    <2> QED
      BY <2>1, <2>2, <2>3, <1>4
  <1>8. RowsOK'
    BY <1>2, <1>4 DEF RowsOK
  <1> QED
    BY <1>6, <1>7, <1>8 DEF SessionInv

LEMMA ContinueIInv ==
  ASSUME NEW t \in Tasks, SessionInv, Continue(t) \/ Die(t)
  PROVE  SessionInv'
PROOF
  <1>1. /\ chat \in BOOLEAN /\ call \subseteq People /\ failures \in 0..MaxFailures
        /\ Idle \in Task \cup {Idle} /\ Idle.step \notin {"record", "save"}
    BY DEF SessionInv, TypeOK, Idle
  <1>2. CASE PurgeChat(t)
    <2> DEFINE work == [task[t] EXCEPT !.step = "close"]
    <2>1. task[t] \in Task
      BY <1>2, TaskType DEF PurgeChat, Idle
    <2>2. work \in Task /\ work.step = "close"
      BY <2>1 DEF Task
    <2>3. task' = [task EXCEPT ![t] = work]
      BY <1>2 DEF PurgeChat
    <2> HIDE DEF work
    <2> QED
      BY <1>1, <1>2, <2>2, <2>3, TaskStepIInv DEF PurgeChat
  <1>3. CASE CloseRoom(t)
    BY <1>1, <1>3, TaskStepIInv DEF CloseRoom
  <1>4. CASE PostMessage(t)
    BY <1>1, <1>4, TaskStepIInv DEF PostMessage
  <1>5. CASE Die(t)
    <2>1. failures' \in 0..MaxFailures
      BY <1>1, <1>5, PrivateSessionAssumption DEF Die
    <2> QED
      BY <1>1, <1>5, <2>1, TaskStepIInv DEF Die
  <1> QED
    BY <1>2, <1>3, <1>4, <1>5, RecordIInv, SaveStepIInv DEF Continue

(* Answers, arrivals and departures touch neither the row nor a task.      *)
LEMMA PeopleIInv ==
  ASSUME SessionInv, NEW p \in People,
         \/ p \in Invitees /\ (AcceptInvite(p) \/ DeclineInvite(p))
         \/ JoinPrivateSession(p) \/ LeaveCall(p)
  PROVE  SessionInv'
PROOF
  <1>1. UNCHANGED <<session, history, chat, task, failures>>
    BY DEF AcceptInvite, DeclineInvite, Answer, JoinPrivateSession, LeaveCall
  <1>2. invite' \in [Invitees -> {"pending", "accepted", "declined"}] /\ call' \subseteq People
    BY DEF SessionInv, TypeOK, AcceptInvite, DeclineInvite, Answer, JoinPrivateSession, LeaveCall
  <1>3. TypeOK'
    BY <1>1, <1>2 DEF SessionInv, TypeOK
  <1>4. RowsOK' /\ WorkInHandOK'
    BY <1>1 DEF SessionInv, RowsOK, WorkInHandOK, TaskOK, Coherent, Recorded
  <1> QED
    BY <1>3, <1>4 DEF SessionInv

LEMMA SessionInductive == SessionInv /\ [Next]_sessionVars => SessionInv'
PROOF
  <1> SUFFICES ASSUME SessionInv, [Next]_sessionVars PROVE SessionInv'
    OBVIOUS
  <1>1. CASE UNCHANGED sessionVars
    BY <1>1 DEF sessionVars, SessionInv, TypeOK, RowsOK, WorkInHandOK, TaskOK, Coherent, Recorded
  <1>2. CASE \E t \in Requests : Handle(t)
    BY <1>2, HandleIInv DEF Tasks
  <1>3. CASE \E t \in Tasks : Continue(t) \/ Die(t)
    BY <1>3, ContinueIInv
  <1>4. CASE \E p \in Invitees : AcceptInvite(p) \/ DeclineInvite(p)
    BY <1>4, PeopleIInv DEF People
  <1>5. CASE \E p \in People : JoinPrivateSession(p) \/ LeaveCall(p)
    BY <1>5, PeopleIInv
  <1> QED
    BY <1>1, <1>2, <1>3, <1>4, <1>5 DEF Next

-----------------------------------------------------------------------------
(* The inductive invariant holds in every reachable state.                 *)
THEOREM SessionInvariance == Spec => []SessionInv
PROOF
  BY InitSessionInv, SessionInductive, PTL DEF Spec

(* The row, its history and what the handlers hold keep to their columns.  *)
THEOREM SessionTypeCorrect == Spec => []TypeOK
PROOF
  <1>1. SessionInv => TypeOK
    BY DEF SessionInv
  <1> QED
    BY <1>1, SessionInvariance, PTL

(* However many handlers overlap, and whichever of them die, every row     *)
(* that one of them leaves is a row some sequence of handlers could leave. *)
THEOREM RowsAreCoherent == Spec => []RowIsCoherent
PROOF
  <1>1. SessionInv => RowIsCoherent
    BY DEF SessionInv, RowsOK, Coherent, RowIsCoherent
  <1> QED
    BY <1>1, SessionInvariance, PTL

(* A proposal that a student can see has its history row, since the        *)
(* handler writes the history before the row and history only grows.       *)
THEOREM ProposalsAreRecorded == Spec => []ProposalIsRecorded
PROOF
  <1>1. SessionInv => ProposalIsRecorded
    BY DEF SessionInv, RowsOK, Recorded, ProposalIsRecorded
  <1> QED
    BY <1>1, SessionInvariance, PTL

-----------------------------------------------------------------------------
(* The room.                                                               *)

Socket == [at : Places, worker : Workers \cup {None}]

(* The places in which a socket may hold a count: the members of Holders.  *)
Holding == {"counted", "in", "leaving"}

(* A socket that is anywhere is on a worker.                               *)
SocketsOK == \A p \in People : socket[p].at # "out" => socket[p].worker \in Workers

(* No task can write a positive count into an ongoing row; nothing is      *)
(* rescheduled once the room is agreed.                                    *)
Harmless(row) == row.status = "ongoing" => row.conns <= 0
WorkOK(work) == /\ work.step # "record"
                /\ work.step = "save" => Harmless(work.row)
TasksOK == \A t \in Tasks : WorkOK(task[t])

CountOK == failures = 0 => CountIsCovered

IInv == RoomTypeOK /\ SocketsOK /\ TasksOK /\ PendingSleeps /\ CountOK

-----------------------------------------------------------------------------
(* The sockets.                                                            *)

LEMMA HoldersAre == Holders = {p \in People : socket[p].at \in Holding}
PROOF
  BY DEF Holders, Present, Holding

LEMMA HoldersFinite ==
  IsFiniteSet(Holders) /\ Cardinality(Holders) \in Nat
PROOF
  <1>1. IsFiniteSet(People) /\ Holders \subseteq People
    BY PrivateSessionAssumption, HoldersAre
  <1> QED
    BY <1>1, FS_Subset, FS_CardinalityType

LEMMA MoveSockets ==
  ASSUME NEW p \in People, NEW from, NEW to \in Places, from # "out",
         RoomTypeOK, SocketsOK, Move(p, from, to)
  PROVE  /\ socket' \in [People -> Socket]
         /\ SocketsOK'
         /\ socket[p].worker \in Workers
         /\ \A q \in People : socket'[q].at = IF q = p THEN to ELSE socket[q].at
PROOF
  <1> DEFINE new == IF to = "out" THEN Out ELSE [socket[p] EXCEPT !.at = to]
  <1>1. socket \in [People -> Socket]
    BY DEF RoomTypeOK, Socket
  <1>2. socket[p] \in Socket /\ socket[p].worker \in Workers
    BY <1>1 DEF Move, SocketsOK
  <1>3. new \in Socket /\ new.at = to /\ (to # "out" => new.worker \in Workers)
    BY <1>2 DEF Socket, Out, Places
  <1>4. socket' = [socket EXCEPT ![p] = new]
    BY DEF Move
  <1> HIDE DEF new
  <1>5. socket' \in [People -> Socket]
    BY <1>1, <1>3, <1>4
  <1>6. \A q \in People : socket'[q] = IF q = p THEN new ELSE socket[q]
    BY <1>1, <1>4
  <1> QED
    BY <1>2, <1>3, <1>5, <1>6 DEF SocketsOK

(* How a move changes the number of sockets that may hold a count.         *)
LEMMA MoveHolders ==
  ASSUME NEW p \in People, NEW from, NEW to \in Places, from # "out",
         RoomTypeOK, SocketsOK, Move(p, from, to)
  PROVE  Cardinality(Holders') =
           CASE from \in Holding /\ to \notin Holding -> Cardinality(Holders) - 1
             [] from \notin Holding /\ to \in Holding -> Cardinality(Holders) + 1
             [] OTHER -> Cardinality(Holders)
PROOF
  <1>1. \A q \in People : socket'[q].at = IF q = p THEN to ELSE socket[q].at
    BY MoveSockets
  <1>2. socket[p].at = from
    BY DEF Move
  <1>3. Holders' = {q \in People : socket'[q].at \in Holding}
    BY DEF Holders, Present, Holding
  <1>4. p \in Holders <=> from \in Holding
    BY <1>2, HoldersAre
  <1>5. CASE from \in Holding /\ to \notin Holding
    <2>1. Holders' = Holders \ {p}
      BY <1>1, <1>3, <1>5, HoldersAre
    <2>2. Cardinality(Holders \ {p}) = Cardinality(Holders) - 1
      BY <1>4, <1>5, HoldersFinite, FS_RemoveElement
    <2> QED
      BY <2>1, <2>2, <1>5
  <1>6. CASE from \notin Holding /\ to \in Holding
    <2>1. Holders' = Holders \cup {p}
      BY <1>1, <1>3, <1>6, HoldersAre
    <2>2. Cardinality(Holders \cup {p}) = Cardinality(Holders) + 1
      BY <1>4, <1>6, HoldersFinite, FS_AddElement
    <2> QED
      BY <2>1, <2>2, <1>6
  <1>7. CASE from \in Holding <=> to \in Holding
    <2>1. Holders' = Holders
      BY <1>1, <1>2, <1>3, <1>7, HoldersAre
    <2> QED
      BY <2>1, <1>7
  <1> QED
    BY <1>5, <1>6, <1>7

-----------------------------------------------------------------------------
(* The row.                                                                *)

LEMMA UpdateType ==
  ASSUME NEW row \in Session, TypeOK, Update(row)
  PROVE  TypeOK' /\ session' = row
PROOF
  BY DEF TypeOK, Update

LEMMA TasksKept ==
  ASSUME TasksOK, UNCHANGED task
  PROVE  TasksOK'
PROOF
  BY DEF TasksOK, WorkOK, Harmless

LEMMA RowTypes ==
  ASSUME TypeOK
  PROVE  session \in Session /\ session.conns \in Int
         /\ session.left \in 0..Grace \cup {None}
PROOF
  BY DEF TypeOK, Session

(* Rows with another count, or another mark of emptiness.                  *)
LEMMA CountedRow ==
  ASSUME TypeOK, NEW n \in Int
  PROVE  LET row == [session EXCEPT !.conns = n]
         IN  row \in Session /\ row.conns = n /\ row.status = session.status
PROOF
  BY RowTypes DEF Session

LEMMA MarkedRow ==
  ASSUME TypeOK, NEW n \in 0..Grace \cup {None}
  PROVE  LET row == [session EXCEPT !.left = n]
         IN  row \in Session /\ row.conns = session.conns /\ row.status = session.status
PROOF
  BY RowTypes DEF Session

LEMMA CountedMarkedRow ==
  ASSUME TypeOK, NEW n \in Int, NEW m \in 0..Grace \cup {None}
  PROVE  /\ LET row == [session EXCEPT !.conns = n, !.left = m]
            IN  row \in Session /\ row.conns = n /\ row.status = session.status
         /\ LET row == [session EXCEPT !.left = m, !.conns = n]
            IN  row \in Session /\ row.conns = n /\ row.status = session.status
PROOF
  <1> DEFINE counted == [session EXCEPT !.conns = n]
             marked == [session EXCEPT !.left = m]
  <1>1. counted \in Session /\ counted.conns = n /\ counted.status = session.status
    BY CountedRow
  <1>2. marked \in Session /\ marked.status = session.status
    BY MarkedRow
  <1>3. [session EXCEPT !.conns = n, !.left = m] = [counted EXCEPT !.left = m]
    OBVIOUS
  <1>4. [session EXCEPT !.left = m, !.conns = n] = [marked EXCEPT !.conns = n]
    OBVIOUS
  <1> HIDE DEF counted, marked
  <1>5. LET row == [counted EXCEPT !.left = m]
        IN  row \in Session /\ row.conns = n /\ row.status = session.status
    BY <1>1 DEF Session
  <1>6. LET row == [marked EXCEPT !.conns = n]
        IN  row \in Session /\ row.conns = n /\ row.status = session.status
    BY <1>2 DEF Session
  <1> QED
    BY <1>3, <1>4, <1>5, <1>6

-----------------------------------------------------------------------------
(* The handlers, the timers' endings and cron work on tasks.               *)

LEMMA BeginTasks ==
  ASSUME NEW t \in Tasks, NEW from, NEW row \in Session, TypeOK, TasksOK,
         Harmless(row), Begin(t, from, "save", row)
  PROVE  TypeOK' /\ TasksOK' /\ UNCHANGED <<session, failures>>
PROOF
  <1> DEFINE work == [step |-> "save", row |-> row]
  <1>1. work \in Task /\ WorkOK(work)
    BY DEF Task, WorkOK
  <1>2. /\ task' = [task EXCEPT ![t] = work]
        /\ UNCHANGED <<session, history, invite, chat, call, failures>>
    BY DEF Begin
  <1> HIDE DEF work
  <1>3. task \in [Tasks -> Task \cup {Idle}]
    BY DEF TypeOK
  <1>4. TypeOK'
    BY <1>1, <1>2, <1>3 DEF TypeOK
  <1>5. TasksOK'
    <2> SUFFICES ASSUME NEW s \in Tasks PROVE WorkOK(task'[s])
      BY DEF TasksOK
    <2>1. task'[s] = IF s = t THEN work ELSE task[s]
      BY <1>2, <1>3
    <2> QED
      BY <2>1, <1>1 DEF TasksOK
  <1> QED
    BY <1>2, <1>4, <1>5

LEMMA EndTasks ==
  ASSUME NEW t \in Tasks, TypeOK, TasksOK, BeginEnd(t)
  PROVE  TypeOK' /\ TasksOK' /\ UNCHANGED <<session, failures>>
PROOF
  <1> DEFINE row == [session EXCEPT !.status = "completed"]
  <1>1. row \in Session /\ row.status = "completed"
    BY RowTypes DEF Session, Statuses
  <1>2. Begin(t, {"ongoing"}, "save", row)
    BY DEF BeginEnd
  <1> HIDE DEF row
  <1> QED
    BY <1>1, <1>2, BeginTasks DEF Harmless

LEMMA StartTasks ==
  ASSUME NEW t \in Tasks, TypeOK, TasksOK, StartSession(t)
  PROVE  TypeOK' /\ TasksOK' /\ UNCHANGED <<session, failures>>
PROOF
  <1> DEFINE empty == [session EXCEPT !.conns = 0, !.left = None]
             row == [empty EXCEPT !.status = "ongoing", !.room = TRUE]
  <1>1. empty \in Session /\ empty.conns = 0
    <2>1. 0 \in Int /\ None \in 0..Grace \cup {None}
      OBVIOUS
    <2> QED
      BY <2>1, CountedMarkedRow, Zenon
  <1>2. Started(session) = row
    BY RowTypes DEF Started, Session
  <1>3. Begin(t, {"approved"}, "save", Started(session))
    BY DEF StartSession
  <1> HIDE DEF empty
  <1>4. row \in Session /\ row.conns = 0
    BY <1>1 DEF Session, Statuses
  <1> HIDE DEF row
  <1> QED
    BY <1>2, <1>3, <1>4, BeginTasks DEF Harmless

LEMMA CancelTasks ==
  ASSUME NEW t \in Tasks, TypeOK, TasksOK, CancelSession(t)
  PROVE  TypeOK' /\ TasksOK' /\ UNCHANGED <<session, failures>>
PROOF
  <1> DEFINE row == [session EXCEPT !.status = "cancelled"]
  <1>1. row \in Session /\ row.status = "cancelled"
    BY RowTypes DEF Session, Statuses
  <1>2. Begin(t, Cancellable, "save", row)
    BY DEF CancelSession
  <1> HIDE DEF row
  <1> QED
    BY <1>1, <1>2, BeginTasks DEF Harmless

(* A later step of a task: if it writes the row, the row is harmless.      *)
LEMMA ContinueTasks ==
  ASSUME NEW t \in Tasks, TypeOK, TasksOK, Continue(t) \/ Die(t)
  PROVE  /\ TypeOK' /\ TasksOK'
         /\ failures' = 0 => failures = 0
         /\ session' = session \/ Harmless(session')
PROOF
  <1>1. /\ task \in [Tasks -> Task \cup {Idle}] /\ WorkOK(task[t])
        /\ Idle \in Task \cup {Idle} /\ WorkOK(Idle)
        /\ failures \in 0..MaxFailures
    BY DEF TypeOK, TasksOK, WorkOK, Idle
  <1>2. ASSUME NEW work \in Task \cup {Idle}, WorkOK(work), task' = [task EXCEPT ![t] = work]
        PROVE  task' \in [Tasks -> Task \cup {Idle}] /\ TasksOK'
    <2>1. \A s \in Tasks : task'[s] = IF s = t THEN work ELSE task[s]
      BY <1>1, <1>2
    <2> QED
      BY <1>1, <1>2, <2>1 DEF TasksOK
  <1>3. CASE RecordProposal(t)
    BY <1>1, <1>3 DEF RecordProposal, WorkOK
  <1>4. CASE Save(t)
    <2> DEFINE work == AfterSave(t)
    <2>1. task[t].step = "save" /\ task[t] \in Task
      BY <1>1, <1>4 DEF Save, Idle
    <2>2. work \in Task \cup {Idle} /\ work.step \notin {"record", "save"}
      BY <2>1 DEF AfterSave, Task, Idle
    <2>3. /\ session' = task[t].row /\ task' = [task EXCEPT ![t] = work]
          /\ UNCHANGED <<history, invite, chat, call, failures>>
      BY <1>4 DEF Save
    <2> HIDE DEF work
    <2>4. WorkOK(work)
      BY <2>2 DEF WorkOK
    <2>5. task' \in [Tasks -> Task \cup {Idle}] /\ TasksOK'
      BY <1>2, <2>2, <2>3, <2>4
    <2>6. session' \in Session /\ Harmless(session')
      BY <1>1, <2>1, <2>3 DEF WorkOK, Task
    <2> QED
      BY <2>3, <2>5, <2>6 DEF TypeOK
  <1>5. CASE PurgeChat(t)
    <2> DEFINE work == [task[t] EXCEPT !.step = "close"]
    <2>1. task[t] \in Task
      BY <1>1, <1>5 DEF PurgeChat, Idle
    <2>2. work \in Task \cup {Idle} /\ work.step = "close"
      BY <2>1 DEF Task
    <2>3. /\ task' = [task EXCEPT ![t] = work] /\ chat' = FALSE
          /\ UNCHANGED <<session, history, invite, call, failures>>
      BY <1>5 DEF PurgeChat
    <2> HIDE DEF work
    <2>4. WorkOK(work)
      BY <2>2 DEF WorkOK
    <2>5. task' \in [Tasks -> Task \cup {Idle}] /\ TasksOK'
      BY <1>2, <2>2, <2>3, <2>4
    <2> QED
      BY <2>3, <2>5 DEF TypeOK
  <1>6. CASE CloseRoom(t) \/ PostMessage(t) \/ Die(t)
    <2>1. /\ task' = [task EXCEPT ![t] = Idle] /\ UNCHANGED <<session, history, invite>>
          /\ chat' \in BOOLEAN /\ call' \subseteq People
      BY <1>6 DEF CloseRoom, PostMessage, Die, TypeOK
    <2>2. failures' \in 0..MaxFailures /\ (failures' = 0 => failures = 0)
      BY <1>1, <1>6, PrivateSessionAssumption DEF CloseRoom, PostMessage, Die
    <2>3. task' \in [Tasks -> Task \cup {Idle}] /\ TasksOK'
      BY <1>1, <1>2, <2>1
    <2> QED
      BY <2>1, <2>2, <2>3 DEF TypeOK
  <1> QED
    BY <1>3, <1>4, <1>5, <1>6 DEF Continue

-----------------------------------------------------------------------------
(* Room steps.                                                             *)

RoomRest == timer \in [Timers -> Asleep \cup {None}] /\ expire \in [Workers -> Timers \cup {None}]
            /\ visited \in BOOLEAN

LEMMA IInvParts ==
  IInv <=> /\ TypeOK /\ socket \in [People -> Socket] /\ RoomRest
           /\ SocketsOK /\ TasksOK /\ PendingSleeps /\ CountOK
PROOF
  BY DEF IInv, RoomTypeOK, RoomRest, Socket

(* Sockets that move while the number that may hold a count, the row and   *)
(* the timers stay.                                                        *)
LEMMA PlainMove ==
  ASSUME NEW p \in People, NEW from, NEW to \in Places, from # "out", IInv,
         Move(p, from, to), from \in Holding <=> to \in Holding,
         UNCHANGED <<sessionVars, visited>>, RoomRest', PendingSleeps'
  PROVE  IInv'
PROOF
  <1>1. socket' \in [People -> Socket] /\ SocketsOK'
    BY MoveSockets DEF IInv
  <1>2. Cardinality(Holders') = Cardinality(Holders)
    BY MoveHolders DEF IInv
  <1>3. TypeOK' /\ TasksOK'
    BY TasksKept DEF IInv, RoomTypeOK, TypeOK, sessionVars
  <1>4. CountOK'
    BY <1>2 DEF IInv, CountOK, CountIsCovered, sessionVars
  <1>5. (TypeOK /\ socket \in [People -> Socket] /\ RoomRest
           /\ SocketsOK /\ TasksOK /\ PendingSleeps /\ CountOK)'
    BY <1>1, <1>3, <1>4
  <1> QED
    BY <1>5 DEF IInv, RoomTypeOK, RoomRest, Socket

(* Sockets that move and write the row, whose timers stay.                 *)
LEMMA CountingMove ==
  ASSUME NEW p \in People, NEW from, NEW to \in Places, from # "out", IInv,
         Move(p, from, to), NEW row \in Session, row.status = session.status,
         session' = row, UNCHANGED <<history, invite, chat, call, task, failures>>,
         UNCHANGED <<timer, expire>>, visited' \in BOOLEAN,
         failures = 0 /\ row.status = "ongoing" => row.conns <= Cardinality(Holders')
  PROVE  IInv'
PROOF
  <1>1. socket' \in [People -> Socket] /\ SocketsOK'
    BY MoveSockets DEF IInv
  <1>2. TypeOK' /\ TasksOK'
    BY UpdateType, TasksKept DEF IInv, RoomTypeOK, Update
  <1>3. RoomRest' /\ PendingSleeps'
    BY DEF IInv, RoomTypeOK, RoomRest, PendingSleeps
  <1>4. CountOK'
    BY DEF CountOK, CountIsCovered
  <1> QED
    BY <1>1, <1>2, <1>3, <1>4 DEF IInv, RoomTypeOK, RoomRest, Socket

LEMMA ConnectIInv ==
  ASSUME NEW p \in People, NEW w \in Workers, IInv, Connect(p, w)
  PROVE  IInv'
PROOF
  <1> DEFINE new == [at |-> "accepted", worker |-> w]
  <1>1. new \in Socket /\ new.at = "accepted" /\ new.worker = w
    BY DEF Socket, Places
  <1>2. /\ socket' = [socket EXCEPT ![p] = new] /\ socket[p].at = "out"
        /\ UNCHANGED <<sessionVars, timer, expire, visited>>
    BY DEF Connect
  <1> HIDE DEF new
  <1>3. socket \in [People -> Socket]
    BY DEF IInv, RoomTypeOK, Socket
  <1>4. \A q \in People : socket'[q] = IF q = p THEN new ELSE socket[q]
    BY <1>2, <1>3
  <1>5. socket' \in [People -> Socket] /\ SocketsOK'
    BY <1>1, <1>2, <1>3, <1>4 DEF IInv, SocketsOK
  <1>6. Holders' = Holders
    <2>1. Holders' = {q \in People : socket'[q].at \in Holding}
      BY DEF Holders, Present, Holding
    <2>2. \A q \in People : socket'[q].at \in Holding <=> socket[q].at \in Holding
      BY <1>1, <1>2, <1>4 DEF Holding
    <2> QED
      BY <2>1, <2>2, HoldersAre
  <1>7. TypeOK' /\ TasksOK' /\ RoomRest' /\ PendingSleeps'
    BY <1>2, TasksKept DEF IInv, RoomTypeOK, TypeOK, RoomRest, PendingSleeps, sessionVars
  <1>8. CountOK'
    BY <1>2, <1>6 DEF IInv, CountOK, CountIsCovered, sessionVars
  <1> QED
    BY <1>5, <1>7, <1>8 DEF IInv, RoomTypeOK, RoomRest, Socket

LEMMA IncrementIInv ==
  ASSUME NEW p \in People, IInv, IncrementConnections(p)
  PROVE  IInv'
PROOF
  <1>1. Move(p, "accepted", "counted") /\ UNCHANGED <<timer, expire>>
    BY DEF IncrementConnections
  <1>2. TypeOK /\ RoomTypeOK /\ SocketsOK /\ CountOK /\ visited \in BOOLEAN
    BY DEF IInv, RoomTypeOK
  <1>3. "counted" \in Places
    BY DEF Places
  <1>4. Cardinality(Holders') = Cardinality(Holders) + 1
    BY <1>1, <1>2, <1>3, MoveHolders DEF Holding
  <1>5. session \in Session /\ session.conns \in Int /\ Cardinality(Holders) \in Nat
    BY <1>2, RowTypes, HoldersFinite
  <1>6. CASE session.status = "ongoing"
    <2> DEFINE row == [session EXCEPT !.conns = @ + 1, !.left = None]
    <2>1. row \in Session /\ row.conns = session.conns + 1 /\ row.status = session.status
      <3>1. session.conns + 1 \in Int /\ None \in 0..Grace \cup {None}
        BY <1>5
      <3> QED
        BY <1>2, <3>1, CountedMarkedRow, Zenon
    <2>2. Update(row) /\ visited' = TRUE
      BY <1>6 DEF IncrementConnections
    <2> HIDE DEF row
    <2>3. failures = 0 /\ row.status = "ongoing" => row.conns <= Cardinality(Holders')
      BY <1>2, <1>4, <1>5, <2>1 DEF CountOK, CountIsCovered
    <2> QED
      BY <1>1, <1>3, <2>1, <2>2, <2>3, CountingMove DEF Update
  <1>7. CASE session.status # "ongoing"
    BY <1>1, <1>2, <1>3, <1>5, <1>7, CountingMove DEF IncrementConnections, sessionVars
  <1> QED
    BY <1>6, <1>7

LEMMA DecrementIInv ==
  ASSUME NEW p \in People, IInv, DecrementConnections(p)
  PROVE  IInv'
PROOF
  <1>1. Move(p, "leaving", "reading") /\ UNCHANGED <<timer, expire, visited>>
    BY DEF DecrementConnections
  <1>2. TypeOK /\ RoomTypeOK /\ SocketsOK /\ CountOK /\ visited \in BOOLEAN
    BY DEF IInv, RoomTypeOK
  <1>3. "reading" \in Places
    BY DEF Places, Departing
  <1>4. Cardinality(Holders') = Cardinality(Holders) - 1
    BY <1>1, <1>2, <1>3, MoveHolders DEF Holding
  <1>5. session \in Session /\ session.conns \in Int /\ Cardinality(Holders) \in Nat
    BY <1>2, RowTypes, HoldersFinite
  <1>6. CASE session.status = "ongoing"
    <2> DEFINE row == [session EXCEPT !.conns = @ - 1]
    <2>1. row \in Session /\ row.conns = session.conns - 1 /\ row.status = session.status
      <3>1. session.conns - 1 \in Int
        BY <1>5
      <3> QED
        BY <1>2, <3>1, CountedRow, Zenon
    <2>2. Update(row)
      BY <1>6 DEF DecrementConnections
    <2> HIDE DEF row
    <2>3. failures = 0 /\ row.status = "ongoing" => row.conns <= Cardinality(Holders')
      BY <1>2, <1>4, <1>5, <2>1 DEF CountOK, CountIsCovered
    <2> QED
      BY <1>1, <1>2, <1>3, <2>1, <2>2, <2>3, CountingMove DEF Update
  <1>7. CASE session.status # "ongoing"
    BY <1>1, <1>2, <1>3, <1>5, <1>7, CountingMove DEF DecrementConnections, sessionVars
  <1> QED
    BY <1>6, <1>7

(* A departing socket that resets the count to zero.                       *)
LEMMA ResetIInv ==
  ASSUME NEW p \in People, IInv, Clamp(p) \/ MarkAllLeft(p)
  PROVE  IInv'
PROOF
  <1>1. TypeOK /\ RoomTypeOK /\ SocketsOK /\ CountOK /\ visited \in BOOLEAN /\ session \in Session
    BY RowTypes DEF IInv, RoomTypeOK
  <1>2. Cardinality(Holders') \in Nat
    <2>1. Holders' \subseteq People
      BY DEF Holders, Present
    <2> QED
      BY <2>1, PrivateSessionAssumption, FS_Subset, FS_CardinalityType
  <1>3. 0 \in Int /\ 0 \in 0..Grace \cup {None}
    BY PrivateSessionAssumption
  <1>4. CASE Clamp(p)
    <2> DEFINE row == [session EXCEPT !.conns = 0]
    <2>1. row \in Session /\ row.conns = 0 /\ row.status = session.status
      BY <1>1, <1>3, CountedRow, Zenon
    <2>2. Move(p, "clamping", "marking") /\ Update(row) /\ UNCHANGED <<timer, expire, visited>>
      BY <1>4 DEF Clamp
    <2> HIDE DEF row
    <2>3. "marking" \in Places
      BY DEF Places, Departing
    <2> QED
      BY <1>1, <1>2, <2>1, <2>2, <2>3, CountingMove DEF Update
  <1>5. CASE MarkAllLeft(p) /\ session.status = "ongoing"
    <2> DEFINE row == [session EXCEPT !.left = 0, !.conns = 0]
    <2>1. row \in Session /\ row.conns = 0 /\ row.status = session.status
      BY <1>1, <1>3, CountedMarkedRow, Zenon
    <2>2. Move(p, "marking", "scheduling") /\ Update(row) /\ UNCHANGED <<timer, expire, visited>>
      BY <1>5 DEF MarkAllLeft
    <2> HIDE DEF row
    <2>3. "scheduling" \in Places
      BY DEF Places, Departing
    <2> QED
      BY <1>1, <1>2, <2>1, <2>2, <2>3, CountingMove DEF Update
  <1>6. CASE MarkAllLeft(p) /\ session.status # "ongoing"
    <2>1. "scheduling" \in Places
      BY DEF Places, Departing
    <2> QED
      BY <1>1, <1>6, <2>1, CountingMove DEF MarkAllLeft, sessionVars
  <1> QED
    BY <1>4, <1>5, <1>6

LEMMA QuietMoveIInv ==
  ASSUME NEW p \in People, IInv, Disconnect(p) \/ ReadBack(p)
  PROVE  IInv'
PROOF
  <1>1. /\ RoomRest' /\ PendingSleeps' /\ UNCHANGED <<sessionVars, visited>>
    BY DEF Disconnect, ReadBack, IInv, RoomTypeOK, RoomRest, PendingSleeps
  <1>2. CASE Disconnect(p)
    <2>1. "leaving" \in Places /\ "leaving" \in Holding /\ "in" \in Holding
      BY DEF Places, Departing, Holding
    <2> QED
      BY <1>1, <1>2, <2>1, PlainMove DEF Disconnect
  <1>3. CASE ReadBack(p)
    <2> DEFINE to == AfterReading(session.conns)
    <2>1. to \in Places /\ to \notin Holding /\ "reading" \notin Holding
      BY DEF Places, Departing, Holding, AfterReading
    <2>2. Move(p, "reading", to)
      BY <1>3 DEF ReadBack
    <2> HIDE DEF to
    <2> QED
      BY <1>1, <2>1, <2>2, PlainMove
  <1> QED
    BY <1>2, <1>3

-----------------------------------------------------------------------------
(* Steps that change the timers.                                           *)

(* The map names distinct workers' own timers, so taking one worker's      *)
(* timer away leaves the others' timers asleep.                            *)
LEMMA CancelTimerIInv ==
  ASSUME NEW p \in People, IInv, CancelTimer(p)
  PROVE  IInv'
PROOF
  <1> DEFINE w == socket[p].worker
  <1>1. Move(p, "counted", "in") /\ UNCHANGED <<sessionVars, visited>>
    BY DEF CancelTimer
  <1>2. "in" \in Places /\ "in" \in Holding /\ "counted" \in Holding
    BY DEF Places, Departing, Holding
  <1>3. w \in Workers
    BY <1>1, <1>2, MoveSockets DEF IInv
  <1>4. /\ timer' = [t \in Timers |-> IF t = expire[w] THEN None ELSE timer[t]]
        /\ expire' = [expire EXCEPT ![w] = None]
    BY DEF CancelTimer
  <1>5. RoomRest /\ PendingSleeps
    BY DEF IInv, RoomTypeOK, RoomRest
  <1> HIDE DEF w
  <1>6. RoomRest'
    BY <1>1, <1>4, <1>5 DEF RoomRest
  <1>7. PendingSleeps'
    <2> SUFFICES ASSUME NEW v \in Workers, expire'[v] # None
                 PROVE  timer'[expire'[v]] # None /\ timer'[expire'[v]].worker = v
      BY DEF PendingSleeps
    <2>1. v # w /\ expire'[v] = expire[v] /\ expire[v] \in Timers
      BY <1>3, <1>4, <1>5, PrivateRoomAssumption DEF RoomRest
    <2>2. timer[expire[v]] # None /\ timer[expire[v]].worker = v
      BY <1>5, <2>1 DEF PendingSleeps
    <2>3. expire[v] # expire[w]
      BY <1>3, <1>5, <2>1, <2>2 DEF PendingSleeps
    <2> QED
      BY <1>4, <2>1, <2>2, <2>3
  <1> QED
    BY <1>1, <1>2, <1>6, <1>7, PlainMove

LEMMA ScheduleIInv ==
  ASSUME NEW p \in People, NEW t \in Timers, IInv, ScheduleExpiry(p, t)
  PROVE  IInv'
PROOF
  <1> DEFINE w == socket[p].worker
             asleep == [worker |-> w, remaining |-> Grace]
  <1>1. Move(p, "scheduling", "out") /\ UNCHANGED <<sessionVars, visited>> /\ timer[t] = None
    BY DEF ScheduleExpiry
  <1>2. "out" \in Places /\ "out" \notin Holding /\ "scheduling" \notin Holding
    BY DEF Places, Departing, Holding
  <1>3. w \in Workers
    BY <1>1, <1>2, MoveSockets DEF IInv
  <1>4. timer' = [timer EXCEPT ![t] = asleep] /\ expire' = [expire EXCEPT ![w] = t]
    BY DEF ScheduleExpiry
  <1>5. RoomRest /\ PendingSleeps
    BY DEF IInv, RoomTypeOK, RoomRest
  <1>6. asleep \in Asleep /\ asleep.worker = w
    <2>1. Grace \in 0..Grace
      BY PrivateSessionAssumption
    <2> QED
      BY <1>3, <2>1 DEF Asleep
  <1>7. asleep # None
    BY <1>6, NoneIsNoTimer
  <1> HIDE DEF w, asleep
  <1>8. RoomRest'
    BY <1>1, <1>4, <1>5, <1>6 DEF RoomRest
  <1>9. PendingSleeps'
    <2> SUFFICES ASSUME NEW v \in Workers, expire'[v] # None
                 PROVE  timer'[expire'[v]] # None /\ timer'[expire'[v]].worker = v
      BY DEF PendingSleeps
    <2>1. CASE v = w
      BY <1>3, <1>4, <1>5, <1>6, <1>7, <2>1 DEF RoomRest
    <2>2. CASE v # w
      <3>1. expire'[v] = expire[v] /\ expire[v] \in Timers
        BY <1>3, <1>4, <1>5, <2>2, PrivateRoomAssumption DEF RoomRest
      <3>2. timer[expire[v]] # None /\ timer[expire[v]].worker = v
        BY <1>5, <3>1 DEF PendingSleeps
      <3>3. timer'[expire[v]] = timer[expire[v]]
        BY <1>1, <1>4, <1>5, <3>1, <3>2 DEF RoomRest
      <3> QED
        BY <3>1, <3>2, <3>3
    <2> QED
      BY <2>1, <2>2
  <1> QED
    BY <1>1, <1>2, <1>8, <1>9, PlainMove

(* A timer that fires leaves the map of its worker, whatever timer that    *)
(* named, and no other worker's map names it.                              *)
LEMMA TryAutoEndIInv ==
  ASSUME NEW t \in Timers, IInv, TryAutoEnd(t)
  PROVE  IInv'
PROOF
  <1> DEFINE w == timer[t].worker
  <1>1. RoomRest /\ PendingSleeps /\ TypeOK /\ TasksOK
    BY DEF IInv, RoomTypeOK, RoomRest
  <1>2. timer[t] \in Asleep /\ w \in Workers
    BY <1>1 DEF TryAutoEnd, RoomRest, Asleep
  <1>3. /\ timer' = [timer EXCEPT ![t] = None]
        /\ expire' = [expire EXCEPT ![w] = None]
        /\ UNCHANGED <<socket, visited>>
    BY DEF TryAutoEnd
  <1>4. TypeOK' /\ TasksOK' /\ UNCHANGED <<session, failures>>
    <2>1. t \in Tasks
      BY PrivateRoomAssumption DEF Tasks
    <2>2. CASE BeginEnd(t)
      BY <1>1, <2>1, <2>2, EndTasks
    <2>3. CASE UNCHANGED sessionVars
      BY <1>1, <2>3, TasksKept DEF TypeOK, sessionVars
    <2> QED
      BY <2>2, <2>3 DEF TryAutoEnd
  <1> HIDE DEF w
  <1>5. RoomRest'
    BY <1>1, <1>3 DEF RoomRest
  <1>6. PendingSleeps'
    <2> SUFFICES ASSUME NEW v \in Workers, expire'[v] # None
                 PROVE  timer'[expire'[v]] # None /\ timer'[expire'[v]].worker = v
      BY DEF PendingSleeps
    <2>1. v # w /\ expire'[v] = expire[v] /\ expire[v] \in Timers
      BY <1>1, <1>2, <1>3, PrivateRoomAssumption DEF RoomRest
    <2>2. timer[expire[v]] # None /\ timer[expire[v]].worker = v
      BY <1>1, <2>1 DEF PendingSleeps
    <2>3. expire[v] # t
      BY <2>1, <2>2 DEF w
    <2>4. timer'[expire[v]] = timer[expire[v]]
      BY <1>1, <1>3, <2>1, <2>3 DEF RoomRest
    <2> QED
      BY <2>1, <2>2, <2>4
  <1>7. (socket \in [People -> Socket] /\ SocketsOK)'
    BY <1>3 DEF IInv, RoomTypeOK, Socket, SocketsOK
  <1>8. CountOK'
    BY <1>3, <1>4 DEF IInv, CountOK, CountIsCovered, Holders, Present
  <1> QED
    BY <1>4, <1>5, <1>6, <1>7, <1>8 DEF IInv, RoomTypeOK, RoomRest, Socket

(* Steps that leave the sockets and the timers alone, and write the row    *)
(* only with a count of zero or less.                                      *)
LEMMA RowStep ==
  ASSUME IInv, TypeOK', TasksOK', UNCHANGED roomVars,
         failures' = 0 => failures = 0,
         session' = session \/ Harmless(session')
  PROVE  IInv'
PROOF
  <1>1. (socket \in [People -> Socket] /\ RoomRest /\ SocketsOK /\ PendingSleeps)'
    BY DEF IInv, RoomTypeOK, Socket, RoomRest, SocketsOK, PendingSleeps, roomVars
  <1>2. Holders' = Holders
    BY DEF Holders, Present, roomVars
  <1>3. CountOK'
    <2>1. CASE session' = session
      BY <1>2, <2>1 DEF IInv, CountOK, CountIsCovered
    <2>2. CASE Harmless(session')
      <3>1. session'.conns \in Int /\ Cardinality(Holders) \in Nat
        BY HoldersFinite DEF TypeOK, Session
      <3> QED
        BY <1>2, <2>2, <3>1 DEF CountOK, CountIsCovered, Harmless
    <2> QED
      BY <2>1, <2>2
  <1> QED
    BY <1>1, <1>3 DEF IInv, RoomTypeOK, RoomRest, Socket

LEMMA HandlerIInv ==
  ASSUME IInv, Handler, UNCHANGED roomVars
  PROVE  IInv'
PROOF
  <1>1. TypeOK /\ TasksOK
    BY DEF IInv, RoomTypeOK
  <1>2. CASE \E t \in Requests : StartSession(t) \/ EndSession(t) \/ CancelSession(t)
    <2>1. TypeOK' /\ TasksOK' /\ UNCHANGED <<session, failures>>
      BY <1>1, <1>2, StartTasks, EndTasks, CancelTasks DEF Tasks, EndSession
    <2> QED
      BY <2>1, RowStep
  <1>3. CASE \E t \in Tasks : Continue(t) \/ Die(t)
    <2>1. /\ TypeOK' /\ TasksOK'
          /\ failures' = 0 => failures = 0
          /\ session' = session \/ Harmless(session')
      BY <1>1, <1>3, ContinueTasks
    <2> QED
      BY <2>1, RowStep
  <1> QED
    BY <1>2, <1>3 DEF Handler

LEMMA CleanupIInv == IInv /\ CleanupExpiredSessions => IInv'
PROOF
  <1> SUFFICES ASSUME IInv, CleanupExpiredSessions PROVE IInv'
    OBVIOUS
  <1>1. Cron \in Tasks
    BY PrivateRoomAssumption DEF Tasks
  <1>2. TypeOK' /\ TasksOK' /\ UNCHANGED <<session, failures>>
    BY <1>1, EndTasks DEF IInv, RoomTypeOK, CleanupExpiredSessions
  <1> QED
    BY <1>2, RowStep DEF CleanupExpiredSessions

LEMMA TickIInv == IInv /\ Tick => IInv'
PROOF
  <1> SUFFICES ASSUME IInv, Tick PROVE IInv'
    OBVIOUS
  <1> DEFINE older == IF session.left = None \/ session.left = Grace
                        THEN session.left ELSE session.left + 1
             row == [session EXCEPT !.left = older]
             left(t) == IF timer[t] = None \/ timer[t].remaining = 0 THEN timer[t]
                        ELSE [timer[t] EXCEPT !.remaining = @ - 1]
  <1>1. RoomRest /\ PendingSleeps /\ TypeOK /\ TasksOK /\ session \in Session
    BY RowTypes DEF IInv, RoomTypeOK, RoomRest
  <1>2. /\ session' = row /\ timer' = [t \in Timers |-> left(t)]
        /\ UNCHANGED <<history, invite, chat, call, task, failures, socket, expire, visited>>
    BY DEF Tick
  <1>3. older \in 0..Grace \cup {None}
    BY <1>1, RowTypes, PrivateSessionAssumption
  <1> HIDE DEF older
  <1>4. row \in Session /\ row.conns = session.conns /\ row.status = session.status
    BY <1>1, <1>3, MarkedRow, Zenon
  <1> HIDE DEF row
  <1>5. ASSUME NEW t \in Timers
        PROVE  /\ left(t) \in Asleep \cup {None}
               /\ timer[t] # None => left(t) # None /\ left(t).worker = timer[t].worker
    <2>1. CASE timer[t] = None
      BY <2>1
    <2>2. CASE timer[t] \in Asleep
      <3>1. timer[t].remaining \in 0..Grace
        BY <2>2 DEF Asleep
      <3>2. left(t) \in Asleep /\ left(t).worker = timer[t].worker
        BY <2>2, <3>1, PrivateSessionAssumption DEF Asleep
      <3> QED
        BY <3>2, NoneIsNoTimer
    <2> QED
      BY <1>1, <2>1, <2>2 DEF RoomRest
  <1> HIDE DEF left
  <1>6. RoomRest'
    BY <1>1, <1>2, <1>5 DEF RoomRest
  <1>7. PendingSleeps'
    <2> SUFFICES ASSUME NEW v \in Workers, expire[v] # None
                 PROVE  timer'[expire[v]] # None /\ timer'[expire[v]].worker = v
      BY <1>2 DEF PendingSleeps
    <2>1. expire[v] \in Timers
      BY <1>1 DEF RoomRest
    <2>2. timer[expire[v]] # None /\ timer[expire[v]].worker = v
      BY <1>1 DEF PendingSleeps
    <2> QED
      BY <1>2, <1>5, <2>1, <2>2
  <1>8. TypeOK' /\ TasksOK'
    BY <1>1, <1>2, <1>4, UpdateType, TasksKept DEF Update
  <1>9. (socket \in [People -> Socket] /\ SocketsOK)'
    BY <1>2 DEF IInv, RoomTypeOK, Socket, SocketsOK
  <1>10. CountOK'
    BY <1>2, <1>4 DEF IInv, CountOK, CountIsCovered, Holders, Present
  <1> QED
    BY <1>6, <1>7, <1>8, <1>9, <1>10 DEF IInv, RoomTypeOK, RoomRest, Socket

(* A worker dies: its sockets keep their counts in the row, so the bound   *)
(* on the count is lost, and says nothing any more.                        *)
LEMMA WorkerDiesIInv ==
  ASSUME NEW w \in Workers, IInv, WorkerDies(w)
  PROVE  IInv'
PROOF
  <1>1. RoomRest /\ PendingSleeps /\ TypeOK /\ TasksOK /\ socket \in [People -> Socket]
    BY DEF IInv, RoomTypeOK, RoomRest, Socket
  <1>2. /\ failures < MaxFailures /\ failures' = failures + 1
        /\ socket' = [p \in People |-> IF socket[p].worker = w THEN Out ELSE socket[p]]
        /\ timer' = [t \in Timers |-> IF timer[t] # None /\ timer[t].worker = w
                                        THEN None ELSE timer[t]]
        /\ expire' = [expire EXCEPT ![w] = None]
        /\ UNCHANGED <<session, history, invite, chat, call, task, visited>>
    BY DEF WorkerDies
  <1>3. failures \in 0..MaxFailures /\ failures' \in 0..MaxFailures /\ failures' # 0
    BY <1>1, <1>2, PrivateSessionAssumption DEF TypeOK
  <1>4. Out \in Socket /\ Out.at = "out"
    BY DEF Out, Socket, Places
  <1>5. socket' \in [People -> Socket] /\ SocketsOK'
    <2>1. socket' \in [People -> Socket]
      BY <1>1, <1>2, <1>4
    <2>2. ASSUME NEW p \in People, socket'[p].at # "out"
          PROVE  socket'[p].worker \in Workers
      BY <1>2, <1>4, <2>2 DEF IInv, SocketsOK
    <2> QED
      BY <2>1, <2>2 DEF SocketsOK
  <1>6. RoomRest'
    BY <1>1, <1>2 DEF RoomRest
  <1>7. PendingSleeps'
    <2> SUFFICES ASSUME NEW v \in Workers, expire'[v] # None
                 PROVE  timer'[expire'[v]] # None /\ timer'[expire'[v]].worker = v
      BY DEF PendingSleeps
    <2>1. v # w /\ expire'[v] = expire[v] /\ expire[v] \in Timers
      BY <1>1, <1>2, PrivateRoomAssumption DEF RoomRest
    <2>2. timer[expire[v]] # None /\ timer[expire[v]].worker = v
      BY <1>1, <2>1 DEF PendingSleeps
    <2> QED
      BY <1>2, <2>1, <2>2
  <1>8. TypeOK' /\ TasksOK'
    BY <1>1, <1>2, <1>3, TasksKept DEF TypeOK
  <1>9. CountOK'
    BY <1>3 DEF CountOK
  <1> QED
    BY <1>5, <1>6, <1>7, <1>8, <1>9 DEF IInv, RoomTypeOK, RoomRest, Socket

-----------------------------------------------------------------------------
LEMMA RoomInitIInv == RoomInit => IInv
PROOF
  <1> SUFFICES ASSUME RoomInit PROVE IInv
    OBVIOUS
  <1>1. session \in Session /\ session.status = "approved"
    <2>1. PICK slot \in Slots : session = [NewSession(slot) EXCEPT !.status = "approved"]
      BY DEF RoomInit, Agreed
    <2>2. 0 \in Int
      OBVIOUS
    <2>3. NewSession(slot) \in Session
      BY <2>2 DEF NewSession, Session, Statuses
    <2> QED
      BY <2>1, <2>3 DEF Session, Statuses
  <1>2. TypeOK
    <2>1. 0 \in 0..MaxFailures
      BY PrivateSessionAssumption
    <2>2. invite \in [Invitees -> {"pending", "accepted", "declined"}]
      BY DEF RoomInit
    <2>3. task \in [Tasks -> Task \cup {Idle}]
      BY DEF RoomInit
    <2> QED
      BY <1>1, <2>1, <2>2, <2>3 DEF RoomInit, TypeOK
  <1>3. TasksOK
    BY DEF RoomInit, TasksOK, WorkOK, Idle
  <1>4. socket \in [People -> Socket] /\ SocketsOK
    BY DEF RoomInit, Out, Socket, Places, SocketsOK
  <1>5. RoomRest /\ PendingSleeps
    BY DEF RoomInit, RoomRest, PendingSleeps
  <1>6. CountOK
    BY <1>1 DEF CountOK, CountIsCovered
  <1> QED
    BY <1>2, <1>3, <1>4, <1>5, <1>6 DEF IInv, RoomTypeOK, RoomRest, Socket

LEMMA IInvInductive == IInv /\ [RoomNext]_vars => IInv'
PROOF
  <1> SUFFICES ASSUME IInv, [RoomNext]_vars PROVE IInv'
    OBVIOUS
  <1>1. CASE UNCHANGED vars
    <2>1. TypeOK' /\ TasksOK'
      BY <1>1, TasksKept DEF IInv, RoomTypeOK, TypeOK, vars, sessionVars
    <2> QED
      BY <1>1, <2>1, RowStep DEF vars, sessionVars
  <1>2. CASE Handler /\ UNCHANGED roomVars
    BY <1>2, HandlerIInv
  <1>3. CASE \E p \in People : SocketStep(p)
    BY <1>3, ConnectIInv, IncrementIInv, DecrementIInv, ResetIInv, QuietMoveIInv,
       CancelTimerIInv, ScheduleIInv DEF SocketStep, Depart
  <1>4. CASE \E t \in Timers : TryAutoEnd(t)
    BY <1>4, TryAutoEndIInv
  <1>5. CASE CleanupExpiredSessions
    BY <1>5, CleanupIInv
  <1>6. CASE Tick
    BY <1>6, TickIInv
  <1>7. CASE \E w \in Workers : WorkerDies(w)
    BY <1>7, WorkerDiesIInv
  <1> QED
    BY <1>1, <1>2, <1>3, <1>4, <1>5, <1>6, <1>7 DEF RoomNext

-----------------------------------------------------------------------------
(* The inductive invariant holds in every reachable state.                 *)
THEOREM RoomInvariance == RoomSpec => []IInv
PROOF
  BY RoomInitIInv, IInvInductive, PTL DEF RoomSpec

(* Row, sockets, timers and maps keep to their types.                      *)
THEOREM RoomTypeCorrect == RoomSpec => []RoomTypeOK
PROOF
  <1>1. IInv => RoomTypeOK
    BY DEF IInv
  <1> QED
    BY <1>1, RoomInvariance, PTL

(* With any number of people, workers and timers, a worker's map names     *)
(* only a timer of its own that still sleeps, also across deaths.          *)
THEOREM PendingTimersSleep == RoomSpec => []PendingSleeps
PROOF
  <1>1. IInv => PendingSleeps
    BY DEF IInv
  <1> QED
    BY <1>1, RoomInvariance, PTL

(* With any number of people and workers, as long as no process died the   *)
(* row of an ongoing session never counts more connections than sockets.   *)
THEOREM CountsAreCovered == RoomSpec => [](failures = 0 => CountIsCovered)
PROOF
  <1>1. IInv => (failures = 0 => CountIsCovered)
    BY DEF IInv, CountOK
  <1> QED
    BY <1>1, RoomInvariance, PTL

-----------------------------------------------------------------------------
(* The mark that all have left.                                            *)

(* Two starts of one session may both be under way, and the later save of  *)
(* the two wipes out the mark: what follows is about requests that come    *)
(* one after the other.                                                    *)
OneRequest == \A r, s \in Requests : r = s

(* Whoever has counted itself or has not yet made up its mind whether the  *)
(* room is empty.                                                          *)
Busy == Holding \cup {"reading", "clamping", "marking"}

(* A start under way has found the session approved, and nobody has been   *)
(* in the room before.                                                     *)
StartFits(work) ==
  work.step = "save" =>
    /\ work.row.status \in {"ongoing", "cancelled", "completed"}
    /\ work.row.status = "ongoing" => ~visited /\ session.status # "ongoing"
StartsOK ==
  /\ visited => session.status # "approved"
  /\ \A t \in Tasks : StartFits(task[t])
  /\ \A t \in Tasks : task[t].step = "save" /\ task[t].row.status = "ongoing" => t \in Requests

NoticeOK == failures = 0 => StartsOK /\ EmptyRoomIsNoticed

LEMMA BusyOrNot ==
  ASSUME socket \in [People -> Socket], NEW p \in People
  PROVE  socket[p].at \in Busy \/ socket[p].at \in {"out", "accepted", "scheduling"}
PROOF
  BY DEF Socket, Places, Departing, Busy, Holding

LEMMA BusyIsNot == Busy \cap {"out", "accepted", "scheduling"} = {}
PROOF
  BY DEF Busy, Holding

(* Starts rest when the row keeps its status and the tasks stay.           *)
LEMMA StartsRest ==
  ASSUME StartsOK, UNCHANGED task, session'.status = session.status,
         visited' = visited \/ session.status = "ongoing"
  PROVE  StartsOK'
PROOF
  BY DEF StartsOK, StartFits

(* A new task that does not start the session.                             *)
LEMMA StartsBegin ==
  ASSUME NEW t \in Tasks, NEW from, NEW row, IInv, StartsOK, Begin(t, from, "save", row),
         UNCHANGED visited,
         \/ row.status \in {"cancelled", "completed"}
         \/ row.status = "ongoing" /\ from = {"approved"} /\ t \in Requests
  PROVE  StartsOK'
PROOF
  <1> DEFINE work == [step |-> "save", row |-> row]
  <1>1. task' = [task EXCEPT ![t] = work] /\ UNCHANGED <<session, failures>>
        /\ session.status \in from
    BY DEF Begin
  <1>2. \A s \in Tasks : task'[s] = IF s = t THEN work ELSE task[s]
    BY <1>1 DEF IInv, RoomTypeOK, TypeOK
  <1>3. work.step = "save" /\ work.row = row
    OBVIOUS
  <1> HIDE DEF work
  <1>4. row.status = "ongoing" => t \in Requests /\ ~visited /\ session.status # "ongoing"
    BY <1>1 DEF StartsOK
  <1>5. ASSUME NEW s \in Tasks
        PROVE  /\ StartFits(task[s])'
               /\ task'[s].step = "save" /\ task'[s].row.status = "ongoing" => s \in Requests
    <2>1. CASE s = t
      BY <1>1, <1>2, <1>3, <1>4, <2>1 DEF StartFits
    <2>2. CASE s # t
      BY <1>1, <1>2, <2>2 DEF StartsOK, StartFits
    <2> QED
      BY <2>1, <2>2
  <1> QED
    BY <1>1, <1>5 DEF StartsOK

(* The room looks the same: who is busy, the row's mark and its status.    *)
LEMMA NoticeRests ==
  ASSUME EmptyRoomIsNoticed, socket \in [People -> Socket], (socket \in [People -> Socket])',
         \A p \in People : socket[p].at \in Busy => socket'[p].at \in Busy,
         session'.status = "ongoing" => session.status = "ongoing", UNCHANGED visited,
         session.left # None => session'.left # None
  PROVE  EmptyRoomIsNoticed'
PROOF
  <1> SUFFICES ASSUME session'.status = "ongoing", visited',
                      \A p \in People : socket'[p].at \in {"out", "accepted", "scheduling"}
               PROVE  session'.left # None
    BY DEF EmptyRoomIsNoticed
  <1>1. \A p \in People : socket'[p].at \notin Busy
    BY BusyIsNot
  <1>2. \A p \in People : socket[p].at \in {"out", "accepted", "scheduling"}
    BY <1>1, BusyOrNot
  <1> QED
    BY <1>2 DEF EmptyRoomIsNoticed

(* Somebody busy is enough.                                                *)
LEMMA NoticeOfBusy ==
  ASSUME NEW p \in People, socket'[p].at \in Busy
  PROVE  EmptyRoomIsNoticed'
PROOF
  <1>1. socket'[p].at \notin {"out", "accepted", "scheduling"}
    BY BusyIsNot
  <1> QED
    BY <1>1 DEF EmptyRoomIsNoticed

(* The last step before a socket leaves: it has read that others are       *)
(* counted, so one of them is still there, or it marks the room.           *)
LEMMA LeavingIsNoticed ==
  ASSUME IInv, failures = 0, EmptyRoomIsNoticed, NEW p \in People,
         ReadBack(p) \/ MarkAllLeft(p)
  PROVE  EmptyRoomIsNoticed'
PROOF
  <1>1. RoomTypeOK /\ SocketsOK /\ TypeOK /\ CountIsCovered
    BY DEF IInv, RoomTypeOK, CountOK
  <1>2. CASE ReadBack(p)
    <2> DEFINE to == AfterReading(session.conns)
    <2>1. to \in Places /\ Move(p, "reading", to) /\ UNCHANGED <<session, visited>>
      BY <1>2 DEF ReadBack, AfterReading, Places, Departing, sessionVars
    <2>2. to \in Busy \/ (to = "out" /\ session.conns > 0)
      BY <1>1, RowTypes DEF AfterReading, Busy
    <2> HIDE DEF to
    <2>3. \A q \in People : socket'[q].at = IF q = p THEN to ELSE socket[q].at
      BY <1>1, <2>1, MoveSockets
    <2>4. CASE to \in Busy
      BY <2>3, <2>4, NoticeOfBusy
    <2>5. CASE session.conns > 0 /\ session.status = "ongoing"
      <3>1. Cardinality(Holders) > 0
        BY <1>1, <2>5, HoldersFinite, RowTypes DEF CountIsCovered
      <3>2. Holders # {}
        BY <3>1, FS_EmptySet
      <3>3. PICK q \in People : socket[q].at \in Holding
        BY <3>2, HoldersAre
      <3>4. q # p
        BY <2>1, <3>3 DEF Move, Holding
      <3>5. socket'[q].at \in Busy
        BY <2>3, <3>3, <3>4 DEF Busy
      <3> QED
        BY <3>5, NoticeOfBusy
    <2>6. CASE session.status # "ongoing"
      BY <2>1, <2>6 DEF EmptyRoomIsNoticed
    <2> QED
      BY <2>2, <2>4, <2>5, <2>6
  <1>3. CASE MarkAllLeft(p)
    <2>1. CASE session.status = "ongoing"
      <3>1. session' = [session EXCEPT !.left = 0, !.conns = 0]
        BY <1>3, <2>1 DEF MarkAllLeft, Update
      <3>2. session'.left = 0
        BY <1>1, <3>1, RowTypes DEF Session
      <3> QED
        BY <3>2, PrivateSessionAssumption DEF EmptyRoomIsNoticed
    <2>2. CASE session.status # "ongoing"
      BY <1>3, <2>2 DEF MarkAllLeft, sessionVars, EmptyRoomIsNoticed
    <2> QED
      BY <2>1, <2>2
  <1> QED
    BY <1>2, <1>3

(* The later steps of a task: a save that starts the session comes while   *)
(* nobody has been there, and it is the only one of its kind.              *)
LEMMA StartsContinue ==
  ASSUME OneRequest, IInv, NoticeOK, failures = 0, failures' = 0, UNCHANGED roomVars,
         NEW t \in Tasks, Continue(t) \/ Die(t)
  PROVE  StartsOK' /\ EmptyRoomIsNoticed'
PROOF
  <1>1. /\ task \in [Tasks -> Task \cup {Idle}] /\ WorkOK(task[t])
        /\ StartsOK /\ EmptyRoomIsNoticed /\ visited' = visited
        /\ socket \in [People -> Socket] /\ UNCHANGED socket
    BY DEF IInv, RoomTypeOK, TypeOK, TasksOK, NoticeOK, roomVars, Socket
  <1>2. ~Die(t) /\ ~RecordProposal(t)
    BY <1>1 DEF Die, RecordProposal, WorkOK
  <1>3. ASSUME UNCHANGED session, NEW work, work.step # "save", task' = [task EXCEPT ![t] = work]
        PROVE  StartsOK' /\ EmptyRoomIsNoticed'
    <2>1. \A s \in Tasks : task'[s] = IF s = t THEN work ELSE task[s]
      BY <1>1, <1>3
    <2>2. ASSUME NEW s \in Tasks
          PROVE  /\ StartFits(task[s])'
                 /\ task'[s].step = "save" /\ task'[s].row.status = "ongoing" => s \in Requests
      BY <1>1, <1>3, <2>1 DEF StartsOK, StartFits
    <2>3. StartsOK'
      BY <1>1, <1>3, <2>2 DEF StartsOK
    <2> QED
      BY <1>1, <1>3, <2>3 DEF EmptyRoomIsNoticed
  <1>4. CASE Save(t)
    <2> DEFINE row == task[t].row
               work == AfterSave(t)
    <2>1. task[t].step = "save" /\ task[t] \in Task
      BY <1>1, <1>4 DEF Save, Idle
    <2>2. work.step # "save"
      BY <2>1 DEF AfterSave, Task, Idle
    <2>3. session' = row /\ task' = [task EXCEPT ![t] = work]
      BY <1>4 DEF Save
    <2>4. /\ row.status \in {"ongoing", "cancelled", "completed"}
          /\ row.status = "ongoing" => ~visited /\ t \in Requests
      BY <1>1, <2>1 DEF StartsOK, StartFits
    <2> HIDE DEF row, work
    <2>5. \A s \in Tasks : task'[s] = IF s = t THEN work ELSE task[s]
      BY <1>1, <2>3
    <2>6. ASSUME NEW s \in Tasks, task'[s].step = "save"
          PROVE  /\ StartFits(task[s])'
                 /\ task'[s].row.status = "ongoing" => s \in Requests
      <3>1. s # t /\ task'[s] = task[s]
        BY <2>2, <2>5, <2>6
      <3>2. task[s].row.status = "ongoing" => s \in Requests
        BY <1>1, <2>6, <3>1 DEF StartsOK
      <3>3. task[s].row.status = "ongoing" => row.status # "ongoing"
        BY <2>4, <3>1, <3>2 DEF OneRequest
      <3>4. StartFits(task[s])
        BY <1>1 DEF StartsOK
      <3> QED
        BY <1>1, <2>3, <2>6, <3>1, <3>2, <3>3, <3>4 DEF StartFits
    <2>7. \A s \in Tasks : StartFits(task[s])'
      BY <2>6 DEF StartFits
    <2>8. StartsOK'
      BY <1>1, <2>3, <2>4, <2>6, <2>7 DEF StartsOK
    <2> QED
      BY <1>1, <2>3, <2>4, <2>8 DEF EmptyRoomIsNoticed
  <1>5. CASE PurgeChat(t)
    <2> DEFINE work == [task[t] EXCEPT !.step = "close"]
    <2>1. task[t] \in Task
      BY <1>1, <1>5 DEF PurgeChat, Idle
    <2>2. work.step # "save"
      BY <2>1 DEF Task
    <2>3. task' = [task EXCEPT ![t] = work] /\ UNCHANGED session
      BY <1>5 DEF PurgeChat
    <2> HIDE DEF work
    <2> QED
      BY <1>3, <2>2, <2>3
  <1>6. CASE CloseRoom(t) \/ PostMessage(t)
    <2>1. task' = [task EXCEPT ![t] = Idle] /\ UNCHANGED session /\ Idle.step # "save"
      BY <1>6 DEF CloseRoom, PostMessage, Idle
    <2> QED
      BY <1>3, <2>1
  <1> QED
    BY <1>2, <1>4, <1>5, <1>6 DEF Continue

(* Whoever begins to start, end or cancel the session.                     *)
LEMMA StartsHandled ==
  ASSUME IInv, StartsOK, UNCHANGED visited,
         \/ \E t \in Requests : StartSession(t) \/ EndSession(t) \/ CancelSession(t)
         \/ \E t \in Tasks : BeginEnd(t)
  PROVE  StartsOK' /\ UNCHANGED session
PROOF
  <1>1. session \in Session
    BY RowTypes DEF IInv, RoomTypeOK
  <1>2. ASSUME NEW t \in Tasks, BeginEnd(t) PROVE StartsOK' /\ UNCHANGED session
    <2> DEFINE row == [session EXCEPT !.status = "completed"]
    <2>1. row.status = "completed"
      BY <1>1 DEF Session
    <2>2. Begin(t, {"ongoing"}, "save", row)
      BY <1>2 DEF BeginEnd
    <2> HIDE DEF row
    <2> QED
      BY <2>1, <2>2, StartsBegin DEF Begin
  <1>3. ASSUME NEW t \in Requests, CancelSession(t) PROVE StartsOK' /\ UNCHANGED session
    <2> DEFINE row == [session EXCEPT !.status = "cancelled"]
    <2>1. row.status = "cancelled"
      BY <1>1 DEF Session
    <2>2. Begin(t, Cancellable, "save", row)
      BY <1>3 DEF CancelSession
    <2> HIDE DEF row
    <2> QED
      BY <2>1, <2>2, StartsBegin DEF Begin, Tasks
  <1>4. ASSUME NEW t \in Requests, StartSession(t) PROVE StartsOK' /\ UNCHANGED session
    <2> DEFINE row == Started(session)
    <2>1. row.status = "ongoing"
      BY <1>1 DEF Session, Started
    <2>2. Begin(t, {"approved"}, "save", row)
      BY <1>4 DEF StartSession
    <2> HIDE DEF row
    <2> QED
      BY <2>1, <2>2, StartsBegin DEF Begin, Tasks
  <1> QED
    BY <1>2, <1>3, <1>4 DEF EndSession, Tasks

(* What the sockets do to the row's status, to the tasks and to visited.   *)
LEMMA StartsOfSockets ==
  ASSUME IInv, StartsOK, NEW p \in People, SocketStep(p)
  PROVE  StartsOK' /\ failures' = failures
PROOF
  <1>1. session \in Session /\ visited \in BOOLEAN
    BY RowTypes DEF IInv, RoomTypeOK
  <1>2. CASE IncrementConnections(p)
    BY <1>1, <1>2, StartsRest DEF IncrementConnections, Update, Session, sessionVars
  <1>3. CASE (\E w \in Workers : Connect(p, w)) \/ CancelTimer(p) \/ Disconnect(p) \/ ReadBack(p)
             \/ \E t \in Timers : ScheduleExpiry(p, t)
    <2>1. UNCHANGED <<session, task, visited, failures>>
      BY <1>3 DEF Connect, CancelTimer, Disconnect, ReadBack, ScheduleExpiry, sessionVars
    <2> QED
      BY <1>1, <2>1 DEF StartsOK, StartFits
  <1>4. CASE DecrementConnections(p) \/ Clamp(p) \/ MarkAllLeft(p)
    <2>1. session'.status = session.status /\ UNCHANGED <<task, visited, failures>>
      BY <1>1, <1>4 DEF DecrementConnections, Clamp, MarkAllLeft, Update, Session, sessionVars
    <2> QED
      BY <1>1, <2>1 DEF StartsOK, StartFits
  <1> QED
    BY <1>2, <1>3, <1>4 DEF SocketStep, Depart

LEMMA NoticeOfSockets ==
  ASSUME IInv, IInv', failures = 0, EmptyRoomIsNoticed, NEW p \in People, SocketStep(p)
  PROVE  EmptyRoomIsNoticed'
PROOF
  <1>1. /\ RoomTypeOK /\ SocketsOK /\ socket \in [People -> Socket]
        /\ (socket \in [People -> Socket])'
    BY DEF IInv, RoomTypeOK, Socket
  <1>2. ASSUME NEW from \in Places, NEW to \in Busy, from # "out", Move(p, from, to)
        PROVE  EmptyRoomIsNoticed'
    <2>1. to \in Places
      BY DEF Busy, Holding, Places, Departing
    <2>2. socket'[p].at = to
      BY <1>1, <1>2, <2>1, MoveSockets
    <2> QED
      BY <2>2, NoticeOfBusy
  <1>3. CASE IncrementConnections(p) \/ CancelTimer(p) \/ Disconnect(p)
             \/ DecrementConnections(p) \/ Clamp(p)
    <2>1. \E from \in Places, to \in Busy : from # "out" /\ Move(p, from, to)
      BY <1>3 DEF IncrementConnections, CancelTimer, Disconnect, DecrementConnections, Clamp,
         Places, Departing, Busy, Holding
    <2> QED
      BY <1>2, <2>1
  <1>4. CASE ReadBack(p) \/ MarkAllLeft(p)
    BY <1>4, LeavingIsNoticed
  <1>5. ASSUME NEW w \in Workers, Connect(p, w) PROVE EmptyRoomIsNoticed'
    <2> DEFINE new == [at |-> "accepted", worker |-> w]
    <2>1. /\ socket' = [socket EXCEPT ![p] = new] /\ socket[p].at = "out"
          /\ UNCHANGED <<session, visited>>
      BY <1>5 DEF Connect, sessionVars
    <2> HIDE DEF new
    <2>2. \A q \in People : q # p => socket'[q] = socket[q]
      BY <1>1, <2>1
    <2>3. \A q \in People : socket[q].at \in Busy => socket'[q].at \in Busy
      BY <2>1, <2>2 DEF Busy, Holding
    <2> QED
      BY <1>1, <2>1, <2>3, NoticeRests
  <1>6. ASSUME NEW t \in Timers, ScheduleExpiry(p, t) PROVE EmptyRoomIsNoticed'
    <2>1. "out" \in Places /\ Move(p, "scheduling", "out") /\ UNCHANGED <<session, visited>>
      BY <1>6 DEF ScheduleExpiry, Places, sessionVars
    <2>2. \A q \in People : q # p => socket'[q].at = socket[q].at
      BY <1>1, <2>1, MoveSockets
    <2>3. \A q \in People : socket[q].at \in Busy => socket'[q].at \in Busy
      BY <2>1, <2>2 DEF Move, Busy, Holding
    <2> QED
      BY <1>1, <2>1, <2>3, NoticeRests
  <1> QED
    BY <1>3, <1>4, <1>5, <1>6 DEF SocketStep, Depart

(* The clock moves a mark on and never takes it off.                       *)
LEMMA NoticeOfTick ==
  ASSUME IInv, StartsOK, EmptyRoomIsNoticed, Tick
  PROVE  StartsOK' /\ EmptyRoomIsNoticed'
PROOF
  <1>1. session \in Session /\ session.left \in 0..Grace \cup {None} /\ visited \in BOOLEAN
    BY RowTypes DEF IInv, RoomTypeOK
  <1>2. /\ session'.status = session.status /\ UNCHANGED <<task, visited, socket>>
        /\ session'.left = IF session.left = None \/ session.left = Grace
                             THEN session.left ELSE session.left + 1
    BY <1>1 DEF Tick, Session
  <1>3. session.left # None => session'.left # None
    BY <1>1, <1>2, PrivateSessionAssumption
  <1>4. StartsOK'
    BY <1>1, <1>2 DEF StartsOK, StartFits
  <1> QED
    BY <1>2, <1>3, <1>4 DEF EmptyRoomIsNoticed

LEMMA NoticeInductive ==
  ASSUME OneRequest, IInv, NoticeOK, [RoomNext]_vars
  PROVE  NoticeOK'
PROOF
  <1> SUFFICES ASSUME failures' = 0 PROVE StartsOK' /\ EmptyRoomIsNoticed'
    BY DEF NoticeOK
  <1>0. IInv'
    BY IInvInductive
  <1>1. /\ failures \in 0..MaxFailures /\ visited \in BOOLEAN
        /\ NoticeOK
    BY DEF IInv, RoomTypeOK, TypeOK
  <1>2. ASSUME failures = 0, UNCHANGED <<session, socket, visited>>, StartsOK'
        PROVE  StartsOK' /\ EmptyRoomIsNoticed'
    BY <1>2 DEF NoticeOK, EmptyRoomIsNoticed
  <1>3. CASE UNCHANGED vars
    BY <1>1, <1>2, <1>3 DEF vars, sessionVars, roomVars, NoticeOK, StartsOK, StartFits
  <1>4. CASE Handler /\ UNCHANGED roomVars
    <2>1. CASE \E t \in Requests : StartSession(t) \/ EndSession(t) \/ CancelSession(t)
      <3>1. failures = 0
        BY <2>1 DEF StartSession, EndSession, BeginEnd, CancelSession, Begin
      <3> QED
        BY <1>2, <1>4, <2>1, <3>1, StartsHandled DEF roomVars, NoticeOK
    <2>2. ASSUME NEW t \in Tasks, Continue(t) \/ Die(t) PROVE StartsOK' /\ EmptyRoomIsNoticed'
      <3>1. failures = 0
        BY <2>2, ContinueTasks DEF IInv, RoomTypeOK
      <3> QED
        BY <1>4, <2>2, <3>1, StartsContinue
    <2> QED
      BY <1>4, <2>1, <2>2 DEF Handler
  <1>5. ASSUME NEW p \in People, SocketStep(p) PROVE StartsOK' /\ EmptyRoomIsNoticed'
    <2>1. failures' = failures
      BY <1>5 DEF SocketStep, Depart, Connect, IncrementConnections, CancelTimer, Disconnect,
         DecrementConnections, ReadBack, Clamp, MarkAllLeft, ScheduleExpiry, Update, sessionVars
    <2> QED
      BY <1>0, <1>5, <2>1, StartsOfSockets, NoticeOfSockets DEF NoticeOK
  <1>6. CASE CleanupExpiredSessions \/ \E t \in Timers : TryAutoEnd(t)
    <2>1. /\ UNCHANGED <<socket, visited>>
          /\ (\E t \in Tasks : BeginEnd(t)) \/ UNCHANGED sessionVars
      BY <1>6, PrivateRoomAssumption DEF CleanupExpiredSessions, TryAutoEnd, Tasks, roomVars
    <2>2. CASE \E t \in Tasks : BeginEnd(t)
      <3>1. failures = 0
        BY <2>2 DEF BeginEnd, Begin
      <3> QED
        BY <1>2, <2>1, <2>2, <3>1, StartsHandled DEF NoticeOK
    <2>3. CASE UNCHANGED sessionVars
      BY <1>1, <1>2, <2>1, <2>3 DEF sessionVars, NoticeOK, StartsOK, StartFits
    <2> QED
      BY <2>1, <2>2, <2>3
  <1>7. CASE Tick
    BY <1>7, NoticeOfTick DEF Tick, NoticeOK
  <1>8. ASSUME NEW w \in Workers, WorkerDies(w) PROVE FALSE
    BY <1>1, <1>8, PrivateSessionAssumption DEF WorkerDies
  <1> QED
    BY <1>3, <1>4, <1>5, <1>6, <1>7, <1>8 DEF RoomNext

LEMMA NoticeStarts == RoomInit => NoticeOK
PROOF
  <1> SUFFICES ASSUME RoomInit PROVE StartsOK /\ EmptyRoomIsNoticed
    BY DEF NoticeOK
  <1> QED
    BY DEF RoomInit, StartsOK, StartFits, EmptyRoomIsNoticed, Idle

(* As long as no process dies and requests on the session come one after   *)
(* the other, a room that has been used and that every socket has left is  *)
(* marked as left, for any number of people, workers and timers.           *)
THEOREM EmptyRoomsAreNoticed ==
  ASSUME OneRequest PROVE RoomSpec => [](failures = 0 => EmptyRoomIsNoticed)
PROOF
  <1>1. NoticeOK => (failures = 0 => EmptyRoomIsNoticed)
    BY DEF NoticeOK
  <1>2. IInv /\ NoticeOK /\ [RoomNext]_vars => NoticeOK'
    BY NoticeInductive
  <1> QED
    BY <1>1, <1>2, NoticeStarts, RoomInvariance, PTL DEF RoomSpec
=============================================================================
