--------------------------- MODULE LiveClassProofs ---------------------------
(***************************************************************************)
(* The type invariant of a live class, for any number of learners and of   *)
(* requests under way, any times and any bounds.  It is not inductive: a   *)
(* save names the columns it writes, so what a task still holds has to fit *)
(* every row that may be there by then, and the cap on extensions bounds   *)
(* them only because a class ends one length after its start.              *)
(***************************************************************************)
EXTENDS LiveClass, SequenceTheorems, TLAPS

(* A class ends one length after its start, however it was moved.          *)
Planned(row) == row \in Row /\ row.end = row.start + Length

(* The columns a task is to write are of their types, and the plan of a    *)
(* class is written as a whole.                                            *)
WriteFits(write) ==
    /\ "status" \in DOMAIN write => write["status"] \in Statuses
    /\ "left" \in DOMAIN write => write["left"] \in 0..Horizon \cup {None}
    /\ "extended" \in DOMAIN write => write["extended"] \in Times \cup {None}
    /\ "start" \in DOMAIN write <=> "end" \in DOMAIN write
    /\ "start" \in DOMAIN write => /\ write["start"] \in Starts
                                   /\ write["end"] = write["start"] + Length

(* What a task has left to do.                                             *)
Work(todo, write, who) == [todo |-> todo, write |-> write, who |-> who]

WorkFits(work) ==
    /\ work = Work(work.todo, work.write, work.who)
    /\ work.todo \in Seq(Steps) /\ WriteFits(work.write) /\ work.who \subseteq People
    /\ work.todo = <<>> => work = Idle

IInv ==
    /\ now \in 0..Horizon
    /\ Planned(session)
    /\ open \subseteq People /\ room \subseteq People /\ tokens \subseteq People
    /\ hooks \subseteq Hook
    /\ task = [t \in Tasks |-> task[t]] /\ \A t \in Tasks : WorkFits(task[t])
    /\ acts \in 0..MaxActs /\ failures \in 0..MaxFailures

-----------------------------------------------------------------------------
(* Times and rows.                                                         *)

LEMMA LatestIsLatest == Latest \in Starts /\ Latest \in Nat /\ \A s \in Starts : s <= Latest
<1>1. \E s \in Starts : \A r \in Starts : r <= s BY LiveClassAssumption
<1>2. Latest \in Starts /\ \A r \in Starts : r <= Latest BY <1>1 DEF Latest
<1> QED BY <1>2, LiveClassAssumption

(* What is planned ends early enough for an extension to be a time.        *)
LEMMA PlansAreTimes ==
    ASSUME NEW s \in Starts
    PROVE  /\ s + Length \in Times
           /\ \A until \in Nat : until <= s + Length + MaxExtension => until \in Times
BY LatestIsLatest, LiveClassAssumption DEF Times

LEMMA TimesAreNumbers == Times \subseteq Nat /\ Starts \subseteq Nat /\ Length \in Nat
BY LatestIsLatest, LiveClassAssumption DEF Times

(* A save keeps the row a row, whatever was written in the meantime.       *)
LEMMA WrittenIsPlanned ==
    ASSUME NEW row, Planned(row), NEW write, WriteFits(write)
    PROVE  Planned(Written(row, write))
<1> DEFINE new == Written(row, write)
<1>1. \A c \in Columns : new[c] = IF c \in DOMAIN write THEN write[c] ELSE row[c]
  BY DEF Written
<1>2. new = [c \in Columns |-> new[c]] BY DEF Written
<1> HIDE DEF new
<1>3. /\ row.status \in Statuses /\ row.left \in 0..Horizon \cup {None} /\ row.start \in Starts
      /\ row.extended \in Times \cup {None} /\ row.end = row.start + Length
  BY DEF Planned, Row
<1>4. /\ new["status"] \in Statuses /\ new["left"] \in 0..Horizon \cup {None}
      /\ new["extended"] \in Times \cup {None}
      /\ new["start"] \in Starts /\ new["end"] = new["start"] + Length
  BY <1>1, <1>3 DEF WriteFits, Columns
<1>5. new["end"] \in Times BY <1>4, PlansAreTimes
<1>6. new \in Row BY <1>2, <1>4, <1>5 DEF Row, Columns
<1> QED BY <1>4, <1>6 DEF Planned, new

LEMMA RowFields ==
    ASSUME NEW row, Planned(row)
    PROVE  /\ row.status \in Statuses /\ row.left \in 0..Horizon \cup {None} /\ row.start \in Starts
           /\ row.extended \in Times \cup {None} /\ row.end \in Nat
           /\ row.end = row.start + Length
BY TimesAreNumbers DEF Planned, Row

-----------------------------------------------------------------------------
(* What the handlers write.                                                *)

(* A write that leaves the plan and the extension alone.                   *)
LEMMA StatusFits ==
    ASSUME NEW status \in Statuses
    PROVE  WriteFits([status |-> status]) /\ WriteFits([status |-> status, left |-> None])
<1>1. DOMAIN [status |-> status] = {"status"}
      /\ DOMAIN [status |-> status, left |-> None] = {"status", "left"}
  OBVIOUS
<1> QED BY <1>1 DEF WriteFits

LEMMA CompletedFits == WriteFits(Completed) /\ WriteFits(NoWrite)
<1>1. WriteFits(Completed) BY StatusFits DEF Completed, Statuses, Terminal
<1>2. DOMAIN NoWrite = {} BY DEF NoWrite
<1>3. WriteFits(NoWrite) BY <1>2 DEF WriteFits
<1> QED BY <1>1, <1>3

LEMMA SyncedFits == ASSUME NEW row, Planned(row) PROVE WriteFits(Synced(row))
<1>1. computed_status(row) \in Statuses
  BY RowFields DEF computed_status, Ladder, Statuses, OpenStatuses, Terminal
<1> QED BY <1>1, StatusFits, CompletedFits DEF Synced

LEMMA RescheduledFits ==
    ASSUME NEW row, Planned(row), NEW s \in Starts
    PROVE  WriteFits([row EXCEPT !.start = s, !.end = s + Length])
<1> DEFINE write == [row EXCEPT !.start = s, !.end = s + Length]
<1>1. row \in Row BY DEF Planned
<1>2. /\ DOMAIN write = {"status", "left", "start", "end", "extended"}
      /\ write["status"] = row.status /\ write["left"] = row.left
      /\ write["extended"] = row.extended /\ write["start"] = s /\ write["end"] = s + Length
  BY <1>1 DEF Row
<1> HIDE DEF write
<1>3. WriteFits(write) BY <1>2, RowFields DEF WriteFits
<1> QED BY <1>3 DEF write

LEMMA ExtendedFits ==
    ASSUME NEW until \in Times PROVE WriteFits([extended |-> until])
<1>1. DOMAIN [extended |-> until] = {"extended"} OBVIOUS
<1> QED BY <1>1 DEF WriteFits

-----------------------------------------------------------------------------
(* Tasks.                                                                  *)

LEMMA NewWork ==
    ASSUME NEW todo \in Seq(Steps), todo # <<>>, NEW write, WriteFits(write), NEW who \in SUBSET People
    PROVE  WorkFits(Work(todo, write, who))
BY DEF Work, WorkFits

LEMMA IdleFits == WorkFits(Idle)
<1>1. Idle = Work(<<>>, NoWrite, {}) BY DEF Idle, Work
<1>2. <<>> \in Seq(Steps) OBVIOUS
<1> QED BY <1>1, <1>2, CompletedFits DEF WorkFits, Work

(* A task takes up new work or what is left of it.                         *)
LEMMA TaskMoves ==
    ASSUME IInv, NEW t \in Tasks, NEW work, WorkFits(work), task' = [task EXCEPT ![t] = work]
    PROVE  task' = [s \in Tasks |-> task'[s]] /\ \A s \in Tasks : WorkFits(task'[s])
<1>1. task = [s \in Tasks |-> task[s]] BY DEF IInv
<1>2. \A s \in Tasks : task'[s] = IF s = t THEN work ELSE task[s] BY <1>1
<1>3. DOMAIN task' = Tasks BY <1>1
<1>4. task' = [s \in Tasks |-> task'[s]] BY <1>1, <1>3
<1>5. \A s \in Tasks : WorkFits(task[s]) BY DEF IInv
<1>6. \A s \in Tasks : WorkFits(task'[s]) BY <1>2, <1>5
<1> QED BY <1>4, <1>6

LEMMA ForgetFits == ASSUME NEW t, WorkFits(task[t]), task[t] # Idle PROVE WorkFits(Forget(t))
<1> DEFINE todo == task[t].todo
           write == task[t].write
           who == task[t].who
<1>1. /\ todo \in Seq(Steps) /\ todo # <<>> /\ WriteFits(write) /\ who \in SUBSET People
      /\ task[t] = Work(todo, write, who)
  BY DEF WorkFits
<1> HIDE DEF todo, write, who
<1>2. CASE Len(todo) # 1
  <2>0. Len(todo) \in Nat /\ Len(todo) # 0 BY <1>1, EmptySeq
  <2>1. Tail(todo) \in Seq(Steps) /\ Tail(todo) # <<>>
    <3>1. Tail(todo) \in Seq(Steps) BY <1>1
    <3>2. Len(Tail(todo)) = Len(todo) - 1 BY <1>1
    <3>3. Len(Tail(todo)) # 0 BY <1>2, <2>0, <3>2
    <3> QED BY <3>1, <3>3, EmptySeq
  <2>2. [task[t] EXCEPT !.todo = Tail(todo)] = Work(Tail(todo), write, who) BY <1>1 DEF Work
  <2>3. Forget(t) = Work(Tail(todo), write, who) BY <1>2, <2>2 DEF Forget, todo
  <2> QED BY <1>1, <2>1, <2>3, NewWork
<1>3. CASE Len(todo) = 1 BY <1>3, IdleFits DEF Forget, todo
<1> QED BY <1>2, <1>3

(* Steps lists.                                                            *)
LEMMA Lists ==
    /\ <<"save">> \in Seq(Steps) /\ <<"save">> # <<>>
    /\ <<"reconcile">> \in Seq(Steps) /\ <<"reconcile">> # <<>>
    /\ <<"save", "token">> \in Seq(Steps) /\ <<"save", "token">> # <<>>
    /\ <<"save", "close", "room">> \in Seq(Steps) /\ <<"save", "close", "room">> # <<>>
    /\ <<"close", "save", "room">> \in Seq(Steps) /\ <<"close", "save", "room">> # <<>>
BY DEF Steps

(* A handler that leaves its work to later steps.                          *)
LEMMA BeginKeeps ==
    ASSUME IInv, NEW t \in Tasks, NEW todo \in Seq(Steps), todo # <<>>, NEW write, WriteFits(write),
           NEW who \in SUBSET People, Begin(t, todo, write, who), acts' \in 0..MaxActs
    PROVE  IInv'
<1>1. WorkFits(Work(todo, write, who)) BY NewWork
<1>2. task' = [task EXCEPT ![t] = Work(todo, write, who)]
      /\ UNCHANGED <<now, session, open, room, tokens, hooks, failures>>
  BY DEF Begin, Work
<1>3. task' = [s \in Tasks |-> task'[s]] /\ \A s \in Tasks : WorkFits(task'[s])
  BY <1>1, <1>2, TaskMoves
<1> QED BY <1>2, <1>3 DEF IInv, Planned

LEMMA RequestKeeps ==
    ASSUME IInv, NEW t, NEW todo \in Seq(Steps), todo # <<>>, NEW write, WriteFits(write),
           NEW who \in SUBSET People, Request(t, todo, write, who)
    PROVE  IInv'
<1>1. t \in Tasks /\ Begin(t, todo, write, who) BY DEF Request, Tasks
<1>2. acts' \in 0..MaxActs BY LiveClassAssumption DEF Request, IInv
<1> QED BY <1>1, <1>2, BeginKeeps

LEMMA JobKeeps ==
    ASSUME IInv, NEW j \in Jobs, NEW todo \in Seq(Steps), todo # <<>>, NEW write, WriteFits(write),
           NEW who \in SUBSET People, Job(j, todo, write, who)
    PROVE  IInv'
<1>1. j \in Tasks /\ Begin(j, todo, write, who) BY DEF Job, Tasks
<1>2. acts' \in 0..MaxActs BY DEF Job, IInv
<1> QED BY <1>1, <1>2, BeginKeeps

-----------------------------------------------------------------------------
(* Every step keeps the invariant.                                         *)

(* The handlers of the teacher, of the administrators and of the gate.     *)
LEMMA RequestsKeep ==
    ASSUME IInv, NEW t \in Requests,
           \/ Cancel(t) \/ Reschedule(t) \/ Extend(t) \/ End(t) \/ AdminEnd(t)
           \/ Pause(t) \/ JoinOver(t) \/ JoinBack(t)
    PROVE  IInv'
<1>1. Planned(session) BY DEF IInv
<1>2. /\ "CANCELLED" \in Statuses /\ "COMPLETED" \in Statuses
      /\ "LIVE" \in Statuses /\ "PAUSED" \in Statuses
  BY DEF Statuses, OpenStatuses, Terminal
<1>3. {} \in SUBSET People /\ {Teacher} \in SUBSET People BY DEF People
<1>4. CASE Cancel(t)
  BY <1>2, <1>3, <1>4, StatusFits, Lists, RequestKeeps DEF Cancel
<1>5. CASE Reschedule(t)
  <2>1. PICK s \in Starts :
          Request(t, <<"save">>, [session EXCEPT !.start = s, !.end = s + Length], {})
    BY <1>5 DEF Reschedule
  <2> QED BY <1>1, <1>3, <2>1, RescheduledFits, Lists, RequestKeeps
<1>6. CASE Extend(t)
  <2> DEFINE agreed == IF session.extended = None THEN session.end ELSE session.extended
             until == (IF agreed < now THEN now ELSE agreed) + Extension
  <2>1. Allowed(until) /\ Request(t, <<"save">>, [extended |-> until], {})
    BY <1>6 DEF Extend
  <2>2. agreed \in Nat BY <1>1, RowFields, TimesAreNumbers
  <2>3. now \in Nat BY LiveClassAssumption DEF IInv
  <2>4. until \in Nat BY <2>2, <2>3, LiveClassAssumption
  <2> HIDE DEF until
  <2>5. until <= session.start + Length + MaxExtension
    BY <1>1, <2>1, RowFields DEF Allowed
  <2>6. until \in Times BY <1>1, <2>4, <2>5, RowFields, PlansAreTimes
  <2> QED BY <1>3, <2>1, <2>6, ExtendedFits, Lists, RequestKeeps
<1>7. CASE End(t) BY <1>3, <1>7, CompletedFits, Lists, RequestKeeps DEF End
<1>8. CASE AdminEnd(t) BY <1>3, <1>8, CompletedFits, Lists, RequestKeeps DEF AdminEnd
<1>9. CASE Pause(t)
  <2> DEFINE status == IF session.status = "PAUSED" /\ session.left = None THEN "LIVE" ELSE "PAUSED"
  <2>1. Request(t, <<"save">>, [status |-> status, left |-> None], {}) BY <1>9 DEF Pause
  <2>2. status \in Statuses BY <1>2
  <2> HIDE DEF status
  <2> QED BY <1>3, <2>1, <2>2, StatusFits, Lists, RequestKeeps
<1>10. CASE JoinOver(t)
  <2>1. \/ Request(t, <<"save">>, [status |-> "COMPLETED"], {})
        \/ Request(t, <<"save">>, Completed, {})
    BY <1>10 DEF JoinOver
  <2> QED BY <1>2, <1>3, <2>1, StatusFits, CompletedFits, Lists, RequestKeeps
<1>11. CASE JoinBack(t)
  BY <1>2, <1>3, <1>11, StatusFits, Lists, RequestKeeps DEF JoinBack
<1> QED BY <1>4, <1>5, <1>6, <1>7, <1>8, <1>9, <1>10, <1>11

(* The two requests that are one step each.                                *)
LEMMA CancelSeriesKeeps == ASSUME IInv, NEW t \in Requests, CancelSeries(t) PROVE IInv'
<1>1. session' = [session EXCEPT !.status = "CANCELLED"] /\ acts < MaxActs /\ acts' = acts + 1
      /\ UNCHANGED <<now, open, room, tokens, hooks, task, failures>>
  BY DEF CancelSeries
<1>2. Planned(session)'
  BY <1>1 DEF IInv, Planned, Row, Statuses, Terminal
<1>3. acts' \in 0..MaxActs BY <1>1, LiveClassAssumption DEF IInv
<1> QED BY <1>1, <1>2, <1>3 DEF IInv

LEMMA JoinKeeps == ASSUME IInv, NEW t \in Requests, NEW p \in People, Join(t, p) PROVE IInv'
<1>1. tokens' = tokens \cup {p} /\ acts < MaxActs /\ acts' = acts + 1
      /\ UNCHANGED <<now, session, open, room, hooks, task, failures>>
  BY DEF Join
<1>2. tokens' \subseteq People BY <1>1 DEF IInv
<1>3. acts' \in 0..MaxActs BY <1>1, LiveClassAssumption DEF IInv
<1> QED BY <1>1, <1>2, <1>3 DEF IInv, Planned

LEMMA JobsKeep == ASSUME IInv, Sync \/ AutoComplete \/ Sample PROVE IInv'
<1>1. WriteFits(Synced(session)) BY SyncedFits DEF IInv
<1>2. "sync" \in Jobs /\ "auto" \in Jobs /\ "sample" \in Jobs BY DEF Jobs
<1>3. {} \in SUBSET People /\ room \in SUBSET People BY DEF IInv
<1>4. CASE Sync BY <1>1, <1>2, <1>3, <1>4, Lists, JobKeeps DEF Sync
<1>5. CASE AutoComplete
  <2>1. \/ Job("auto", <<"save", "close", "room">>, Synced(session), {})
        \/ Job("auto", <<"save">>, Synced(session), {})
    BY <1>5 DEF AutoComplete
  <2> QED BY <1>1, <1>2, <1>3, <2>1, Lists, JobKeeps
<1>6. CASE Sample BY <1>2, <1>3, <1>6, CompletedFits, Lists, JobKeeps DEF Sample
<1> QED BY <1>4, <1>5, <1>6

(* What the later steps write, wherever the row is by then.                *)
LEMMA DoKeeps ==
    ASSUME IInv, NEW t \in Tasks, NEW step, Do(step, t)
    PROVE  /\ Planned(session)'
           /\ open' \subseteq People /\ room' \subseteq People /\ tokens' \subseteq People
           /\ hooks' \subseteq Hook
<1>1. /\ Planned(session) /\ WriteFits(task[t].write) /\ task[t].who \subseteq People
      /\ open \subseteq People /\ room \subseteq People /\ tokens \subseteq People
      /\ hooks \subseteq Hook
  BY DEF IInv, WorkFits
<1>2. CASE /\ session' = Written(session, task[t].write)
           /\ UNCHANGED <<open, room, tokens, hooks>>
  <2>1. Planned(Written(session, task[t].write)) BY <1>1, WrittenIsPlanned
  <2> QED BY <1>1, <1>2, <2>1 DEF Planned
<1>3. CASE open' = {} /\ UNCHANGED <<session, room, tokens, hooks>>
  BY <1>1, <1>3 DEF Planned
<1>4. CASE DeleteRoom /\ UNCHANGED <<session, open, tokens>>
  <2>1. hooks' \subseteq Hook BY <1>1, <1>4 DEF DeleteRoom, Hook
  <2>2. room' = {} BY <1>4 DEF DeleteRoom
  <2> QED BY <1>1, <1>4, <2>1, <2>2 DEF Planned
<1>5. CASE tokens' = tokens \cup task[t].who /\ UNCHANGED <<session, open, room, hooks>>
  BY <1>1, <1>5 DEF Planned
<1>6. CASE open' = open \cap task[t].who /\ UNCHANGED <<session, room, tokens, hooks>>
  BY <1>1, <1>6 DEF Planned
<1> QED BY <1>2, <1>3, <1>4, <1>5, <1>6 DEF Do

LEMMA FailedOnce ==
    ASSUME IInv, Fail
    PROVE  /\ failures' \in 0..MaxFailures
           /\ UNCHANGED <<now, session, open, room, tokens, acts>>
BY LiveClassAssumption DEF IInv, Fail

LEMMA TasksKeep ==
    ASSUME IInv, NEW t \in Tasks, Continue(t) \/ Die(t) \/ RoomStays(t) PROVE IInv'
<1>1. WorkFits(task[t]) BY DEF IInv
<1>2. CASE Continue(t)
  <2>1. task[t] # Idle /\ task' = [task EXCEPT ![t] = Forget(t)]
        /\ UNCHANGED <<now, acts, failures>>
    BY <1>2 DEF Continue
  <2>2. WorkFits(Forget(t)) BY <1>1, <2>1, ForgetFits
  <2>3. task' = [s \in Tasks |-> task'[s]] /\ \A s \in Tasks : WorkFits(task'[s])
    BY <2>1, <2>2, TaskMoves
  <2>4. PICK step : Do(step, t) BY <1>2 DEF Continue
  <2> QED BY <2>1, <2>3, <2>4, DoKeeps DEF IInv
<1>3. CASE Die(t)
  <2>1. task' = [task EXCEPT ![t] = Idle] /\ Fail /\ UNCHANGED hooks BY <1>3 DEF Die
  <2>2. task' = [s \in Tasks |-> task'[s]] /\ \A s \in Tasks : WorkFits(task'[s])
    BY <2>1, IdleFits, TaskMoves
  <2> QED BY <2>1, <2>2, FailedOnce DEF IInv, Planned
<1>4. CASE RoomStays(t)
  <2>1. task[t] # Idle /\ task' = [task EXCEPT ![t] = Forget(t)] /\ Fail /\ UNCHANGED hooks
    BY <1>4 DEF RoomStays
  <2>2. WorkFits(Forget(t)) BY <1>1, <2>1, ForgetFits
  <2>3. task' = [s \in Tasks |-> task'[s]] /\ \A s \in Tasks : WorkFits(task'[s])
    BY <2>1, <2>2, TaskMoves
  <2> QED BY <2>1, <2>3, FailedOnce DEF IInv, Planned
<1> QED BY <1>2, <1>3, <1>4

-----------------------------------------------------------------------------
(* The room and its webhooks.                                              *)

LEMMA EnterKeeps == ASSUME IInv, NEW p \in People, Enter(p) PROVE IInv'
<1>1. /\ room' = room \cup {p} /\ hooks' = hooks \cup {[kind |-> "joined", who |-> p]}
      /\ acts < MaxActs /\ acts' = acts + 1
      /\ UNCHANGED <<now, session, open, tokens, task, failures>>
  BY DEF Enter
<1>2. room' \subseteq People BY <1>1 DEF IInv
<1>3. hooks' \subseteq Hook BY <1>1 DEF IInv, Hook
<1>4. acts' \in 0..MaxActs BY <1>1, LiveClassAssumption DEF IInv
<1> QED BY <1>1, <1>2, <1>3, <1>4 DEF IInv, Planned

LEMMA LeaveKeeps == ASSUME IInv, NEW p \in People, Leave(p) PROVE IInv'
<1>1. PICK finished \in SUBSET {[kind |-> "finished", who |-> None]} :
        hooks' = hooks \cup {[kind |-> "left", who |-> p]} \cup finished
  BY DEF Leave
<1>2. room' = room \ {p} /\ UNCHANGED <<now, session, open, tokens, task, acts, failures>>
  BY DEF Leave
<1>3. hooks' \subseteq Hook BY <1>1 DEF IInv, Hook
<1> QED BY <1>2, <1>3 DEF IInv, Planned

(* A person is taken in or marked absent; the presence of the teacher      *)
(* writes the row.                                                         *)
LEMMA DeliverKeeps == ASSUME IInv, Deliver PROVE IInv'
<1>1. PICK e \in hooks : ParticipantJoined(e) \/ ParticipantLeft(e) \/ RoomFinished(e)
  BY DEF Deliver
<1>2. /\ hooks' = hooks \ {e}
      /\ UNCHANGED <<now, room, tokens, task, acts, failures>>
  BY <1>1 DEF ParticipantJoined, ParticipantLeft, RoomFinished, Handled
<1>3. e.kind \in {"joined", "left"} => e.who \in People BY DEF IInv, Hook
<1>4. open' \subseteq People
  BY <1>1, <1>3 DEF IInv, ParticipantJoined, ParticipantLeft, RoomFinished
<1>5. Planned(session) /\ now \in 0..Horizon BY DEF IInv
<1>6. Planned(session')
  <2>1. CASE session' = session BY <1>5, <2>1
  <2>2. CASE session' = [session EXCEPT !.left = None, !.status = "LIVE"]
    BY <1>5, <2>2 DEF Planned, Row, Statuses, OpenStatuses
  <2>3. CASE session' = [session EXCEPT !.left = now,
                           !.status = IF @ = "PAUSED" THEN @ ELSE "RECONNECTING"]
    BY <1>5, <2>3 DEF Planned, Row, Statuses, OpenStatuses
  <2>4. CASE session' = Written(session, Completed)
    BY <1>5, <2>4, CompletedFits, WrittenIsPlanned
  <2> QED BY <1>1, <2>1, <2>2, <2>3, <2>4 DEF ParticipantJoined, ParticipantLeft, RoomFinished
<1> QED BY <1>2, <1>4, <1>6 DEF IInv, Planned

LEMMA LoseKeeps == ASSUME IInv, NEW e \in hooks, Lose(e) PROVE IInv'
<1>1. hooks' \subseteq Hook /\ Fail /\ UNCHANGED task BY DEF IInv, Lose
<1> QED BY <1>1, FailedOnce DEF IInv, Planned

LEMMA TickKeeps == ASSUME IInv, Tick PROVE IInv'
<1>1. now' \in 0..Horizon BY LiveClassAssumption DEF IInv, Tick
<1> QED BY <1>1 DEF IInv, Tick, Planned

-----------------------------------------------------------------------------
(* The theorems.                                                           *)

LEMMA InitIInv == Init => IInv
<1> SUFFICES ASSUME Init PROVE IInv OBVIOUS
<1>1. PICK s \in Starts : session = [status |-> "SCHEDULED", left |-> None, start |-> s,
                                     end |-> s + Length, extended |-> None]
  BY DEF Init
<1>2. Planned(session) BY <1>1, PlansAreTimes DEF Planned, Row, Statuses
<1>3. task = [t \in Tasks |-> task[t]] /\ \A t \in Tasks : WorkFits(task[t])
  BY IdleFits DEF Init
<1> QED BY <1>2, <1>3, LiveClassAssumption DEF Init, IInv

LEMMA NextKeepsIInv == IInv /\ [Next]_vars => IInv'
<1> SUFFICES ASSUME IInv, [Next]_vars PROVE IInv' OBVIOUS
<1>1. CASE \E t \in Requests :
             \/ Cancel(t) \/ CancelSeries(t) \/ Reschedule(t) \/ Extend(t)
             \/ End(t) \/ AdminEnd(t) \/ Pause(t)
             \/ JoinOver(t) \/ JoinBack(t) \/ \E p \in People : Join(t, p)
  BY <1>1, RequestsKeep, CancelSeriesKeeps, JoinKeeps
<1>2. CASE Sync \/ AutoComplete \/ Sample BY <1>2, JobsKeep
<1>3. CASE \E t \in Tasks : Continue(t) \/ Die(t) \/ RoomStays(t) BY <1>3, TasksKeep
<1>4. CASE \E p \in People : Enter(p) \/ Leave(p) BY <1>4, EnterKeeps, LeaveKeeps
<1>5. CASE Deliver BY <1>5, DeliverKeeps
<1>6. CASE \E e \in hooks : Lose(e) BY <1>6, LoseKeeps
<1>7. CASE Tick BY <1>7, TickKeeps
<1>8. CASE UNCHANGED vars BY <1>8 DEF IInv, Planned, vars
<1> QED BY <1>1, <1>2, <1>3, <1>4, <1>5, <1>6, <1>7, <1>8 DEF Next

(* Whatever is still to be saved fits the row that will be there by then:  *)
(* requests and jobs write the columns they name, whole plans at a time,   *)
(* and webhooks may have rewritten the others in between                   *)
(* (livestream/models.py sync_status, livestream/views.py).                *)
THEOREM ClassInvariance == Spec => []IInv
<1> QED BY InitIInv, NextKeepsIInv, PTL DEF Spec

(* The row, the attendance, the room, the webhooks and the tasks of a live *)
(* class keep their types, and a save under way leaves a row of its type,  *)
(* whatever the other handlers wrote since it was read: the end of an      *)
(* extended class stays bounded (livestream/views.py, ExtendSessionView).  *)
THEOREM ClassTypeCorrect == Spec => []TypeOK
<1>1. IInv => TypeOK
  <2> SUFFICES ASSUME IInv PROVE TypeOK OBVIOUS
  <2>1. session \in Row BY DEF IInv, Planned
  <2>2. ASSUME NEW t \in Tasks
        PROVE  /\ \A i \in DOMAIN task[t].todo : task[t].todo[i] \in Steps
               /\ Written(session, task[t].write) \in Row
               /\ task[t].who \subseteq People
    <3>1. WorkFits(task[t]) /\ Planned(session) BY DEF IInv
    <3>2. Written(session, task[t].write) \in Row
      BY <3>1, WrittenIsPlanned DEF WorkFits, Planned
    <3>3. task[t].todo \in Seq(Steps) /\ task[t].who \subseteq People BY <3>1 DEF WorkFits
    <3> QED BY <3>2, <3>3
  <2> QED BY <2>1, <2>2 DEF IInv, TypeOK
<1> QED BY <1>1, ClassInvariance, PTL
=============================================================================
