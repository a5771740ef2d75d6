--------------------------- MODULE GroupRoomProofs ---------------------------
(***************************************************************************)
(* A group session for any number of invited people and of handlers, any   *)
(* lengths, edits, extensions and any number of retries: as long as the    *)
(* broker loses nothing a live room has a task that will end it, what is   *)
(* over stays over, and an empty room is noticed however sockets cross.    *)
(***************************************************************************)
EXTENDS GroupRoom, FiniteSetTheorems, TLAPS

(* What a hand holds between its steps.                                    *)
Job == {DeskIdle} \cup [op : {"update"}, len : Lengths \cup {Kept}, ahead : BOOLEAN]
           \cup [op : {"join"}, saw : RoomStatuses, over : BOOLEAN]
           \cup [op : {"end", "cancel"}]
           \cup [op : {"extend"}, used : {n \in 0..Extensions : n < Extensions}, len : Lengths]
           \cup [op : {"expire", "unattended"}]

(* Nobody has left a live room before there is one.                        *)
Unopened == room.status = "scheduled" => \A u \in Comers : socket[u] # "gone"

(* As long as somebody is still leaving an empty room the mark may wait.   *)
MarkIsComing ==
    Live /\ Present = {} /\ (\E u \in Comers : socket[u] = "gone")
        => room.left # "no" \/ \E u \in Comers : socket[u] \in Leaving

(* A task that will end the room in time: it comes early only after an     *)
(* edit it does not know of, and has been retried less often than that.    *)
Knows(t) == t.eta <= agreed /\ t.tries <= raised /\ (t.eta < Deadline => t.tries < raised)

TaskStands ==
    /\ Live => Deadline <= agreed
    /\ Live /\ lost = 0 /\ raised <= Retries =>
           (\E t \in cutoffs : Knows(t)) \/ desk["worker"].op = "expire"

IInv ==
    /\ GroupTypeOK
    /\ desk \in [Hands -> Job]
    /\ Unopened /\ CountIsCovered /\ MarkIsComing /\ TaskStands

-----------------------------------------------------------------------------
(* Rows, clocks and hands.                                                 *)

Room == [kind : Kinds, status : RoomStatuses, clock : -1..Horizon, len : Lengths,
         used : 0..Extensions, cap : Nat, conns : Int, left : {"no", "just", "long"}]
Invites == [Invited -> [status : {"pending", "accepted", "declined"}, declines : 0..2,
                        again : BOOLEAN]]
Task == [eta : Nat, tries : 0..Retries]

TasksOK == cutoffs \subseteq Task /\ lost \in 0..MaxLost /\ agreed \in Nat /\ raised \in Nat

(* Of GroupTypeOK, all but the hands.                                      *)
RowsOK ==
    /\ room \in Room /\ due \in {"ahead", "come", "missed"} /\ invites \in Invites
    /\ socket \in [Comers -> Places] /\ TasksOK

LEMMA JobOps == \A job \in Job : job.op \in {"none", "update", "join", "end", "cancel", "extend",
                                             "expire", "unattended"}
BY DEF Job, DeskIdle

(* The invariant, taken apart and put together.                            *)
LEMMA Parts ==
    IInv <=> /\ RowsOK /\ desk \in [Hands -> Job]
             /\ Unopened /\ CountIsCovered /\ MarkIsComing /\ TaskStands
BY JobOps DEF IInv, GroupTypeOK, RowsOK, TasksOK, Room, Invites, Task

LEMMA Together ==
    ASSUME RowsOK', desk' \in [Hands -> Job],
           Unopened', CountIsCovered', MarkIsComing', TaskStands'
    PROVE  IInv'
<1>1. (IInv <=> /\ RowsOK /\ desk \in [Hands -> Job]
                /\ Unopened /\ CountIsCovered /\ MarkIsComing /\ TaskStands)'
  BY Parts, PTL
<1> QED BY <1>1

LEMMA Numbers ==
    /\ Lengths \subseteq Nat \ {0} /\ Step \in Nat /\ Ceiling \in Nat /\ Extensions \in Nat
    /\ Retries \in Nat /\ Horizon \in Nat /\ MaxLost \in Nat
    /\ Edits \subseteq (Lengths \cup {Kept}) \X BOOLEAN
BY GroupRoomAssumption

(* An extension grants a time.                                             *)
LEMMA Caps == ASSUME NEW len \in Nat, NEW used \in Nat PROVE CapAfter(len, used) \in Nat
<1> DEFINE end == len + used * Step
<1>1. used * Step \in Nat BY Numbers
<1>2. end \in Nat BY <1>1
<1>3. CapAfter(len, used) = Later(len, Sooner(end, Ceiling)) BY DEF CapAfter
<1> HIDE DEF end
<1> QED BY <1>2, <1>3, Numbers DEF Later, Sooner

LEMMA Deadlines == RowsOK => Deadline \in Nat
BY Numbers DEF RowsOK, Room, Deadline, Later

LEMMA PeopleAreFinite ==
    RowsOK => IsFiniteSet(Present) /\ Cardinality(Present) \in Nat
<1>1. IsFiniteSet(Comers) BY FS_AddElement, GroupRoomAssumption DEF Comers
<1>2. Present \subseteq Comers BY DEF Present
<1> QED BY <1>1, <1>2, FS_Subset, FS_CardinalityType

LEMMA IdleIsAJob == DeskIdle \in Job
BY DEF Job

-----------------------------------------------------------------------------
(* Kinds of steps.                                                         *)

(* The tasks rest while the end of the room stays where it is.             *)
LEMMA TasksRest ==
    ASSUME TaskStands, UNCHANGED taskVars, room'.status = room.status,
           room'.len = room.len, room'.cap = room.cap,
           desk["worker"].op = "expire" => desk'["worker"].op = "expire"
    PROVE  TaskStands'
BY DEF TaskStands, Knows, Deadline, Live, taskVars

(* Invitations, clocks of the start and hands move; the room rests.        *)
LEMMA RoomIsAsItWas ==
    ASSUME IInv, UNCHANGED <<room, socket, taskVars>>,
           due' \in {"ahead", "come", "missed"}, invites' \in Invites, desk' \in [Hands -> Job],
           desk["worker"].op = "expire" => desk'["worker"].op = "expire"
    PROVE  IInv'
<1>1. RowsOK /\ Unopened /\ CountIsCovered /\ MarkIsComing /\ TaskStands BY Parts
<1>2. RowsOK' BY <1>1 DEF RowsOK, TasksOK, taskVars
<1>3. Unopened' BY <1>1 DEF Unopened
<1>4. CountIsCovered' BY <1>1 DEF CountIsCovered, Present, Live
<1>5. MarkIsComing' BY <1>1 DEF MarkIsComing, Present, Live
<1>6. TaskStands' BY <1>1, TasksRest
<1> QED BY <1>2, <1>3, <1>4, <1>5, <1>6, Together

(* A hand takes a job or lays one down.                                    *)
LEMMA OnlyAHandMoves ==
    ASSUME IInv, UNCHANGED <<room, due, invites, socket, taskVars>>, NEW h \in Hands,
           desk[h].op # "expire", NEW job \in Job, desk' = [desk EXCEPT ![h] = job]
    PROVE  IInv'
<1>1. RowsOK /\ desk \in [Hands -> Job] /\ "worker" \in Hands BY Parts DEF Hands
<1>2. desk' \in [Hands -> Job] BY <1>1
<1>3. desk["worker"].op = "expire" => desk'["worker"].op = "expire" BY <1>1
<1> QED BY <1>1, <1>2, <1>3, RoomIsAsItWas DEF RowsOK

(* A hand puts an end to the room, whatever it finds.                      *)
LEMMA Ends ==
    ASSUME IInv, UNCHANGED <<due, invites, socket, taskVars>>, NEW h \in Hands, Leave(h),
           room' \in Room, room'.status \in Over
    PROVE  IInv'
<1>1. RowsOK /\ desk \in [Hands -> Job] BY Parts
<1>2. desk' \in [Hands -> Job] BY <1>1, IdleIsAJob DEF Leave
<1>3. RowsOK' BY <1>1 DEF RowsOK, TasksOK, taskVars
<1>4. Unopened' /\ CountIsCovered' /\ MarkIsComing' /\ TaskStands'
  BY DEF Unopened, CountIsCovered, MarkIsComing, TaskStands, Live, Over
<1> QED BY <1>2, <1>3, <1>4, Together

(* A task is queued, unless the broker loses it: it knows the end.         *)
LEMMA Queued ==
    ASSUME IInv, NEW eta \in Nat, Queue(eta), Deadline' \in Nat
    PROVE  TasksOK' /\ TaskStands'
<1>1. TasksOK BY Parts DEF RowsOK
<1> DEFINE task == [eta |-> eta, tries |-> 0]
<1>2. task \in Task /\ task.eta = eta /\ task.tries = 0 BY Numbers DEF Task
<1>3. /\ agreed' = Later(eta, Deadline') /\ raised' = IF Deadline' > eta THEN 1 ELSE 0
      /\ \/ cutoffs' = cutoffs \cup {task} /\ UNCHANGED lost
         \/ lost < MaxLost /\ lost' = lost + 1 /\ UNCHANGED cutoffs
  BY DEF Queue
<1> HIDE DEF task
<1>4. /\ agreed' \in Nat /\ raised' \in Nat /\ Deadline' <= agreed' /\ eta <= agreed'
      /\ eta < Deadline' => 0 < raised'
  BY <1>3 DEF Later
<1>5. TasksOK' BY <1>1, <1>2, <1>3, <1>4, Numbers DEF TasksOK
<1>6. ASSUME lost' = 0 PROVE \E t \in cutoffs' : Knows(t)'
  <2>1. lost \in Nat BY <1>1 DEF TasksOK
  <2>2. task \in cutoffs' BY <1>3, <1>6, <2>1
  <2>3. /\ task.eta <= agreed' /\ task.tries <= raised'
        /\ task.eta < Deadline' => task.tries < raised'
    BY <1>2, <1>4
  <2> QED BY <2>2, <2>3 DEF Knows
<1>7. TaskStands' BY <1>4, <1>6 DEF TaskStands
<1> QED BY <1>5, <1>7

-----------------------------------------------------------------------------
(* Invitations.                                                            *)

LEMMA InvitesKeep ==
    ASSUME IInv, NEW u \in Invited,
           AcceptGroupInvite(u) \/ DeclineGroupInvite(u) \/ Reinvite(u) \/ UnacceptInvite(u)
    PROVE  IInv'
<1> DEFINE Row == [status : {"pending", "accepted", "declined"}, declines : 0..2, again : BOOLEAN]
<1>1. invites \in [Invited -> Row] /\ due \in {"ahead", "come", "missed"}
      /\ desk \in [Hands -> Job]
  BY Parts DEF RowsOK, Invites
<1>2. PICK row \in Row : Answers(u, row)
  <2>1. CASE AcceptGroupInvite(u) BY <1>1, <2>1 DEF AcceptGroupInvite
  <2>2. CASE DeclineGroupInvite(u)
    <3> DEFINE row == [invites[u] EXCEPT !.status = "declined", !.declines = @ + 1]
    <3>1. invites[u] \in Row /\ invites[u].declines < 2 /\ Answers(u, row)
      BY <1>1, <2>2 DEF DeclineGroupInvite
    <3>2. invites[u].declines + 1 \in 0..2 BY <3>1
    <3>3. row \in Row BY <3>1, <3>2
    <3> HIDE DEF row, Row
    <3> QED BY <3>1, <3>3
  <2>3. CASE Reinvite(u) BY <1>1, <2>3 DEF Reinvite
  <2>4. CASE UnacceptInvite(u) BY <1>1, <2>4 DEF UnacceptInvite
  <2> QED BY <2>1, <2>2, <2>3, <2>4
<1>3. invites' \in Invites BY <1>1, <1>2 DEF Answers, Invites
<1>4. UNCHANGED <<room, socket, taskVars, due, desk>> BY <1>2 DEF Answers, RoomRests
<1> QED BY <1>1, <1>3, <1>4, RoomIsAsItWas

-----------------------------------------------------------------------------
(* Handlers.                                                               *)

LEMMA BeginsKeep ==
    ASSUME IInv, NEW h \in Desks,
           \/ \E edit \in Edits : BeginUpdate(h, edit[1], edit[2])
           \/ \E u \in Comers : BeginJoin(h, u)
           \/ \E op \in {"end", "cancel"} : BeginHost(h, op)
           \/ BeginExtend(h)
    PROVE  IInv'
<1>1. h \in Hands /\ room \in Room BY Parts DEF RowsOK, Hands
<1>2. PICK job \in Job : Begin(h, job)
  <2>1. ASSUME NEW edit \in Edits, BeginUpdate(h, edit[1], edit[2])
        PROVE  \E job \in Job : Begin(h, job)
    <3> DEFINE job == [op |-> "update", len |-> edit[1], ahead |-> edit[2]]
    <3>1. edit[1] \in Lengths \cup {Kept} /\ edit[2] \in BOOLEAN BY Numbers
    <3>2. job \in Job BY <3>1 DEF Job
    <3>3. Begin(h, job) BY <2>1 DEF BeginUpdate
    <3> QED BY <3>2, <3>3
  <2>2. ASSUME NEW u \in Comers, BeginJoin(h, u) PROVE \E job \in Job : Begin(h, job)
    <3> DEFINE over == Live /\ room.clock >= Deadline
               job == [op |-> "join", saw |-> room.status, over |-> over]
    <3>1. room.status \in RoomStatuses BY <1>1 DEF Room
    <3>2. over \in BOOLEAN OBVIOUS
    <3>3. Begin(h, job) BY <2>2 DEF BeginJoin
    <3> HIDE DEF over
    <3>4. job \in Job BY <3>1, <3>2 DEF Job
    <3> QED BY <3>3, <3>4
  <2>3. ASSUME NEW op \in {"end", "cancel"}, BeginHost(h, op)
        PROVE  \E job \in Job : Begin(h, job)
    <3>1. [op |-> op] \in Job BY DEF Job
    <3> QED BY <2>3, <3>1 DEF BeginHost
  <2>4. CASE BeginExtend(h)
    <3> DEFINE job == [op |-> "extend", used |-> room.used, len |-> room.len]
    <3>1. room.used \in {n \in 0..Extensions : n < Extensions} /\ room.len \in Lengths
      BY <1>1, <2>4 DEF BeginExtend, Room
    <3>2. job \in Job BY <3>1 DEF Job
    <3>3. Begin(h, job) BY <2>4 DEF BeginExtend
    <3> QED BY <3>2, <3>3
  <2> QED BY <2>1, <2>2, <2>3, <2>4
<1>3. UNCHANGED <<room, due, invites, socket, taskVars>>
  BY DEF BeginUpdate, BeginJoin, BeginHost, BeginExtend, RowsRest
<1>4. desk[h].op # "expire" /\ desk' = [desk EXCEPT ![h] = job]
  BY <1>2 DEF Begin, Take, DeskIdle
<1> QED BY <1>1, <1>2, <1>3, <1>4, OnlyAHandMoves

(* An edit that comes after the start moves the end of the room: the task  *)
(* then knows of one edit less, and may be retried once more.              *)
LEMMA UpdateKeeps == ASSUME IInv, NEW h \in Hands, UpdateGroupSession(h) PROVE IInv'
<1>1. /\ RowsOK /\ Unopened /\ CountIsCovered /\ MarkIsComing /\ TaskStands
      /\ desk \in [Hands -> Job] /\ desk[h].op = "update" /\ desk[h] \in Job
  BY Parts DEF UpdateGroupSession
<1>2. desk[h].len \in Lengths \cup {Kept} BY <1>1 DEF Job, DeskIdle
<1> DEFINE len == IF desk[h].len = Kept THEN room.len ELSE desk[h].len
<1>3. len \in Lengths BY <1>1, <1>2 DEF RowsOK, Room
<1>4. room' = [room EXCEPT !.len = len] BY <1>1 DEF UpdateGroupSession, Edited
<1>5. /\ due' = IF desk[h].ahead /\ ~RoomStarted THEN "ahead" ELSE due
      /\ agreed' = IF Live THEN Later(agreed, Deadline') ELSE agreed
      /\ raised' = IF Live /\ Deadline' > Deadline THEN raised + 1 ELSE raised
      /\ Leave(h) /\ UNCHANGED <<invites, socket, cutoffs, lost>>
  BY DEF UpdateGroupSession
<1> HIDE DEF len
<1>6. /\ room' \in Room /\ room'.status = room.status /\ room'.conns = room.conns
      /\ room'.left = room.left
  BY <1>1, <1>3, <1>4 DEF RowsOK, Room
<1>7. Deadline \in Nat /\ Deadline' \in Nat
  <2>1. Deadline \in Nat BY <1>1, Deadlines
  <2>2. room'.len \in Nat /\ room'.cap \in Nat BY <1>6, Numbers DEF Room
  <2> QED BY <2>1, <2>2 DEF Deadline, Later
<1>8. agreed \in Nat /\ raised \in Nat BY <1>1 DEF RowsOK, TasksOK
<1>9. agreed' \in Nat /\ raised' \in Nat /\ agreed <= agreed' /\ raised <= raised'
      /\ (Live => Deadline' <= agreed')
  BY <1>5, <1>7, <1>8 DEF Later
<1>10. RowsOK' BY <1>1, <1>5, <1>6, <1>9 DEF RowsOK, TasksOK
<1>11. desk' \in [Hands -> Job] BY <1>1, <1>5, IdleIsAJob DEF Leave
<1>12. Unopened' BY <1>1, <1>5, <1>6 DEF Unopened
<1>13. CountIsCovered' BY <1>1, <1>5, <1>6 DEF CountIsCovered, Present, Live
<1>14. MarkIsComing' BY <1>1, <1>5, <1>6 DEF MarkIsComing, Present, Live
<1>15. TaskStands'
  <2>1. Live' <=> Live BY <1>6 DEF Live
  <2>2. ASSUME Live, lost = 0, raised' <= Retries
        PROVE  (\E t \in cutoffs : Knows(t)') \/ desk'["worker"].op = "expire"
    <3>1. raised <= Retries BY <1>8, <1>9, <2>2, Numbers
    <3>2. CASE desk["worker"].op = "expire"
      <4>1. h # "worker" BY <1>1, <3>2
      <4> QED BY <1>1, <1>5, <3>2, <4>1 DEF Leave
    <3>3. ASSUME NEW t \in cutoffs, Knows(t) PROVE Knows(t)'
      <4>1. t.eta \in Nat /\ t.tries \in Nat BY <1>1, Numbers DEF RowsOK, TasksOK, Task
      <4>2. t.eta <= agreed /\ t.tries <= raised /\ (t.eta < Deadline => t.tries < raised)
        BY <3>3 DEF Knows
      <4>3. t.eta <= agreed' /\ t.tries <= raised' BY <1>8, <1>9, <4>1, <4>2
      <4>4. ASSUME t.eta < Deadline' PROVE t.tries < raised'
        <5>1. CASE Deadline' > Deadline BY <1>5, <1>8, <2>2, <4>1, <4>2, <5>1
        <5>2. CASE ~(Deadline' > Deadline)
          <6>1. t.eta < Deadline BY <1>7, <4>1, <4>4, <5>2
          <6> QED BY <1>8, <1>9, <4>1, <4>2, <6>1
        <5> QED BY <5>1, <5>2
      <4> QED BY <4>3, <4>4 DEF Knows
    <3> QED BY <1>1, <2>2, <3>1, <3>2, <3>3 DEF TaskStands
  <2> QED BY <1>5, <1>9, <2>1, <2>2 DEF TaskStands
<1> QED BY <1>10, <1>11, <1>12, <1>13, <1>14, <1>15, Together

LEMMA StartRoomKeeps == ASSUME IInv, NEW h \in Hands, StartRoom(h) PROVE IInv'
<1>1. /\ RowsOK /\ Unopened /\ TaskStands /\ desk \in [Hands -> Job]
      /\ desk[h].op = "join" /\ desk[h] \in Job
  BY Parts DEF StartRoom
<1> DEFINE saw == IF room.status = "scheduled" THEN "live" ELSE room.status
           job == [desk[h] EXCEPT !.saw = saw]
<1>2. desk' = [desk EXCEPT ![h] = job] BY DEF StartRoom
<1>3. job \in Job
  <2>1. desk[h] \in [op : {"join"}, saw : RoomStatuses, over : BOOLEAN] BY <1>1 DEF Job, DeskIdle
  <2>2. saw \in RoomStatuses BY <1>1 DEF RowsOK, Room, RoomStatuses
  <2> HIDE DEF saw
  <2>3. job \in [op : {"join"}, saw : RoomStatuses, over : BOOLEAN] BY <2>1, <2>2
  <2> QED BY <2>3 DEF Job
<1> HIDE DEF job
<1>4. CASE room.status # "scheduled"
  BY <1>1, <1>2, <1>3, <1>4, OnlyAHandMoves DEF StartRoom
<1>5. CASE room.status = "scheduled"
  <2>1. room' = Opened /\ due' = "come" /\ Queue(room.len) /\ UNCHANGED <<invites, socket>>
    BY <1>5 DEF StartRoom
  <2>2. room' \in Room /\ room'.status = "live" /\ room'.conns = 0
    <3>1. room \in Room BY <1>1 DEF RowsOK
    <3>2. 0 \in -1..Horizon /\ 0 \in Int /\ "live" \in RoomStatuses BY Numbers DEF RoomStatuses
    <3> QED BY <2>1, <3>1, <3>2 DEF Opened, Room
  <2>3. room.len \in Nat /\ Deadline' \in Nat
    <3>1. room.len \in Nat BY <1>1, Numbers DEF RowsOK, Room
    <3>2. room'.len \in Nat /\ room'.cap \in Nat BY <2>2, Numbers DEF Room
    <3> QED BY <3>1, <3>2 DEF Deadline, Later
  <2>4. TasksOK' /\ TaskStands' BY <2>1, <2>3, Queued
  <2>5. RowsOK' BY <1>1, <2>1, <2>2, <2>4 DEF RowsOK
  <2>6. desk' \in [Hands -> Job] BY <1>1, <1>2, <1>3
  <2>7. Unopened' BY <2>2 DEF Unopened
  <2>8. CountIsCovered'
    <3>1. Cardinality(Present) \in Nat /\ Present' = Present
      BY <1>1, <2>1, PeopleAreFinite DEF Present
    <3> QED BY <2>2, <3>1 DEF CountIsCovered
  <2>9. MarkIsComing' BY <1>1, <1>5, <2>1 DEF MarkIsComing, Unopened
  <2> QED BY <2>4, <2>5, <2>6, <2>7, <2>8, <2>9, Together
<1> QED BY <1>4, <1>5

(* The row with another status, count and mark.                            *)
LEMMA RowCloses ==
    ASSUME IInv, NEW status \in Over, NEW conns \in Int, NEW left \in {"no", "just", "long"}
    PROVE  LET row == [room EXCEPT !.status = status, !.conns = conns, !.left = left]
           IN  row \in Room /\ row.status \in Over
BY Parts DEF RowsOK, Room, RoomStatuses, Over

LEMMA FinalWritesKeep ==
    ASSUME IInv, NEW h \in Hands,
           EndGroupSession(h) \/ CancelGroupSession(h) \/ Expire(h) \/ (h = "cron" /\ MarkUnattended)
    PROVE  IInv'
<1>1. PICK status \in Over, conns \in Int, left \in {"no", "just", "long"} :
        room' = [room EXCEPT !.status = status, !.conns = conns, !.left = left]
  <2>1. /\ room \in Room /\ room.conns \in Int /\ room.left \in {"no", "just", "long"}
        /\ \A status : [room EXCEPT !.status = status]
                         = [room EXCEPT !.status = status, !.conns = room.conns,
                                        !.left = room.left]
    BY Parts DEF RowsOK, Room
  <2>2. CASE EndGroupSession(h)
    <3>1. "completed" \in Over /\ 0 \in Int /\ "just" \in {"no", "just", "long"} BY DEF Over
    <3>2. room' = [room EXCEPT !.status = "completed", !.conns = 0, !.left = "just"]
      BY <2>2 DEF EndGroupSession
    <3> QED BY <3>1, <3>2
  <2>3. CASE CancelGroupSession(h) BY <2>1, <2>3 DEF CancelGroupSession, Over
  <2>4. CASE Expire(h) BY <2>1, <2>4 DEF Expire, EndedInternally, Over
  <2>5. CASE MarkUnattended BY <2>1, <2>5 DEF MarkUnattended, Over
  <2> QED BY <2>2, <2>3, <2>4, <2>5
<1>2. room' \in Room /\ room'.status \in Over BY <1>1, RowCloses
<1>3. Leave(h) /\ UNCHANGED <<due, invites, socket, taskVars>>
  BY DEF EndGroupSession, CancelGroupSession, Expire, MarkUnattended, RowsRest
<1> QED BY <1>2, <1>3, Ends

LEMMA EnterKeeps == ASSUME IInv, NEW h \in Hands, Enter(h) PROVE IInv'
<1>1. desk[h].op = "join" /\ Leave(h) /\ UNCHANGED <<due, invites, socket, taskVars>>
      /\ (UNCHANGED room \/ EndedInternally)
  BY DEF Enter, RowsRest
<1>2. CASE UNCHANGED room
  BY <1>1, <1>2, IdleIsAJob, OnlyAHandMoves DEF Leave
<1>3. CASE EndedInternally
  <2>1. room' \in Room /\ room'.status \in Over
    BY <1>3, Parts DEF EndedInternally, RowsOK, Room, RoomStatuses, Over
  <2> QED BY <1>1, <2>1, Ends
<1> QED BY <1>1, <1>2, <1>3

LEMMA ExtendKeeps == ASSUME IInv, NEW h \in Hands, ExtendGroupSession(h) PROVE IInv'
<1>1. /\ RowsOK /\ Unopened /\ CountIsCovered /\ MarkIsComing
      /\ desk \in [Hands -> Job] /\ desk[h].op = "extend" /\ desk[h] \in Job
  BY Parts DEF ExtendGroupSession
<1>2. desk[h].used \in 0..Extensions /\ desk[h].used < Extensions /\ desk[h].len \in Lengths
  BY <1>1 DEF Job, DeskIdle
<1> DEFINE used == desk[h].used + 1
           cap == CapAfter(desk[h].len, used)
<1>3. used \in 0..Extensions /\ used \in Nat /\ desk[h].len \in Nat
  <2>1. \A n \in 0..Extensions : n < Extensions => n + 1 \in 0..Extensions BY Numbers
  <2>2. used \in 0..Extensions BY <1>2, <2>1
  <2>3. \A n \in 0..Extensions : n \in Nat BY Numbers
  <2>4. desk[h].len \in Nat BY <1>2, Numbers
  <2> HIDE DEF used
  <2> QED BY <2>2, <2>3, <2>4
<1>4. cap \in Nat BY <1>3, Caps
<1>5. /\ room' = [room EXCEPT !.used = used, !.cap = cap] /\ Queue(cap) /\ Leave(h)
      /\ UNCHANGED <<due, invites, socket>>
  BY DEF ExtendGroupSession, RowsRest
<1> HIDE DEF used, cap
<1>6. /\ room' \in Room /\ room'.status = room.status
      /\ room'.conns = room.conns /\ room'.left = room.left
  BY <1>1, <1>3, <1>4, <1>5 DEF RowsOK, Room
<1>7. Deadline' \in Nat
  <2>1. room'.len \in Nat /\ room'.cap \in Nat BY <1>6, Numbers DEF Room
  <2> QED BY <2>1 DEF Deadline, Later
<1>8. TasksOK' /\ TaskStands' BY <1>4, <1>5, <1>7, Queued
<1>9. RowsOK' BY <1>1, <1>5, <1>6, <1>8 DEF RowsOK
<1>10. desk' \in [Hands -> Job] BY <1>1, <1>5, IdleIsAJob DEF Leave
<1>11. Unopened' BY <1>1, <1>5, <1>6 DEF Unopened
<1>12. CountIsCovered' BY <1>1, <1>5, <1>6 DEF CountIsCovered, Present, Live
<1>13. MarkIsComing' BY <1>1, <1>5, <1>6 DEF MarkIsComing, Present, Live
<1> QED BY <1>8, <1>9, <1>10, <1>11, <1>12, <1>13, Together

-----------------------------------------------------------------------------
(* Sockets.                                                                *)

(* A socket moves and the room counts: what is left to show of the step.   *)
LEMMA SocketMoves ==
    ASSUME IInv, OnlyRoom, NEW u \in Comers, NEW place \in Places,
           socket' = [socket EXCEPT ![u] = place],
           NEW conns \in Int, NEW left \in {"no", "just", "long"},
           room' = [room EXCEPT !.conns = conns, !.left = left],
           room.status = "scheduled" => place # "gone",
           CountIsCovered', MarkIsComing'
    PROVE  IInv'
<1>1. RowsOK /\ Unopened /\ TaskStands /\ desk \in [Hands -> Job]
      /\ UNCHANGED <<desk, taskVars, due, invites>>
  BY Parts DEF OnlyRoom, RowsRest
<1>2. /\ room' \in Room /\ room'.status = room.status /\ room'.len = room.len
      /\ room'.cap = room.cap
  BY <1>1 DEF RowsOK, Room
<1>3. socket' \in [Comers -> Places] BY <1>1 DEF RowsOK
<1>4. RowsOK' BY <1>1, <1>2, <1>3 DEF RowsOK, TasksOK, taskVars
<1>5. Unopened' BY <1>1, <1>2 DEF Unopened, RowsOK
<1>6. TaskStands' BY <1>1, <1>2, TasksRest
<1> QED BY <1>1, <1>4, <1>5, <1>6, Together

LEMMA CountAndMark == RowsOK => room.conns \in Int /\ room.left \in {"no", "just", "long"}
BY DEF RowsOK, Room

(* A row whose count or mark stays is written as a row with both.          *)
LEMMA SameRow == RowsOK => room = [room EXCEPT !.conns = room.conns, !.left = room.left]
BY DEF RowsOK, Room

LEMMA SameMark ==
    ASSUME RowsOK, NEW n
    PROVE  [room EXCEPT !.conns = n] = [room EXCEPT !.conns = n, !.left = room.left]
BY DEF RowsOK, Room

LEMMA ConnectKeeps == ASSUME IInv, NEW u \in Comers, GroupConnect(u) PROVE IInv'
<1>1. RowsOK /\ CountIsCovered /\ socket \in [Comers -> Places] BY Parts DEF RowsOK
<1>2. socket[u] # "in" /\ socket' = [socket EXCEPT ![u] = "in"] /\ OnlyRoom
  BY DEF GroupConnect, Move
<1>3. Present' = Present \cup {u} /\ u \notin Present BY <1>1, <1>2 DEF Present
<1>4. Cardinality(Present') = Cardinality(Present) + 1 /\ Cardinality(Present) \in Nat
  BY <1>1, <1>3, PeopleAreFinite, FS_AddElement
<1>5. MarkIsComing' BY <1>3 DEF MarkIsComing
<1>6. "in" \in Places BY DEF Places
<1>7. CASE Live
  <2> DEFINE conns == room.conns + 1
  <2>1. room' = [room EXCEPT !.conns = conns, !.left = "no"] BY <1>7 DEF GroupConnect
  <2>2. conns \in Int BY <1>1, CountAndMark
  <2>3. CountIsCovered'
    <3>1. room'.conns = room.conns + 1 /\ room.conns \in Int
      BY <1>1, <2>1, CountAndMark DEF RowsOK, Room
    <3>2. room.conns <= Cardinality(Present) BY <1>1, <1>7 DEF CountIsCovered
    <3> QED BY <1>4, <3>1, <3>2 DEF CountIsCovered
  <2> HIDE DEF conns
  <2> QED BY <1>2, <1>5, <1>6, <2>1, <2>2, <2>3, SocketMoves
<1>8. CASE ~Live
  <2>1. UNCHANGED room BY <1>8 DEF GroupConnect
  <2>2. CountIsCovered' BY <1>8, <2>1 DEF CountIsCovered, Live
  <2>3. room' = [room EXCEPT !.conns = room.conns, !.left = room.left]
        /\ room.conns \in Int /\ room.left \in {"no", "just", "long"}
    BY <1>1, <2>1, SameRow, CountAndMark
  <2> QED BY <1>2, <1>5, <1>6, <2>2, <2>3, SocketMoves
<1> QED BY <1>7, <1>8

LEMMA DisconnectKeeps == ASSUME IInv, NEW u \in Comers, GroupDisconnect(u) PROVE IInv'
<1>1. RowsOK /\ CountIsCovered /\ socket \in [Comers -> Places] BY Parts DEF RowsOK
<1>2. socket[u] = "in" /\ socket' = [socket EXCEPT ![u] = "reading"] /\ OnlyRoom
  BY DEF GroupDisconnect, Move
<1>3. Present' = Present \ {u} /\ u \in Present BY <1>1, <1>2 DEF Present
<1>4. Cardinality(Present') = Cardinality(Present) - 1 /\ Cardinality(Present) \in Nat
  BY <1>1, <1>3, PeopleAreFinite, FS_RemoveElement
<1>5. MarkIsComing' BY <1>1, <1>2 DEF MarkIsComing, Leaving
<1>6. "reading" \in Places BY DEF Places, Leaving
<1>7. CASE Live
  <2> DEFINE conns == room.conns - 1
  <2>1. room' = [room EXCEPT !.conns = conns, !.left = room.left]
    BY <1>1, <1>7, SameMark DEF GroupDisconnect
  <2>2. conns \in Int /\ room.left \in {"no", "just", "long"} BY <1>1, CountAndMark
  <2>3. CountIsCovered'
    <3>1. room'.conns = room.conns - 1 /\ room.conns \in Int
      BY <1>1, <2>1, CountAndMark DEF RowsOK, Room
    <3>2. room.conns <= Cardinality(Present) BY <1>1, <1>7 DEF CountIsCovered
    <3> QED BY <1>4, <3>1, <3>2 DEF CountIsCovered
  <2> HIDE DEF conns
  <2> QED BY <1>2, <1>5, <1>6, <2>1, <2>2, <2>3, SocketMoves
<1>8. CASE ~Live
  <2>1. UNCHANGED room BY <1>8 DEF GroupDisconnect
  <2>2. CountIsCovered' BY <1>8, <2>1 DEF CountIsCovered, Live
  <2>3. room' = [room EXCEPT !.conns = room.conns, !.left = room.left]
        /\ room.conns \in Int /\ room.left \in {"no", "just", "long"}
    BY <1>1, <2>1, SameRow, CountAndMark
  <2> QED BY <1>2, <1>5, <1>6, <2>2, <2>3, SocketMoves
<1> QED BY <1>7, <1>8

(* Who reads a count above zero is not the last: somebody is in the room.  *)
LEMMA ReadBackKeeps == ASSUME IInv, NEW u \in Comers, ReadBack(u) PROVE IInv'
<1>1. RowsOK /\ CountIsCovered /\ MarkIsComing /\ socket \in [Comers -> Places]
  BY Parts DEF RowsOK
<1> DEFINE place == AfterReading(room.conns)
<1>2. /\ socket[u] = "reading" /\ socket' = [socket EXCEPT ![u] = place]
      /\ UNCHANGED room /\ OnlyRoom
  BY DEF ReadBack, Move
<1>3. place \in {"clamping", "marking", "gone", "away"} /\ (place = "gone" => Live)
      /\ (room.conns <= 0 => place \in Leaving)
  BY <1>1, CountAndMark DEF AfterReading, Out, Leaving
<1> HIDE DEF place
<1>4. Present' = Present BY <1>1, <1>2, <1>3 DEF Present
<1>5. CountIsCovered' BY <1>1, <1>2, <1>4 DEF CountIsCovered, Live
<1>6. MarkIsComing'
  <2> SUFFICES ASSUME Live, Present = {} PROVE place \in Leaving
    BY <1>1, <1>2, <1>4 DEF MarkIsComing, Live
  <2>1. room.conns <= Cardinality({}) BY <1>1 DEF CountIsCovered
  <2>2. Cardinality({}) = 0 BY FS_EmptySet
  <2> QED BY <1>3, <2>1, <2>2
<1>7. place \in Places BY <1>3 DEF Places, Leaving
<1>8. room.status = "scheduled" => place # "gone" BY <1>3 DEF Live
<1>9. room' = [room EXCEPT !.conns = room.conns, !.left = room.left]
      /\ room.conns \in Int /\ room.left \in {"no", "just", "long"}
  BY <1>1, <1>2, SameRow, CountAndMark
<1> QED BY <1>2, <1>5, <1>6, <1>7, <1>8, <1>9, SocketMoves

LEMMA ClampKeeps == ASSUME IInv, NEW u \in Comers, Clamp(u) PROVE IInv'
<1>1. RowsOK /\ socket \in [Comers -> Places] BY Parts DEF RowsOK
<1>2. /\ socket[u] = "clamping" /\ socket' = [socket EXCEPT ![u] = "marking"] /\ OnlyRoom
      /\ room' = [room EXCEPT !.conns = 0]
  BY DEF Clamp, Move
<1>3. room' = [room EXCEPT !.conns = 0, !.left = room.left] BY <1>1, <1>2, SameMark
<1>8. room'.conns = 0 /\ 0 \in Int /\ room.left \in {"no", "just", "long"}
  BY <1>1, <1>2, CountAndMark DEF RowsOK, Room
<1>4. Present' = Present /\ Cardinality(Present) \in Nat
  BY <1>1, <1>2, PeopleAreFinite DEF Present
<1>5. CountIsCovered' BY <1>4, <1>8 DEF CountIsCovered
<1>6. MarkIsComing' BY <1>1, <1>2 DEF MarkIsComing, Leaving
<1>7. "marking" \in Places BY DEF Places, Leaving
<1> DEFINE none == 0
<1>9. room' = [room EXCEPT !.conns = none, !.left = room.left] /\ none \in Int BY <1>3
<1> HIDE DEF none
<1>10. /\ OnlyRoom /\ socket' = [socket EXCEPT ![u] = "marking"]
       /\ room.left \in {"no", "just", "long"}
  BY <1>2, <1>8
<1> QED BY <1>5, <1>6, <1>7, <1>9, <1>10, SocketMoves

LEMMA MarkKeeps == ASSUME IInv, NEW u \in Comers, MarkAllLeft(u) PROVE IInv'
<1>1. RowsOK /\ socket \in [Comers -> Places] BY Parts DEF RowsOK
<1>2. socket[u] = "marking" /\ socket' = [socket EXCEPT ![u] = Out] /\ OnlyRoom
  BY DEF MarkAllLeft, Move
<1>3. Out \in Places /\ Out # "in" /\ (Out = "gone" => Live) BY DEF Out, Places
<1>4. Present' = Present /\ Cardinality(Present) \in Nat
  BY <1>1, <1>2, <1>3, PeopleAreFinite DEF Present
<1>5. room.status = "scheduled" => Out # "gone" BY <1>3 DEF Live
<1>6. CASE Live
  <2>1. room' = [room EXCEPT !.conns = 0, !.left = "just"] BY <1>6 DEF MarkAllLeft
  <2>2. room'.conns = 0 /\ room'.left = "just" BY <1>1, <2>1 DEF RowsOK, Room
  <2>3. CountIsCovered' /\ MarkIsComing' BY <1>4, <2>2 DEF CountIsCovered, MarkIsComing
  <2>4. 0 \in Int /\ "just" \in {"no", "just", "long"} OBVIOUS
  <2> QED BY <1>2, <1>3, <1>5, <2>1, <2>3, <2>4, SocketMoves
<1>7. CASE ~Live
  <2>1. UNCHANGED room BY <1>7 DEF MarkAllLeft
  <2>2. CountIsCovered' /\ MarkIsComing' BY <1>7, <2>1 DEF CountIsCovered, MarkIsComing, Live
  <2>3. room' = [room EXCEPT !.conns = room.conns, !.left = room.left]
        /\ room.conns \in Int /\ room.left \in {"no", "just", "long"}
    BY <1>1, <2>1, SameRow, CountAndMark
  <2> QED BY <1>2, <1>3, <1>5, <2>2, <2>3, SocketMoves
<1> QED BY <1>6, <1>7

-----------------------------------------------------------------------------
(* The cutoff tasks, the cleanup command and the clock.                    *)

(* A task that comes early has been overtaken by an edit, so that it has   *)
(* a retry left.                                                           *)
LEMMA HardExpireKeeps == ASSUME IInv, NEW t \in cutoffs, HardExpire(t) PROVE IInv'
<1>1. /\ RowsOK /\ Unopened /\ CountIsCovered /\ MarkIsComing /\ TaskStands
      /\ desk \in [Hands -> Job] /\ "worker" \in Hands
      /\ UNCHANGED <<room, socket, lost, agreed, raised, due, invites>> /\ t \in Task
      /\ room.clock >= t.eta /\ room.clock \in Int /\ Deadline \in Nat
  BY Parts, Deadlines DEF HardExpire, RowsRest, RowsOK, TasksOK, Room, Hands
<1>2. /\ cutoffs' \subseteq (cutoffs \cup Retried(t)) /\ cutoffs \ {t} \subseteq cutoffs'
  BY DEF HardExpire
<1>3. t.eta \in Nat /\ t.tries \in 0..Retries /\ t.tries \in Nat BY <1>1, Numbers DEF Task
<1>4. Retried(t) \subseteq Task
  <2>1. t.tries < Retries => t.tries + 1 \in 0..Retries BY <1>3, Numbers
  <2> QED BY <1>1, <2>1 DEF Retried, Task
<1>5. RowsOK' BY <1>1, <1>2, <1>4 DEF RowsOK, TasksOK
<1>6. desk' \in [Hands -> Job]
  <2>1. [op |-> "expire"] \in Job BY DEF Job
  <2> QED BY <1>1, <2>1 DEF HardExpire
<1>7. Unopened' BY <1>1 DEF Unopened
<1>8. CountIsCovered' BY <1>1 DEF CountIsCovered, Present, Live
<1>9. MarkIsComing' BY <1>1 DEF MarkIsComing, Present, Live
<1>10. TaskStands'
  <2> SUFFICES ASSUME Live, lost = 0, raised <= Retries
               PROVE  (\E s \in cutoffs' : Knows(s)) \/ desk'["worker"].op = "expire"
    BY <1>1 DEF TaskStands, Knows, Deadline, Live
  <2>1. CASE room.clock < Deadline
    <3>1. desk["worker"].op # "expire" BY DEF HardExpire, DeskIdle
    <3>2. PICK s \in cutoffs : Knows(s) BY <1>1, <3>1 DEF TaskStands
    <3>3. CASE s # t BY <1>2, <3>2, <3>3
    <3>4. CASE s = t
      <4>1. t.eta < Deadline BY <1>1, <1>3, <2>1
      <4>2. t.tries < raised /\ raised \in Nat /\ agreed \in Nat
        BY <1>1, <3>2, <3>4, <4>1 DEF Knows, RowsOK, TasksOK
      <4>3. t.tries < Retries BY <1>3, <4>2, Numbers
      <4> DEFINE again == [eta |-> Deadline, tries |-> t.tries + 1]
      <4>4. again \in cutoffs' BY <2>1, <4>3 DEF HardExpire, Retried
      <4>5. Deadline <= agreed BY <1>1 DEF TaskStands
      <4>6. Knows(again) BY <1>1, <1>3, <4>2, <4>5 DEF Knows
      <4> HIDE DEF again
      <4> QED BY <4>4, <4>6
    <3> QED BY <3>3, <3>4
  <2>2. CASE room.clock >= Deadline
    <3>1. desk' = [desk EXCEPT !["worker"] = [op |-> "expire"]] BY <2>2 DEF HardExpire
    <3> QED BY <1>1, <3>1
  <2> QED BY <1>1, <2>1, <2>2
<1> QED BY <1>5, <1>6, <1>7, <1>8, <1>9, <1>10, Together

LEMMA CleanupKeeps == ASSUME IInv, Cleanup PROVE IInv'
<1>1. PICK job \in {[op |-> "expire"], [op |-> "unattended"]} : Take("cron", job)
  BY DEF Cleanup
<1>2. job \in Job BY DEF Job
<1>3. /\ desk["cron"].op # "expire" /\ "cron" \in Hands /\ desk' = [desk EXCEPT !["cron"] = job]
      /\ UNCHANGED <<room, due, invites, socket, taskVars>>
  BY <1>1 DEF Take, DeskIdle, Hands, Cleanup, RowsRest
<1> QED BY <1>2, <1>3, OnlyAHandMoves

LEMMA TimeKeeps == ASSUME IInv, TimePasses PROVE IInv'
<1>1. /\ RowsOK /\ Unopened /\ CountIsCovered /\ MarkIsComing /\ TaskStands
      /\ desk \in [Hands -> Job] /\ UNCHANGED <<invites, socket, desk, taskVars>>
  BY Parts DEF TimePasses
<1>2. /\ room' \in Room /\ room'.status = room.status /\ room'.len = room.len
      /\ room'.cap = room.cap /\ room'.conns = room.conns
      /\ (room'.left # "no" <=> room.left # "no") /\ due' \in {"ahead", "come", "missed"}
  BY <1>1, Numbers DEF TimePasses, GraceRuns, RowsOK, Room
<1>3. RowsOK' BY <1>1, <1>2 DEF RowsOK, TasksOK, taskVars
<1>4. Unopened' BY <1>1, <1>2 DEF Unopened
<1>5. CountIsCovered' BY <1>1, <1>2 DEF CountIsCovered, Present, Live
<1>6. MarkIsComing' BY <1>1, <1>2 DEF MarkIsComing, Present, Live
<1>7. TaskStands' BY <1>1, <1>2, TasksRest
<1> QED BY <1>1, <1>3, <1>4, <1>5, <1>6, <1>7, Together

-----------------------------------------------------------------------------

LEMMA StepsKeep == ASSUME IInv, GroupNext PROVE IInv'
<1>1. ASSUME NEW h \in Hands, Finish(h) PROVE IInv'
  BY <1>1, UpdateKeeps, StartRoomKeeps, EnterKeeps, FinalWritesKeep, ExtendKeeps DEF Finish
<1>2. CASE MarkUnattended
  <2>1. "cron" \in Hands BY DEF Hands
  <2> QED BY <1>2, <2>1, FinalWritesKeep
<1>3. ASSUME NEW u \in Comers, GroupConnect(u) \/ GroupDisconnect(u) \/ Depart(u) PROVE IInv'
  BY <1>3, ConnectKeeps, DisconnectKeeps, ReadBackKeeps, ClampKeeps, MarkKeeps DEF Depart
<1> QED
  BY <1>1, <1>2, <1>3, InvitesKeep, BeginsKeep, HardExpireKeeps, CleanupKeeps, TimeKeeps
     DEF GroupNext

(* The invariant holds in every state: a task that knows the end of the    *)
(* room waits or is being taken, and who leaves last marks the room.       *)
THEOREM GroupInvariance == GroupSpec => []IInv
<1>1. GroupInit => IInv
  <2> SUFFICES ASSUME GroupInit PROVE IInv OBVIOUS
  <2>1. PICK kind \in Kinds, len \in Lengths :
          room = [kind |-> kind, status |-> IF kind = "instant" THEN "live" ELSE "scheduled",
                  clock |-> IF kind = "instant" THEN 0 ELSE -1, len |-> len, used |-> 0,
                  cap |-> 0, conns |-> 0, left |-> "no"]
    BY DEF GroupInit
  <2>2. len \in Nat /\ len # 0 BY Numbers
  <2>3. room \in Room BY <2>1, <2>2, Numbers DEF Room, RoomStatuses
  <2>4. room.len = len /\ room.cap = 0 /\ room.conns = 0 /\ Deadline = len
    BY <2>1, <2>2 DEF Deadline, Later
  <2>5. room.status = "live" => room.kind = "instant" BY <2>1
  <2> DEFINE task == [eta |-> len, tries |-> 0]
  <2>6. task \in Task /\ task.eta = len /\ task.tries = 0 BY <2>2, Numbers DEF Task
  <2>7. cutoffs = (IF room.kind = "instant" THEN {task} ELSE {})
        /\ lost = 0 /\ raised = 0 /\ agreed = (IF room.kind = "instant" THEN len ELSE 0)
    BY <2>4 DEF GroupInit
  <2> HIDE DEF task
  <2>8. TasksOK BY <2>2, <2>6, <2>7, Numbers DEF TasksOK
  <2>9. invites \in Invites BY DEF GroupInit, Invites
  <2>10. socket \in [Comers -> Places] /\ \A u \in Comers : socket[u] = "away"
    BY DEF GroupInit, Places
  <2>11. RowsOK BY <2>3, <2>8, <2>9, <2>10 DEF RowsOK, GroupInit
  <2>12. desk \in [Hands -> Job] BY IdleIsAJob DEF GroupInit
  <2>13. Unopened /\ MarkIsComing BY <2>10 DEF Unopened, MarkIsComing
  <2>14. CountIsCovered BY <2>4, <2>11, PeopleAreFinite DEF CountIsCovered
  <2>15. TaskStands
    <3>1. Live => Deadline <= agreed BY <2>2, <2>4, <2>5, <2>7 DEF Live
    <3>2. ASSUME Live PROVE \E t \in cutoffs : Knows(t)
      <4>1. task \in cutoffs BY <2>5, <2>7, <3>2 DEF Live
      <4>2. Knows(task) BY <2>2, <2>4, <2>5, <2>6, <2>7, <3>2 DEF Knows, Live
      <4> QED BY <4>1, <4>2
    <3> QED BY <3>1, <3>2 DEF TaskStands
  <2> QED BY <2>11, <2>12, <2>13, <2>14, <2>15, Parts
<1>2. ASSUME IInv, [GroupNext]_groupVars PROVE IInv'
  <2>1. CASE UNCHANGED groupVars
    BY <1>2, <2>1, Parts, RoomIsAsItWas DEF groupVars, RowsOK
  <2>2. CASE GroupNext BY <1>2, <2>2, StepsKeep
  <2> QED BY <1>2, <2>1, <2>2
<1> QED BY <1>1, <1>2, PTL DEF GroupSpec

(* As long as the broker loses nothing, every live room has a task that is *)
(* due by the end last agreed or a worker that is ending it: stale         *)
(* extensions and tasks that come early never leave it without, and late   *)
(* edits do not either, as long as there are no more of them that lengthen *)
(* the room than a task has retries.                                       *)
THEOREM CutoffsStand == GroupSpec => []CutoffStands
<1>1. IInv => CutoffStands BY DEF IInv, TaskStands, CutoffStands, Knows
<1> QED BY <1>1, GroupInvariance, PTL

(* The row, the tasks and the sockets agree, for any sockets, early ones   *)
(* too: no empty room looks occupied, and none that all have left stays    *)
(* unnoticed.                                                              *)
THEOREM GroupRoomIsSafe == GroupSpec => []GroupInv
<1>1. IInv => GroupTypeOK /\ CountIsCovered BY DEF IInv
<1>2. IInv => EmptyGroupIsNoticed
  BY DEF IInv, MarkIsComing, EmptyGroupIsNoticed, Present, Leaving
<1> QED BY <1>1, <1>2, GroupInvariance, CutoffsStand, PTL DEF GroupInv

(* A room that is completed, cancelled or expired is never opened again:   *)
(* what a handler read before the end cannot bring it back.                *)
THEOREM OverIsFinal == GroupSpec => NeverReopened
<1>1. ASSUME IInv, [GroupNext]_groupVars, room.status \in Over PROVE room'.status \in Over
  <2>1. room \in Room BY <1>1, Parts DEF RowsOK
  <2>2. CASE UNCHANGED room BY <1>1, <2>2
  <2>3. ASSUME NEW h \in Hands, Finish(h) PROVE room'.status \in Over
    <3>1. CASE StartRoom(h) BY <1>1, <3>1 DEF StartRoom, Over
    <3>2. CASE Enter(h) BY <1>1, <2>1, <3>2 DEF Enter, EndedInternally, Over, Room
    <3>3. CASE EndGroupSession(h) BY <2>1, <3>3 DEF EndGroupSession, Over, Room
    <3>4. CASE CancelGroupSession(h) BY <2>1, <3>4 DEF CancelGroupSession, Over, Room
    <3>5. CASE ExtendGroupSession(h) BY <1>1, <2>1, <3>5 DEF ExtendGroupSession, Room
    <3>6. CASE Expire(h) BY <2>1, <3>6 DEF Expire, EndedInternally, Over, Room
    <3>7. CASE UpdateGroupSession(h) BY <1>1, <2>1, <3>7 DEF UpdateGroupSession, Edited, Room
    <3> QED BY <2>3, <3>1, <3>2, <3>3, <3>4, <3>5, <3>6, <3>7 DEF Finish
  <2>4. ASSUME NEW u \in Comers, GroupConnect(u) \/ GroupDisconnect(u) \/ Depart(u)
        PROVE  room'.status \in Over
    BY <1>1, <2>1, <2>4
       DEF GroupConnect, GroupDisconnect, Depart, ReadBack, Clamp, MarkAllLeft, Live, Over, Room
  <2>5. CASE MarkUnattended BY <2>1, <2>5 DEF MarkUnattended, Over, Room
  <2>6. CASE TimePasses BY <1>1, <2>1, <2>6 DEF TimePasses, GraceRuns, Room, Live, Over
  <2> QED
    BY <1>1, <2>2, <2>3, <2>4, <2>5, <2>6
       DEF GroupNext, groupVars, AcceptGroupInvite, DeclineGroupInvite, Reinvite, UnacceptInvite,
           Answers, RoomRests, BeginUpdate, BeginJoin, BeginHost, BeginExtend, HardExpire, Cleanup
<1>2. IInv /\ [GroupNext]_groupVars => [room.status \in Over => room'.status \in Over]_groupVars
  BY <1>1
<1> QED BY <1>2, GroupInvariance, PTL DEF GroupSpec, NeverReopened
=============================================================================
