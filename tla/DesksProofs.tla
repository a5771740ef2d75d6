----------------------------- MODULE DesksProofs -----------------------------
(* The invariants of four desks (skill bookings, a counsellor's diary, a   *)
(* forum thread, a teacher's application) and of the scholarship exam,     *)
(* proved for every value of the constants, each from an inductive         *)
(* invariant that says what a request has read and still relies on; and,   *)
(* from the first four, the invariant of the desks side by side.           *)
EXTENDS MCDesks, FiniteSetTheorems, TLAPS

-----------------------------------------------------------------------------
(* The forum thread.                                                       *)

(* What a request on the forum holds between its steps.                    *)
Visit == {Home} \cup [op: {"post", "report"}, step: {"create"}, reply: Replies]
    \cup [op: {"accept"}, step: {"save"}, reply: Replies, drops: BOOLEAN]
    \cup [op: {"remove"}, step: {"hide", "look", "clear", "resolve"}, reply: Replies]

AcceptsApart == {"accept", "remove"} \in Apart
ReportsApart == {"report"} \in Apart

(* What an acceptance has read is still there, or was deleted; and nobody  *)
(* hides anything meanwhile.                                               *)
AcceptanceStands ==
    AcceptsApart => \A d \in Desks : visits[d].op = "accept" =>
        /\ replies[visits[d].reply] \in {"shown", "deleted"}
        /\ \A e \in Desks : visits[e].op # "remove"

(* A hidden answer that is still accepted has its removal before it.       *)
HiddenIsCleared ==
    AcceptsApart => (thread.accepted # NoReply =>
        \/ replies[thread.accepted] = "shown"
        \/ \E d \in Desks : /\ visits[d].op = "remove" /\ visits[d].step \in {"look", "clear"}
                            /\ visits[d].reply = thread.accepted)

(* The one request that files a report has read that there is none.        *)
ReporterIsAlone ==
    ReportsApart => \A d \in Desks : visits[d].op = "report" =>
        /\ reports[visits[d].reply] = 0
        /\ \A e \in Desks : visits[e].op = "report" => e = d

ForumIInv ==
    /\ ForumTypeOK /\ visits \in [Desks -> Visit]
    /\ SolvedHasAnswer
    /\ thread.accepted # NoReply => thread.accepted \in Existing
    /\ AcceptanceStands /\ HiddenIsCleared /\ OneOpenReport /\ ReporterIsAlone

LEMMA VisitFields ==
    ASSUME NEW v \in Visit
    PROVE  /\ v.op \in {"none", "post", "accept", "report", "remove"}
           /\ v.op # "none" => v.reply \in Replies
           /\ v.op = "none" => v = Home
BY DEF Visit, Home

LEMMA HomeIsVisit == Home \in Visit /\ Home.op = "none"
BY DEF Visit, Home

(* A request comes in.                                                     *)
LEMMA EntersKeeps ==
    ASSUME ForumIInv, NEW d \in Desks, NEW job \in Visit, Enters(d, job), job.op # "none",
           job.op = "accept" => replies[job.reply] = "shown",
           job.op = "report" => reports[job.reply] = 0
    PROVE  ForumIInv'
<1>1. /\ visits \in [Desks -> Visit] /\ visits[d] = Home /\ visits' = [visits EXCEPT ![d] = job]
      /\ UNCHANGED <<thread, replies, reports, moderated>>
      /\ \A e \in Desks : {visits[e].op, job.op} \notin Apart
  BY DEF ForumIInv, Enters
<1>2. /\ visits' \in [Desks -> Visit] /\ visits'[d] = job
      /\ \A e \in Desks : e # d => visits'[e] = visits[e]
  BY <1>1
<1>3. ForumTypeOK' /\ SolvedHasAnswer' /\ OneOpenReport'
  BY <1>1 DEF ForumIInv, ForumTypeOK, SolvedHasAnswer, OneOpenReport
<1>4. thread'.accepted # NoReply => thread'.accepted \in Existing'
  BY <1>1 DEF ForumIInv, Existing
<1>5. AcceptanceStands'
  <2> SUFFICES ASSUME AcceptsApart, NEW f \in Desks, visits'[f].op = "accept"
               PROVE  /\ replies'[visits'[f].reply] \in {"shown", "deleted"}
                      /\ \A e \in Desks : visits'[e].op # "remove"
    BY DEF AcceptanceStands, AcceptsApart
  <2>1. CASE f = d
    <3>1. job.op = "accept" BY <1>2, <2>1
    <3>2. \A e \in Desks : visits[e].op # "remove"
      <4>1. ASSUME NEW e \in Desks, visits[e].op = "remove" PROVE FALSE
        <5>1. {visits[e].op, job.op} = {"accept", "remove"} BY <3>1, <4>1
        <5> QED BY <1>1, <5>1 DEF AcceptsApart
      <4> QED BY <4>1
    <3> QED BY <1>1, <1>2, <2>1, <3>1, <3>2
  <2>2. CASE f # d
    <3>1. visits[f].op = "accept" /\ visits'[f] = visits[f] BY <1>2, <2>2
    <3>2. /\ replies[visits[f].reply] \in {"shown", "deleted"}
          /\ \A e \in Desks : visits[e].op # "remove"
      BY <3>1 DEF ForumIInv, AcceptanceStands
    <3>3. job.op # "remove"
      <4>1. job.op = "remove" => {visits[f].op, job.op} = {"accept", "remove"} BY <3>1
      <4> QED BY <1>1, <4>1 DEF AcceptsApart
    <3> QED BY <1>1, <1>2, <3>1, <3>2, <3>3
  <2> QED BY <2>1, <2>2
<1>6. HiddenIsCleared'
  <2>1. ASSUME NEW e \in Desks, visits[e].op = "remove" PROVE visits'[e] = visits[e]
    BY <1>1, <1>2, <2>1 DEF Home
  <2> QED BY <1>1, <2>1 DEF ForumIInv, HiddenIsCleared, AcceptsApart
<1>7. ReporterIsAlone'
  <2> SUFFICES ASSUME ReportsApart, NEW f \in Desks, visits'[f].op = "report"
               PROVE  /\ reports'[visits'[f].reply] = 0
                      /\ \A e \in Desks : visits'[e].op = "report" => e = f
    BY DEF ReporterIsAlone, ReportsApart
  <2>1. job.op = "report" => \A e \in Desks : visits[e].op # "report"
    <3>1. ASSUME NEW e \in Desks, visits[e].op = "report", job.op = "report" PROVE FALSE
      <4>1. {visits[e].op, job.op} = {"report"} BY <3>1
      <4> QED BY <1>1, <4>1 DEF ReportsApart
    <3> QED BY <3>1
  <2>2. CASE f = d BY <1>1, <1>2, <2>1, <2>2
  <2>3. CASE f # d
    <3>1. visits[f].op = "report" /\ visits'[f] = visits[f] BY <1>2, <2>3
    <3>2. reports[visits[f].reply] = 0 /\ \A e \in Desks : visits[e].op = "report" => e = f
      BY <3>1 DEF ForumIInv, ReporterIsAlone
    <3> QED BY <1>1, <1>2, <2>1, <3>1, <3>2
  <2> QED BY <2>2, <2>3
<1> QED BY <1>2, <1>3, <1>4, <1>5, <1>6, <1>7 DEF ForumIInv

(* The next three clauses follow for whoever leaves, or stays as it is.    *)
LEMMA OthersStay ==
    ASSUME ForumIInv, NEW d \in Desks,
           NEW v \in Visit, v.op \in {"none", "remove"}, v.op = "remove" => visits[d].op = "remove",
           visits' = [visits EXCEPT ![d] = v]
    PROVE  /\ visits' \in [Desks -> Visit]
           /\ \A e \in Desks : /\ visits'[e].op \in {"accept", "report"} => visits'[e] = visits[e]
                               /\ visits'[e].op = "remove" => visits[e].op = "remove"
                               /\ e # d => visits'[e] = visits[e]
           /\ visits'[d] = v
<1>1. visits \in [Desks -> Visit] BY DEF ForumIInv
<1> QED BY <1>1

LEMMA AcceptancesStand ==
    ASSUME ForumIInv,
           \A e \in Desks : /\ visits'[e].op = "accept" => visits'[e] = visits[e]
                            /\ visits'[e].op = "remove" => visits[e].op = "remove",
           \A r \in Replies : replies[r] \in {"shown", "deleted"} /\ replies'[r] # replies[r] =>
                \/ replies'[r] = "deleted"
                \/ AcceptsApart => \E e \in Desks : visits[e].op = "remove"
    PROVE  AcceptanceStands'
<1> SUFFICES ASSUME AcceptsApart, NEW f \in Desks, visits'[f].op = "accept"
             PROVE  /\ replies'[visits'[f].reply] \in {"shown", "deleted"}
                    /\ \A e \in Desks : visits'[e].op # "remove"
  BY DEF AcceptanceStands, AcceptsApart
<1>1. visits'[f] = visits[f] /\ visits[f].op = "accept" /\ visits[f] \in Visit
  BY DEF ForumIInv
<1>2. /\ replies[visits[f].reply] \in {"shown", "deleted"}
      /\ \A e \in Desks : visits[e].op # "remove"
  BY <1>1 DEF ForumIInv, AcceptanceStands
<1>3. visits[f].reply \in Replies BY <1>1, VisitFields
<1> QED BY <1>1, <1>2, <1>3

LEMMA ReportersStand ==
    ASSUME ForumIInv,
           \A e \in Desks : visits'[e].op = "report" => visits'[e] = visits[e],
           \A r \in Replies : reports[r] = 0 => reports'[r] = 0
    PROVE  ReporterIsAlone'
<1> SUFFICES ASSUME ReportsApart, NEW f \in Desks, visits'[f].op = "report"
             PROVE  /\ reports'[visits'[f].reply] = 0
                    /\ \A e \in Desks : visits'[e].op = "report" => e = f
  BY DEF ReporterIsAlone, ReportsApart
<1>1. visits'[f] = visits[f] /\ visits[f].op = "report" /\ visits[f] \in Visit
  BY DEF ForumIInv
<1>2. reports[visits[f].reply] = 0 /\ \A e \in Desks : visits[e].op = "report" => e = f
  BY <1>1 DEF ForumIInv, ReporterIsAlone
<1>3. visits[f].reply \in Replies BY <1>1, VisitFields
<1> QED BY <1>1, <1>2, <1>3

(* An answer appears or goes.                                              *)
LEMMA AnswersKeep ==
    ASSUME ForumIInv,
           \/ \E r \in Replies : RestoreSubmission(r) \/ DeleteReply(r)
           \/ \E d \in Desks : CreateReply(d) \/ HeldBack(d)
    PROVE  ForumIInv'
<1>1. /\ ForumTypeOK /\ SolvedHasAnswer /\ HiddenIsCleared /\ visits \in [Desks -> Visit]
      /\ (thread.accepted # NoReply => thread.accepted \in Existing)
  BY DEF ForumIInv
<1>2. CASE \E d \in Desks : HeldBack(d)
  <2>1. PICK d \in Desks : HeldBack(d) BY <1>2
  <2>2. /\ visits' = [visits EXCEPT ![d] = Home] /\ visits[d].op = "post"
        /\ UNCHANGED <<thread, replies, reports, moderated>>
    BY <2>1 DEF HeldBack, Exits, At
  <2>3. /\ visits' \in [Desks -> Visit]
        /\ \A e \in Desks : /\ visits'[e].op \in {"accept", "report"} => visits'[e] = visits[e]
                            /\ visits'[e].op = "remove" => visits[e].op = "remove"
                            /\ e # d => visits'[e] = visits[e]
    BY <2>2, HomeIsVisit, OthersStay
  <2>4. AcceptanceStands' BY <2>2, <2>3, AcceptancesStand
  <2>5. ReporterIsAlone' BY <2>2, <2>3, ReportersStand
  <2>6. HiddenIsCleared' BY <1>1, <2>2, <2>3 DEF HiddenIsCleared, AcceptsApart
  <2>7. ForumTypeOK' /\ SolvedHasAnswer' /\ OneOpenReport'
    BY <2>2 DEF ForumIInv, ForumTypeOK, SolvedHasAnswer, OneOpenReport
  <2>8. thread'.accepted # NoReply => thread'.accepted \in Existing'
    BY <2>2 DEF ForumIInv, Existing
  <2> QED BY <2>3, <2>4, <2>5, <2>6, <2>7, <2>8 DEF ForumIInv
<1>3. ASSUME NEW r \in Replies, replies[r] = "none", replies' = [replies EXCEPT ![r] = "shown"],
             UNCHANGED <<thread, reports, moderated>>, visits' \in [Desks -> Visit],
             \A e \in Desks : /\ visits'[e].op \in {"accept", "report"} => visits'[e] = visits[e]
                              /\ visits'[e].op = "remove" => visits[e].op = "remove"
                              /\ visits[e].op = "remove" => visits'[e] = visits[e]
      PROVE  ForumIInv'
  <2>1. AcceptanceStands'
    <3>1. \A q \in Replies : replies[q] \in {"shown", "deleted"} => replies'[q] = replies[q]
      BY <1>1, <1>3 DEF ForumTypeOK
    <3> QED BY <1>3, <3>1, AcceptancesStand
  <2>2. ReporterIsAlone' BY <1>3, ReportersStand
  <2>3. \A q \in Replies : replies'[q] = "shown" \/ replies'[q] = replies[q]
    BY <1>1, <1>3 DEF ForumTypeOK
  <2>4. HiddenIsCleared'
    BY <1>1, <1>3, <2>3 DEF HiddenIsCleared, AcceptsApart, ForumTypeOK
  <2>5. ForumTypeOK' /\ OneOpenReport'
    BY <1>3 DEF ForumIInv, ForumTypeOK, OneOpenReport
  <2>6. SolvedHasAnswer' BY <1>1, <1>3 DEF SolvedHasAnswer, ForumTypeOK
  <2>7. thread'.accepted # NoReply => thread'.accepted \in Existing'
    BY <1>1, <1>3, <2>3 DEF Existing
  <2> QED BY <1>3, <2>1, <2>2, <2>4, <2>5, <2>6, <2>7 DEF ForumIInv
<1>4. CASE \E r \in Replies : RestoreSubmission(r) BY <1>1, <1>3, <1>4 DEF RestoreSubmission
<1>5. CASE \E d \in Desks : CreateReply(d)
  <2>1. PICK d \in Desks : CreateReply(d) BY <1>5
  <2>2. visits[d].op = "post" /\ visits[d].reply \in Replies
    BY <1>1, <2>1, VisitFields DEF CreateReply, At
  <2>3. /\ visits' = [visits EXCEPT ![d] = Home] /\ replies[visits[d].reply] = "none"
        /\ replies' = [replies EXCEPT ![visits[d].reply] = "shown"]
        /\ UNCHANGED <<thread, reports, moderated>>
    BY <2>1 DEF CreateReply, Exits
  <2>4. /\ visits' \in [Desks -> Visit]
        /\ \A e \in Desks : /\ visits'[e].op \in {"accept", "report"} => visits'[e] = visits[e]
                            /\ visits'[e].op = "remove" => visits[e].op = "remove"
                            /\ e # d => visits'[e] = visits[e]
    BY <2>3, HomeIsVisit, OthersStay
  <2> QED BY <1>3, <2>2, <2>3, <2>4
<1>6. CASE \E r \in Replies : DeleteReply(r)
  <2>1. PICK r \in Replies : DeleteReply(r) BY <1>6
  <2>2. /\ replies' = [replies EXCEPT ![r] = "deleted"]
        /\ thread' = [thread EXCEPT !.accepted = IF thread.accepted = r THEN NoReply ELSE thread.accepted]
        /\ UNCHANGED <<reports, moderated, visits>>
    BY <2>1 DEF DeleteReply
  <2>3. /\ thread'.accepted = (IF thread.accepted = r THEN NoReply ELSE thread.accepted)
        /\ thread'.solved = thread.solved
    BY <1>1, <2>2 DEF ForumTypeOK
  <2>4. ForumTypeOK' BY <1>1, <2>2 DEF ForumTypeOK
  <2>5. SolvedHasAnswer'
    <3>1. replies'[r] = "deleted" BY <1>1, <2>2 DEF ForumTypeOK
    <3> QED BY <1>1, <2>3, <3>1 DEF SolvedHasAnswer
  <2>6. \A q \in Replies : q # r => replies'[q] = replies[q]
    BY <1>1, <2>2 DEF ForumTypeOK
  <2>7. thread'.accepted # NoReply => thread'.accepted \in Existing'
    BY <1>1, <2>3, <2>6 DEF Existing
  <2>8. AcceptanceStands'
    <3>1. \A q \in Replies : replies'[q] = "deleted" \/ replies'[q] = replies[q]
      BY <1>1, <2>2 DEF ForumTypeOK
    <3> QED BY <2>2, <3>1, AcceptancesStand
  <2>9. HiddenIsCleared'
    BY <1>1, <2>2, <2>3, <2>6 DEF HiddenIsCleared, AcceptsApart, ForumTypeOK
  <2>10. ReporterIsAlone' BY <2>2, ReportersStand
  <2>11. OneOpenReport' BY <2>2 DEF ForumIInv, OneOpenReport
  <2> QED BY <1>1, <2>2, <2>4, <2>5, <2>7, <2>8, <2>9, <2>10, <2>11 DEF ForumIInv
<1> QED BY <1>2, <1>4, <1>5, <1>6

(* The thread is marked, locked or unlocked.                               *)
LEMMA SaveAcceptedKeeps == ASSUME ForumIInv, NEW d \in Desks, SaveAccepted(d) PROVE ForumIInv'
<1>1. /\ ForumTypeOK /\ SolvedHasAnswer /\ HiddenIsCleared /\ AcceptanceStands
      /\ visits \in [Desks -> Visit]
      /\ (thread.accepted # NoReply => thread.accepted \in Existing)
  BY DEF ForumIInv
<1> DEFINE r == visits[d].reply
<1>2. /\ visits[d].op = "accept" /\ r \in Replies
      /\ visits' = [visits EXCEPT ![d] = Home] /\ UNCHANGED <<replies, reports, moderated>>
  BY <1>1, VisitFields DEF SaveAccepted, At, Exits
<1>3. \/ thread' = [thread EXCEPT !.accepted = NoReply, !.solved = FALSE]
      \/ r \in Existing /\ thread' = [thread EXCEPT !.accepted = r, !.solved = TRUE]
      \/ UNCHANGED thread
  BY DEF SaveAccepted
<1>4. /\ visits' \in [Desks -> Visit]
      /\ \A e \in Desks : /\ visits'[e].op \in {"accept", "report"} => visits'[e] = visits[e]
                          /\ visits'[e].op = "remove" => visits[e].op = "remove"
                          /\ e # d => visits'[e] = visits[e]
  BY <1>2, HomeIsVisit, OthersStay
<1>5. AcceptsApart => replies[r] \in {"shown", "deleted"}
  BY <1>1, <1>2 DEF AcceptanceStands
<1> HIDE DEF r
<1>6. /\ thread'.locked = thread.locked
      /\ \/ thread'.accepted = NoReply /\ thread'.solved = FALSE
         \/ r \in Existing /\ thread'.accepted = r /\ thread'.solved = TRUE
         \/ thread'.accepted = thread.accepted /\ thread'.solved = thread.solved
  BY <1>1, <1>3 DEF ForumTypeOK
<1>7. ForumTypeOK'
  <2>1. thread' \in [accepted: Replies \cup {NoReply}, solved: BOOLEAN, locked: BOOLEAN]
    BY <1>1, <1>2, <1>3 DEF ForumTypeOK
  <2> QED BY <1>1, <1>2, <2>1 DEF ForumTypeOK
<1>8. SolvedHasAnswer' BY <1>1, <1>2, <1>6, ForumAssumption DEF SolvedHasAnswer
<1>9. thread'.accepted # NoReply => thread'.accepted \in Existing'
  BY <1>1, <1>2, <1>6 DEF Existing
<1>10. AcceptanceStands' BY <1>2, <1>4, AcceptancesStand
<1>11. HiddenIsCleared'
  <2>1. r \in Existing /\ AcceptsApart => replies[r] = "shown" BY <1>5 DEF Existing
  <2>2. \A e \in Desks : visits[e].op = "remove" => visits'[e] = visits[e] BY <1>2, <1>4
  <2> QED BY <1>1, <1>2, <1>6, <2>1, <2>2 DEF HiddenIsCleared, AcceptsApart
<1>12. ReporterIsAlone' BY <1>2, <1>4, ReportersStand
<1>13. OneOpenReport' BY <1>2 DEF ForumIInv, OneOpenReport
<1> QED BY <1>4, <1>7, <1>8, <1>9, <1>10, <1>11, <1>12, <1>13 DEF ForumIInv

LEMMA LockKeeps == ASSUME ForumIInv, LockThread PROVE ForumIInv'
<1>1. /\ thread' = [thread EXCEPT !.locked = ~thread.locked]
      /\ UNCHANGED <<replies, reports, moderated, visits>>
  BY DEF LockThread
<1>2. ForumTypeOK BY DEF ForumIInv
<1>3. ForumTypeOK' /\ thread'.accepted = thread.accepted /\ thread'.solved = thread.solved
  BY <1>1, <1>2 DEF ForumTypeOK
<1>4. SolvedHasAnswer' /\ HiddenIsCleared'
  BY <1>1, <1>3 DEF ForumIInv, SolvedHasAnswer, HiddenIsCleared, AcceptsApart
<1>5. thread'.accepted # NoReply => thread'.accepted \in Existing'
  BY <1>1, <1>3 DEF ForumIInv, Existing
<1>6. AcceptanceStands' /\ ReporterIsAlone' /\ OneOpenReport'
  BY <1>1 DEF ForumIInv, AcceptanceStands, ReporterIsAlone, OneOpenReport, AcceptsApart, ReportsApart
<1> QED BY <1>1, <1>3, <1>4, <1>5, <1>6 DEF ForumIInv

(* Reports come and go.                                                    *)
LEMMA ReportsKeep ==
    ASSUME ForumIInv,
           \/ \E r \in Replies : ResolveReport(r)
           \/ \E d \in Desks : CreateReport(d) \/ ResolveAll(d)
    PROVE  ForumIInv'
<1>1. /\ ForumTypeOK /\ visits \in [Desks -> Visit] /\ OneOpenReport /\ ReporterIsAlone
      /\ HiddenIsCleared
  BY DEF ForumIInv
<1>2. UNCHANGED <<thread, replies>> BY DEF ResolveReport, CreateReport, ResolveAll
<1>3. SolvedHasAnswer' BY <1>2 DEF ForumIInv, SolvedHasAnswer
<1>4. thread'.accepted # NoReply => thread'.accepted \in Existing'
  BY <1>2 DEF ForumIInv, Existing
<1>5. ASSUME visits' \in [Desks -> Visit],
             \A e \in Desks : /\ visits'[e].op \in {"accept", "report"} => visits'[e] = visits[e]
                              /\ visits'[e].op = "remove" => visits[e].op = "remove"
                              /\ visits[e].op = "remove" /\ visits[e].step # "resolve"
                                    => visits'[e] = visits[e]
      PROVE  AcceptanceStands' /\ HiddenIsCleared'
  <2>1. AcceptanceStands' BY <1>2, <1>5, AcceptancesStand
  <2>2. HiddenIsCleared' BY <1>1, <1>2, <1>5 DEF HiddenIsCleared, AcceptsApart
  <2> QED BY <2>1, <2>2
<1>6. CASE \E r \in Replies : ResolveReport(r)
  <2>1. PICK r \in Replies : ResolveReport(r) BY <1>6
  <2>2. /\ reports[r] > 0 /\ reports' = [reports EXCEPT ![r] = reports[r] - 1]
        /\ UNCHANGED <<moderated, visits>>
    BY <2>1 DEF ResolveReport
  <2>3. reports[r] \in 0..MaxFiled /\ reports[r] - 1 \in 0..MaxFiled
    BY <1>1, <2>2, ForumAssumption DEF ForumTypeOK
  <2>4. ForumTypeOK' BY <1>1, <1>2, <2>2, <2>3 DEF ForumTypeOK
  <2>5. /\ \A q \in Replies : q # r => reports'[q] = reports[q]
        /\ reports'[r] = reports[r] - 1
    BY <1>1, <2>2 DEF ForumTypeOK
  <2>6. OneOpenReport' BY <1>1, <2>3, <2>5 DEF OneOpenReport
  <2>7. ReporterIsAlone' BY <2>2, <2>5, ReportersStand
  <2> QED BY <1>1, <1>3, <1>4, <1>5, <2>2, <2>4, <2>6, <2>7 DEF ForumIInv
<1>7. CASE \E d \in Desks : CreateReport(d)
  <2>1. PICK d \in Desks : CreateReport(d) BY <1>7
  <2> DEFINE r == visits[d].reply
  <2>2. /\ visits[d].op = "report" /\ r \in Replies /\ reports[r] < MaxFiled
        /\ reports' = [reports EXCEPT ![r] = reports[r] + 1]
        /\ moderated' = moderated \cup {r} /\ visits' = [visits EXCEPT ![d] = Home]
    BY <1>1, <2>1, VisitFields DEF CreateReport, At, Exits
  <2>3. reports[r] \in 0..MaxFiled /\ reports[r] + 1 \in 0..MaxFiled
    BY <1>1, <2>2, ForumAssumption DEF ForumTypeOK
  <2>4. ReportsApart => reports[r] = 0 /\ \A e \in Desks : visits[e].op = "report" => e = d
    BY <1>1, <2>2 DEF ReporterIsAlone
  <2> HIDE DEF r
  <2>5. ForumTypeOK' BY <1>1, <1>2, <2>2, <2>3 DEF ForumTypeOK
  <2>6. /\ \A q \in Replies : q # r => reports'[q] = reports[q]
        /\ reports'[r] = reports[r] + 1
    BY <1>1, <2>2 DEF ForumTypeOK
  <2>7. OneOpenReport' BY <1>1, <2>4, <2>6 DEF OneOpenReport, ReportsApart
  <2>8. /\ visits' \in [Desks -> Visit] /\ visits'[d] = Home
        /\ \A e \in Desks : /\ visits'[e].op \in {"accept", "report"} => visits'[e] = visits[e]
                            /\ visits'[e].op = "remove" => visits[e].op = "remove"
                            /\ e # d => visits'[e] = visits[e]
    BY <2>2, HomeIsVisit, OthersStay
  <2>9. ReporterIsAlone'
    <3> SUFFICES ASSUME ReportsApart, NEW f \in Desks, visits'[f].op = "report" PROVE FALSE
      BY DEF ReporterIsAlone, ReportsApart
    <3>1. f # d BY <2>8, HomeIsVisit
    <3> QED BY <2>4, <2>8, <3>1
  <2> QED BY <1>3, <1>4, <1>5, <2>2, <2>5, <2>7, <2>8, <2>9 DEF ForumIInv
<1>8. CASE \E d \in Desks : ResolveAll(d)
  <2>1. PICK d \in Desks : ResolveAll(d) BY <1>8
  <2>2. /\ visits[d].op = "remove" /\ visits[d].step = "resolve" /\ visits[d].reply \in Replies
        /\ reports' = [reports EXCEPT ![visits[d].reply] = 0]
        /\ UNCHANGED moderated /\ visits' = [visits EXCEPT ![d] = Home]
    BY <1>1, <2>1, VisitFields DEF ResolveAll, At, Exits
  <2>3. ForumTypeOK' BY <1>1, <1>2, <2>2, ForumAssumption DEF ForumTypeOK
  <2>4. \A q \in Replies : reports'[q] = reports[q] \/ reports'[q] = 0
    BY <1>1, <2>2 DEF ForumTypeOK
  <2>5. OneOpenReport' BY <1>1, <2>4 DEF OneOpenReport
  <2>6. /\ visits' \in [Desks -> Visit]
        /\ \A e \in Desks : /\ visits'[e].op \in {"accept", "report"} => visits'[e] = visits[e]
                            /\ visits'[e].op = "remove" => visits[e].op = "remove"
                            /\ e # d => visits'[e] = visits[e]
    BY <2>2, HomeIsVisit, OthersStay
  <2>7. ReporterIsAlone' BY <2>4, <2>6, ReportersStand
  <2> QED BY <1>3, <1>4, <1>5, <2>2, <2>3, <2>5, <2>6, <2>7 DEF ForumIInv
<1> QED BY <1>6, <1>7, <1>8

(* A moderator removes an answer: hides it, looks whether it is the        *)
(* accepted one, and then clears it.                                       *)
LEMMA RemovalKeeps ==
    ASSUME ForumIInv, NEW d \in Desks, HideReply(d) \/ LookAtThread(d) \/ ClearAccepted(d)
    PROVE  ForumIInv'
<1>1. /\ ForumTypeOK /\ SolvedHasAnswer /\ HiddenIsCleared /\ OneOpenReport
      /\ visits \in [Desks -> Visit]
      /\ (thread.accepted # NoReply => thread.accepted \in Existing)
  BY DEF ForumIInv
<1> DEFINE r == visits[d].reply
<1>2. visits[d].op = "remove" /\ r \in Replies /\ UNCHANGED <<reports, moderated>>
  BY <1>1, VisitFields DEF HideReply, LookAtThread, ClearAccepted, At
<1>3. ASSUME NEW step \in {"hide", "look", "clear", "resolve"}
      PROVE  /\ [visits[d] EXCEPT !.step = step] \in Visit
             /\ [visits[d] EXCEPT !.step = step].op = "remove"
             /\ [visits[d] EXCEPT !.step = step].reply = r
             /\ [visits[d] EXCEPT !.step = step].step = step
  <2>1. visits[d] \in [op: {"remove"}, step: {"hide", "look", "clear", "resolve"}, reply: Replies]
    BY <1>1, <1>2 DEF Visit, Home
  <2> QED BY <2>1 DEF Visit
<1>4. ASSUME NEW step, Continues(d, step)
      PROVE  visits' = [visits EXCEPT ![d] = [visits[d] EXCEPT !.step = step]]
  BY <1>4 DEF Continues
<1>5. OneOpenReport' BY <1>1, <1>2 DEF OneOpenReport
<1>6. PICK v \in Visit : /\ v.op \in {"none", "remove"} /\ (v.op = "remove" => visits[d].op = "remove")
                         /\ visits' = [visits EXCEPT ![d] = v]
  <2>1. CASE HideReply(d) BY <1>2, <1>3, <1>4, <2>1, HomeIsVisit DEF HideReply, Exits
  <2>2. CASE LookAtThread(d)
    <3>1. PICK step \in {"clear", "resolve"} : Continues(d, step) BY <2>2 DEF LookAtThread
    <3> DEFINE v == [visits[d] EXCEPT !.step = step]
    <3>2. v \in Visit /\ v.op = "remove" BY <1>3
    <3>3. visits' = [visits EXCEPT ![d] = v] BY <1>4, <3>1
    <3> HIDE DEF v
    <3> QED BY <1>2, <3>2, <3>3
  <2>3. CASE ClearAccepted(d) BY <1>2, <1>3, <1>4, <2>3 DEF ClearAccepted
  <2> QED BY <2>1, <2>2, <2>3
<1>7. /\ visits' \in [Desks -> Visit]
      /\ \A e \in Desks : /\ visits'[e].op \in {"accept", "report"} => visits'[e] = visits[e]
                          /\ visits'[e].op = "remove" => visits[e].op = "remove"
                          /\ e # d => visits'[e] = visits[e]
  BY <1>6, OthersStay
<1>8. AcceptanceStands' BY <1>2, <1>7, AcceptancesStand
<1>9. ReporterIsAlone' BY <1>2, <1>7, ReportersStand
<1>10. CASE HideReply(d)
  <2>1. CASE r \notin Existing
    <3>1. UNCHANGED <<thread, replies>> /\ visits' = [visits EXCEPT ![d] = Home]
          /\ visits[d].step = "hide"
      BY <1>10, <2>1 DEF HideReply, Exits, At
    <3>2. ForumTypeOK' /\ SolvedHasAnswer'
      BY <1>1, <1>2, <3>1 DEF ForumTypeOK, SolvedHasAnswer
    <3>3. thread'.accepted # NoReply => thread'.accepted \in Existing'
      BY <1>1, <3>1 DEF Existing
    <3>4. HiddenIsCleared' BY <1>1, <1>7, <3>1 DEF HiddenIsCleared, AcceptsApart
    <3> QED BY <1>5, <1>7, <1>8, <1>9, <3>2, <3>3, <3>4 DEF ForumIInv
  <2>2. CASE r \in Existing
    <3>1. /\ replies' = [replies EXCEPT ![r] = "hidden"] /\ UNCHANGED thread
          /\ visits' = [visits EXCEPT ![d] = [visits[d] EXCEPT !.step = "look"]]
          /\ visits[d].step = "hide"
      BY <1>10, <2>2 DEF HideReply, Continues, At
    <3>2. /\ \A q \in Replies : q # r => replies'[q] = replies[q]
          /\ replies'[r] = "hidden" /\ replies[r] # "deleted"
      BY <1>1, <1>2, <2>2, <3>1 DEF ForumTypeOK, Existing
    <3>3. ForumTypeOK' BY <1>1, <1>2, <3>1 DEF ForumTypeOK
    <3>4. SolvedHasAnswer' BY <1>1, <3>1, <3>2 DEF SolvedHasAnswer
    <3>5. thread'.accepted # NoReply => thread'.accepted \in Existing'
      BY <1>1, <3>1, <3>2 DEF Existing
    <3>6. visits'[d].op = "remove" /\ visits'[d].step = "look" /\ visits'[d].reply = r
      BY <1>1, <1>3, <3>1
    <3> HIDE DEF r
    <3>7. HiddenIsCleared'
      <4> SUFFICES ASSUME AcceptsApart, thread.accepted # NoReply
                   PROVE  \/ replies'[thread.accepted] = "shown"
                          \/ \E e \in Desks : /\ visits'[e].op = "remove"
                                              /\ visits'[e].step \in {"look", "clear"}
                                              /\ visits'[e].reply = thread.accepted
        BY <3>1 DEF HiddenIsCleared, AcceptsApart
      <4>1. CASE thread.accepted = r BY <3>6, <4>1
      <4>2. CASE thread.accepted # r
        <5>1. thread.accepted \in Replies BY <1>1 DEF Existing
        <5> QED BY <1>1, <1>7, <3>1, <3>2, <4>2, <5>1 DEF HiddenIsCleared
      <4> QED BY <4>1, <4>2
    <3> QED BY <1>5, <1>7, <1>8, <1>9, <3>3, <3>4, <3>5, <3>7 DEF ForumIInv
  <2> QED BY <2>1, <2>2
<1>11. CASE LookAtThread(d)
  <2>1. /\ UNCHANGED <<thread, replies>> /\ visits[d].step = "look"
        /\ visits' = [visits EXCEPT ![d] =
             [visits[d] EXCEPT !.step = IF thread.accepted = r THEN "clear" ELSE "resolve"]]
    BY <1>11 DEF LookAtThread, Continues, At
  <2>2. ForumTypeOK' /\ SolvedHasAnswer'
    BY <1>1, <1>2, <2>1 DEF ForumTypeOK, SolvedHasAnswer
  <2>3. thread'.accepted # NoReply => thread'.accepted \in Existing'
    BY <1>1, <2>1 DEF Existing
  <2>4. thread.accepted = r =>
          visits'[d].op = "remove" /\ visits'[d].step = "clear" /\ visits'[d].reply = r
    BY <1>1, <1>3, <2>1
  <2> HIDE DEF r
  <2>5. HiddenIsCleared'
    <3> SUFFICES ASSUME AcceptsApart, thread.accepted # NoReply
                 PROVE  \/ replies[thread.accepted] = "shown"
                        \/ \E e \in Desks : /\ visits'[e].op = "remove"
                                            /\ visits'[e].step \in {"look", "clear"}
                                            /\ visits'[e].reply = thread.accepted
      BY <2>1 DEF HiddenIsCleared, AcceptsApart
    <3>1. CASE thread.accepted = r BY <2>4, <3>1
    <3>2. CASE thread.accepted # r BY <1>1, <1>7, <3>2 DEF HiddenIsCleared, r
    <3> QED BY <3>1, <3>2
  <2> QED BY <1>5, <1>7, <1>8, <1>9, <2>2, <2>3, <2>5 DEF ForumIInv
<1>12. CASE ClearAccepted(d)
  <2>1. /\ thread' = [thread EXCEPT !.accepted = NoReply, !.solved = FALSE] /\ UNCHANGED replies
    BY <1>12 DEF ClearAccepted
  <2>2. /\ thread'.accepted = NoReply /\ thread'.solved = FALSE
    BY <1>1, <2>1 DEF ForumTypeOK
  <2>3. ForumTypeOK' BY <1>1, <1>2, <2>1 DEF ForumTypeOK
  <2>4. SolvedHasAnswer' /\ HiddenIsCleared' BY <2>2 DEF SolvedHasAnswer, HiddenIsCleared
  <2> QED BY <1>5, <1>7, <1>8, <1>9, <2>2, <2>3, <2>4 DEF ForumIInv
<1> QED BY <1>10, <1>11, <1>12

LEMMA ForumStepKeeps == ASSUME ForumIInv, [ForumNext]_forumVars PROVE ForumIInv'
<1>1. CASE UNCHANGED forumVars
  BY <1>1 DEF forumVars, ForumIInv, ForumTypeOK, SolvedHasAnswer, Existing, AcceptanceStands,
              HiddenIsCleared, OneOpenReport, ReporterIsAlone, AcceptsApart, ReportsApart
<1>2. ASSUME NEW d \in Desks, NEW r \in Replies,
             AskToReply(d, r) \/ AcceptAnswer(d, r) \/ Report(d, r) \/ RemoveReported(d, r)
      PROVE  ForumIInv'
  <2>1. CASE AskToReply(d, r)
    <3> DEFINE job == [op |-> "post", step |-> "create", reply |-> r]
    <3>1. job \in Visit /\ job.op = "post" BY DEF Visit
    <3>2. Enters(d, job) BY <2>1 DEF AskToReply
    <3> HIDE DEF job
    <3> QED BY <3>1, <3>2, EntersKeeps
  <2>2. CASE AcceptAnswer(d, r)
    <3> DEFINE job == [op |-> "accept", step |-> "save", reply |-> r,
                       drops |-> thread.accepted = r]
    <3>1. job \in Visit /\ job.op = "accept" /\ job.reply = r BY DEF Visit
    <3>2. Enters(d, job) /\ replies[r] = "shown" BY <2>2 DEF AcceptAnswer, Acceptable
    <3> HIDE DEF job
    <3> QED BY <3>1, <3>2, EntersKeeps
  <2>3. CASE Report(d, r)
    <3> DEFINE job == [op |-> "report", step |-> "create", reply |-> r]
    <3>1. job \in Visit /\ job.op = "report" /\ job.reply = r BY DEF Visit
    <3>2. Enters(d, job) /\ reports[r] = 0 BY <2>3 DEF Report, MayReport
    <3> HIDE DEF job
    <3> QED BY <3>1, <3>2, EntersKeeps
  <2>4. CASE RemoveReported(d, r)
    <3> DEFINE job == [op |-> "remove", reply |-> r,
                       step |-> IF r \in Existing THEN "hide" ELSE "resolve"]
    <3>1. job \in Visit /\ job.op = "remove" BY DEF Visit
    <3>2. Enters(d, job) BY <2>4 DEF RemoveReported
    <3> HIDE DEF job
    <3> QED BY <3>1, <3>2, EntersKeeps
  <2> QED BY <1>2, <2>1, <2>2, <2>3, <2>4
<1> QED
  BY <1>1, <1>2, AnswersKeep, SaveAcceptedKeeps, LockKeeps, ReportsKeep, RemovalKeeps DEF ForumNext

LEMMA ForumStarts == ForumInit => ForumIInv
<1> SUFFICES ASSUME ForumInit PROVE ForumIInv OBVIOUS
<1>1. ForumTypeOK BY ForumAssumption DEF ForumInit, ForumTypeOK
<1>2. visits \in [Desks -> Visit] /\ \A d \in Desks : visits[d].op = "none"
  BY HomeIsVisit DEF ForumInit
<1>3. thread.accepted = NoReply /\ thread.solved = FALSE /\ \A r \in Replies : reports[r] = 0
  BY DEF ForumInit
<1>4. SolvedHasAnswer /\ HiddenIsCleared BY <1>3 DEF SolvedHasAnswer, HiddenIsCleared
<1>5. AcceptanceStands /\ ReporterIsAlone BY <1>2 DEF AcceptanceStands, ReporterIsAlone
<1>6. OneOpenReport
  <2>1. ASSUME NEW r \in Replies PROVE reports[r] <= 1
    <3>1. reports[r] = 0 BY <1>3
    <3> QED BY <3>1
  <2> QED BY <2>1 DEF OneOpenReport
<1> QED BY <1>1, <1>2, <1>3, <1>4, <1>5, <1>6 DEF ForumIInv

LEMMA ForumImplies == ForumIInv => ForumInv
<1> SUFFICES ASSUME ForumIInv PROVE AcceptedIsShown BY DEF ForumIInv, ForumInv
<1>1. HiddenIsCleared /\ (thread.accepted # NoReply => thread.accepted \in Existing)
  BY DEF ForumIInv
<1> QED BY <1>1 DEF AcceptedIsShown, HiddenIsCleared, AcceptsApart

(* An accepted answer exists, is shown and solves its thread, and one      *)
(* report of an answer is open, as far as Apart keeps the requests that    *)
(* race for them apart (forum/views.py, forum/moderation_views.py).        *)
THEOREM ForumIsConsistent == ForumSpec => []ForumInv
BY ForumStarts, ForumStepKeeps, ForumImplies, PTL DEF ForumSpec

-----------------------------------------------------------------------------
(* The teacher's application.                                              *)

(* What a request on a teacher's account holds between its steps.          *)
Errand == {Done} \cup [op: {"reapply", "grant", "look"}]
    \cup [op: {"add", "patch", "form"}, row: Profile, files: {{}, {"docs"}, {"docs", "bound"}}]
    \cup [op: {"review", "settle", "sync"}, row: Profile]

Flagged(row) == row.approved <=> ApprovedTracks(row) # {}
Documented(row) == row.bound # 0 => row.docs # 0
SameTracks(row, of) ==
    row.academy = of.academy /\ row.skill = of.skill /\ row.approved = of.approved

(* What is known of a request under way: the row it holds is the account's *)
(* but for what it changes.                                                *)
InStep(job) ==
    CASE job.op = "add" ->
           /\ Flagged(job.row) /\ Documented(job.row)
           /\ job.files # {} => job.row.academy = "pending" /\ job.row.docs # 0
           /\ job.row.academy = "approved" => profile.academy = "approved"
      [] job.op = "reapply" -> profile.academy = "rejected"
      [] job.op = "review" -> Flagged(job.row) /\ job.row.skill = profile.skill
      [] job.op = "settle" ->
           SameTracks(job.row, profile) /\ (profile.skill = "approved" => role)
      [] job.op = "look" -> role
      [] job.op = "sync" -> role /\ Flagged(job.row) /\ job.row.skill = profile.skill
      [] job.op \in {"patch", "form"} ->
           /\ SameTracks(job.row, profile) /\ Documented(job.row)
           /\ job.files # {} => job.row.docs # 0
           /\ job.op = "patch" /\ profile.academy = "approved" =>
                job.row.docs \in vetted \cup reformed
      [] OTHER -> TRUE

(* Requests on the tracks have the account to themselves; requests that    *)
(* never crossed have it one after the other, and read the binding that is *)
(* there.                                                                  *)
OnesTurn ==
    \A t, u \in UnderWay : Kind(errands[t].op) = "tracks" \/ ~crossed => t = u
BindingAsRead ==
    ~crossed => \A t \in UnderWay :
        errands[t].op \in {"add", "patch", "form"} => errands[t].row.bound = profile.bound

FacultyIInv ==
    /\ FacultyTypeOK /\ errands \in [Offices -> Errand]
    /\ \A t \in UnderWay : InStep(errands[t])
    /\ OnesTurn /\ BindingAsRead
    /\ FlagFollowsTracks /\ ApprovedMayEnter /\ FilesAsVetted /\ BindingStands

LEMMA ErrandFields ==
    ASSUME NEW job \in Errand
    PROVE  /\ job.op \in {"none", "add", "reapply", "review", "settle", "grant", "look", "sync",
                          "patch", "form"}
           /\ job.op = "none" <=> job = Done
           /\ job.op \in {"add", "review", "settle", "sync", "patch", "form"} => job.row \in Profile
           /\ job.op \in {"add", "patch", "form"} =>
                job.files \in {{}, {"docs"}, {"docs", "bound"}}
BY DEF Errand, Done

LEMMA DoneIsErrand == Done \in Errand /\ Done.op = "none"
BY DEF Errand, Done

LEMMA Wanted == \A t \in UnderWay : t \in Offices /\ errands[t] # Done
BY DEF UnderWay

(* The columns saved, and those that stay.                                 *)
LEMMA SavedColumns ==
    ASSUME FacultyTypeOK, NEW columns, NEW row \in Profile, Saves(columns, row)
    PROVE  /\ profile' \in Profile
           /\ profile'.academy = (IF "academy" \in columns THEN row.academy ELSE profile.academy)
           /\ profile'.skill = (IF "skill" \in columns THEN row.skill ELSE profile.skill)
           /\ profile'.approved = (IF "approved" \in columns THEN row.approved ELSE profile.approved)
           /\ profile'.docs = (IF "docs" \in columns THEN row.docs ELSE profile.docs)
           /\ profile'.bound = (IF "bound" \in columns THEN row.bound ELSE profile.bound)
           /\ vetted \subseteq vetted' /\ vetted' \subseteq 0..MaxUploads
           /\ (profile'.academy = "approved" /\ profile.academy # "approved" =>
                 profile'.docs \in vetted')
           /\ first' = (IF first = 0 THEN profile'.bound ELSE first) /\ first' \in 0..MaxVersions
<1>1. profile \in Profile /\ vetted \subseteq 0..MaxUploads /\ first \in 0..MaxVersions
  BY DEF FacultyTypeOK
<1>2. profile' = [c \in AllColumns |-> IF c \in columns THEN row[c] ELSE profile[c]]
  BY DEF Saves
<1>3. /\ profile'.academy = (IF "academy" \in columns THEN row.academy ELSE profile.academy)
      /\ profile'.skill = (IF "skill" \in columns THEN row.skill ELSE profile.skill)
      /\ profile'.approved = (IF "approved" \in columns THEN row.approved ELSE profile.approved)
      /\ profile'.docs = (IF "docs" \in columns THEN row.docs ELSE profile.docs)
      /\ profile'.bound = (IF "bound" \in columns THEN row.bound ELSE profile.bound)
  BY <1>2 DEF AllColumns
<1>4. profile' \in Profile
  <2>1. profile' = [academy |-> profile'.academy, skill |-> profile'.skill,
                    approved |-> profile'.approved, docs |-> profile'.docs,
                    bound |-> profile'.bound]
    BY <1>2 DEF AllColumns
  <2>2. /\ profile'.academy \in TrackStatus /\ profile'.skill \in TrackStatus
        /\ profile'.approved \in BOOLEAN /\ profile'.docs \in 0..MaxUploads
        /\ profile'.bound \in 0..MaxVersions
    BY <1>1, <1>3 DEF Profile
  <2> QED BY <2>1, <2>2 DEF Profile
<1>5. /\ vetted' = (IF profile'.academy = "approved" /\ profile.academy # "approved"
                    THEN vetted \cup {profile'.docs} ELSE vetted)
      /\ first' = (IF first = 0 THEN profile'.bound ELSE first)
  BY DEF Saves
<1>6. profile'.docs \in 0..MaxUploads /\ profile'.bound \in 0..MaxVersions BY <1>4 DEF Profile
<1> QED BY <1>1, <1>3, <1>4, <1>5, <1>6

(* A row with its flag set anew.                                           *)
LEMMA SyncedRow ==
    ASSUME NEW row \in Profile
    PROVE  /\ Synced(row) \in Profile /\ Flagged(Synced(row))
           /\ Synced(row).academy = row.academy /\ Synced(row).skill = row.skill
           /\ Synced(row).docs = row.docs /\ Synced(row).bound = row.bound
<1>1. Synced(row) = [row EXCEPT !.approved = ApprovedTracks(row) # {}] BY DEF Synced
<1>2. /\ Synced(row) \in Profile /\ Synced(row).approved = (ApprovedTracks(row) # {})
      /\ Synced(row).academy = row.academy /\ Synced(row).skill = row.skill
      /\ Synced(row).docs = row.docs /\ Synced(row).bound = row.bound
  BY <1>1 DEF Profile
<1>3. ApprovedTracks(Synced(row)) = ApprovedTracks(row) BY <1>2 DEF ApprovedTracks, Tracks
<1> QED BY <1>2, <1>3 DEF Flagged

LEMMA FlagByTracks ==
    ASSUME NEW row PROVE Flagged(row) <=>
        (row.approved <=> row.academy = "approved" \/ row.skill = "approved")
<1>1. ApprovedTracks(row) # {} <=> row.academy = "approved" \/ row.skill = "approved"
  BY DEF ApprovedTracks, Tracks
<1> QED BY <1>1 DEF Flagged

(* A signed copy is bound at most once.                                    *)
LEMMA BoundRow ==
    ASSUME FacultyTypeOK, NEW row \in Profile
    PROVE  /\ Bound(row) \in Profile /\ SameTracks(Bound(row), row) /\ Bound(row).docs = row.docs
           /\ row.bound # 0 => Bound(row) = row
<1>1. letter.live \in 0..MaxVersions BY DEF FacultyTypeOK
<1> QED BY <1>1 DEF Bound, SameTracks, Profile

LEMMA BroughtRow ==
    ASSUME FacultyTypeOK, NEW job \in Errand, job.op \in {"add", "patch", "form"}
    PROVE  /\ Brought(job) \in Profile /\ SameTracks(Brought(job), job.row)
           /\ Brought(job).docs = job.row.docs
           /\ job.row.bound # 0 \/ "bound" \notin job.files => Brought(job).bound = job.row.bound
<1>1. job.row \in Profile BY ErrandFields
<1> QED BY <1>1, BoundRow DEF Brought, SameTracks

-----------------------------------------------------------------------------

LEMMA StartsKeeps ==
    ASSUME FacultyIInv, "tracks" \notin Crossing, NEW t \in Offices, NEW job \in Errand,
           job # Done, Starts(t, job), InStep(job), uploads' \in 0..MaxUploads,
           job.op \in {"add", "patch", "form"} => job.row.bound = profile.bound
    PROVE  FacultyIInv'
<1>1. /\ FacultyTypeOK /\ errands \in [Offices -> Errand] /\ OnesTurn /\ BindingAsRead
      /\ FlagFollowsTracks /\ ApprovedMayEnter /\ FilesAsVetted /\ BindingStands
      /\ \A u \in UnderWay : InStep(errands[u])
  BY DEF FacultyIInv
<1>2. /\ errands[t] = Done /\ errands' = [errands EXCEPT ![t] = job]
      /\ crossed' = (crossed \/ UnderWay # {})
      /\ UNCHANGED <<profile, role, letter, vetted, reformed, first>>
      /\ \A u \in UnderWay : Kind(errands[u].op) = Kind(job.op) /\ Kind(job.op) \in Crossing
  BY DEF Starts, Admitted
<1>3. /\ errands' \in [Offices -> Errand] /\ errands'[t] = job
      /\ \A u \in Offices : u # t => errands'[u] = errands[u]
  BY <1>1, <1>2
<1>4. UnderWay' = UnderWay \cup {t} /\ t \notin UnderWay
  BY <1>2, <1>3 DEF UnderWay
<1>5. FacultyTypeOK' BY <1>1, <1>2 DEF FacultyTypeOK
<1>6. \A u \in UnderWay' : InStep(errands[u])'
  <2>1. InStep(job)' BY <1>2 DEF InStep, SameTracks, Flagged, Documented, ApprovedTracks
  <2>2. ASSUME NEW u \in UnderWay PROVE InStep(errands[u])'
    <3>1. errands'[u] = errands[u] /\ InStep(errands[u]) BY <1>1, <1>3, <1>4 DEF UnderWay
    <3> QED BY <1>2, <3>1 DEF InStep, SameTracks, Flagged, Documented, ApprovedTracks
  <2> QED BY <1>3, <1>4, <2>1, <2>2
<1>7. OnesTurn'
  <2> SUFFICES ASSUME NEW u \in UnderWay', NEW v \in UnderWay',
                      Kind(errands'[u].op) = "tracks" \/ ~crossed'
               PROVE  u = v
    BY DEF OnesTurn
  <2>1. CASE UnderWay = {} BY <1>4, <2>1
  <2>2. CASE UnderWay # {}
    <3>1. crossed' BY <1>2, <2>2
    <3>2. Kind(job.op) # "tracks" BY <1>2, <2>2
    <3>3. \A w \in UnderWay : Kind(errands[w].op) # "tracks" BY <1>2, <3>2
    <3>4. Kind(errands'[u].op) # "tracks" BY <1>3, <1>4, <3>2, <3>3 DEF UnderWay
    <3> QED BY <3>1, <3>4
  <2> QED BY <2>1, <2>2
<1>8. BindingAsRead'
  <2> SUFFICES ASSUME ~crossed', NEW u \in UnderWay', errands'[u].op \in {"add", "patch", "form"}
               PROVE  errands'[u].row.bound = profile'.bound
    BY DEF BindingAsRead
  <2>1. UnderWay = {} BY <1>2
  <2> QED BY <1>2, <1>3, <1>4, <2>1
<1>9. ApprovedMayEnter'
  <2>1. \A u \in UnderWay : errands'[u] = errands[u] BY <1>3, <1>4 DEF UnderWay
  <2> QED BY <1>1, <1>2, <1>4, <2>1 DEF ApprovedMayEnter
<1>10. FlagFollowsTracks' BY <1>1, <1>2 DEF FlagFollowsTracks, ApprovedTracks
<1>11. FilesAsVetted' /\ BindingStands' BY <1>1, <1>2 DEF FilesAsVetted, BindingStands
<1> QED BY <1>3, <1>5, <1>6, <1>7, <1>8, <1>9, <1>10, <1>11 DEF FacultyIInv

(* One that has the account to itself goes on, or retires.                 *)
LEMMA ProceedsKeeps ==
    ASSUME FacultyIInv, NEW t \in Offices, NEW job \in Errand, Proceeds(t, job),
           errands[t] # Done, Kind(errands[t].op) = "tracks",
           job.op \notin {"add", "patch", "form"}, InStep(job)', FacultyTypeOK',
           FlagFollowsTracks', job.op = "settle" \/ (profile'.approved => role'),
           FilesAsVetted', BindingStands'
    PROVE  FacultyIInv'
<1>1. /\ errands \in [Offices -> Errand] /\ OnesTurn
      /\ errands' = [errands EXCEPT ![t] = job] /\ t \in UnderWay
  BY DEF FacultyIInv, Proceeds, UnderWay
<1>2. /\ errands' \in [Offices -> Errand] /\ errands'[t] = job
      /\ \A u \in Offices : u # t => errands'[u] = errands[u]
  BY <1>1
<1>3. \A u \in UnderWay : u = t BY <1>1 DEF OnesTurn
<1>4. \A u \in UnderWay' : u = t BY <1>2, <1>3 DEF UnderWay
<1>5. \A u \in UnderWay' : InStep(errands[u])' BY <1>2, <1>4
<1>6. OnesTurn' BY <1>4 DEF OnesTurn
<1>7. BindingAsRead' BY <1>2, <1>4 DEF BindingAsRead
<1>8. ApprovedMayEnter'
  <2>1. CASE job.op = "settle"
    <3>1. errands'[t].op = "settle" /\ errands'[t] # Done
      BY <1>2, <2>1, DoneIsErrand
    <3>2. t \in UnderWay' BY <3>1 DEF UnderWay
    <3> QED BY <3>1, <3>2 DEF ApprovedMayEnter
  <2>2. CASE profile'.approved => role' BY <2>2 DEF ApprovedMayEnter
  <2> QED BY <2>1, <2>2
<1> QED BY <1>2, <1>5, <1>6, <1>7, <1>8 DEF FacultyIInv

(* What holds for the one request on the tracks.                           *)
LEMMA OnTheTracks ==
    ASSUME FacultyIInv, NEW t \in Offices,
           errands[t].op \in {"add", "reapply", "review", "settle", "grant", "look", "sync"}
    PROVE  /\ errands[t] # Done /\ Kind(errands[t].op) = "tracks" /\ InStep(errands[t])
           /\ (errands[t].op # "settle" => (profile.approved => role))
<1>1. errands[t] # Done /\ Kind(errands[t].op) = "tracks" BY DoneIsErrand DEF Kind
<1>2. t \in UnderWay /\ InStep(errands[t]) BY <1>1 DEF UnderWay, FacultyIInv
<1>3. \A u \in UnderWay : u = t BY <1>1, <1>2 DEF FacultyIInv, OnesTurn
<1>4. ApprovedMayEnter BY DEF FacultyIInv
<1> QED BY <1>1, <1>2, <1>3, <1>4 DEF ApprovedMayEnter

-----------------------------------------------------------------------------

LEMMA SaveTrackKeeps == ASSUME FacultyIInv, NEW t \in Offices, SaveTrack(t) PROVE FacultyIInv'
<1> DEFINE job == errands[t]
           row == Brought(job)
           columns == {"academy", "skill", "approved"} \cup job.files
<1>1. /\ FacultyTypeOK /\ errands \in [Offices -> Errand] /\ FilesAsVetted /\ BindingStands
      /\ BindingAsRead
  BY DEF FacultyIInv
<1>2. /\ job.op = "add" /\ job \in Errand /\ Saves(columns, row) /\ Proceeds(t, Done)
      /\ role' = (role \/ ApprovedTracks(row) # {}) /\ UNCHANGED <<letter, uploads, reformed, crossed>>
  BY <1>1 DEF SaveTrack, Retires, Proceeds
<1>3. job # Done /\ Kind(job.op) = "tracks" /\ InStep(job) BY <1>2, OnTheTracks
<1>4. /\ row \in Profile /\ SameTracks(row, job.row) /\ row.docs = job.row.docs
      /\ job.row.bound # 0 \/ "bound" \notin job.files => row.bound = job.row.bound
  BY <1>1, <1>2, BroughtRow
<1>5. /\ Flagged(job.row) /\ Documented(job.row)
      /\ job.files # {} => job.row.academy = "pending" /\ job.row.docs # 0
      /\ job.row.academy = "approved" => profile.academy = "approved"
  BY <1>2, <1>3 DEF InStep
<1>6. job.files \in {{}, {"docs"}, {"docs", "bound"}} BY <1>2, ErrandFields
<1>7. ~crossed => job.row.bound = profile.bound
  BY <1>1, <1>2, <1>3 DEF BindingAsRead, UnderWay
<1>8. Flagged(row) BY <1>4, <1>5, FlagByTracks DEF SameTracks
<1> HIDE DEF job, row
<1>9. /\ profile' \in Profile
      /\ profile'.academy = row.academy /\ profile'.skill = row.skill
      /\ profile'.approved = row.approved
      /\ profile'.docs = (IF "docs" \in job.files THEN row.docs ELSE profile.docs)
      /\ profile'.bound = (IF "bound" \in job.files THEN row.bound ELSE profile.bound)
      /\ vetted \subseteq vetted' /\ vetted' \subseteq 0..MaxUploads
      /\ (profile'.academy = "approved" /\ profile.academy # "approved" => profile'.docs \in vetted')
      /\ first' = (IF first = 0 THEN profile'.bound ELSE first) /\ first' \in 0..MaxVersions
  BY <1>1, <1>2, <1>4, SavedColumns
<1>10. FacultyTypeOK' BY <1>1, <1>2, <1>9 DEF FacultyTypeOK
<1>11. FlagFollowsTracks'
  <2>1. Flagged(profile') BY <1>8, <1>9, FlagByTracks
  <2> QED BY <2>1 DEF FlagFollowsTracks, Flagged, ApprovedTracks
<1>12. profile'.approved => role' BY <1>2, <1>8, <1>9 DEF Flagged
<1>13. FilesAsVetted'
  <2>1. row.academy = "approved" => job.files = {} /\ profile.academy = "approved"
    BY <1>4, <1>5 DEF SameTracks
  <2> QED BY <1>1, <1>2, <1>9, <2>1 DEF FilesAsVetted
<1>14. BindingStands'
  <2>1. profile'.bound # 0 => profile'.docs # 0
    BY <1>1, <1>4, <1>5, <1>6, <1>9 DEF BindingStands
  <2>2. ~crossed => profile'.bound = first'
    <3>1. ~crossed => profile.bound = first BY <1>1 DEF BindingStands
    <3>2. ~crossed /\ first # 0 => profile'.bound = first BY <1>4, <1>7, <1>9, <3>1
    <3> QED BY <1>9, <3>2
  <2> QED BY <1>2, <2>1, <2>2 DEF BindingStands
<1>15. InStep(Done)' BY DoneIsErrand DEF InStep
<1>16. Kind(errands[t].op) = "tracks" /\ errands[t] # Done BY <1>3 DEF job
<1> QED BY <1>2, <1>10, <1>11, <1>12, <1>13, <1>14, <1>15, <1>16, ProceedsKeeps, DoneIsErrand

(* Only the status of the Academy and the flag are written.                *)
LEMMA AcademyIsWritten ==
    ASSUME FacultyIInv, NEW columns \in {{"academy"}, {"academy", "approved"}},
           NEW row \in Profile, Saves(columns, row), row.skill = profile.skill,
           IF columns = {"academy"} THEN row.academy # "approved" /\ profile.academy # "approved"
                                    ELSE Flagged(row),
           UNCHANGED <<role, letter, uploads, reformed, crossed>>
    PROVE  /\ FacultyTypeOK' /\ FlagFollowsTracks' /\ FilesAsVetted' /\ BindingStands'
           /\ profile' \in Profile /\ profile'.academy = row.academy /\ profile'.skill = profile.skill
           /\ profile'.approved = (IF columns = {"academy"} THEN profile.approved ELSE row.approved)
<1>1. FacultyTypeOK /\ FlagFollowsTracks /\ FilesAsVetted /\ BindingStands BY DEF FacultyIInv
<1>2. /\ "academy" \in columns /\ "skill" \notin columns /\ "docs" \notin columns
      /\ "bound" \notin columns /\ ("approved" \in columns <=> columns # {"academy"})
  OBVIOUS
<1>3. /\ profile' \in Profile
      /\ profile'.academy = row.academy /\ profile'.skill = profile.skill
      /\ profile'.approved = (IF columns = {"academy"} THEN profile.approved ELSE row.approved)
      /\ profile'.docs = profile.docs /\ profile'.bound = profile.bound
      /\ vetted \subseteq vetted' /\ vetted' \subseteq 0..MaxUploads
      /\ (profile'.academy = "approved" /\ profile.academy # "approved" => profile'.docs \in vetted')
      /\ first' = (IF first = 0 THEN profile'.bound ELSE first) /\ first' \in 0..MaxVersions
  BY <1>1, <1>2, SavedColumns
<1>4. FacultyTypeOK' BY <1>1, <1>3 DEF FacultyTypeOK
<1>5. FlagFollowsTracks'
  <2>1. Flagged(profile) BY <1>1 DEF FlagFollowsTracks, Flagged
  <2>2. Flagged(profile') BY <1>3, <2>1, FlagByTracks
  <2> QED BY <2>2 DEF FlagFollowsTracks, Flagged, ApprovedTracks
<1>6. FilesAsVetted' BY <1>1, <1>3 DEF FilesAsVetted
<1>7. BindingStands' BY <1>1, <1>3 DEF BindingStands
<1> QED BY <1>3, <1>4, <1>5, <1>6, <1>7

LEMMA SaveReappliedKeeps ==
    ASSUME FacultyIInv, NEW t \in Offices, SaveReapplied(t) PROVE FacultyIInv'
<1> DEFINE row == [profile EXCEPT !.academy = "pending"]
<1>1. /\ errands[t].op = "reapply" /\ Saves({"academy"}, row) /\ Proceeds(t, Done)
      /\ UNCHANGED <<role, letter, uploads, reformed, crossed>>
  BY DEF SaveReapplied, Retires, Proceeds
<1>2. /\ errands[t] # Done /\ Kind(errands[t].op) = "tracks" /\ InStep(errands[t])
      /\ (profile.approved => role)
  BY <1>1, OnTheTracks
<1>3. profile.academy = "rejected" BY <1>1, <1>2 DEF InStep
<1>4. row \in Profile /\ row.academy = "pending" /\ row.skill = profile.skill
  BY DEF FacultyIInv, FacultyTypeOK, Profile, TrackStatus
<1> HIDE DEF row
<1>5. /\ FacultyTypeOK' /\ FlagFollowsTracks' /\ FilesAsVetted' /\ BindingStands'
      /\ profile'.approved = profile.approved
  BY <1>1, <1>3, <1>4, AcademyIsWritten
<1>6. InStep(Done)' BY DoneIsErrand DEF InStep
<1> QED BY <1>1, <1>2, <1>5, <1>6, ProceedsKeeps, DoneIsErrand

LEMMA RecordReviewKeeps ==
    ASSUME FacultyIInv, NEW t \in Offices, RecordReview(t) PROVE FacultyIInv'
<1>0. PICK row, job : row = errands[t].row /\ job = [errands[t] EXCEPT !.op = "settle"]
  OBVIOUS
<1>1. /\ errands[t].op = "review" /\ Saves({"academy", "approved"}, row) /\ Proceeds(t, job)
      /\ UNCHANGED <<role, letter, uploads, reformed, crossed>>
  BY <1>0 DEF RecordReview, Proceeds
<1>2. errands[t] \in Errand BY DEF FacultyIInv
<1>3. row \in Profile BY <1>0, <1>1, <1>2, ErrandFields
<1>4. job \in Errand /\ job.op = "settle" /\ job.row = row
  <2>1. errands[t] \in [op: {"review", "settle", "sync"}, row: Profile]
    BY <1>1, <1>2 DEF Errand, Done
  <2> QED BY <1>0, <2>1 DEF Errand
<1>5. /\ errands[t] # Done /\ Kind(errands[t].op) = "tracks" /\ InStep(errands[t])
      /\ (profile.approved => role)
  BY <1>1, OnTheTracks
<1>6. Flagged(row) /\ row.skill = profile.skill BY <1>0, <1>1, <1>5 DEF InStep
<1>7. /\ FacultyTypeOK' /\ FlagFollowsTracks' /\ FilesAsVetted' /\ BindingStands'
      /\ profile'.academy = row.academy /\ profile'.skill = profile.skill
      /\ profile'.approved = row.approved
  <2>1. {"academy", "approved"} # {"academy"} OBVIOUS
  <2> QED BY <1>1, <1>3, <1>6, <2>1, AcademyIsWritten
<1>8. profile.skill = "approved" => role
  <2>1. Flagged(profile) BY DEF FacultyIInv, FlagFollowsTracks, Flagged
  <2> QED BY <1>5, <2>1, FlagByTracks
<1>9. InStep(job)' BY <1>1, <1>4, <1>6, <1>7, <1>8 DEF InStep, SameTracks
<1> QED BY <1>1, <1>4, <1>5, <1>7, <1>9, ProceedsKeeps

(* Nothing of the profile is written.                                      *)
LEMMA ProfileRests ==
    ASSUME FacultyIInv, UNCHANGED <<profile, letter, uploads, vetted, reformed, first, crossed>>,
           role' \in BOOLEAN
    PROVE  FacultyTypeOK' /\ FlagFollowsTracks' /\ FilesAsVetted' /\ BindingStands'
<1>1. FacultyTypeOK /\ FlagFollowsTracks /\ FilesAsVetted /\ BindingStands BY DEF FacultyIInv
<1>2. FacultyTypeOK' BY <1>1 DEF FacultyTypeOK
<1>3. FlagFollowsTracks' BY <1>1 DEF FlagFollowsTracks, ApprovedTracks
<1>4. FilesAsVetted' /\ BindingStands' BY <1>1 DEF FilesAsVetted, BindingStands
<1> QED BY <1>2, <1>3, <1>4

LEMMA SettleRoleKeeps == ASSUME FacultyIInv, NEW t \in Offices, SettleRole(t) PROVE FacultyIInv'
<1> DEFINE row == errands[t].row
<1>1. /\ errands[t].op = "settle" /\ Proceeds(t, Done)
      /\ role' = (row.academy = "approved" \/ (role /\ ApprovedTracks(row) # {}))
      /\ UNCHANGED <<profile, letter, uploads, vetted, reformed, first, crossed>>
  BY DEF SettleRole, RoleAfter, Retires, Proceeds
<1>2. errands[t] # Done /\ Kind(errands[t].op) = "tracks" /\ InStep(errands[t])
  BY <1>1, OnTheTracks
<1>3. SameTracks(row, profile) /\ (profile.skill = "approved" => role)
  BY <1>1, <1>2 DEF InStep
<1>4. Flagged(profile) BY DEF FacultyIInv, FlagFollowsTracks, Flagged
<1> HIDE DEF row
<1>5. profile.approved => role'
  <2>1. row.skill = "approved" => ApprovedTracks(row) # {} BY DEF ApprovedTracks, Tracks
  <2> QED BY <1>1, <1>3, <1>4, <2>1, FlagByTracks DEF SameTracks
<1>6. role' \in BOOLEAN BY <1>1
<1>7. FacultyTypeOK' /\ FlagFollowsTracks' /\ FilesAsVetted' /\ BindingStands'
  BY <1>1, <1>6, ProfileRests
<1>8. InStep(Done)' BY DoneIsErrand DEF InStep
<1> QED BY <1>1, <1>2, <1>5, <1>7, <1>8, ProceedsKeeps, DoneIsErrand

LEMMA GrantKeeps ==
    ASSUME FacultyIInv, NEW t \in Offices, SaveRole(t) \/ ReadProfile(t) PROVE FacultyIInv'
<1>1. UNCHANGED <<profile, letter, uploads, vetted, reformed, first, crossed>>
  BY DEF SaveRole, ReadProfile, Proceeds
<1>2. CASE SaveRole(t)
  <2>1. errands[t].op = "grant" /\ Proceeds(t, [op |-> "look"]) /\ role' = TRUE
    BY <1>2 DEF SaveRole
  <2>2. errands[t] # Done /\ Kind(errands[t].op) = "tracks" BY <2>1, OnTheTracks
  <2>3. FacultyTypeOK' /\ FlagFollowsTracks' /\ FilesAsVetted' /\ BindingStands'
    BY <1>1, <2>1, ProfileRests
  <2> DEFINE job == [op |-> "look"]
  <2>4. job \in Errand /\ job.op = "look" BY DEF Errand
  <2>5. Proceeds(t, job) BY <2>1
  <2> HIDE DEF job
  <2>6. InStep(job)' BY <2>1, <2>4 DEF InStep
  <2> QED BY <2>1, <2>2, <2>3, <2>4, <2>5, <2>6, ProceedsKeeps
<1>3. CASE ReadProfile(t)
  <2>0. PICK row, job : row = ByRole(profile) /\ job = [op |-> "sync", row |-> row] OBVIOUS
  <2>1. errands[t].op = "look" /\ Proceeds(t, job) /\ UNCHANGED role
    BY <1>3, <2>0 DEF ReadProfile
  <2>2. errands[t] # Done /\ Kind(errands[t].op) = "tracks" /\ InStep(errands[t])
    BY <2>1, OnTheTracks
  <2>3. role BY <2>1, <2>2 DEF InStep
  <2>4. FacultyTypeOK' /\ FlagFollowsTracks' /\ FilesAsVetted' /\ BindingStands'
    <3>1. role' \in BOOLEAN BY <2>1 DEF FacultyIInv, FacultyTypeOK
    <3> QED BY <1>1, <3>1, ProfileRests
  <2>5. row \in Profile /\ Flagged(row) /\ row.skill = profile.skill
    <3> DEFINE new == IF profile.academy = "pending" THEN [profile EXCEPT !.academy = "approved"]
                      ELSE profile
    <3>1. new \in Profile /\ new.skill = profile.skill
      BY DEF FacultyIInv, FacultyTypeOK, Profile, TrackStatus
    <3>2. row = Synced(new) BY <2>0 DEF ByRole
    <3> HIDE DEF new
    <3> QED BY <3>1, <3>2, SyncedRow
  <2>6. job \in Errand /\ job.op = "sync" /\ job.row = row BY <2>0, <2>5 DEF Errand
  <2>7. InStep(job)' BY <1>1, <2>1, <2>3, <2>5, <2>6 DEF InStep
  <2> QED BY <2>1, <2>2, <2>3, <2>4, <2>6, <2>7, ProceedsKeeps
<1> QED BY <1>2, <1>3

LEMMA SyncTracksKeeps == ASSUME FacultyIInv, NEW t \in Offices, SyncTracks(t) PROVE FacultyIInv'
<1> DEFINE row == errands[t].row
<1>1. /\ errands[t].op = "sync" /\ Saves({"academy", "approved"}, row) /\ Proceeds(t, Done)
      /\ UNCHANGED <<role, letter, uploads, reformed, crossed>>
  BY DEF SyncTracks, Retires, Proceeds
<1>2. errands[t] \in Errand BY DEF FacultyIInv
<1>3. row \in Profile BY <1>1, <1>2, ErrandFields
<1>4. errands[t] # Done /\ Kind(errands[t].op) = "tracks" /\ InStep(errands[t])
  BY <1>1, OnTheTracks
<1>5. role /\ Flagged(row) /\ row.skill = profile.skill BY <1>1, <1>4 DEF InStep
<1> HIDE DEF row
<1>6. FacultyTypeOK' /\ FlagFollowsTracks' /\ FilesAsVetted' /\ BindingStands'
  <2>1. {"academy", "approved"} # {"academy"} OBVIOUS
  <2> QED BY <1>1, <1>3, <1>5, <2>1, AcademyIsWritten
<1>7. InStep(Done)' BY DoneIsErrand DEF InStep
<1> QED BY <1>1, <1>4, <1>5, <1>6, <1>7, ProceedsKeeps, DoneIsErrand

(* The administrator's listing finds nobody at the account.                *)
LEMMA ListExpertKeeps ==
    ASSUME FacultyIInv, "tracks" \notin Crossing, ListExpert PROVE FacultyIInv'
<1> DEFINE listed == [profile EXCEPT !.skill = "approved", !.approved = TRUE]
           row == IF role THEN listed ELSE ByRole(listed)
<1>1. /\ Admitted("list") /\ Saves({"academy", "skill", "approved"}, row) /\ role' = TRUE
      /\ UNCHANGED <<letter, uploads, reformed, crossed, errands>>
  BY DEF ListExpert
<1>2. UnderWay = {} BY <1>1 DEF Admitted, Kind
<1>3. /\ FacultyTypeOK /\ FilesAsVetted /\ BindingStands /\ profile \in Profile
      /\ errands \in [Offices -> Errand]
  BY DEF FacultyIInv, FacultyTypeOK
<1>4. listed \in Profile /\ listed.skill = "approved" /\ listed.approved = TRUE
  BY <1>3 DEF Profile, TrackStatus
<1>5. Flagged(listed) BY <1>4, FlagByTracks
<1> HIDE DEF listed
<1>6. ByRole(listed) \in Profile /\ Flagged(ByRole(listed))
  <2> DEFINE r == IF listed.academy = "pending" THEN [listed EXCEPT !.academy = "approved"]
                  ELSE listed
  <2>1. r \in Profile BY <1>4 DEF Profile, TrackStatus
  <2>2. ByRole(listed) = Synced(r) BY DEF ByRole
  <2> HIDE DEF r
  <2> QED BY <2>1, <2>2, SyncedRow
<1>7. row \in Profile /\ Flagged(row) BY <1>4, <1>5, <1>6
<1> HIDE DEF row
<1>8. /\ profile' \in Profile
      /\ profile'.academy = row.academy /\ profile'.skill = row.skill
      /\ profile'.approved = row.approved
      /\ profile'.docs = profile.docs /\ profile'.bound = profile.bound
      /\ vetted \subseteq vetted' /\ vetted' \subseteq 0..MaxUploads
      /\ (profile'.academy = "approved" /\ profile.academy # "approved" => profile'.docs \in vetted')
      /\ first' = (IF first = 0 THEN profile'.bound ELSE first) /\ first' \in 0..MaxVersions
  BY <1>1, <1>3, <1>7, SavedColumns
<1>9. FacultyTypeOK' BY <1>1, <1>3, <1>8 DEF FacultyTypeOK
<1>10. FlagFollowsTracks'
  <2>1. Flagged(profile') BY <1>7, <1>8, FlagByTracks
  <2> QED BY <2>1 DEF FlagFollowsTracks, Flagged, ApprovedTracks
<1>11. ApprovedMayEnter' BY <1>1 DEF ApprovedMayEnter
<1>12. FilesAsVetted' BY <1>1, <1>3, <1>8 DEF FilesAsVetted
<1>13. BindingStands' BY <1>1, <1>3, <1>8 DEF BindingStands
<1>14. UnderWay' = {} BY <1>1, <1>2 DEF UnderWay
<1>15. OnesTurn' /\ BindingAsRead' BY <1>14 DEF OnesTurn, BindingAsRead
<1> QED BY <1>1, <1>3, <1>9, <1>10, <1>11, <1>12, <1>13, <1>14, <1>15 DEF FacultyIInv

(* A whole row comes back from one of the two editors.                     *)
LEMMA SaveRowKeeps == ASSUME FacultyIInv, NEW t \in Offices, SaveRow(t) PROVE FacultyIInv'
<1> DEFINE job == errands[t]
           row == Brought(job)
<1>1. /\ FacultyTypeOK /\ errands \in [Offices -> Errand] /\ FilesAsVetted /\ BindingStands
      /\ BindingAsRead /\ OnesTurn /\ FlagFollowsTracks /\ ApprovedMayEnter
      /\ \A u \in UnderWay : InStep(errands[u])
  BY DEF FacultyIInv
<1>2. /\ job.op \in {"patch", "form"} /\ job \in Errand /\ Saves(AllColumns, row)
      /\ reformed' = (IF job.op = "form" THEN reformed \cup {row.docs} ELSE reformed)
      /\ errands' = [errands EXCEPT ![t] = Done] /\ UNCHANGED <<role, letter, uploads, crossed>>
  BY <1>1 DEF SaveRow, Retires, Proceeds
<1>3. t \in UnderWay /\ job # Done /\ InStep(job)
  BY <1>1, <1>2, DoneIsErrand DEF UnderWay
<1>4. /\ row \in Profile /\ SameTracks(row, job.row) /\ row.docs = job.row.docs
      /\ job.row.bound # 0 \/ "bound" \notin job.files => row.bound = job.row.bound
  BY <1>1, <1>2, BroughtRow
<1>5. /\ SameTracks(job.row, profile) /\ Documented(job.row)
      /\ job.files # {} => job.row.docs # 0
      /\ job.op = "patch" /\ profile.academy = "approved" => job.row.docs \in vetted \cup reformed
  BY <1>2, <1>3 DEF InStep
<1>6. job.files \in {{}, {"docs"}, {"docs", "bound"}} BY <1>2, ErrandFields
<1>7. ~crossed => job.row.bound = profile.bound
  BY <1>1, <1>2, <1>3 DEF BindingAsRead
<1>8. /\ errands' \in [Offices -> Errand] /\ errands'[t] = Done
      /\ \A u \in Offices : u # t => errands'[u] = errands[u]
  BY <1>1, <1>2, DoneIsErrand
<1>9. UnderWay' = UnderWay \ {t} BY <1>8 DEF UnderWay
<1>10. \A u \in UnderWay : Kind(errands[u].op) # "tracks"
  <2>1. Kind(job.op) = "row" BY <1>2 DEF Kind
  <2> QED BY <1>1, <1>3, <2>1 DEF OnesTurn
<1> HIDE DEF job, row
<1>11. /\ profile' \in Profile
      /\ profile'.academy = row.academy /\ profile'.skill = row.skill
      /\ profile'.approved = row.approved
      /\ profile'.docs = row.docs /\ profile'.bound = row.bound
      /\ vetted \subseteq vetted' /\ vetted' \subseteq 0..MaxUploads
      /\ first' = (IF first = 0 THEN profile'.bound ELSE first) /\ first' \in 0..MaxVersions
  BY <1>1, <1>2, <1>4, SavedColumns DEF AllColumns
<1>12. SameTracks(profile', profile) BY <1>4, <1>5, <1>11 DEF SameTracks
<1>13. FacultyTypeOK'
  <2>1. row.docs \in 0..MaxUploads BY <1>4 DEF Profile
  <2> QED BY <1>1, <1>2, <1>11, <2>1 DEF FacultyTypeOK
<1>14. FlagFollowsTracks'
  <2>1. Flagged(profile) BY <1>1 DEF FlagFollowsTracks, Flagged
  <2>2. Flagged(profile') BY <1>12, <2>1, FlagByTracks DEF SameTracks
  <2> QED BY <2>2 DEF FlagFollowsTracks, Flagged, ApprovedTracks
<1>15. \A u \in UnderWay' : InStep(errands[u])'
  <2> SUFFICES ASSUME NEW u \in UnderWay' PROVE InStep(errands[u])' OBVIOUS
  <2>1. /\ u \in UnderWay /\ errands'[u] = errands[u] /\ InStep(errands[u])
        /\ Kind(errands[u].op) # "tracks" /\ errands[u] \in Errand
    BY <1>1, <1>8, <1>9, <1>10 DEF UnderWay
  <2>2. errands[u].op \in {"patch", "form"}
    BY <2>1, ErrandFields, Wanted DEF Kind
  <2>3. vetted \cup reformed \subseteq vetted' \cup reformed' BY <1>2, <1>11
  <2> QED BY <1>12, <2>1, <2>2, <2>3 DEF InStep, SameTracks, Flagged, Documented
<1>16. OnesTurn' BY <1>1, <1>2, <1>8, <1>9 DEF OnesTurn, UnderWay
<1>17. BindingAsRead'
  <2>1. ~crossed => UnderWay' = {} BY <1>1, <1>3, <1>9 DEF OnesTurn
  <2> QED BY <1>2, <2>1 DEF BindingAsRead
<1>18. ApprovedMayEnter'
  <2>1. \A u \in UnderWay : errands[u].op # "settle" BY <1>10 DEF Kind
  <2> QED BY <1>1, <1>2, <1>12, <2>1 DEF ApprovedMayEnter, SameTracks
<1>19. FilesAsVetted'
  <2>1. job.op = "form" => row.docs \in reformed' BY <1>2
  <2>2. job.op = "patch" /\ profile.academy = "approved" => row.docs \in vetted' \cup reformed'
    BY <1>2, <1>4, <1>5, <1>11
  <2> QED BY <1>2, <1>11, <1>12, <2>1, <2>2 DEF FilesAsVetted, SameTracks
<1>20. BindingStands'
  <2>1. profile'.bound # 0 => profile'.docs # 0
    BY <1>4, <1>5, <1>6, <1>11 DEF Documented
  <2>2. ~crossed => profile'.bound = first'
    <3>1. ~crossed => profile.bound = first BY <1>1 DEF BindingStands
    <3>2. ~crossed /\ first # 0 => profile'.bound = first BY <1>4, <1>7, <1>11, <3>1
    <3> QED BY <1>11, <3>2
  <2> QED BY <1>2, <2>1, <2>2 DEF BindingStands
<1> QED BY <1>8, <1>13, <1>14, <1>15, <1>16, <1>17, <1>18, <1>19, <1>20 DEF FacultyIInv

-----------------------------------------------------------------------------

(* A request that brings a row, as it was read or with new documents.      *)
LEMMA BringsKeeps ==
    ASSUME FacultyIInv, "tracks" \notin Crossing, NEW t \in Offices,
           NEW op \in {"add", "patch", "form"}, NEW row \in Profile, NEW may \in BOOLEAN,
           Brings(t, op, row, may), row.docs = profile.docs, row.bound = profile.bound,
           op = "add" => /\ Flagged(row) /\ (may => row.academy = "pending")
                         /\ (row.academy = "approved" => profile.academy = "approved"),
           op # "add" => row = profile, op = "patch" => (may => profile.academy # "approved")
    PROVE  FacultyIInv'
<1>1. /\ FacultyTypeOK /\ BindingStands /\ FilesAsVetted /\ profile \in Profile
      /\ uploads \in 0..MaxUploads
  BY DEF FacultyIInv, FacultyTypeOK
<1>2. profile.bound # 0 => profile.docs # 0 BY <1>1 DEF BindingStands
<1>3. op \in {"patch", "form"} => SameTracks(row, profile) BY DEF SameTracks
<1>4. CASE Starts(t, [op |-> op, row |-> row, files |-> {}]) /\ UNCHANGED uploads
  <2> DEFINE job == [op |-> op, row |-> row, files |-> {}]
  <2>1. job \in Errand /\ job.op = op /\ job.row = row /\ job.files = {} BY DEF Errand
  <2>2. Starts(t, job) BY <1>4
  <2> HIDE DEF job
  <2>3. job # Done BY <2>1, DoneIsErrand
  <2>4. Documented(row) BY <1>2 DEF Documented
  <2>5. op = "patch" /\ profile.academy = "approved" => row.docs \in vetted \cup reformed
    BY <1>1 DEF FilesAsVetted
  <2>6. InStep(job) BY <1>3, <2>1, <2>4, <2>5 DEF InStep
  <2> QED BY <1>1, <1>4, <2>1, <2>2, <2>3, <2>6, StartsKeeps
<1>5. ASSUME may, uploads < MaxUploads, uploads' = uploads + 1,
             NEW files \in {{"docs"}, {"docs", "bound"}},
             Starts(t, [op |-> op, row |-> [row EXCEPT !.docs = uploads + 1], files |-> files])
      PROVE  FacultyIInv'
  <2> DEFINE new == [row EXCEPT !.docs = uploads + 1]
             job == [op |-> op, row |-> new, files |-> files]
  <2>1. uploads + 1 \in 0..MaxUploads /\ uploads + 1 # 0 BY <1>1, <1>5, FacultyAssumption
  <2>2. /\ new \in Profile /\ new.docs = uploads + 1 /\ SameTracks(new, row)
        /\ new.bound = row.bound
    BY <2>1 DEF Profile, SameTracks
  <2>3. Starts(t, job) BY <1>5
  <2> HIDE DEF new
  <2>4. job \in Errand /\ job.op = op /\ job.row = new /\ job.files = files
    BY <2>2 DEF Errand
  <2> HIDE DEF job
  <2>5. job # Done BY <2>4, DoneIsErrand
  <2>6. Documented(new) /\ new.docs # 0 BY <2>1, <2>2 DEF Documented
  <2>7. op = "add" => Flagged(new) BY <2>2, FlagByTracks DEF SameTracks
  <2>8. op # "add" => SameTracks(new, profile) BY <1>3, <2>2 DEF SameTracks
  <2>9. InStep(job) BY <1>5, <2>2, <2>4, <2>6, <2>7, <2>8 DEF InStep, SameTracks
  <2> QED BY <1>5, <2>1, <2>2, <2>3, <2>4, <2>5, <2>9, StartsKeeps
<1> QED BY <1>4, <1>5 DEF Brings

LEMMA AddTrackKeeps ==
    ASSUME FacultyIInv, "tracks" \notin Crossing, NEW t \in Offices, AddTrack(t) PROVE FacultyIInv'
<1>1. PICK track \in Tracks : /\ ~HoldsTrack(profile, track)
                              /\ Brings(t, "add", Applied(profile, track), track = "academy")
  BY DEF AddTrack
<1> DEFINE status == IF track = "skill" THEN "approved" ELSE "pending"
           row == [profile EXCEPT ![track] = status]
<1>2. profile \in Profile BY DEF FacultyIInv, FacultyTypeOK
<1>3. /\ row \in Profile /\ row.docs = profile.docs /\ row.bound = profile.bound
      /\ (track = "academy" => row.academy = "pending")
      /\ (track # "academy" => row.academy = profile.academy)
  <2>1. CASE track = "academy" BY <1>2, <2>1 DEF Profile, TrackStatus
  <2>2. CASE track = "skill" BY <1>2, <2>2 DEF Profile, TrackStatus
  <2> QED BY <2>1, <2>2 DEF Tracks
<1>4. Applied(profile, track) = Synced(row) BY DEF Applied
<1> HIDE DEF row
<1>5. /\ Synced(row) \in Profile /\ Flagged(Synced(row)) /\ Synced(row).academy = row.academy
      /\ Synced(row).docs = row.docs /\ Synced(row).bound = row.bound
  BY <1>3, SyncedRow
<1> DEFINE new == Synced(row)
           may == track = "academy"
<1>6. Brings(t, "add", new, may) /\ may \in BOOLEAN BY <1>1, <1>4
<1>7. /\ new \in Profile /\ new.docs = profile.docs /\ new.bound = profile.bound
      /\ Flagged(new) /\ (may => new.academy = "pending")
      /\ (new.academy = "approved" => profile.academy = "approved")
  BY <1>3, <1>5
<1> HIDE DEF new, may
<1> QED BY <1>6, <1>7, BringsKeeps

LEMMA EditorsKeep ==
    ASSUME FacultyIInv, "tracks" \notin Crossing, NEW t \in Offices, PatchProfile(t) \/ FillForm(t)
    PROVE  FacultyIInv'
<1>1. profile \in Profile BY DEF FacultyIInv, FacultyTypeOK
<1>2. CASE PatchProfile(t)
  <2> DEFINE may == ~DocumentsLocked(profile)
  <2>1. /\ Brings(t, "patch", profile, may) /\ may \in BOOLEAN
        /\ (may => profile.academy # "approved")
    BY <1>2 DEF PatchProfile, DocumentsLocked
  <2> HIDE DEF may
  <2> QED BY <1>1, <2>1, BringsKeeps
<1>3. CASE FillForm(t)
  <2>1. Brings(t, "form", profile, TRUE) BY <1>3 DEF FillForm
  <2> QED BY <1>1, <2>1, BringsKeeps
<1> QED BY <1>2, <1>3

LEMMA ReviewersStart ==
    ASSUME FacultyIInv, "tracks" \notin Crossing, NEW t \in Offices,
           ReapplyAcademy(t) \/ ReviewAcademy(t) \/ ApproveTeacherRole(t)
    PROVE  FacultyIInv'
<1>1. profile \in Profile /\ uploads' \in 0..MaxUploads
  BY DEF FacultyIInv, FacultyTypeOK, ReapplyAcademy, ReviewAcademy, ApproveTeacherRole
<1>2. CASE ReapplyAcademy(t)
  <2> DEFINE job == [op |-> "reapply"]
  <2>1. job \in Errand /\ job.op = "reapply" BY DEF Errand
  <2>2. Starts(t, job) /\ profile.academy = "rejected" BY <1>2 DEF ReapplyAcademy
  <2> HIDE DEF job
  <2>3. job # Done /\ InStep(job) BY <2>1, <2>2, DoneIsErrand DEF InStep
  <2> QED BY <1>1, <2>1, <2>2, <2>3, StartsKeeps
<1>3. CASE ApproveTeacherRole(t)
  <2> DEFINE job == [op |-> "grant"]
  <2>1. job \in Errand /\ job.op = "grant" BY DEF Errand
  <2>2. Starts(t, job) BY <1>3 DEF ApproveTeacherRole
  <2> HIDE DEF job
  <2>3. job # Done /\ InStep(job) BY <2>1, DoneIsErrand DEF InStep
  <2> QED BY <1>1, <2>1, <2>2, <2>3, StartsKeeps
<1>4. CASE ReviewAcademy(t)
  <2>1. PICK verdict \in {"approved", "rejected"} :
          Starts(t, [op |-> "review", row |-> Synced([profile EXCEPT !.academy = verdict])])
    BY <1>4 DEF ReviewAcademy
  <2> DEFINE ruled == [profile EXCEPT !.academy = verdict]
  <2>2. ruled \in Profile /\ ruled.skill = profile.skill
    BY <1>1 DEF Profile, TrackStatus
  <2> HIDE DEF ruled
  <2>3. Synced(ruled) \in Profile /\ Flagged(Synced(ruled)) /\ Synced(ruled).skill = profile.skill
    BY <2>2, SyncedRow
  <2> DEFINE job == [op |-> "review", row |-> Synced(ruled)]
  <2>4. job \in Errand /\ job.op = "review" /\ job.row = Synced(ruled) BY <2>3 DEF Errand
  <2>5. Starts(t, job) BY <2>1 DEF ruled
  <2> HIDE DEF job
  <2>6. job # Done /\ InStep(job) BY <2>3, <2>4, DoneIsErrand DEF InStep
  <2> QED BY <1>1, <2>4, <2>5, <2>6, StartsKeeps
<1> QED BY <1>2, <1>3, <1>4

LEMMA LetterKeeps ==
    ASSUME FacultyIInv, SaveDraft \/ DiscardDraft \/ PublishDraft PROVE FacultyIInv'
<1>1. letter' \in [live: 0..MaxVersions, draft: BOOLEAN]
  <2>1. letter \in [live: 0..MaxVersions, draft: BOOLEAN] BY DEF FacultyIInv, FacultyTypeOK
  <2>2. letter.live < MaxVersions => letter.live + 1 \in 0..MaxVersions
    BY <2>1, FacultyAssumption
  <2>3. CASE PublishDraft BY <2>2, <2>3 DEF PublishDraft
  <2> QED BY <2>1, <2>3 DEF SaveDraft, DiscardDraft
<1>2. UNCHANGED <<profile, role, uploads, vetted, reformed, first, crossed, errands>>
  BY DEF SaveDraft, DiscardDraft, PublishDraft, LetterOnly
<1>3. FacultyTypeOK' BY <1>1, <1>2 DEF FacultyIInv, FacultyTypeOK
<1>4. \A t \in UnderWay' : InStep(errands[t])'
  BY <1>2 DEF FacultyIInv, InStep, SameTracks, Flagged, Documented, ApprovedTracks, UnderWay
<1>5. OnesTurn' /\ BindingAsRead' /\ ApprovedMayEnter'
  BY <1>2 DEF FacultyIInv, OnesTurn, BindingAsRead, ApprovedMayEnter, UnderWay
<1>6. FlagFollowsTracks' BY <1>2 DEF FacultyIInv, FlagFollowsTracks, ApprovedTracks
<1>7. FilesAsVetted' /\ BindingStands' BY <1>2 DEF FacultyIInv, FilesAsVetted, BindingStands
<1> QED BY <1>2, <1>3, <1>4, <1>5, <1>6, <1>7 DEF FacultyIInv

LEMMA FacultyStepKeeps ==
    ASSUME FacultyIInv, "tracks" \notin Crossing, [FacultyNext]_facultyVars PROVE FacultyIInv'
<1>1. CASE UNCHANGED facultyVars
  <2>1. UNCHANGED <<profile, role, letter, uploads, vetted, reformed, first, crossed, errands>>
    BY <1>1 DEF facultyVars
  <2>2. FacultyTypeOK' /\ errands' \in [Offices -> Errand]
    BY <2>1 DEF FacultyIInv, FacultyTypeOK
  <2>3. \A t \in UnderWay' : InStep(errands[t])'
    BY <2>1 DEF FacultyIInv, InStep, SameTracks, Flagged, Documented, ApprovedTracks, UnderWay
  <2>4. OnesTurn' /\ BindingAsRead' /\ ApprovedMayEnter'
    BY <2>1 DEF FacultyIInv, OnesTurn, BindingAsRead, ApprovedMayEnter, UnderWay
  <2>5. FlagFollowsTracks' BY <2>1 DEF FacultyIInv, FlagFollowsTracks, ApprovedTracks
  <2>6. FilesAsVetted' /\ BindingStands' BY <2>1 DEF FacultyIInv, FilesAsVetted, BindingStands
  <2> QED BY <2>2, <2>3, <2>4, <2>5, <2>6 DEF FacultyIInv
<1>2. CASE FacultyNext
  BY <1>2, AddTrackKeeps, SaveTrackKeeps, ReviewersStart, SaveReappliedKeeps, RecordReviewKeeps,
     SettleRoleKeeps, GrantKeeps, SyncTracksKeeps, EditorsKeep, SaveRowKeeps, ListExpertKeeps,
     LetterKeeps DEF FacultyNext
<1> QED BY <1>1, <1>2

LEMMA FacultyStarts == FacultyInit => FacultyIInv
<1> SUFFICES ASSUME FacultyInit PROVE FacultyIInv OBVIOUS
<1>1. PICK track \in Tracks :
        profile = Applied([academy |-> "locked", skill |-> "locked", approved |-> FALSE,
                           docs |-> uploads, bound |-> 0], track)
  BY DEF FacultyInit, Tracks
<1> DEFINE new == [academy |-> "locked", skill |-> "locked", approved |-> FALSE,
                   docs |-> uploads, bound |-> 0]
           status == IF track = "skill" THEN "approved" ELSE "pending"
           row == [new EXCEPT ![track] = status]
<1>2. uploads \in 0..MaxUploads /\ 0 \in 0..MaxVersions BY FacultyAssumption DEF FacultyInit
<1>3. row \in Profile /\ row.bound = 0 /\ row.academy # "approved"
  <2>1. CASE track = "academy" BY <1>2, <2>1 DEF Profile, TrackStatus
  <2>2. CASE track = "skill" BY <1>2, <2>2 DEF Profile, TrackStatus
  <2> QED BY <2>1, <2>2 DEF Tracks
<1>4. profile = Synced(row) BY <1>1 DEF Applied
<1> HIDE DEF row
<1>5. profile \in Profile /\ Flagged(profile) /\ profile.bound = 0 /\ profile.academy # "approved"
  BY <1>3, <1>4, SyncedRow
<1>6. /\ role = profile.approved /\ letter = [live |-> 0, draft |-> FALSE]
      /\ vetted = {} /\ reformed = {} /\ first = 0 /\ crossed = FALSE
      /\ errands = [t \in Offices |-> Done]
  BY DEF FacultyInit
<1>7. FacultyTypeOK
  <2>1. role \in BOOLEAN BY <1>5, <1>6 DEF Profile
  <2> QED BY <1>2, <1>5, <1>6, <2>1 DEF FacultyTypeOK
<1>8. errands \in [Offices -> Errand] /\ UnderWay = {}
  BY <1>6, DoneIsErrand DEF UnderWay
<1>9. OnesTurn /\ BindingAsRead /\ ApprovedMayEnter
  BY <1>6, <1>8 DEF OnesTurn, BindingAsRead, ApprovedMayEnter
<1>10. FlagFollowsTracks BY <1>5 DEF FlagFollowsTracks, Flagged
<1>11. FilesAsVetted BY <1>5 DEF FilesAsVetted
<1>12. BindingStands BY <1>5, <1>6 DEF BindingStands
<1> QED BY <1>7, <1>8, <1>9, <1>10, <1>11, <1>12 DEF FacultyIInv

LEMMA FacultyImplies == FacultyIInv => FacultyInv
BY DEF FacultyIInv, FacultyInv

(* Tracks, flag, role, vetted files and signed letter agree, when requests *)
(* on the tracks do not cross (accounts/models.py, accounts/views.py).     *)
THEOREM FacultyIsConsistent == ASSUME "tracks" \notin Crossing PROVE FacultySpec => []FacultyInv
BY FacultyStarts, FacultyStepKeeps, FacultyImplies, PTL DEF FacultySpec

-----------------------------------------------------------------------------
(* The counsellor's diary.                                                 *)

(* What a request on a counsellor's appointments holds.                    *)
Ratings == SUBSET (Appts \X Stars)
Call == {Silent} \cup [op: {"check", "place"}, appt: Appts, at: Times, length: Lengths]
    \cup [op: Verdicts \cup {"tally", "publish"}, appt: Appts]
    \cup [op: {"move"}, appt: Appts, at: Times]
    \cup [op: {"review"}, appt: Appts, stars: {0} \cup Stars, first: BOOLEAN]
    \cup [op: {"rate"}, appt: Appts, seen: Ratings]
    \cup [op: {"save"}, row: Row]
    \cup [op: {"report"}, appt: Appts, publish: BOOLEAN, out: BOOLEAN]

OnlyTimesCollide == Colliding \subseteq {"time"}

(* No session sold that starts near it is in the way of the one about to   *)
(* be placed.                                                              *)
Clear(job) ==
    \A a \in Appts \ {job.appt} :
        Stands(a) /\ diary[a].sold => ~NearClash(job.at, job.length, a)

(* What a request has read still holds, as far as no two requests write    *)
(* the same column.                                                        *)
Fits(job) ==
    /\ job.op \in {"check", "place"} => ~Booked(job.appt)
    /\ job.op = "place" => Clear(job)
    /\ job.op \in Verdicts \cup {"move", "review"} => Booked(job.appt)
    /\ OnlyTimesCollide =>
         /\ job.op \in Verdicts => diary[job.appt].status = Reads(job.op)
         /\ job.op = "review" /\ job.stars # 0 => diary[job.appt].status = "completed"
         /\ job.op \in {"review", "save"} => counselor.rating = Reviews
         /\ job.op = "save" => job.row.rating = Reviews
         /\ job.op = "rate" => job.seen = Reviews
         /\ job.op = "report" => (job.out <=> job.appt \in published)

(* Who shares what: one booking per appointment, one behind the lock, and  *)
(* the columns as Colliding says.                                          *)
Turns ==
    \A t, u \in Callers :
        t # u =>
          /\ calls[t].op \in {"check", "place"} /\ calls[u].op \in {"check", "place"}
               => calls[t].appt # calls[u].appt
          /\ ~(calls[t].op = "place" /\ calls[u].op = "place")
          /\ \A c \in Columns(calls[t]) : c \in Columns(calls[u]) => c[1] \in Colliding

DiaryIInv ==
    /\ DiaryTypeOK /\ calls \in [Callers -> Call]
    /\ \A t \in Callers : Fits(calls[t])
    /\ Turns /\ NearBookingsNeverOverlap
    /\ OnlyTimesCollide => ReviewedWasHeld /\ ToldFindsReport /\ RatingIsHonest

LEMMA CallFields ==
    ASSUME NEW job \in Call
    PROVE  /\ job.op \in {"none", "check", "place", "approve", "decline", "cancel", "complete",
                          "miss", "move", "review", "tally", "rate", "save", "report", "publish"}
           /\ job.op \notin {"none", "save"} => job.appt \in Appts
           /\ job.op \in {"check", "place"} => job.at \in Times /\ job.length \in Lengths
           /\ job.op = "move" => job.at \in Times
           /\ job.op = "review" => job.stars \in {0} \cup Stars /\ job.first \in BOOLEAN
           /\ job.op = "rate" => job.seen \in Ratings
           /\ job.op = "save" => job.row \in Row
BY DEF Call, Silent, Verdicts

LEMMA SilentIsCall == Silent \in Call /\ Silent.op = "none"
BY DEF Call, Silent

(* The columns, request by request.                                        *)
LEMMA ColumnsOf ==
    ASSUME NEW job
    PROVE  /\ job.op \in Verdicts => Columns(job) = {<<"status", job.appt>>}
           /\ job.op = "move" => Columns(job) = {<<"time", job.appt>>}
           /\ job.op \in {"review", "tally", "rate"} =>
                Columns(job) = {<<"review", job.appt>>, <<"profile">>}
           /\ job.op = "save" => Columns(job) = {<<"profile">>}
           /\ job.op \in {"report", "publish"} => Columns(job) = {<<"report", job.appt>>}
           /\ job.op \in {"none", "check", "place"} => Columns(job) = {}
BY DEF Columns, Verdicts

(* Who writes the profile.                                                 *)
LEMMA ProfileColumn ==
    ASSUME NEW job \in Call
    PROVE  <<"profile">> \in Columns(job) <=> job.op \in {"review", "tally", "rate", "save"}
<1>1. \A a : <<"profile">> # <<"status", a>> /\ <<"profile">> # <<"time", a>>
             /\ <<"profile">> # <<"report", a>>
  OBVIOUS
<1>2. CASE job.op \in {"review", "tally", "rate", "save"} BY <1>2, ColumnsOf
<1>3. CASE job.op \in Verdicts \cup {"move", "report", "publish", "none", "check", "place"}
  BY <1>1, <1>3, ColumnsOf DEF Verdicts
<1> QED BY <1>2, <1>3, CallFields DEF Verdicts

(* Two requests that write one column are two moves.                       *)
LEMMA ColumnsApart ==
    ASSUME DiaryIInv, OnlyTimesCollide, NEW t \in Callers, NEW u \in Callers, t # u
    PROVE  /\ calls[t].op \in {"review", "tally", "rate", "save"} =>
                calls[u].op \notin {"review", "tally", "rate", "save"}
           /\ calls[t].op \in Verdicts /\ calls[u].op \in Verdicts =>
                calls[t].appt # calls[u].appt
           /\ calls[t].op \in {"report", "publish"} /\ calls[u].op \in {"report", "publish"} =>
                calls[t].appt # calls[u].appt
<1>1. calls[t] \in Call /\ calls[u] \in Call BY DEF DiaryIInv
<1>2. \A c \in Columns(calls[t]) : c \in Columns(calls[u]) => c[1] = "time"
  BY DEF DiaryIInv, Turns, OnlyTimesCollide
<1>3. /\ <<"profile">>[1] # "time" /\ \A a : <<"status", a>>[1] # "time" /\ <<"report", a>>[1] # "time"
  OBVIOUS
<1>4. <<"profile">> \notin Columns(calls[t]) \/ <<"profile">> \notin Columns(calls[u])
  BY <1>2, <1>3
<1>5. calls[t].op \in {"review", "tally", "rate", "save"} =>
        calls[u].op \notin {"review", "tally", "rate", "save"}
  BY <1>1, <1>4, ProfileColumn
<1>6. ASSUME calls[t].op \in Verdicts, calls[u].op \in Verdicts, calls[t].appt = calls[u].appt
      PROVE  FALSE
  <2>1. <<"status", calls[t].appt>> \in Columns(calls[t]) BY <1>6, ColumnsOf
  <2>2. <<"status", calls[t].appt>> \in Columns(calls[u]) BY <1>6, ColumnsOf
  <2> QED BY <1>2, <1>3, <2>1, <2>2
<1>7. ASSUME calls[t].op \in {"report", "publish"}, calls[u].op \in {"report", "publish"},
             calls[t].appt = calls[u].appt
      PROVE  FALSE
  <2>1. <<"report", calls[t].appt>> \in Columns(calls[t]) BY <1>7, ColumnsOf
  <2>2. <<"report", calls[t].appt>> \in Columns(calls[u]) BY <1>7, ColumnsOf
  <2> QED BY <1>2, <1>3, <2>1, <2>2
<1> QED BY <1>5, <1>6, <1>7

LEMMA ReviewsType == DiaryTypeOK => Reviews \in Ratings
<1> SUFFICES ASSUME DiaryTypeOK, NEW a \in Appts, Booked(a), diary[a].stars > 0
             PROVE  diary[a].stars \in Stars
  BY DEF Reviews, Ratings
<1>1. diary[a] \in Appointment BY DEF DiaryTypeOK, Booked
<1> QED BY <1>1 DEF Appointment

(* The reviews are the same as long as each appointment's stars are.       *)
LEMMA SameReviews ==
    ASSUME \A a \in Appts :
             \/ Booked(a) /\ Booked(a)' /\ diary'[a].stars = diary[a].stars
             \/ /\ ~Booked(a) \/ ~(diary[a].stars > 0)
                /\ ~Booked(a)' \/ ~(diary'[a].stars > 0)
    PROVE  Reviews' = Reviews
<1> DEFINE B == {b \in Appts : Booked(b) /\ diary[b].stars > 0}
<1>1. B' = B OBVIOUS
<1>2. \A a \in B : diary'[a].stars = diary[a].stars OBVIOUS
<1>3. Reviews = {<<a, diary[a].stars>> : a \in B} /\ Reviews' = {<<a, diary'[a].stars>> : a \in B'}
  BY DEF Reviews
<1> HIDE DEF B
<1> QED BY <1>1, <1>2, <1>3

(* Requests take turns as before when one of them goes on with less.       *)
LEMMA TurnsKept ==
    ASSUME DiaryIInv, NEW t \in Callers, NEW job \in Call, GoesOn(t, job),
           Columns(job) \subseteq Columns(calls[t]),
           job.op \in {"check", "place"} =>
             calls[t].op \in {"check", "place"} /\ job.appt = calls[t].appt,
           job.op = "place" => DiaryOpen
    PROVE  /\ calls' \in [Callers -> Call] /\ calls'[t] = job
           /\ \A u \in Callers : u # t => calls'[u] = calls[u]
           /\ Turns'
<1>1. calls \in [Callers -> Call] /\ Turns BY DEF DiaryIInv
<1>2. /\ calls' \in [Callers -> Call] /\ calls'[t] = job
      /\ \A u \in Callers : u # t => calls'[u] = calls[u]
  BY <1>1 DEF GoesOn
<1>3. Turns'
  <2> SUFFICES ASSUME NEW v \in Callers, NEW u \in Callers, v # u
               PROVE  /\ calls'[v].op \in {"check", "place"} /\ calls'[u].op \in {"check", "place"}
                           => calls'[v].appt # calls'[u].appt
                      /\ ~(calls'[v].op = "place" /\ calls'[u].op = "place")
                      /\ \A c \in Columns(calls'[v]) :
                           c \in Columns(calls'[u]) => c[1] \in Colliding
    BY DEF Turns, Columns
  <2>1. /\ calls[v].op \in {"check", "place"} /\ calls[u].op \in {"check", "place"}
             => calls[v].appt # calls[u].appt
        /\ ~(calls[v].op = "place" /\ calls[u].op = "place")
        /\ \A c \in Columns(calls[v]) : c \in Columns(calls[u]) => c[1] \in Colliding
    BY <1>1 DEF Turns
  <2>2. /\ v = t => calls'[v] = job /\ calls'[u] = calls[u]
        /\ u = t => calls'[u] = job /\ calls'[v] = calls[v]
        /\ v # t /\ u # t => calls'[u] = calls[u] /\ calls'[v] = calls[v]
    BY <1>2
  <2>3. job.op = "place" => \A w \in Callers : calls[w].op # "place" BY DEF DiaryOpen
  <2>4. CASE v = t BY <2>1, <2>2, <2>3, <2>4
  <2>5. CASE u = t BY <2>1, <2>2, <2>3, <2>5
  <2>6. CASE v # t /\ u # t BY <2>1, <2>2, <2>6
  <2> QED BY <2>4, <2>5, <2>6
<1> QED BY <1>2, <1>3

(* The rating is honest afterwards when one that could have changed it has *)
(* it right, or still holds the profile.                                   *)
LEMMA RatingStays ==
    ASSUME DiaryIInv, OnlyTimesCollide, NEW t \in Callers, NEW job \in Call,
           calls'[t] = job, \A u \in Callers : u # t => calls'[u] = calls[u],
           calls' \in [Callers -> Call],
           Reviews' = Reviews, UNCHANGED counselor,
           calls[t].op \in {"review", "tally", "rate", "save"} =>
             counselor.rating = Reviews \/ job.op \in {"review", "tally", "rate", "save"}
    PROVE  RatingIsHonest'
<1> SUFFICES ASSUME \A u \in Callers : <<"profile">> \notin Columns(calls'[u])
             PROVE  counselor.rating = Reviews
  BY DEF RatingIsHonest, Columns
<1>1. calls[t] \in Call /\ RatingIsHonest BY DEF DiaryIInv
<1>2. job.op \notin {"review", "tally", "rate", "save"} BY ProfileColumn
<1>3. CASE calls[t].op \in {"review", "tally", "rate", "save"} BY <1>2, <1>3
<1>4. CASE calls[t].op \notin {"review", "tally", "rate", "save"}
  <2>1. <<"profile">> \notin Columns(calls[t]) BY <1>1, <1>4, ProfileColumn
  <2>2. \A u \in Callers : <<"profile">> \notin Columns(calls[u]) BY <2>1
  <2> QED BY <1>1, <2>2 DEF RatingIsHonest
<1> QED BY <1>3, <1>4

-----------------------------------------------------------------------------
(* Requests come in.                                                       *)

LEMMA CallsKeeps ==
    ASSUME DiaryIInv, NEW t \in Callers, NEW job \in Call, Calls(t, job), Fits(job),
           UNCHANGED <<diary, counselor, windows, published, told>>, job.op # "place",
           job.op = "check" => \A u \in Callers :
             calls[u].op \in {"check", "place"} => calls[u].appt # job.appt
    PROVE  DiaryIInv'
<1>1. /\ calls \in [Callers -> Call] /\ Turns /\ DiaryTypeOK /\ NearBookingsNeverOverlap
      /\ \A u \in Callers : Fits(calls[u])
      /\ OnlyTimesCollide => ReviewedWasHeld /\ ToldFindsReport /\ RatingIsHonest
  BY DEF DiaryIInv
<1>2. /\ calls[t] = Silent /\ calls' = [calls EXCEPT ![t] = job]
      /\ \A u \in Callers, c \in Columns(job) : c \in Columns(calls[u]) => c[1] \in Colliding
  BY DEF Calls
<1>3. /\ calls' \in [Callers -> Call] /\ calls'[t] = job
      /\ \A u \in Callers : u # t => calls'[u] = calls[u]
  BY <1>1, <1>2
<1>4. Turns'
  <2> SUFFICES ASSUME NEW v \in Callers, NEW u \in Callers, v # u
               PROVE  /\ calls'[v].op \in {"check", "place"} /\ calls'[u].op \in {"check", "place"}
                           => calls'[v].appt # calls'[u].appt
                      /\ ~(calls'[v].op = "place" /\ calls'[u].op = "place")
                      /\ \A c \in Columns(calls'[v]) :
                           c \in Columns(calls'[u]) => c[1] \in Colliding
    BY DEF Turns, Columns
  <2>1. /\ calls[v].op \in {"check", "place"} /\ calls[u].op \in {"check", "place"}
             => calls[v].appt # calls[u].appt
        /\ ~(calls[v].op = "place" /\ calls[u].op = "place")
        /\ \A c \in Columns(calls[v]) : c \in Columns(calls[u]) => c[1] \in Colliding
    BY <1>1 DEF Turns
  <2>2. CASE v = t
    <3>1. calls'[v] = job /\ calls'[u] = calls[u] BY <1>3, <2>2
    <3> QED BY <1>2, <3>1
  <2>3. CASE u = t
    <3>1. calls'[u] = job /\ calls'[v] = calls[v] BY <1>3, <2>3
    <3> QED BY <1>2, <3>1
  <2>4. CASE v # t /\ u # t BY <1>3, <2>1, <2>4
  <2> QED BY <2>2, <2>3, <2>4
<1>5. \A u \in Callers : Fits(calls[u])'
  <2>1. Fits(job)' /\ \A u \in Callers : u # t => Fits(calls[u])'
    <3>1. \A j : Fits(j) => /\ j.op \in {"check", "place"} => ~Booked(j.appt)
                            /\ j.op = "place" => Clear(j)
                            /\ j.op \in Verdicts \cup {"move", "review"} => Booked(j.appt)
      BY DEF Fits
    <3>2. Reviews' = Reviews BY DEF Reviews, Booked
    <3> QED BY <1>1, <1>3, <3>2 DEF Fits, Clear, Stands, NearClash, Clash, Booked
  <2> QED BY <1>3, <2>1
<1>6. DiaryTypeOK' BY <1>1 DEF DiaryTypeOK
<1>7. NearBookingsNeverOverlap'
  BY <1>1 DEF NearBookingsNeverOverlap, Stands, Booked, NearClash, Clash
<1>8. ASSUME OnlyTimesCollide PROVE ReviewedWasHeld' /\ ToldFindsReport' /\ RatingIsHonest'
  <2>1. Reviews' = Reviews BY DEF Reviews, Booked
  <2>2. calls[t].op \notin {"review", "tally", "rate", "save"} BY <1>2, SilentIsCall
  <2>3. RatingIsHonest' BY <1>3, <1>8, <2>1, <2>2, RatingStays
  <2> QED BY <1>1, <1>8, <2>3 DEF ReviewedWasHeld, Booked, ToldFindsReport
<1> QED BY <1>3, <1>4, <1>5, <1>6, <1>7, <1>8 DEF DiaryIInv

(* Whatever a request checks of itself is kept by one that only reads.     *)
LEMMA FitsRests ==
    ASSUME UNCHANGED <<diary, counselor, published>>, NEW job, Fits(job) PROVE Fits(job)'
<1>1. Reviews' = Reviews BY DEF Reviews, Booked
<1> QED BY <1>1 DEF Fits, Clear, Stands, NearClash, Clash, Booked

LEMMA RequestsKeep ==
    ASSUME DiaryIInv, NEW t \in Callers,
           \/ OpenProfile(t)
           \/ \E a \in Appts : \/ AskForBooking(t, a) \/ Decide(t, a) \/ Reschedule(t, a)
                               \/ GiveStars(t, a) \/ OpenReport(t, a)
    PROVE  DiaryIInv'
<1>1. /\ DiaryTypeOK /\ calls \in [Callers -> Call] /\ counselor \in Row
      /\ \A a \in Appts : Booked(a) => diary[a] \in Appointment
  BY DEF DiaryIInv, DiaryTypeOK, Booked
<1>2. UNCHANGED <<diary, counselor, windows, published, told>>
  BY DEF OpenProfile, AskForBooking, Decide, Reschedule, GiveStars, OpenReport
<1>3. ASSUME NEW job \in Call, Calls(t, job), job.op \in {"review", "save"}, OnlyTimesCollide
      PROVE  counselor.rating = Reviews
  <2>1. \A u \in Callers : <<"profile">> \notin Columns(calls[u])
    <3>1. <<"profile">> \in Columns(job) BY <1>3, ColumnsOf
    <3>2. <<"profile">>[1] # "time" OBVIOUS
    <3> QED BY <1>3, <3>1, <3>2 DEF Calls, OnlyTimesCollide
  <2> QED BY <1>3, <2>1 DEF DiaryIInv, RatingIsHonest
<1>4. CASE OpenProfile(t)
  <2>1. PICK row \in OwnerEdits(counselor) \cup AdminRules(counselor) :
          Calls(t, [op |-> "save", row |-> row])
    BY <1>4 DEF OpenProfile
  <2>2. row \in Row /\ row.rating = counselor.rating
    <3>1. CASE row \in OwnerEdits(counselor) BY <1>1, <3>1 DEF OwnerEdits, Row
    <3>2. CASE row \in AdminRules(counselor) BY <1>1, <3>2 DEF AdminRules, Row
    <3> QED BY <2>1, <3>1, <3>2
  <2> DEFINE job == [op |-> "save", row |-> row]
  <2>3. job \in Call /\ job.op = "save" /\ job.row = row BY <2>2 DEF Call
  <2>4. Calls(t, job) BY <2>1
  <2> HIDE DEF job
  <2>5. OnlyTimesCollide => counselor.rating = Reviews BY <1>3, <2>3, <2>4
  <2>6. Fits(job) BY <2>2, <2>3, <2>5 DEF Fits, Verdicts
  <2> QED BY <1>2, <2>3, <2>4, <2>6, CallsKeeps
<1>5. ASSUME NEW a \in Appts, AskForBooking(t, a) PROVE DiaryIInv'
  <2>1. PICK at \in Times :
          Calls(t, [op |-> "check", appt |-> a, at |-> at, length |-> counselor.length])
    BY <1>5 DEF AskForBooking
  <2> DEFINE job == [op |-> "check", appt |-> a, at |-> at, length |-> counselor.length]
  <2>2. job \in Call /\ job.op = "check" /\ job.appt = a BY <1>1 DEF Call, Row
  <2>3. Calls(t, job) BY <2>1
  <2> HIDE DEF job
  <2>4. /\ ~Booked(a)
        /\ \A u \in Callers : calls[u].op \in {"check", "place"} => calls[u].appt # a
    BY <1>5 DEF AskForBooking
  <2>5. Fits(job) BY <2>2, <2>4 DEF Fits, Verdicts
  <2> QED BY <1>2, <2>2, <2>3, <2>4, <2>5, CallsKeeps
<1>6. ASSUME NEW a \in Appts, Decide(t, a) PROVE DiaryIInv'
  <2>1. PICK verdict \in Verdicts : /\ diary[a].status = Reads(verdict)
                                    /\ Calls(t, [op |-> verdict, appt |-> a])
    BY <1>6 DEF Decide
  <2> DEFINE job == [op |-> verdict, appt |-> a]
  <2>2. job \in Call /\ job.op = verdict /\ job.appt = a BY DEF Call
  <2>3. Calls(t, job) BY <2>1
  <2> HIDE DEF job
  <2>4. Booked(a) BY <1>6 DEF Decide
  <2>5. verdict \notin {"check", "place", "review", "save", "rate", "report"} BY DEF Verdicts
  <2>6. Fits(job) BY <2>1, <2>2, <2>4, <2>5 DEF Fits
  <2> QED BY <1>2, <2>2, <2>3, <2>5, <2>6, CallsKeeps
<1>7. ASSUME NEW a \in Appts, Reschedule(t, a) PROVE DiaryIInv'
  <2>1. PICK at \in Times : Calls(t, [op |-> "move", appt |-> a, at |-> at])
    BY <1>7 DEF Reschedule
  <2> DEFINE job == [op |-> "move", appt |-> a, at |-> at]
  <2>2. job \in Call /\ job.op = "move" /\ job.appt = a BY DEF Call
  <2>3. Calls(t, job) BY <2>1
  <2> HIDE DEF job
  <2>4. Booked(a) BY <1>7 DEF Reschedule, Stands
  <2>5. Fits(job) BY <2>2, <2>4 DEF Fits, Verdicts
  <2> QED BY <1>2, <2>2, <2>3, <2>5, CallsKeeps
<1>8. ASSUME NEW a \in Appts, GiveStars(t, a) PROVE DiaryIInv'
  <2>1. PICK stars \in {0} \cup Stars :
          /\ IF stars = 0 THEN diary[a].stars > 0 ELSE diary[a].status = "completed"
          /\ Calls(t, [op |-> "review", appt |-> a, stars |-> stars, first |-> diary[a].stars = 0])
    BY <1>8 DEF GiveStars
  <2> DEFINE job == [op |-> "review", appt |-> a, stars |-> stars, first |-> diary[a].stars = 0]
  <2>2. job \in Call /\ job.op = "review" /\ job.appt = a /\ job.stars = stars BY DEF Call
  <2>3. Calls(t, job) BY <2>1
  <2> HIDE DEF job
  <2>4. Booked(a) BY <1>8 DEF GiveStars
  <2>5. OnlyTimesCollide => counselor.rating = Reviews BY <1>3, <2>2, <2>3
  <2>6. Fits(job) BY <2>1, <2>2, <2>4, <2>5 DEF Fits, Verdicts
  <2> QED BY <1>2, <2>2, <2>3, <2>6, CallsKeeps
<1>9. ASSUME NEW a \in Appts, OpenReport(t, a) PROVE DiaryIInv'
  <2>1. PICK publish \in BOOLEAN :
          Calls(t, [op |-> "report", appt |-> a, publish |-> publish, out |-> a \in published])
    BY <1>9 DEF OpenReport
  <2> DEFINE out == a \in published
             job == [op |-> "report", appt |-> a, publish |-> publish, out |-> out]
  <2>3. Calls(t, job) BY <2>1
  <2>5. out \in BOOLEAN /\ (out <=> a \in published) OBVIOUS
  <2> HIDE DEF out
  <2>2. /\ job \in Call /\ job.op = "report" /\ job.appt = a
        /\ (job.out <=> a \in published)
    <3>1. job \in Call BY <2>5 DEF Call
    <3>2. job.op = "report" /\ job.appt = a /\ job.out = out OBVIOUS
    <3> QED BY <2>5, <3>1, <3>2
  <2> HIDE DEF job
  <2>4. Fits(job) BY <2>2 DEF Fits, Verdicts
  <2> QED BY <1>2, <2>2, <2>3, <2>4, CallsKeeps
<1> QED BY <1>4, <1>5, <1>6, <1>7, <1>8, <1>9

(* The look behind the lock, and the tally: nothing is written.            *)
LEMMA LooksKeep ==
    ASSUME DiaryIInv, NEW t \in Callers, CheckBooking(t) \/ Tally(t) PROVE DiaryIInv'
<1>1. /\ DiaryTypeOK /\ calls \in [Callers -> Call] /\ calls[t] \in Call /\ Fits(calls[t])
      /\ NearBookingsNeverOverlap /\ \A u \in Callers : Fits(calls[u])
      /\ OnlyTimesCollide => ReviewedWasHeld /\ ToldFindsReport /\ RatingIsHonest
  BY DEF DiaryIInv
<1>2. UNCHANGED <<diary, counselor, windows, published, told>> BY DEF CheckBooking, Tally
<1>3. Reviews' = Reviews BY <1>2 DEF Reviews, Booked
<1>4. PICK job \in Call :
        /\ GoesOn(t, job) /\ Fits(job) /\ Columns(job) \subseteq Columns(calls[t])
        /\ (job.op \in {"check", "place"} =>
              calls[t].op \in {"check", "place"} /\ job.appt = calls[t].appt)
        /\ (job.op = "place" => DiaryOpen)
        /\ (calls[t].op \in {"review", "tally", "rate", "save"} =>
              job.op \in {"review", "tally", "rate", "save"})
  <2>1. CASE CheckBooking(t)
    <3>1. calls[t].op = "check" /\ DiaryOpen BY <2>1 DEF CheckBooking
    <3>2. CASE GoesOn(t, Silent)
      <4>1. Columns(Silent) = {} BY SilentIsCall, ColumnsOf
      <4>2. Fits(Silent) BY SilentIsCall DEF Fits, Verdicts
      <4> QED BY <3>1, <3>2, <4>1, <4>2, SilentIsCall
    <3>3. CASE GoesOn(t, [calls[t] EXCEPT !.op = "place"])
               /\ ~Taken(calls[t].at, calls[t].length, calls[t].appt)
      <4> DEFINE job == [calls[t] EXCEPT !.op = "place"]
      <4>1. calls[t] \in [op: {"check", "place"}, appt: Appts, at: Times, length: Lengths]
        BY <1>1, <3>1 DEF Call, Silent, Verdicts
      <4>2. /\ job \in Call /\ job.op = "place" /\ job.appt = calls[t].appt
            /\ job.at = calls[t].at /\ job.length = calls[t].length
        BY <4>1 DEF Call
      <4>3. GoesOn(t, job) BY <3>3
      <4> HIDE DEF job
      <4>4. Columns(job) = {} BY <4>2, ColumnsOf
      <4>5. Clear(job)
        <5> SUFFICES ASSUME NEW a \in Appts \ {job.appt}, Stands(a), diary[a].sold
                     PROVE  ~NearClash(job.at, job.length, a)
          BY DEF Clear
        <5>1. diary[a] \in Appointment BY <1>1 DEF DiaryTypeOK, Stands, Booked
        <5>2. diary[a].at > job.at - Lookback => ~Clash(job.at, job.length, a)
          BY <3>3, <4>2 DEF Taken
        <5>3. diary[a].at \in Nat /\ job.at \in Nat /\ Lookback \in Nat
          <6>1. diary[a].at \in Times /\ job.at \in Times BY <4>1, <4>2, <5>1 DEF Appointment
          <6>2. Times \subseteq Nat /\ Lookback \in Nat BY CounselingAssumption
          <6> QED BY <6>1, <6>2
        <5>4. job.at - Lookback < diary[a].at <=> diary[a].at > job.at - Lookback BY <5>3
        <5> QED BY <5>2, <5>4 DEF NearClash
      <4>6. Fits(job) BY <1>1, <3>1, <4>2, <4>5 DEF Fits, Verdicts
      <4>7. calls[t].op \notin {"review", "tally", "rate", "save"} BY <3>1
      <4>8. {} \subseteq Columns(calls[t]) OBVIOUS
      <4> QED BY <3>1, <4>2, <4>3, <4>4, <4>6, <4>7, <4>8
    <3> QED BY <2>1, <3>2, <3>3 DEF CheckBooking, HangsUp
  <2>2. CASE Tally(t)
    <3> DEFINE job == [op |-> "rate", appt |-> calls[t].appt, seen |-> Reviews]
    <3>1. calls[t].op = "tally" /\ GoesOn(t, job) BY <2>2 DEF Tally
    <3>2. calls[t].appt \in Appts /\ Reviews \in Ratings
      BY <1>1, <3>1, CallFields, ReviewsType
    <3>3. job \in Call /\ job.op = "rate" /\ job.appt = calls[t].appt /\ job.seen = Reviews
      BY <3>2 DEF Call
    <3> HIDE DEF job
    <3>4. Fits(job) BY <3>3 DEF Fits, Verdicts
    <3>5. Columns(job) = Columns(calls[t]) BY <3>1, <3>3, ColumnsOf
    <3> QED BY <3>1, <3>3, <3>4, <3>5
  <2> QED BY <2>1, <2>2
<1>5. /\ calls' \in [Callers -> Call] /\ calls'[t] = job
      /\ \A u \in Callers : u # t => calls'[u] = calls[u]
      /\ Turns'
  BY <1>4, TurnsKept
<1>6. \A u \in Callers : Fits(calls[u])'
  <2>1. Fits(job)' BY <1>2, <1>4, FitsRests
  <2>2. ASSUME NEW u \in Callers, u # t PROVE Fits(calls[u])'
    <3>1. PICK j : j = calls[u] OBVIOUS
    <3>2. Fits(j)' BY <1>1, <1>2, <3>1, FitsRests
    <3>3. calls'[u] = j BY <1>5, <2>2, <3>1
    <3> QED BY <3>2, <3>3 DEF Fits, Clear
  <2>3. Fits(calls[t])' BY <1>5, <2>1 DEF Fits, Clear
  <2> QED BY <2>2, <2>3
<1>7. DiaryTypeOK' BY <1>1, <1>2 DEF DiaryTypeOK
<1>8. NearBookingsNeverOverlap'
  BY <1>1, <1>2 DEF NearBookingsNeverOverlap, Stands, Booked, NearClash, Clash
<1>9. ASSUME OnlyTimesCollide PROVE ReviewedWasHeld' /\ ToldFindsReport' /\ RatingIsHonest'
  <2>1. RatingIsHonest' BY <1>2, <1>3, <1>4, <1>5, <1>9, RatingStays
  <2> QED BY <1>1, <1>2, <1>9, <2>1 DEF ReviewedWasHeld, Booked, ToldFindsReport
<1> QED BY <1>5, <1>6, <1>7, <1>8, <1>9 DEF DiaryIInv

-----------------------------------------------------------------------------
(* Appointments are written.                                               *)

(* One appointment gets a new row and its request goes on.  What the       *)
(* others have read survives it.                                           *)
LEMMA RowIsWritten ==
    ASSUME DiaryIInv, NEW t \in Callers, NEW b \in Appts, NEW row \in Appointment,
           NEW job \in Call, GoesOn(t, job), diary' = [diary EXCEPT ![b] = row],
           UNCHANGED <<counselor, windows, published, told>>,
           Columns(job) \subseteq Columns(calls[t]), job.op \in {"none", "tally"},
           calls[t].op \in {"place", "review", "move"} \cup Verdicts, calls[t].appt = b,
           Booked(b) <=> calls[t].op # "place",
           \* a session counts as sold only when it was placed where it is
           row.sold /\ row.status = "confirmed" =>
               \/ calls[t].op = "place" /\ row.at = calls[t].at /\ row.length = calls[t].length
               \/ Booked(b) /\ Stands(b) /\ diary[b].sold /\ row.at = diary[b].at
                            /\ row.length = diary[b].length,
           OnlyTimesCollide =>
               /\ row.stars > 0 => row.status = "completed"
               /\ calls[t].op = "review" => job.op = "tally"
               /\ calls[t].op # "review" => row.stars = (IF Booked(b) THEN diary[b].stars ELSE 0)
               /\ calls[t].op \notin Verdicts /\ Booked(b) => row.status = diary[b].status
    PROVE  DiaryIInv'
<1>1. /\ DiaryTypeOK /\ calls \in [Callers -> Call] /\ calls[t] \in Call /\ Fits(calls[t])
      /\ NearBookingsNeverOverlap /\ \A u \in Callers : Fits(calls[u]) /\ Turns
      /\ OnlyTimesCollide => ReviewedWasHeld /\ ToldFindsReport /\ RatingIsHonest
      /\ diary \in [Appts -> Appointment \cup {Unbooked}]
  BY DEF DiaryIInv, DiaryTypeOK
<1>2. /\ diary' \in [Appts -> Appointment \cup {Unbooked}] /\ diary'[b] = row
      /\ \A a \in Appts : a # b => diary'[a] = diary[a]
  BY <1>1
<1>3. /\ Booked(b)' /\ \A a \in Appts : a # b => (Booked(a)' <=> Booked(a))
      /\ \A a \in Appts : a # b => (Stands(a)' <=> Stands(a))
      /\ Stands(b)' <=> row.status = "confirmed"
  BY <1>2, UnbookedIsNoRow DEF Booked, Stands
<1>4. /\ calls' \in [Callers -> Call] /\ calls'[t] = job
      /\ \A u \in Callers : u # t => calls'[u] = calls[u]
      /\ Turns'
  <2>1. job.op \notin {"check", "place"} OBVIOUS
  <2> QED BY <2>1, TurnsKept
<1>5. DiaryTypeOK' BY <1>1, <1>2 DEF DiaryTypeOK
<1>6. calls[t].op # "review" /\ OnlyTimesCollide => Reviews' = Reviews
  <2> SUFFICES ASSUME calls[t].op # "review", OnlyTimesCollide PROVE Reviews' = Reviews OBVIOUS
  <2>1. ASSUME NEW a \in Appts
        PROVE  \/ Booked(a) /\ Booked(a)' /\ diary'[a].stars = diary[a].stars
               \/ /\ ~Booked(a) \/ ~(diary[a].stars > 0)
                  /\ ~Booked(a)' \/ ~(diary'[a].stars > 0)
    <3>1. CASE a # b BY <1>2, <1>3, <3>1
    <3>2. CASE a = b /\ Booked(b) BY <1>2, <1>3, <3>2
    <3>3. CASE a = b /\ ~Booked(b)
      <4>1. diary'[a].stars = 0 BY <1>2, <3>3
      <4> QED BY <3>3, <4>1
    <3> QED BY <3>1, <3>2, <3>3
  <2> QED BY <2>1, SameReviews
<1>7. ASSUME NEW a \in Appts \ {b}, row.sold, row.status = "confirmed", Stands(a), diary[a].sold
      PROVE  ~(/\ diary[a].at - Lookback < row.at /\ row.at - Lookback < diary[a].at
               /\ row.at < diary[a].at + diary[a].length /\ diary[a].at < row.at + row.length)
  <2>1. CASE calls[t].op = "place" /\ row.at = calls[t].at /\ row.length = calls[t].length
    <3>1. Clear(calls[t]) BY <1>1, <2>1 DEF Fits
    <3> QED BY <1>7, <2>1, <3>1 DEF Clear, NearClash, Clash
  <2>2. CASE Booked(b) /\ Stands(b) /\ diary[b].sold /\ row.at = diary[b].at
             /\ row.length = diary[b].length
    <3>1. ~NearClash(diary[b].at, diary[b].length, a) BY <1>1, <1>7, <2>2 DEF NearBookingsNeverOverlap
    <3> QED BY <2>2, <3>1 DEF NearClash, Clash
  <2> QED BY <1>7, <2>1, <2>2
<1>8. NearBookingsNeverOverlap'
  <2> SUFFICES ASSUME NEW a \in Appts, NEW c \in Appts, a # c, Stands(a)', Stands(c)',
                      diary'[a].sold, diary'[c].sold
               PROVE  ~(/\ diary'[c].at - Lookback < diary'[a].at
                        /\ diary'[a].at - Lookback < diary'[c].at
                        /\ diary'[a].at < diary'[c].at + diary'[c].length
                        /\ diary'[c].at < diary'[a].at + diary'[a].length)
    BY DEF NearBookingsNeverOverlap, NearClash, Clash
  <2>1. CASE a = b BY <1>2, <1>3, <1>7, <2>1
  <2>2. CASE c = b BY <1>2, <1>3, <1>7, <2>2
  <2>3. CASE a # b /\ c # b
    <3>1. Stands(a) /\ Stands(c) /\ diary'[a] = diary[a] /\ diary'[c] = diary[c]
      BY <1>2, <1>3, <2>3
    <3> QED BY <1>1, <3>1 DEF NearBookingsNeverOverlap, NearClash, Clash
  <2> QED BY <2>1, <2>2, <2>3
<1>9. ASSUME NEW j \in Call, Fits(j), j.op = "place" => calls[t].op # "place",
             j.op \in {"check", "place"} /\ calls[t].op = "place" => j.appt # b,
             OnlyTimesCollide =>
               /\ calls[t].op = "review" => j.op \notin {"review", "rate", "save"}
               /\ j.op \in Verdicts /\ calls[t].op \in Verdicts => j.appt # b
      PROVE  Fits(j)'
  <2>1. j.op \in {"check", "place"} => ~Booked(j.appt)'
    <3>1. ASSUME j.op \in {"check", "place"} PROVE j.appt # b /\ ~Booked(j.appt) /\ j.appt \in Appts
      <4>1. j.appt \in Appts BY <3>1, CallFields
      <4>2. ~Booked(j.appt) BY <1>9, <3>1 DEF Fits
      <4> QED BY <1>9, <3>1, <4>1, <4>2
    <3> QED BY <1>3, <3>1
  <2>2. j.op = "place" => Clear(j)'
    <3> SUFFICES ASSUME j.op = "place", NEW a \in Appts \ {j.appt}, Stands(a)', diary'[a].sold
                 PROVE  ~NearClash(j.at, j.length, a)'
      BY DEF Clear
    <3>1. Clear(j) BY <1>9 DEF Fits
    <3>2. Stands(a) /\ diary[a].sold /\ diary'[a].at = diary[a].at /\ diary'[a].length = diary[a].length
      <4>1. CASE a = b BY <1>2, <1>3, <1>9, <4>1
      <4>2. CASE a # b BY <1>2, <1>3, <4>2
      <4> QED BY <4>1, <4>2
    <3> QED BY <3>1, <3>2 DEF Clear, NearClash, Clash
  <2>3. j.op \in Verdicts \cup {"move", "review"} => Booked(j.appt)'
    <3>1. ASSUME j.op \in Verdicts \cup {"move", "review"} PROVE j.appt \in Appts /\ Booked(j.appt)
      <4>1. j.appt \in Appts BY <3>1, CallFields DEF Verdicts
      <4>2. Booked(j.appt) BY <1>9, <3>1 DEF Fits
      <4> QED BY <4>1, <4>2
    <3> QED BY <1>3, <3>1
  <2>4. ASSUME OnlyTimesCollide
        PROVE  /\ j.op \in Verdicts => diary'[j.appt].status = Reads(j.op)
               /\ j.op = "review" /\ j.stars # 0 => diary'[j.appt].status = "completed"
    <3>1. ASSUME j.op \in Verdicts PROVE diary'[j.appt].status = Reads(j.op)
      <4>1. j.appt \in Appts /\ diary[j.appt].status = Reads(j.op) /\ Booked(j.appt)
        BY <1>9, <2>4, <3>1, CallFields DEF Fits, Verdicts
      <4>2. CASE j.appt = b
        <5>1. row.status = diary[b].status BY <1>9, <2>4, <3>1, <4>1, <4>2
        <5> QED BY <1>2, <4>1, <4>2, <5>1
      <4>3. CASE j.appt # b BY <1>2, <4>1, <4>3
      <4> QED BY <4>2, <4>3
    <3>2. ASSUME j.op = "review", j.stars # 0 PROVE diary'[j.appt].status = "completed"
      <4>1. j.appt \in Appts /\ diary[j.appt].status = "completed" /\ Booked(j.appt)
        BY <1>9, <2>4, <3>2, CallFields DEF Fits
      <4>2. CASE j.appt = b
        <5>1. calls[t].op \notin Verdicts
          <6>1. calls[t].op \in Verdicts => diary[b].status = Reads(calls[t].op)
            BY <1>1, <2>4 DEF Fits
          <6>2. Reads(calls[t].op) # "completed" BY DEF Reads
          <6> QED BY <4>1, <4>2, <6>1, <6>2
        <5>2. row.status = diary[b].status BY <2>4, <4>1, <4>2, <5>1
        <5> QED BY <1>2, <4>1, <4>2, <5>2
      <4>3. CASE j.appt # b BY <1>2, <4>1, <4>3
      <4> QED BY <4>2, <4>3
    <3> QED BY <3>1, <3>2
  <2>5. ASSUME OnlyTimesCollide
        PROVE  /\ j.op \in {"review", "save"} => counselor'.rating = Reviews'
               /\ j.op = "save" => j.row.rating = Reviews'
               /\ j.op = "rate" => j.seen = Reviews'
               /\ j.op = "report" => (j.out <=> j.appt \in published')
    <3>1. j.op \in {"review", "save", "rate"} => Reviews' = Reviews BY <1>6, <1>9, <2>5
    <3> QED BY <1>9, <2>5, <3>1 DEF Fits
  <2> QED BY <2>1, <2>2, <2>3, <2>4, <2>5 DEF Fits
<1>10. \A u \in Callers : Fits(calls[u])'
  <2>1. Fits(calls[t])' BY <1>4 DEF Fits, Verdicts
  <2>2. ASSUME NEW u \in Callers, u # t PROVE Fits(calls[u])'
    <3>1. PICK j : j = calls[u] OBVIOUS
    <3>2. /\ j \in Call /\ Fits(j) /\ (j.op = "place" => calls[t].op # "place")
          /\ (j.op \in {"check", "place"} /\ calls[t].op = "place" => j.appt # b)
      BY <1>1, <2>2, <3>1 DEF Turns
    <3>3. OnlyTimesCollide =>
            /\ calls[t].op = "review" => j.op \notin {"review", "rate", "save"}
            /\ j.op \in Verdicts /\ calls[t].op \in Verdicts => j.appt # b
      BY <2>2, <3>1, ColumnsApart
    <3>4. Fits(j)' BY <1>9, <3>2, <3>3
    <3>5. calls'[u] = j BY <1>4, <2>2, <3>1
    <3> QED BY <3>4, <3>5 DEF Fits, Clear
  <2> QED BY <2>1, <2>2
<1>11. ASSUME OnlyTimesCollide PROVE ReviewedWasHeld' /\ ToldFindsReport' /\ RatingIsHonest'
  <2>1. ReviewedWasHeld'
    <3> SUFFICES ASSUME NEW a \in Appts, Booked(a)', diary'[a].stars > 0
                 PROVE  diary'[a].status = "completed"
      BY DEF ReviewedWasHeld
    <3>1. CASE a = b BY <1>2, <1>11, <3>1
    <3>2. CASE a # b BY <1>1, <1>2, <1>3, <1>11, <3>2 DEF ReviewedWasHeld
    <3> QED BY <3>1, <3>2
  <2>2. ToldFindsReport' BY <1>1, <1>11 DEF ToldFindsReport
  <2>3. CASE calls[t].op = "review"
    <3>1. <<"profile">> \in Columns(calls'[t]) BY <1>4, <1>11, <2>3, ProfileColumn
    <3>2. RatingIsHonest' BY <3>1 DEF RatingIsHonest, Columns
    <3> QED BY <2>1, <2>2, <3>2
  <2>4. CASE calls[t].op # "review"
    <3>1. calls[t].op \notin {"review", "tally", "rate", "save"} BY <2>4 DEF Verdicts
    <3>2. RatingIsHonest' BY <1>4, <1>6, <1>11, <2>4, <3>1, RatingStays
    <3> QED BY <2>1, <2>2, <3>2
  <2> QED BY <2>3, <2>4
<1> QED BY <1>4, <1>5, <1>8, <1>10, <1>11 DEF DiaryIInv

LEMMA PlacesKeep ==
    ASSUME DiaryIInv, NEW t \in Callers,
           PlaceBooking(t) \/ SaveDecision(t) \/ SaveMove(t) PROVE DiaryIInv'
<1> DEFINE b == calls[t].appt
<1>1. /\ DiaryTypeOK /\ calls[t] \in Call /\ Fits(calls[t])
      /\ diary \in [Appts -> Appointment \cup {Unbooked}]
      /\ OnlyTimesCollide => ReviewedWasHeld
  BY DEF DiaryIInv, DiaryTypeOK
<1>2. /\ UNCHANGED <<counselor, windows, published, told>> /\ GoesOn(t, Silent)
      /\ Silent \in Call /\ Silent.op = "none" /\ Columns(Silent) \subseteq Columns(calls[t])
  <2>1. Columns(Silent) = {} BY SilentIsCall, ColumnsOf
  <2> QED BY <2>1, SilentIsCall DEF PlaceBooking, SaveDecision, SaveMove, HangsUp
<1>3. CASE PlaceBooking(t)
  <2>1. PICK waits \in Approvals :
          diary' = [diary EXCEPT ![calls[t].appt] =
                     [status |-> IF waits THEN "pending" ELSE "confirmed",
                      at |-> calls[t].at, length |-> calls[t].length,
                      stars |-> 0, sold |-> ~waits]]
    BY <1>3 DEF PlaceBooking
  <2>2. /\ calls[t].op = "place" /\ b \in Appts /\ calls[t].at \in Times
        /\ calls[t].length \in Lengths /\ ~Booked(b)
    BY <1>1, <1>3, CallFields DEF PlaceBooking, Fits
  <2> DEFINE status == IF waits THEN "pending" ELSE "confirmed"
             sold == ~waits
             row == [status |-> status, at |-> calls[t].at, length |-> calls[t].length,
                     stars |-> 0, sold |-> sold]
  <2>3. status \in Held /\ sold \in BOOLEAN BY DEF Held
  <2>4. diary' = [diary EXCEPT ![b] = row] BY <2>1
  <2> HIDE DEF status, sold, b
  <2>5. /\ row \in Appointment /\ row.stars = 0 /\ row.at = calls[t].at
        /\ row.length = calls[t].length
    BY <2>2, <2>3 DEF Appointment
  <2> HIDE DEF row
  <2>6. ~(row.stars > 0) BY <2>5
  <2>7. b = calls[t].appt BY DEF b
  <2>8. calls[t].op \notin Verdicts BY <2>2 DEF Verdicts
  <2> QED BY <1>2, <2>2, <2>4, <2>5, <2>6, <2>7, <2>8, RowIsWritten
<1>4. CASE SaveDecision(t)
  <2>1. /\ calls[t].op \in Verdicts
        /\ diary' = [diary EXCEPT ![calls[t].appt].status = Writes(calls[t].op),
                                  ![calls[t].appt].sold = FALSE]
    BY <1>4 DEF SaveDecision
  <2>2. b \in Appts /\ Booked(b) BY <1>1, <2>1, CallFields DEF Fits, Verdicts
  <2>3. diary[b] \in Appointment BY <1>1, <2>2 DEF Booked
  <2> DEFINE row == [diary[b] EXCEPT !.status = Writes(calls[t].op), !.sold = FALSE]
  <2>4. diary' = [diary EXCEPT ![b] = row] BY <1>1, <2>1, <2>2
  <2>5. Writes(calls[t].op) \in Held BY <2>1 DEF Writes, Verdicts, Held
  <2>6. row \in Appointment /\ row.sold = FALSE /\ row.stars = diary[b].stars
    BY <2>3, <2>5 DEF Appointment
  <2> HIDE DEF row
  <2>7. OnlyTimesCollide => ~(row.stars > 0)
    <3>1. OnlyTimesCollide => diary[b].status = Reads(calls[t].op)
      BY <1>1, <2>1 DEF Fits
    <3>2. Reads(calls[t].op) # "completed" BY DEF Reads
    <3>3. OnlyTimesCollide => ~(diary[b].stars > 0)
      BY <1>1, <2>2, <3>1, <3>2 DEF ReviewedWasHeld
    <3> QED BY <2>6, <3>3
  <2> HIDE DEF b
  <2>8. b = calls[t].appt BY DEF b
  <2>9. calls[t].op \notin {"place", "review"} BY <2>1 DEF Verdicts
  <2> QED BY <1>2, <2>1, <2>2, <2>4, <2>6, <2>7, <2>8, <2>9, RowIsWritten
<1>5. CASE SaveMove(t)
  <2>1. /\ calls[t].op = "move"
        /\ diary' = [diary EXCEPT ![calls[t].appt].at = calls[t].at,
                                  ![calls[t].appt].sold = FALSE]
    BY <1>5 DEF SaveMove
  <2>2. b \in Appts /\ Booked(b) /\ calls[t].at \in Times
    BY <1>1, <2>1, CallFields DEF Fits, Verdicts
  <2>3. diary[b] \in Appointment BY <1>1, <2>2 DEF Booked
  <2> DEFINE row == [diary[b] EXCEPT !.at = calls[t].at, !.sold = FALSE]
  <2>4. diary' = [diary EXCEPT ![b] = row] BY <1>1, <2>1, <2>2
  <2>5. /\ row \in Appointment /\ row.sold = FALSE /\ row.stars = diary[b].stars
        /\ row.status = diary[b].status
    BY <2>2, <2>3 DEF Appointment
  <2> HIDE DEF row
  <2>6. OnlyTimesCollide => (row.stars > 0 => row.status = "completed")
    BY <1>1, <2>2, <2>5 DEF ReviewedWasHeld
  <2> HIDE DEF b
  <2>7. b = calls[t].appt BY DEF b
  <2>8. calls[t].op \notin {"place", "review"} /\ calls[t].op \notin Verdicts
    BY <2>1 DEF Verdicts
  <2> QED BY <1>2, <2>1, <2>2, <2>4, <2>5, <2>6, <2>7, <2>8, RowIsWritten
<1> QED BY <1>3, <1>4, <1>5

(* Stars are given, changed or taken back, or the request comes too late.  *)
LEMMA SaveStarsKeeps == ASSUME DiaryIInv, NEW t \in Callers, SaveStars(t) PROVE DiaryIInv'
<1> DEFINE b == calls[t].appt
<1>1. /\ DiaryTypeOK /\ calls[t] \in Call /\ Fits(calls[t]) /\ calls \in [Callers -> Call]
      /\ diary \in [Appts -> Appointment \cup {Unbooked}] /\ NearBookingsNeverOverlap
      /\ \A u \in Callers : Fits(calls[u])
      /\ OnlyTimesCollide => ReviewedWasHeld /\ ToldFindsReport
  BY DEF DiaryIInv, DiaryTypeOK
<1>2. /\ calls[t].op = "review" /\ UNCHANGED <<counselor, windows, published, told>>
  BY DEF SaveStars
<1>3. b \in Appts /\ Booked(b) /\ calls[t].stars \in {0} \cup Stars
  BY <1>1, <1>2, CallFields DEF Fits
<1>4. CASE calls[t].first /\ diary[b].stars > 0
  <2>1. UNCHANGED diary /\ GoesOn(t, Silent) BY <1>4 DEF SaveStars, HangsUp
  <2>2. Columns(Silent) = {} BY SilentIsCall, ColumnsOf
  <2>3. {} \subseteq Columns(calls[t]) OBVIOUS
  <2>4. /\ calls' \in [Callers -> Call] /\ calls'[t] = Silent
        /\ \A u \in Callers : u # t => calls'[u] = calls[u]
        /\ Turns'
    BY <2>1, <2>2, <2>3, SilentIsCall, TurnsKept
  <2>5. \A u \in Callers : Fits(calls[u])'
    <3>1. Fits(calls[t])' BY <2>4, SilentIsCall DEF Fits, Verdicts
    <3>2. ASSUME NEW u \in Callers, u # t PROVE Fits(calls[u])'
      <4>1. PICK j : j = calls[u] OBVIOUS
      <4>2. Fits(j)' BY <1>1, <1>2, <2>1, <4>1, FitsRests
      <4>3. calls'[u] = j BY <2>4, <3>2, <4>1
      <4> QED BY <4>2, <4>3 DEF Fits, Clear
    <3> QED BY <3>1, <3>2
  <2>6. DiaryTypeOK' BY <1>1, <1>2, <2>1 DEF DiaryTypeOK
  <2>7. NearBookingsNeverOverlap'
    BY <1>1, <2>1 DEF NearBookingsNeverOverlap, Stands, Booked, NearClash, Clash
  <2>8. ASSUME OnlyTimesCollide PROVE ReviewedWasHeld' /\ ToldFindsReport' /\ RatingIsHonest'
    <3>1. counselor.rating = Reviews BY <1>1, <1>2, <2>8 DEF Fits
    <3>2. Reviews' = Reviews BY <2>1 DEF Reviews, Booked
    <3>3. RatingIsHonest' BY <1>2, <3>1, <3>2 DEF RatingIsHonest
    <3> QED BY <1>1, <1>2, <2>1, <2>8, <3>3 DEF ReviewedWasHeld, Booked, ToldFindsReport
  <2> QED BY <2>4, <2>5, <2>6, <2>7, <2>8 DEF DiaryIInv
<1>5. CASE ~(calls[t].first /\ diary[b].stars > 0)
  <2> DEFINE job == [op |-> "tally", appt |-> b]
             row == [diary[b] EXCEPT !.stars = calls[t].stars]
  <2>1. diary' = [diary EXCEPT ![b] = row] /\ GoesOn(t, job)
    BY <1>1, <1>3, <1>5 DEF SaveStars
  <2>2. job \in Call /\ job.op = "tally" /\ job.appt = b BY <1>3 DEF Call
  <2>3. diary[b] \in Appointment BY <1>1, <1>3 DEF Booked
  <2>4. /\ row \in Appointment /\ row.stars = calls[t].stars /\ row.status = diary[b].status
        /\ row.sold = diary[b].sold /\ row.at = diary[b].at /\ row.length = diary[b].length
    BY <1>3, <2>3 DEF Appointment
  <2> HIDE DEF row, job
  <2>5. Columns(job) = Columns(calls[t]) BY <1>2, <2>2, ColumnsOf
  <2>6. OnlyTimesCollide => (row.stars > 0 => row.status = "completed")
    <3>1. OnlyTimesCollide /\ calls[t].stars # 0 => diary[b].status = "completed"
      BY <1>1, <1>2 DEF Fits
    <3>2. ~(0 > 0) OBVIOUS
    <3> QED BY <2>4, <3>1, <3>2
  <2>7. row.sold /\ row.status = "confirmed" => Stands(b) /\ diary[b].sold
    BY <1>3, <2>4 DEF Stands
  <2> HIDE DEF b
  <2>8. b = calls[t].appt BY DEF b
  <2>9. calls[t].op \notin Verdicts BY <1>2 DEF Verdicts
  <2> QED BY <1>2, <1>3, <2>1, <2>2, <2>4, <2>5, <2>6, <2>7, <2>8, <2>9, RowIsWritten
<1> QED BY <1>4, <1>5

-----------------------------------------------------------------------------
(* The profile and the reports are written.                                *)

(* The request is through with the profile, or the reports; the diary      *)
(* rests.                                                                  *)
LEMMA DiaryRests ==
    ASSUME DiaryIInv, NEW t \in Callers, NEW job \in Call, GoesOn(t, job), UNCHANGED diary,
           Columns(job) \subseteq Columns(calls[t]), job.op \in {"none", "publish"},
           \/ /\ calls[t].op \in {"rate", "save"} /\ counselor' \in Row
              /\ UNCHANGED <<windows, published, told>>
              /\ OnlyTimesCollide => counselor'.rating = Reviews
           \/ /\ calls[t].op \in {"report", "publish"} /\ UNCHANGED <<counselor, windows>>
              /\ published' \subseteq Appts /\ told' \subseteq Appts
              /\ \A a \in Appts : a # calls[t].appt => (a \in published' <=> a \in published)
              /\ OnlyTimesCollide => told' \subseteq published'
    PROVE  DiaryIInv'
<1>1. /\ DiaryTypeOK /\ calls \in [Callers -> Call] /\ calls[t] \in Call
      /\ NearBookingsNeverOverlap /\ \A u \in Callers : Fits(calls[u]) /\ Turns
      /\ OnlyTimesCollide => ReviewedWasHeld /\ ToldFindsReport /\ RatingIsHonest
  BY DEF DiaryIInv
<1>2. /\ calls' \in [Callers -> Call] /\ calls'[t] = job
      /\ \A u \in Callers : u # t => calls'[u] = calls[u]
      /\ Turns'
  <2>1. job.op \notin {"check", "place"} OBVIOUS
  <2> QED BY <2>1, TurnsKept
<1>3. Reviews' = Reviews BY DEF Reviews, Booked
<1>4. DiaryTypeOK' BY <1>1 DEF DiaryTypeOK
<1>5. NearBookingsNeverOverlap'
  BY <1>1 DEF NearBookingsNeverOverlap, Stands, Booked, NearClash, Clash
<1>6. ASSUME NEW u \in Callers, u # t PROVE Fits(calls[u])'
  <2>1. PICK j : j = calls[u] OBVIOUS
  <2>2. j \in Call /\ Fits(j) /\ calls'[u] = j BY <1>1, <1>2, <1>6, <2>1
  <2>3. /\ j.op \in {"check", "place"} => ~Booked(j.appt)'
        /\ j.op = "place" => Clear(j)'
        /\ j.op \in Verdicts \cup {"move", "review"} => Booked(j.appt)'
    BY <2>2 DEF Fits, Clear, Stands, NearClash, Clash, Booked
  <2>4. ASSUME OnlyTimesCollide
        PROVE  /\ j.op \in Verdicts => diary'[j.appt].status = Reads(j.op)
               /\ j.op = "review" /\ j.stars # 0 => diary'[j.appt].status = "completed"
               /\ j.op = "save" => j.row.rating = Reviews'
               /\ j.op = "rate" => j.seen = Reviews'
    BY <1>3, <2>2, <2>4 DEF Fits
  <2>5. ASSUME OnlyTimesCollide
        PROVE  j.op \in {"review", "save"} => counselor'.rating = Reviews'
    <3>1. CASE calls[t].op \in {"rate", "save"} BY <1>3, <2>5, <3>1
    <3>2. CASE calls[t].op \in {"report", "publish"} BY <1>3, <2>2, <2>5, <3>2 DEF Fits
    <3> QED BY <3>1, <3>2
  <2>6. ASSUME OnlyTimesCollide, j.op = "report" PROVE j.out <=> j.appt \in published'
    <3>1. j.appt \in Appts /\ (j.out <=> j.appt \in published)
      BY <2>2, <2>6, CallFields DEF Fits
    <3>2. CASE calls[t].op \in {"rate", "save"} BY <3>1, <3>2
    <3>3. CASE calls[t].op \in {"report", "publish"}
      <4>1. j.appt # calls[t].appt BY <1>6, <2>1, <2>6, <3>3, ColumnsApart
      <4> QED BY <3>1, <3>3, <4>1
    <3> QED BY <3>2, <3>3
  <2>7. Fits(j)' BY <2>3, <2>4, <2>5, <2>6 DEF Fits
  <2> QED BY <2>2, <2>7 DEF Fits, Clear
<1>7. Fits(calls[t])' BY <1>2 DEF Fits, Verdicts
<1>8. ASSUME OnlyTimesCollide PROVE ReviewedWasHeld' /\ ToldFindsReport' /\ RatingIsHonest'
  <2>1. ReviewedWasHeld' BY <1>1, <1>8 DEF ReviewedWasHeld, Booked
  <2>2. ToldFindsReport' BY <1>1, <1>8 DEF ToldFindsReport
  <2>3. RatingIsHonest'
    <3>1. CASE calls[t].op \in {"rate", "save"} BY <1>3, <1>8, <3>1 DEF RatingIsHonest
    <3>2. CASE calls[t].op \in {"report", "publish"}
      <4>1. calls[t].op \notin {"review", "tally", "rate", "save"} /\ UNCHANGED counselor
        BY <3>2
      <4> QED BY <1>2, <1>3, <1>8, <4>1, RatingStays
    <3> QED BY <3>1, <3>2
  <2> QED BY <2>1, <2>2, <2>3
<1> QED BY <1>2, <1>4, <1>5, <1>6, <1>7, <1>8 DEF DiaryIInv

LEMMA ProfileWritesKeep ==
    ASSUME DiaryIInv, NEW t \in Callers, Rate(t) \/ SaveProfile(t) PROVE DiaryIInv'
<1>1. /\ calls[t] \in Call /\ Fits(calls[t]) /\ counselor \in Row BY DEF DiaryIInv, DiaryTypeOK
<1>2. /\ UNCHANGED <<diary, windows, published, told>> /\ GoesOn(t, Silent)
  BY DEF Rate, SaveProfile, HangsUp
<1>3. Columns(Silent) \subseteq Columns(calls[t])
  <2>1. Columns(Silent) = {} BY SilentIsCall, ColumnsOf
  <2> QED BY <2>1
<1>4. CASE Rate(t)
  <2>1. calls[t].op = "rate" /\ counselor' = [counselor EXCEPT !.rating = calls[t].seen]
    BY <1>4 DEF Rate
  <2>2. calls[t].seen \in Ratings BY <1>1, <2>1, CallFields
  <2>3. counselor' \in Row /\ counselor'.rating = calls[t].seen
    BY <1>1, <2>1, <2>2 DEF Row, Ratings
  <2>4. OnlyTimesCollide => counselor'.rating = Reviews BY <1>1, <2>1, <2>3 DEF Fits
  <2> QED BY <1>2, <1>3, <2>1, <2>3, <2>4, SilentIsCall, DiaryRests
<1>5. CASE SaveProfile(t)
  <2>1. calls[t].op = "save" /\ counselor' = calls[t].row BY <1>5 DEF SaveProfile
  <2>2. counselor' \in Row BY <1>1, <2>1, CallFields
  <2>3. OnlyTimesCollide => counselor'.rating = Reviews BY <1>1, <2>1 DEF Fits
  <2> QED BY <1>2, <1>3, <2>1, <2>2, <2>3, SilentIsCall, DiaryRests
<1> QED BY <1>4, <1>5

LEMMA ReportsAreWritten ==
    ASSUME DiaryIInv, NEW t \in Callers, SaveReport(t) \/ PublishReport(t) PROVE DiaryIInv'
<1> DEFINE b == calls[t].appt
<1>1. /\ calls[t] \in Call /\ Fits(calls[t]) /\ published \subseteq Appts /\ told \subseteq Appts
      /\ (OnlyTimesCollide => told \subseteq published)
  BY DEF DiaryIInv, DiaryTypeOK, ToldFindsReport
<1>2. calls[t].op \in {"report", "publish"} /\ UNCHANGED <<diary, counselor, windows>>
  BY DEF SaveReport, PublishReport
<1>3. b \in Appts BY <1>1, <1>2, CallFields
<1>4. PICK job \in Call : GoesOn(t, job) /\ job.op \in {"none", "publish"}
                          /\ Columns(job) \subseteq Columns(calls[t])
  <2> DEFINE next == [op |-> "publish", appt |-> b]
  <2>1. GoesOn(t, Silent) \/ GoesOn(t, next) BY DEF SaveReport, PublishReport, HangsUp
  <2>2. next \in Call /\ next.op = "publish" /\ next.appt = b BY <1>3 DEF Call
  <2> HIDE DEF next
  <2>3. Columns(next) = Columns(calls[t]) BY <1>2, <2>2, ColumnsOf
  <2>4. Columns(Silent) \subseteq Columns(calls[t])
    <3>1. Columns(Silent) = {} BY SilentIsCall, ColumnsOf
    <3> QED BY <3>1
  <2> QED BY <2>1, <2>2, <2>3, <2>4, SilentIsCall
<1>5. /\ published' \subseteq Appts /\ told' \subseteq Appts
      /\ \A a \in Appts : a # b => (a \in published' <=> a \in published)
      /\ OnlyTimesCollide => told' \subseteq published'
  <2>1. CASE SaveReport(t)
    <3>1. /\ calls[t].op = "report" /\ UNCHANGED told
          /\ published' = (IF calls[t].out THEN published \cup {b} ELSE published \ {b})
      BY <2>1 DEF SaveReport
    <3>2. OnlyTimesCollide => (calls[t].out <=> b \in published) BY <1>1, <3>1 DEF Fits
    <3> QED BY <1>1, <1>3, <3>1, <3>2
  <2>2. CASE PublishReport(t)
    <3>1. published' = published \cup {b} /\ told' = told \cup {b} BY <2>2 DEF PublishReport
    <3> QED BY <1>1, <1>3, <3>1
  <2> QED BY <2>1, <2>2
<1> QED BY <1>2, <1>4, <1>5, DiaryRests

LEMMA AvailabilityKeeps ==
    ASSUME DiaryIInv, UNCHANGED <<diary, counselor, published, told, calls>>, windows' \subseteq Opening
    PROVE  DiaryIInv'
<1>1. DiaryTypeOK' BY DEF DiaryIInv, DiaryTypeOK
<1>2. Turns' BY DEF DiaryIInv, Turns, Columns
<1>3. \A u \in Callers : Fits(calls[u])'
  <2>1. Reviews' = Reviews BY DEF Reviews, Booked
  <2> QED BY <2>1 DEF DiaryIInv, Fits, Clear, Stands, NearClash, Clash, Booked
<1>4. NearBookingsNeverOverlap'
  BY DEF DiaryIInv, NearBookingsNeverOverlap, Stands, Booked, NearClash, Clash
<1>5. OnlyTimesCollide => ReviewedWasHeld' /\ ToldFindsReport' /\ RatingIsHonest'
  BY DEF DiaryIInv, ReviewedWasHeld, ToldFindsReport, RatingIsHonest, Reviews, Booked, Columns
<1> QED BY <1>1, <1>2, <1>3, <1>4, <1>5 DEF DiaryIInv

LEMMA DiaryStepKeeps == ASSUME DiaryIInv, [DiaryNext]_diaryVars PROVE DiaryIInv'
<1>1. windows \subseteq Opening BY DEF DiaryIInv, DiaryTypeOK
<1>2. CASE UNCHANGED diaryVars BY <1>1, <1>2, AvailabilityKeeps DEF diaryVars
<1>3. CASE ChangeAvailability BY <1>1, <1>3, AvailabilityKeeps DEF ChangeAvailability
<1> QED
  BY <1>2, <1>3, RequestsKeep, LooksKeep, PlacesKeep, SaveStarsKeeps, ProfileWritesKeep,
     ReportsAreWritten DEF DiaryNext

LEMMA DiaryStarts == DiaryInit => DiaryIInv
<1> SUFFICES ASSUME DiaryInit PROVE DiaryIInv OBVIOUS
<1>1. /\ \A a \in Appts : ~Booked(a) /\ diary[a] = Unbooked
      /\ diary = [a \in Appts |-> Unbooked]
      /\ counselor \in Row /\ counselor.rating = {}
      /\ windows = {} /\ published = {} /\ told = {} /\ calls = [t \in Callers |-> Silent]
  BY DEF DiaryInit, Booked, Row
<1>2. DiaryTypeOK BY <1>1 DEF DiaryTypeOK
<1>3. calls \in [Callers -> Call] /\ \A t \in Callers : calls[t] = Silent
  BY <1>1, SilentIsCall
<1>4. \A t \in Callers : Fits(calls[t]) BY <1>3, SilentIsCall DEF Fits, Verdicts
<1>5. Turns
  <2>1. Columns(Silent) = {} BY SilentIsCall, ColumnsOf
  <2> QED BY <1>3, <2>1, SilentIsCall DEF Turns
<1>6. NearBookingsNeverOverlap BY <1>1 DEF NearBookingsNeverOverlap, Stands
<1>7. ReviewedWasHeld /\ ToldFindsReport BY <1>1 DEF ReviewedWasHeld, ToldFindsReport
<1>8. RatingIsHonest
  <2>1. Reviews = {} BY <1>1 DEF Reviews
  <2> QED BY <1>1, <2>1 DEF RatingIsHonest
<1> QED BY <1>2, <1>3, <1>4, <1>5, <1>6, <1>7, <1>8 DEF DiaryIInv

LEMMA DiaryImplies == OnlyTimesCollide => (DiaryIInv => DiaryInv)
BY DEF DiaryIInv, DiaryInv

(* No two booked sessions of a counsellor that start less than six hours   *)
(* apart overlap, however long sessions are and whatever collides: the     *)
(* diary is looked at again behind the lock (counseling/views.py).         *)
THEOREM BookingsNeverOverlap == DiarySpec => []NearBookingsNeverOverlap
<1>1. DiaryIInv => NearBookingsNeverOverlap BY DEF DiaryIInv
<1> QED BY <1>1, DiaryStarts, DiaryStepKeeps, PTL DEF DiarySpec

(* Reviews, ratings and reports agree with the diary, when only changes of *)
(* an appointment's time collide (counseling/views.py).                    *)
THEOREM DiaryIsConsistent == ASSUME OnlyTimesCollide PROVE DiarySpec => []DiaryInv
BY DiaryStarts, DiaryStepKeeps, DiaryImplies, PTL DEF DiarySpec

-----------------------------------------------------------------------------
(* The skill bookings.                                                     *)

(* Booking, accepting a new time and refusing one may overlap; any other   *)
(* handler or sweep that overlapped would write back a stale copy, and a   *)
(* handler that died would leave its slot.                                 *)
Gentle == {"book", "accept", "refuse"}
Careful ==
    /\ Overlapping \subseteq Gentle /\ NoShowFrom \subseteq {"confirmed"} /\ MaxCrashes = 0

(* A proposal stands while the learner is asked, at every step, and names  *)
(* another slot than the one the session has.                              *)
AllAsked ==
    \A b \in Bookings : Exists(b) =>
        /\ (bookings[b].proposed # Nil) <=> (bookings[b].status = "needs_reconfirmation")
        /\ (bookings[b].before # Nil) <=> (bookings[b].status = "needs_reconfirmation")
        /\ bookings[b].proposed # Nil => bookings[b].proposed # bookings[b].slot

(* Why a slot may be greyed out: a session has it, an acceptance has just  *)
(* taken it, or a handler that ended its session is about to free it.      *)
Accountable(s) ==
    \/ \E b \in Bookings : /\ Exists(b) /\ bookings[b].slot = s /\ ~Reslotting(b)
                           /\ bookings[b].status \in Standing \cup {"lapsed", "auto_declined"}
    \/ \E c \in Clerks : /\ clerk[c].op = "accept" /\ clerk[c].done = "saved"
                         /\ clerk[c].row.proposed = s
    \/ \E c \in Clerks : /\ clerk[c].op \in Releasing /\ clerk[c].done # "read"
                         /\ clerk[c].row.slot = s
SlotsAccounted == \A s \in grid.booked : Accountable(s)

(* The counter is right, or about to be set.                               *)
TaughtOrDue ==
    \/ taught = Cardinality(CompletedRows)
    \/ \E c \in Clerks : /\ clerk[c].op \in {"complete", "mark", "noshow"}
                         /\ clerk[c].done = "saved"

(* Whatever is not gentle runs alone.                                      *)
OneAtATime ==
    /\ \A c \in Clerks : clerk[c].op \notin Gentle \cup {Nil} =>
           beat.op = Nil /\ \A d \in Clerks \ {c} : clerk[d].op = Nil
    /\ beat.op # Nil => \A c \in Clerks : clerk[c].op = Nil

(* No other session holds the slot.                                        *)
FreeOfOthers(s, id) == \A b \in Bookings \ {id} : Holds(b) => bookings[b].slot # s

(* What a handler has read still says of the row and the grid what its     *)
(* writes need: nobody else holds the slot an acceptance has taken or an   *)
(* ended session is to free, and a copy of the grid is the grid.           *)
JobFits(j) ==
    /\ j.op = "book" => j.id \in Bookings /\ ~Exists(j.id) /\ j.slot \in GridSlots
    /\ j.op \notin {"book", "open"} => j.id \in Bookings /\ Exists(j.id) /\ j.row \in BookingRow
    /\ j.op \in {"accept", "refuse"} =>
           /\ bookings[j.id].status \in Standing
           /\ j.row.status = "needs_reconfirmation"
           /\ j.row.proposed \in GridSlots /\ j.row.proposed # j.row.slot
    /\ j.op = "accept" =>
           /\ bookings[j.id].slot \in {j.row.slot, j.row.proposed}
           /\ bookings[j.id].status = "needs_reconfirmation" =>
                  /\ bookings[j.id].slot = j.row.slot
                  /\ bookings[j.id].proposed = j.row.proposed
           /\ j.done = "saved" => j.row.proposed \in grid.booked /\ FreeOfOthers(j.row.proposed, j.id)
    /\ j.op \in Releasing \cup {"confirm", "propose", "join"} =>
           bookings[j.id].slot = j.row.slot
    /\ j.op \in Releasing \cup {"confirm", "propose", "join"} /\ j.done = "read" =>
           bookings[j.id].status = j.row.status /\ j.row.status \in AcceptedIn(j.op)
    /\ j.op = "propose" => j.done = "read" /\ j.slot \in GridSlots \ grid.booked
    /\ j.op \in {"confirm", "join"} => j.done = "read"
    /\ j.op \in Releasing /\ j.done # "read" =>
           /\ bookings[j.id].status \notin Standing
           /\ FreeOfOthers(j.row.slot, j.id)
    /\ j.op \in Releasing => j.copy \in {Nil, grid} /\ (j.done = "loaded" => j.copy = grid)
    /\ j.op = "open" => j.copy = grid /\ j.slot \in Offers
JobsFit == \A c \in Clerks : clerk[c].op # Nil => JobFits(clerk[c])

(* Two bookings are of two sessions; two acceptances of one session have   *)
(* read the same slots, and only one of them takes the new one.            *)
RequestsApart ==
    \A c, d \in Clerks : c # d =>
        /\ clerk[c].op = "book" /\ clerk[d].op = "book" => clerk[c].id # clerk[d].id
        /\ clerk[c].op = "accept" /\ clerk[d].op = "accept" =>
              /\ clerk[c].id = clerk[d].id => /\ clerk[c].row.slot = clerk[d].row.slot
                                              /\ clerk[c].row.proposed = clerk[d].row.proposed
              /\ clerk[c].done = "saved" /\ clerk[d].done = "saved" =>
                    clerk[c].row.proposed # clerk[d].row.proposed

(* A sweep's rows are as it read them, and its copy of the grid books what *)
(* is held but for the slot it is about to free.                           *)
SweepFits ==
    /\ DOMAIN beat = {"op", "todo", "slots", "copy", "releases"}
    /\ beat.op # Nil => \A b \in beat.todo : Exists(b)
    /\ beat.op = "lapse" => \A b \in beat.todo : bookings[b].status = "confirmed"
    /\ beat.op = "autodecline" =>
          /\ beat.copy \in Grid
          /\ \A b \in beat.todo : /\ bookings[b].status = "requested"
                                  /\ beat.slots[b] = bookings[b].slot
          /\ \A b \in Bookings : Holds(b) => /\ bookings[b].slot \in beat.copy.booked
                                             /\ bookings[b].slot # beat.releases
          /\ \A s \in beat.copy.booked : Accountable(s)

BookingIInv ==
    /\ BookingTypeOK /\ NoDoubleBooking /\ HeldIsBooked
    /\ AllAsked /\ SlotsAccounted /\ TaughtOrDue
    /\ OneAtATime /\ JobsFit /\ RequestsApart /\ SweepFits

LEMMA BookingParts ==
    BookingIInv <=> /\ BookingTypeOK /\ NoDoubleBooking /\ HeldIsBooked
                    /\ AllAsked /\ SlotsAccounted /\ TaughtOrDue
                    /\ OneAtATime /\ JobsFit /\ RequestsApart /\ SweepFits
BY DEF BookingIInv

LEMMA ClerkTypes ==
    ASSUME BookingTypeOK, NEW c \in Clerks
    PROVE  /\ clerk[c].op = Nil <=> clerk[c] = ClerkIdle
           /\ clerk[c].op # Nil => clerk[c] \in ClerkJob /\ clerk[c].op \in Ops
           /\ clerk[c].op \in Ops \cup {Nil}
<1>1. clerk[c] \in ClerkJob \cup {ClerkIdle} BY DEF BookingTypeOK
<1>2. ClerkIdle.op = Nil BY DEF ClerkIdle
<1>3. \A op \in Ops : op # Nil BY NilIsApart
<1>4. \A job \in ClerkJob : job.op \in Ops BY DEF ClerkJob
<1> QED BY <1>1, <1>2, <1>3, <1>4

LEMMA RowTypes ==
    ASSUME BookingTypeOK, NEW b \in Bookings, Exists(b)
    PROVE  /\ bookings[b] \in BookingRow
           /\ bookings[b].status \in BookingStatuses /\ bookings[b].slot \in SlotOrNone
           /\ bookings[b].proposed \in SlotOrNone
           /\ bookings[b].before \in {"requested", "confirmed", Nil}
BY DEF BookingTypeOK, Exists, BookingRow

LEMMA NilIsNoStatus == Nil \notin BookingStatuses /\ Nil \notin GridSlots /\ Nil \notin Bookings
BY SkillBookingAssumption, NilIsApart

LEMMA NilIsNoOp ==
    /\ \A op \in Ops : op # Nil
    /\ Gentle \subseteq Ops /\ Releasing \subseteq Ops
    /\ {"confirm", "propose", "join", "open", "autodecline", "lapse"} \subseteq Ops
BY NilIsApart DEF Ops, Gentle, Releasing

LEMMA GridTypes ==
    ASSUME NEW g \in Grid
    PROVE  /\ g.open \subseteq GridSlots /\ g.booked \subseteq GridSlots
           /\ \A s : /\ free_slot(g, s) \in Grid /\ free_slot(g, s).booked = g.booked \ {s}
                     /\ free_slot(g, s).open = g.open
           /\ \A s \in GridSlots : /\ mark_slot_booked(g, s) \in Grid
                                   /\ mark_slot_booked(g, s).booked = g.booked \cup {s}
                                   /\ mark_slot_booked(g, s).open = g.open
<1>1. g.open \subseteq GridSlots /\ g.booked \subseteq GridSlots BY DEF Grid
<1>2. ASSUME NEW s PROVE /\ free_slot(g, s) \in Grid /\ free_slot(g, s).booked = g.booked \ {s}
                         /\ free_slot(g, s).open = g.open
  <2>1. free_slot(g, s) = [g EXCEPT !.booked = g.booked \ {s}] BY DEF free_slot
  <2>2. g.booked \ {s} \in SUBSET GridSlots BY <1>1
  <2> QED BY <2>1, <2>2 DEF Grid
<1>3. ASSUME NEW s \in GridSlots
      PROVE  /\ mark_slot_booked(g, s) \in Grid
             /\ mark_slot_booked(g, s).booked = g.booked \cup {s}
             /\ mark_slot_booked(g, s).open = g.open
  <2>1. mark_slot_booked(g, s) = [g EXCEPT !.booked = g.booked \cup {s}] BY DEF mark_slot_booked
  <2>2. g.booked \cup {s} \in SUBSET GridSlots BY <1>1
  <2> QED BY <2>1, <2>2 DEF Grid
<1> QED BY <1>1, <1>2, <1>3

(* Who starts what: beside others only what may overlap.                   *)
LEMMA Alongside ==
    ASSUME BookingTypeOK, Careful, NEW op, op # Nil, MayStart(op)
    PROVE  /\ op \notin Gentle => beat.op = Nil /\ \A c \in Clerks : clerk[c].op = Nil
           /\ beat.op \in Gentle \cup {Nil}
           /\ \A c \in Clerks : clerk[c].op \in Gentle \cup {Nil}
<1>1. CASE Quiet BY <1>1 DEF Quiet, Running
<1>2. CASE op \in Overlapping /\ Running \subseteq Overlapping \cup {Nil}
  BY <1>2 DEF Careful, Running
<1> QED BY <1>1, <1>2 DEF MayStart

LEMMA SweepIsNotGentle == ASSUME BookingTypeOK, beat.op \in Gentle PROVE FALSE
<1>1. "autodecline" \notin Gentle /\ "lapse" \notin Gentle BY DEF Gentle
<1>2. Nil \notin Gentle BY NilIsNoOp
<1> QED BY <1>1, <1>2 DEF BookingTypeOK

(* Alone in the office.                                                    *)
LEMMA Lone ==
    ASSUME BookingIInv, NEW c \in Clerks, clerk[c].op \notin Gentle \cup {Nil}
    PROVE  /\ beat.op = Nil /\ \A d \in Clerks \ {c} : clerk[d].op = Nil
           /\ \A b \in Bookings : ~Reslotting(b)
<1>1. beat.op = Nil /\ \A d \in Clerks \ {c} : clerk[d].op = Nil
  BY BookingParts DEF OneAtATime
<1>2. "accept" # Nil BY NilIsNoOp DEF Gentle
<1>3. \A d \in Clerks : clerk[d].op # "accept" BY <1>1, <1>2 DEF Gentle
<1> QED BY <1>1, <1>3 DEF Reslotting

-----------------------------------------------------------------------------
(* A handler starts.                                                       *)

LEMMA HandlerStartsKeeps ==
    ASSUME BookingIInv, Careful, NEW c \in Clerks, NEW job \in ClerkJob,
           BeginHandler(c, job), job.done = "read", JobFits(job),
           job.op = "book" => \A d \in Clerks : clerk[d].op = "book" => clerk[d].id # job.id,
           job.op = "accept" => /\ job.row = bookings[job.id]
                                /\ bookings[job.id].status = "needs_reconfirmation"
    PROVE  BookingIInv'
<1>1. /\ BookingTypeOK /\ NoDoubleBooking /\ HeldIsBooked /\ AllAsked /\ SlotsAccounted
      /\ TaughtOrDue /\ OneAtATime /\ JobsFit /\ RequestsApart /\ SweepFits
  BY BookingParts
<1>2. /\ clerk[c] = ClerkIdle /\ MayStart(job.op) /\ clerk' = [clerk EXCEPT ![c] = job]
      /\ UNCHANGED <<bookings, grid, taught, beat, crashes>>
  BY DEF BeginHandler
<1>3. /\ clerk'[c] = job /\ \A d \in Clerks \ {c} : clerk'[d] = clerk[d]
      /\ clerk' \in [Clerks -> ClerkJob \cup {ClerkIdle}]
  BY <1>1, <1>2 DEF BookingTypeOK
<1>4. clerk[c].op = Nil BY <1>2 DEF ClerkIdle
<1>5. job.op \in Ops /\ job.op # Nil
  BY NilIsApart DEF ClerkJob
<1>6. BookingTypeOK' BY <1>1, <1>2, <1>3 DEF BookingTypeOK
<1>7. "accept" # Nil /\ "read" # "saved" /\ Nil \notin Releasing /\ Nil \notin {"complete", "mark", "noshow"}
  BY NilIsApart DEF Releasing, Ops
<1>8. \A b \in Bookings : Reslotting(b)' <=> Reslotting(b)
  BY <1>2, <1>3, <1>4, <1>7 DEF Reslotting
<1>9. \A b \in Bookings : /\ Holds(b)' <=> Holds(b)
                          /\ Exists(b)' <=> Exists(b)
  BY <1>2, <1>8 DEF Holds, Exists
<1>10. \A s : Accountable(s) => Accountable(s)'
  BY <1>2, <1>3, <1>4, <1>7, <1>8, <1>9 DEF Accountable
<1>11. NoDoubleBooking' BY <1>1, <1>2, <1>9 DEF NoDoubleBooking
<1>12. HeldIsBooked' BY <1>1, <1>2, <1>9 DEF HeldIsBooked
<1>13. AllAsked' BY <1>1, <1>2 DEF AllAsked, Exists
<1>14. SlotsAccounted' BY <1>1, <1>2, <1>10 DEF SlotsAccounted
<1>15. TaughtOrDue'
  <2>1. CompletedRows' = CompletedRows BY <1>2 DEF CompletedRows, Exists
  <2> QED BY <1>1, <1>2, <1>3, <1>4, <1>7, <2>1 DEF TaughtOrDue
<1>16. OneAtATime'
  <2>1. /\ job.op \notin Gentle => beat.op = Nil /\ \A d \in Clerks : clerk[d].op = Nil
        /\ beat.op \in Gentle \cup {Nil}
        /\ \A d \in Clerks : clerk[d].op \in Gentle \cup {Nil}
    BY <1>1, <1>2, <1>5, Alongside
  <2>2. beat.op = Nil BY <1>1, <2>1, SweepIsNotGentle
  <2> QED BY <1>2, <1>3, <2>1, <2>2 DEF OneAtATime
<1>17. ASSUME NEW j, JobFits(j) PROVE JobFits(j)'
  <2>1. \A s, id : FreeOfOthers(s, id)' <=> FreeOfOthers(s, id) BY <1>2, <1>9 DEF FreeOfOthers
  <2>2. j.op \notin {"book", "open"} => j.id \in Bookings BY <1>17 DEF JobFits
  <2>3. j.op = "book" => j.id \in Bookings BY <1>17 DEF JobFits
  <2> QED BY <1>2, <1>9, <1>17, <2>1, <2>2, <2>3 DEF JobFits
<1>18. JobsFit' BY <1>1, <1>3, <1>17 DEF JobsFit
<1>19. RequestsApart'
  <2> SUFFICES ASSUME NEW d \in Clerks \ {c}
               PROVE  /\ job.op = "book" /\ clerk[d].op = "book" => job.id # clerk[d].id
                      /\ job.op = "accept" /\ clerk[d].op = "accept" /\ job.id = clerk[d].id =>
                            /\ job.row.slot = clerk[d].row.slot
                            /\ job.row.proposed = clerk[d].row.proposed
    BY <1>1, <1>3, <1>7 DEF RequestsApart
  <2>1. clerk[d].op = "accept" => JobFits(clerk[d]) BY <1>1, <1>7 DEF JobsFit
  <2> QED BY <2>1 DEF JobFits
<1>20. SweepFits'
  <2>1. beat.todo \subseteq Bookings BY <1>1 DEF BookingTypeOK
  <2>2. (beat.op # Nil => \A b \in beat.todo : Exists(b))' BY <1>1, <1>2, <1>9, <2>1 DEF SweepFits
  <2>3. beat.op = "autodecline" =>
          /\ \A b \in Bookings : Holds(b)' => /\ bookings'[b].slot \in beat'.copy.booked
                                              /\ bookings'[b].slot # beat'.releases
          /\ \A s \in beat'.copy.booked : Accountable(s)'
    BY <1>1, <1>2, <1>9, <1>10 DEF SweepFits
  <2> QED BY <1>1, <1>2, <2>2, <2>3 DEF SweepFits
<1> QED BY <1>6, <1>11, <1>12, <1>13, <1>14, <1>15, <1>16, <1>18, <1>19, <1>20 DEF BookingIInv

-----------------------------------------------------------------------------
(* A handler that runs alone.                                              *)

Seated(b) == Exists(b) /\ bookings[b].status \in Standing /\ bookings[b].slot # Nil
RowKeeps(s) ==
    \E b \in Bookings : /\ Exists(b) /\ bookings[b].slot = s
                        /\ bookings[b].status \in Standing \cup {"lapsed", "auto_declined"}

LEMMA LoneRows ==
    ASSUME BookingIInv, NEW c \in Clerks, clerk[c].op \notin Gentle \cup {Nil}
    PROVE  /\ \A b \in Bookings : Holds(b) <=> Seated(b)
           /\ \A a, b \in Bookings : a # b /\ Seated(a) /\ Seated(b) =>
                  bookings[a].slot # bookings[b].slot
           /\ \A b \in Bookings : Seated(b) => bookings[b].slot \in grid.booked
           /\ \A s \in grid.booked :
                  \/ RowKeeps(s)
                  \/ clerk[c].op \in Releasing /\ clerk[c].done # "read" /\ clerk[c].row.slot = s
           /\ \/ taught = Cardinality(CompletedRows)
              \/ clerk[c].op \in {"complete", "mark", "noshow"} /\ clerk[c].done = "saved"
           /\ JobFits(clerk[c])
<1>1. /\ NoDoubleBooking /\ HeldIsBooked /\ SlotsAccounted /\ TaughtOrDue /\ JobsFit
  BY BookingParts
<1>2. \A d \in Clerks \ {c} : clerk[d].op = Nil BY Lone
<1>3. \A b \in Bookings : ~Reslotting(b) BY Lone
<1>4. \A b \in Bookings : Holds(b) <=> Seated(b) BY <1>3 DEF Holds, Seated
<1>5. /\ Nil \notin {"complete", "mark", "noshow"} /\ Nil \notin Releasing /\ Nil # "accept"
      /\ clerk[c].op # "accept"
  BY NilIsApart DEF Ops, Releasing, Gentle
<1>6. ASSUME NEW s \in grid.booked
      PROVE  \/ RowKeeps(s)
             \/ clerk[c].op \in Releasing /\ clerk[c].done # "read" /\ clerk[c].row.slot = s
  BY <1>1, <1>2, <1>5 DEF SlotsAccounted, Accountable, RowKeeps
<1>7. \/ taught = Cardinality(CompletedRows)
      \/ clerk[c].op \in {"complete", "mark", "noshow"} /\ clerk[c].done = "saved"
  BY <1>1, <1>2, <1>5 DEF TaughtOrDue
<1>8. JobFits(clerk[c]) BY <1>1 DEF JobsFit
<1>9. \A a, b \in Bookings : a # b /\ Seated(a) /\ Seated(b) => bookings[a].slot # bookings[b].slot
  BY <1>1, <1>4 DEF NoDoubleBooking
<1>10. \A b \in Bookings : Seated(b) => bookings[b].slot \in grid.booked
  BY <1>1, <1>4 DEF HeldIsBooked
<1> QED BY <1>4, <1>6, <1>7, <1>8, <1>9, <1>10

(* Nothing under way in the next state.                                    *)
LEMMA ThenQuiet ==
    ASSUME BookingTypeOK', \A c \in Clerks : clerk'[c].op = Nil,
           \A a, b \in Bookings : a # b /\ Seated(a)' /\ Seated(b)' =>
               bookings'[a].slot # bookings'[b].slot,
           \A b \in Bookings : Seated(b)' => bookings'[b].slot \in grid'.booked,
           AllAsked', \A s \in grid'.booked : RowKeeps(s)',
           taught' = Cardinality(CompletedRows'), SweepFits'
    PROVE  BookingIInv'
<1>1. Nil \notin Releasing /\ Nil # "accept" /\ Nil # "book" BY NilIsApart DEF Ops, Releasing
<1>2. \A b \in Bookings : ~Reslotting(b)' BY <1>1 DEF Reslotting
<1>3. \A b \in Bookings : Holds(b)' <=> Seated(b)' BY <1>2 DEF Holds, Seated
<1>4. \A s \in grid'.booked : Accountable(s)' BY <1>2 DEF Accountable, RowKeeps
<1>5. NoDoubleBooking' /\ HeldIsBooked' BY <1>3 DEF NoDoubleBooking, HeldIsBooked
<1>6. SlotsAccounted' BY <1>4 DEF SlotsAccounted
<1>7. TaughtOrDue' BY DEF TaughtOrDue
<1>8. OneAtATime' BY DEF OneAtATime
<1>9. JobsFit' BY DEF JobsFit
<1>10. RequestsApart' BY <1>1 DEF RequestsApart
<1> QED BY <1>5, <1>6, <1>7, <1>8, <1>9, <1>10 DEF BookingIInv

LEMMA LoneEnds ==
    ASSUME BookingIInv, NEW c \in Clerks, clerk[c].op \notin Gentle \cup {Nil}, Finished(c),
           UNCHANGED <<beat, crashes>>,
           bookings' \in [Bookings -> BookingRow \cup {Nil}], grid' \in Grid,
           taught' \in 0..Cardinality(Bookings),
           \A a, b \in Bookings : a # b /\ Seated(a)' /\ Seated(b)' =>
               bookings'[a].slot # bookings'[b].slot,
           \A b \in Bookings : Seated(b)' => bookings'[b].slot \in grid'.booked,
           AllAsked', \A s \in grid'.booked : RowKeeps(s)',
           taught' = Cardinality(CompletedRows')
    PROVE  BookingIInv'
<1>1. BookingTypeOK /\ SweepFits BY BookingParts
<1>2. beat.op = Nil /\ \A d \in Clerks \ {c} : clerk[d].op = Nil BY Lone
<1>3. clerk' = [clerk EXCEPT ![c] = ClerkIdle] BY DEF Finished
<1>4. clerk' \in [Clerks -> ClerkJob \cup {ClerkIdle}] BY <1>1, <1>3 DEF BookingTypeOK
<1>5. \A d \in Clerks : clerk'[d].op = Nil BY <1>1, <1>2, <1>3 DEF BookingTypeOK, ClerkIdle
<1>6. BookingTypeOK' BY <1>1, <1>4 DEF BookingTypeOK
<1>7. SweepFits'
  <2>1. "autodecline" # Nil /\ "lapse" # Nil BY NilIsApart DEF Ops
  <2> QED BY <1>1, <1>2, <2>1 DEF SweepFits
<1> QED BY <1>5, <1>6, <1>7, ThenQuiet

(* What a handler of one session may write besides its status.             *)
LEMMA LoneSaves ==
    ASSUME BookingIInv, NEW c \in Clerks, clerk[c].op \in {"confirm", "propose", "join"},
           NEW row \in BookingRow, SaveSkill(c, row), Finished(c), UNCHANGED grid,
           row.slot = bookings[clerk[c].id].slot, row.status \in Standing,
           bookings[clerk[c].id].status \in Standing,
           (row.proposed # Nil) <=> (row.status = "needs_reconfirmation"),
           (row.before # Nil) <=> (row.status = "needs_reconfirmation"),
           row.proposed # Nil => row.proposed # row.slot
    PROVE  BookingIInv'
<1>1. clerk[c].op \notin Gentle \cup {Nil} /\ clerk[c].op \notin Releasing
      /\ clerk[c].op \notin {"complete", "mark", "noshow"} /\ clerk[c].op \notin {"book", "open"}
  BY NilIsApart DEF Ops, Gentle, Releasing
<1>0. PICK id : id = clerk[c].id OBVIOUS
<1>2. /\ \A a, b \in Bookings : a # b /\ Seated(a) /\ Seated(b) =>
             bookings[a].slot # bookings[b].slot
      /\ \A b \in Bookings : Seated(b) => bookings[b].slot \in grid.booked
      /\ \A s \in grid.booked : RowKeeps(s)
      /\ taught = Cardinality(CompletedRows)
      /\ JobFits(clerk[c])
  BY <1>1, LoneRows
<1>3. BookingTypeOK /\ AllAsked BY BookingParts
<1>4. id \in Bookings /\ Exists(id) BY <1>0, <1>1, <1>2 DEF JobFits
<1>5. bookings' = [bookings EXCEPT ![id] = row] /\ UNCHANGED <<taught, beat, crashes>>
  BY <1>0 DEF SaveSkill
<1>6. bookings' \in [Bookings -> BookingRow \cup {Nil}] BY <1>3, <1>5 DEF BookingTypeOK
<1>7. bookings'[id] = row /\ \A b \in Bookings \ {id} : bookings'[b] = bookings[b]
  BY <1>3, <1>4, <1>5 DEF BookingTypeOK
<1>8. row # Nil BY NilIsApart
<1>9. "completed" \notin Standing BY DEF Standing
<1>10. ASSUME NEW b \in Bookings
       PROVE  /\ Exists(b)' <=> Exists(b)
              /\ Seated(b)' <=> Seated(b)
              /\ Exists(b) => bookings'[b].slot = bookings[b].slot
              /\ Exists(b) => (bookings'[b].status = "completed" <=> bookings[b].status = "completed")
  <2>1. CASE b = id
    <3>1. bookings'[b] = row /\ row.slot = bookings[b].slot /\ row.status \in Standing
          /\ bookings[b].status \in Standing
      BY <1>0, <1>7, <2>1
    <3> QED BY <1>4, <1>8, <1>9, <2>1, <3>1 DEF Exists, Seated
  <2>2. CASE b # id
    <3>1. bookings'[b] = bookings[b] BY <1>7, <2>2
    <3> QED BY <3>1 DEF Exists, Seated
  <2> QED BY <2>1, <2>2
<1>11. CompletedRows' = CompletedRows BY <1>10 DEF CompletedRows
<1>12. AllAsked' BY <1>3, <1>7, <1>10 DEF AllAsked, Exists
<1>13. \A s : RowKeeps(s) => RowKeeps(s)'
  <2> SUFFICES ASSUME NEW s, RowKeeps(s) PROVE RowKeeps(s)' OBVIOUS
  <2>1. PICK b \in Bookings : /\ Exists(b) /\ bookings[b].slot = s
                              /\ bookings[b].status \in Standing \cup {"lapsed", "auto_declined"}
    BY DEF RowKeeps
  <2>2. bookings'[b].status \in Standing \cup {"lapsed", "auto_declined"}
    <3>1. CASE b = id BY <1>7, <3>1
    <3>2. CASE b # id BY <1>7, <2>1, <3>2
    <3> QED BY <3>1, <3>2
  <2>3. Exists(b)' /\ bookings'[b].slot = s BY <1>10, <2>1
  <2> QED BY <2>2, <2>3 DEF RowKeeps
<1>14. \A a, b \in Bookings : a # b /\ Seated(a)' /\ Seated(b)' =>
           bookings'[a].slot # bookings'[b].slot
  <2> SUFFICES ASSUME NEW a \in Bookings, NEW b \in Bookings, a # b, Seated(a)', Seated(b)'
               PROVE  bookings'[a].slot # bookings'[b].slot
    OBVIOUS
  <2>1. Seated(a) /\ Seated(b) BY <1>10
  <2>2. Exists(a) /\ Exists(b) BY <2>1 DEF Seated
  <2> QED BY <1>2, <1>10, <2>1, <2>2
<1>15. \A b \in Bookings : Seated(b)' => bookings'[b].slot \in grid'.booked
  <2> SUFFICES ASSUME NEW b \in Bookings, Seated(b)' PROVE bookings'[b].slot \in grid'.booked
    OBVIOUS
  <2>1. Seated(b) BY <1>10
  <2>2. Exists(b) BY <2>1 DEF Seated
  <2> QED BY <1>2, <1>10, <2>1, <2>2
<1>16. grid' \in Grid /\ taught' \in 0..Cardinality(Bookings) BY <1>3, <1>5 DEF BookingTypeOK
<1>17. \A s \in grid'.booked : RowKeeps(s)' BY <1>2, <1>13
<1>18. taught' = Cardinality(CompletedRows') BY <1>2, <1>5, <1>11
<1> QED BY <1>1, <1>5, <1>6, <1>12, <1>14, <1>15, <1>16, <1>17, <1>18, LoneEnds

LEMMA ConfirmProposeJoinKeep ==
    ASSUME BookingIInv, NEW c \in Clerks, Confirm(c) \/ Propose(c) \/ JoinRoom(c)
    PROVE  BookingIInv'
<1> DEFINE id == clerk[c].id
<1>1. clerk[c].op \in {"confirm", "propose", "join"} BY DEF Confirm, Propose, JoinRoom
<1>2. /\ clerk[c].op \notin Gentle \cup {Nil} /\ clerk[c].op \notin {"book", "open"}
      /\ clerk[c].op \notin Releasing
  BY <1>1, NilIsApart DEF Ops, Gentle, Releasing
<1>3. JobFits(clerk[c]) BY <1>2, LoneRows
<1>4. BookingTypeOK /\ AllAsked BY BookingParts
<1>5. /\ id \in Bookings /\ Exists(id) /\ clerk[c].row \in BookingRow
      /\ bookings[id].slot = clerk[c].row.slot
      /\ bookings[id].status = clerk[c].row.status /\ clerk[c].row.status \in AcceptedIn(clerk[c].op)
  BY <1>1, <1>2, <1>3 DEF JobFits
<1>6. bookings[id] \in BookingRow BY <1>4, <1>5, RowTypes
<1>7. /\ (bookings[id].proposed # Nil) <=> (bookings[id].status = "needs_reconfirmation")
      /\ (bookings[id].before # Nil) <=> (bookings[id].status = "needs_reconfirmation")
      /\ bookings[id].proposed # Nil => bookings[id].proposed # bookings[id].slot
  BY <1>4, <1>5 DEF AllAsked
<1>8. CASE Confirm(c)
  <2>1. PICK when \in {clerk[c].row.scheduled, "ahead"} :
          SaveSkill(c, [bookings[id] EXCEPT !.status = "confirmed", !.scheduled = when])
    BY <1>8 DEF Confirm
  <2>2. bookings[id].status = "requested" BY <1>5, <1>8 DEF Confirm, AcceptedIn
  <2>3. when \in {"none", "ahead", "past"} BY <1>5 DEF BookingRow
  <2> DEFINE row == [bookings[id] EXCEPT !.status = "confirmed", !.scheduled = when]
  <2>4. /\ row \in BookingRow /\ row.slot = bookings[id].slot /\ row.status = "confirmed"
        /\ row.proposed = bookings[id].proposed /\ row.before = bookings[id].before
    BY <1>6, <2>3 DEF BookingRow, BookingStatuses
  <2>5. SaveSkill(c, row) BY <2>1
  <2> HIDE DEF row
  <2>6. Finished(c) /\ UNCHANGED grid BY <1>8 DEF Confirm
  <2>7. row.status \in Standing /\ bookings[id].status \in Standing BY <2>2, <2>4 DEF Standing
  <2> QED BY <1>1, <1>7, <2>2, <2>4, <2>5, <2>6, <2>7, LoneSaves
<1>9. CASE Propose(c)
  <2> DEFINE row == [bookings[id] EXCEPT !.status = "needs_reconfirmation",
                       !.proposed = clerk[c].slot, !.before = clerk[c].row.status]
  <2>1. clerk[c].op = "propose" /\ SaveSkill(c, row) /\ Finished(c) /\ UNCHANGED grid
    BY <1>9 DEF Propose
  <2>2. clerk[c].row.status \in {"requested", "confirmed"} BY <1>5, <2>1 DEF AcceptedIn
  <2>3. clerk[c].slot \in GridSlots \ grid.booked BY <1>3, <2>1 DEF JobFits
  <2>4. /\ row \in BookingRow /\ row.slot = bookings[id].slot
        /\ row.status = "needs_reconfirmation"
        /\ row.proposed = clerk[c].slot /\ row.before = clerk[c].row.status
    BY <1>6, <2>2, <2>3 DEF BookingRow, BookingStatuses, SlotOrNone
  <2> HIDE DEF row
  <2>5. row.proposed # Nil BY <2>3, <2>4, NilIsNoStatus
  <2>6. row.before # Nil BY <2>2, <2>4, NilIsNoStatus DEF BookingStatuses
  <2>7. row.status \in Standing /\ bookings[id].status \in Standing
    BY <1>5, <2>2, <2>4 DEF Standing
  <2>8. row.proposed # row.slot
    <3>1. CASE row.slot = Nil BY <2>5, <3>1
    <3>2. CASE row.slot # Nil
      <4>1. Seated(id) BY <1>5, <2>4, <2>7, <3>2 DEF Seated
      <4>2. bookings[id].slot \in grid.booked BY <1>2, <1>5, <4>1, LoneRows
      <4> QED BY <2>3, <2>4, <4>2
    <3> QED BY <3>1, <3>2
  <2> QED BY <1>1, <2>1, <2>4, <2>5, <2>6, <2>7, <2>8, LoneSaves
<1>10. CASE JoinRoom(c)
  <2> DEFINE row == [bookings[id] EXCEPT !.started = TRUE]
  <2>1. clerk[c].op = "join" /\ SaveSkill(c, row) /\ Finished(c) /\ UNCHANGED grid
    BY <1>10 DEF JoinRoom
  <2>2. bookings[id].status = "confirmed" BY <1>5, <2>1 DEF AcceptedIn
  <2>3. /\ row \in BookingRow /\ row.slot = bookings[id].slot /\ row.status = bookings[id].status
        /\ row.proposed = bookings[id].proposed /\ row.before = bookings[id].before
    BY <1>6 DEF BookingRow
  <2> HIDE DEF row
  <2>4. row.status \in Standing /\ bookings[id].status \in Standing BY <2>2, <2>3 DEF Standing
  <2> QED BY <1>1, <1>7, <2>1, <2>3, <2>4, LoneSaves
<1> QED BY <1>8, <1>9, <1>10

(* The copy a handler took is the grid, for nobody wrote it since.         *)
LEMMA SetOpenKeeps == ASSUME BookingIInv, NEW c \in Clerks, SetOpen(c) PROVE BookingIInv'
<1>1. /\ clerk[c].op = "open" /\ grid' = [clerk[c].copy EXCEPT !.open = clerk[c].slot]
      /\ Finished(c) /\ UNCHANGED <<bookings, taught, beat, crashes>>
  BY DEF SetOpen
<1>2. clerk[c].op \notin Gentle \cup {Nil} /\ clerk[c].op \notin Releasing
      /\ clerk[c].op \notin {"complete", "mark", "noshow"}
  BY <1>1, NilIsApart DEF Ops, Gentle, Releasing
<1>3. /\ \A a, b \in Bookings : a # b /\ Seated(a) /\ Seated(b) =>
             bookings[a].slot # bookings[b].slot
      /\ \A b \in Bookings : Seated(b) => bookings[b].slot \in grid.booked
      /\ \A s \in grid.booked : RowKeeps(s)
      /\ taught = Cardinality(CompletedRows)
      /\ JobFits(clerk[c])
  BY <1>2, LoneRows
<1>4. clerk[c].copy = grid /\ clerk[c].slot \in Offers BY <1>1, <1>3 DEF JobFits
<1>5. BookingTypeOK /\ AllAsked BY BookingParts
<1>6. clerk[c].slot \in SUBSET GridSlots BY <1>4, SkillBookingAssumption
<1>7. grid' \in Grid /\ grid'.booked = grid.booked
  BY <1>1, <1>4, <1>5, <1>6 DEF BookingTypeOK, Grid
<1>8. \A b \in Bookings : Seated(b)' <=> Seated(b) BY <1>1 DEF Seated, Exists
<1>9. \A s : RowKeeps(s)' <=> RowKeeps(s) BY <1>1 DEF RowKeeps, Exists
<1>10. AllAsked' BY <1>1, <1>5 DEF AllAsked, Exists
<1>11. CompletedRows' = CompletedRows BY <1>1 DEF CompletedRows, Exists
<1>12. /\ \A a, b \in Bookings : a # b /\ Seated(a)' /\ Seated(b)' =>
             bookings'[a].slot # bookings'[b].slot
       /\ \A b \in Bookings : Seated(b)' => bookings'[b].slot \in grid'.booked
  BY <1>1, <1>3, <1>7, <1>8
<1>13. \A s \in grid'.booked : RowKeeps(s)' BY <1>3, <1>7, <1>9
<1>14. taught' = Cardinality(CompletedRows') BY <1>1, <1>3, <1>11
<1>15. taught' \in 0..Cardinality(Bookings) /\ bookings' \in [Bookings -> BookingRow \cup {Nil}]
  BY <1>1, <1>5 DEF BookingTypeOK
<1> QED BY <1>1, <1>2, <1>7, <1>10, <1>12, <1>13, <1>14, <1>15, LoneEnds

LEMMA ReleasingIsLone ==
    ASSUME NEW op \in Releasing
    PROVE  op \notin Gentle \cup {Nil} /\ op \notin {"book", "open"} /\ op # Nil
BY NilIsApart DEF Ops, Gentle, Releasing

LEMMA ReleaseKeeps == ASSUME BookingIInv, NEW c \in Clerks, Release(c) PROVE BookingIInv'
<1>1. /\ clerk[c].op \in Releasing /\ clerk[c].done = "loaded"
      /\ grid' = (IF clerk[c].row.slot = Nil THEN grid
                  ELSE free_slot(clerk[c].copy, clerk[c].row.slot))
      /\ Finished(c) /\ UNCHANGED <<bookings, taught, beat, crashes>>
  BY DEF Release
<1>2. clerk[c].op \notin Gentle \cup {Nil} /\ clerk[c].op \notin {"book", "open"}
  BY <1>1, ReleasingIsLone
<1>3. /\ \A b \in Bookings : Holds(b) <=> Seated(b)
      /\ \A a, b \in Bookings : a # b /\ Seated(a) /\ Seated(b) =>
             bookings[a].slot # bookings[b].slot
      /\ \A b \in Bookings : Seated(b) => bookings[b].slot \in grid.booked
      /\ \A s \in grid.booked : RowKeeps(s) \/ clerk[c].row.slot = s
      /\ taught = Cardinality(CompletedRows)
      /\ JobFits(clerk[c])
  BY <1>1, <1>2, LoneRows
<1>4. BookingTypeOK /\ AllAsked BY BookingParts
<1>5. /\ clerk[c].copy = grid /\ clerk[c].id \in Bookings
      /\ bookings[clerk[c].id].status \notin Standing /\ FreeOfOthers(clerk[c].row.slot, clerk[c].id)
  BY <1>1, <1>2, <1>3 DEF JobFits
<1>6. grid \in Grid /\ Nil \notin grid.booked
  BY <1>4, GridTypes, NilIsNoStatus DEF BookingTypeOK
<1>7. grid' \in Grid /\ grid'.booked = grid.booked \ {clerk[c].row.slot}
  BY <1>1, <1>5, <1>6, GridTypes
<1>8. \A b \in Bookings : Seated(b)' <=> Seated(b) BY <1>1 DEF Seated, Exists
<1>9. \A s : RowKeeps(s)' <=> RowKeeps(s) BY <1>1 DEF RowKeeps, Exists
<1>10. AllAsked' BY <1>1, <1>4 DEF AllAsked, Exists
<1>11. CompletedRows' = CompletedRows BY <1>1 DEF CompletedRows, Exists
<1>12. \A a, b \in Bookings : a # b /\ Seated(a)' /\ Seated(b)' =>
             bookings'[a].slot # bookings'[b].slot
  BY <1>1, <1>3, <1>8
<1>13. ASSUME NEW b \in Bookings, Seated(b)' PROVE bookings'[b].slot \in grid'.booked
  <2>1. Seated(b) /\ Holds(b) /\ bookings[b].slot \in grid.booked BY <1>3, <1>8, <1>13
  <2>2. b # clerk[c].id BY <1>5, <2>1 DEF Seated
  <2>3. bookings[b].slot # clerk[c].row.slot BY <1>5, <2>1, <2>2 DEF FreeOfOthers
  <2> QED BY <1>1, <1>7, <2>1, <2>3
<1>14. \A s \in grid'.booked : RowKeeps(s)' BY <1>3, <1>7, <1>9
<1>15. taught' = Cardinality(CompletedRows') BY <1>1, <1>3, <1>11
<1>16. taught' \in 0..Cardinality(Bookings) /\ bookings' \in [Bookings -> BookingRow \cup {Nil}]
  BY <1>1, <1>4 DEF BookingTypeOK
<1> QED BY <1>1, <1>2, <1>7, <1>10, <1>12, <1>13, <1>14, <1>15, <1>16, LoneEnds

(* One that ends a session has its status saved and goes on.               *)
LEMMA LoneGoesOn ==
    ASSUME BookingIInv, NEW c \in Clerks, clerk[c].op \in Releasing, NEW job \in ClerkJob,
           clerk' = [clerk EXCEPT ![c] = job], job.op = clerk[c].op, job.done # "read",
           UNCHANGED <<grid, beat, crashes>>,
           bookings' \in [Bookings -> BookingRow \cup {Nil}],
           taught' \in 0..Cardinality(Bookings),
           \A b \in Bookings : Seated(b)' => Seated(b) /\ bookings'[b].slot = bookings[b].slot,
           AllAsked', \A s \in grid.booked : RowKeeps(s)' \/ job.row.slot = s,
           \/ taught' = Cardinality(CompletedRows')
           \/ job.op \in {"complete", "mark", "noshow"} /\ job.done = "saved",
           job.id \in Bookings, Exists(job.id)', job.row \in BookingRow,
           bookings'[job.id].slot = job.row.slot, bookings'[job.id].status \notin Standing,
           \A b \in Bookings \ {job.id} : Seated(b) => bookings[b].slot # job.row.slot,
           job.copy \in {Nil, grid}, job.done = "loaded" => job.copy = grid
    PROVE  BookingIInv'
<1>1. clerk[c].op \notin Gentle \cup {Nil} /\ clerk[c].op \notin {"book", "open"}
  BY ReleasingIsLone
<1>2. beat.op = Nil /\ \A d \in Clerks \ {c} : clerk[d].op = Nil BY <1>1, Lone
<1>3. BookingTypeOK /\ SweepFits BY BookingParts
<1>4. /\ clerk'[c] = job /\ \A d \in Clerks \ {c} : clerk'[d].op = Nil
      /\ clerk' \in [Clerks -> ClerkJob \cup {ClerkIdle}]
  BY <1>2, <1>3 DEF BookingTypeOK
<1>5. Nil # "accept" /\ Nil # "book" /\ Nil \notin Releasing /\ job.op \notin {"accept", "book"}
  BY <1>1, NilIsApart DEF Ops, Releasing, Gentle
<1>6. \A b \in Bookings : ~Reslotting(b)' BY <1>4, <1>5 DEF Reslotting
<1>7. \A b \in Bookings : Holds(b)' <=> Seated(b)' BY <1>6 DEF Holds, Seated
<1>8. /\ \A a, b \in Bookings : a # b /\ Seated(a) /\ Seated(b) =>
             bookings[a].slot # bookings[b].slot
      /\ \A b \in Bookings : Seated(b) => bookings[b].slot \in grid.booked
  BY <1>1, LoneRows
<1>9. NoDoubleBooking' BY <1>7, <1>8 DEF NoDoubleBooking
<1>10. HeldIsBooked' BY <1>7, <1>8 DEF HeldIsBooked
<1>11. ASSUME NEW s \in grid'.booked PROVE Accountable(s)'
  <2>1. CASE RowKeeps(s)' BY <1>6, <2>1 DEF RowKeeps, Accountable
  <2>2. CASE job.row.slot = s
    <3>1. clerk'[c].op \in Releasing /\ clerk'[c].done # "read" /\ clerk'[c].row.slot = s
      BY <1>4, <2>2
    <3> QED BY <3>1 DEF Accountable
  <2> QED BY <2>1, <2>2
<1>12. SlotsAccounted' BY <1>11 DEF SlotsAccounted
<1>13. TaughtOrDue'
  <2>1. CASE taught' = Cardinality(CompletedRows') BY <2>1 DEF TaughtOrDue
  <2>2. CASE job.op \in {"complete", "mark", "noshow"} /\ job.done = "saved"
    BY <1>4, <2>2 DEF TaughtOrDue
  <2> QED BY <2>1, <2>2
<1>14. OneAtATime' BY <1>1, <1>2, <1>4 DEF OneAtATime
<1>15. FreeOfOthers(job.row.slot, job.id)' BY <1>7 DEF FreeOfOthers
<1>16. job.op \notin {"accept", "refuse", "book", "open", "confirm", "propose", "join"}
  BY DEF Releasing
<1>17. JobFits(job)' BY <1>15, <1>16 DEF JobFits
<1>18. JobsFit' BY <1>4, <1>17 DEF JobsFit
<1>19. RequestsApart' BY <1>4, <1>5 DEF RequestsApart
<1>20. SweepFits'
  <2>1. "autodecline" # Nil /\ "lapse" # Nil BY NilIsApart DEF Ops
  <2> QED BY <1>2, <1>3, <2>1 DEF SweepFits
<1>21. BookingTypeOK' BY <1>3, <1>4 DEF BookingTypeOK
<1> QED BY <1>9, <1>10, <1>12, <1>13, <1>14, <1>18, <1>19, <1>20, <1>21 DEF BookingIInv

LEMMA EndBookingKeeps ==
    ASSUME BookingIInv, Careful, NEW c \in Clerks, EndBooking(c) PROVE BookingIInv'
<1>0. PICK id : id = clerk[c].id OBVIOUS
<1>1. /\ clerk[c].op \in Releasing /\ clerk[c].done = "read"
      /\ bookings' = [bookings EXCEPT ![id] =
                        [bookings[id] EXCEPT !.status = EndStatus(clerk[c].op, clerk[c].row)]]
      /\ clerk' = [clerk EXCEPT ![c].done = "saved"] /\ UNCHANGED <<grid, taught, beat, crashes>>
  BY <1>0 DEF EndBooking, SaveSkill
<1>2. clerk[c].op \notin Gentle \cup {Nil} /\ clerk[c].op \notin {"book", "open"}
  BY <1>1, ReleasingIsLone
<1>3. /\ \A a, b \in Bookings : a # b /\ Seated(a) /\ Seated(b) =>
             bookings[a].slot # bookings[b].slot
      /\ \A s \in grid.booked : RowKeeps(s)
      /\ taught = Cardinality(CompletedRows)
      /\ JobFits(clerk[c])
  BY <1>1, <1>2, LoneRows
<1>4. BookingTypeOK /\ AllAsked BY BookingParts
<1>5. /\ id \in Bookings /\ Exists(id) /\ clerk[c].row \in BookingRow
      /\ bookings[id].slot = clerk[c].row.slot /\ bookings[id].status = clerk[c].row.status
      /\ clerk[c].row.status \in AcceptedIn(clerk[c].op) /\ clerk[c].copy \in {Nil, grid}
  BY <1>0, <1>1, <1>2, <1>3 DEF JobFits
<1>6. clerk[c].row.status \in {"requested", "confirmed"}
  <2>1. clerk[c].op \in {"decline", "cancel", "complete", "mark", "noshow"} BY <1>1 DEF Releasing
  <2>2. NoShowFrom \subseteq {"confirmed"} BY DEF Careful
  <2>3. CASE clerk[c].op = "decline" BY <1>5, <2>3 DEF AcceptedIn
  <2>4. CASE clerk[c].op = "cancel" BY <1>5, <2>4 DEF AcceptedIn
  <2>5. CASE clerk[c].op = "complete" BY <1>5, <2>5 DEF AcceptedIn
  <2>6. CASE clerk[c].op = "mark" BY <1>5, <2>6 DEF AcceptedIn
  <2>7. CASE clerk[c].op = "noshow" BY <1>5, <2>2, <2>7 DEF AcceptedIn
  <2> QED BY <2>1, <2>3, <2>4, <2>5, <2>6, <2>7
<1>7. PICK status : status = EndStatus(clerk[c].op, clerk[c].row) OBVIOUS
<1>8. /\ status \in {"declined", "cancelled", "completed"}
      /\ status = "completed" <=> clerk[c].op \in {"complete", "mark", "noshow"}
  <2>1. clerk[c].op \in {"decline", "cancel", "complete", "mark", "noshow"} BY <1>1 DEF Releasing
  <2>2. CASE clerk[c].op = "decline" BY <1>7, <2>2 DEF EndStatus
  <2>3. CASE clerk[c].op = "cancel" BY <1>7, <2>3 DEF EndStatus
  <2>4. CASE clerk[c].op \in {"complete", "mark", "noshow"} BY <1>7, <2>4 DEF EndStatus
  <2> QED BY <2>1, <2>2, <2>3, <2>4
<1>9. PICK row : row = [bookings[id] EXCEPT !.status = status] OBVIOUS
<1>10. bookings[id] \in BookingRow BY <1>4, <1>5, RowTypes
<1>11. /\ row \in BookingRow /\ row.slot = bookings[id].slot /\ row.status = status
       /\ row.proposed = bookings[id].proposed /\ row.before = bookings[id].before
  BY <1>8, <1>9, <1>10 DEF BookingRow, BookingStatuses
<1>12. bookings' = [bookings EXCEPT ![id] = row] BY <1>1, <1>7, <1>9
<1>13. /\ bookings' \in [Bookings -> BookingRow \cup {Nil}] /\ bookings'[id] = row
       /\ \A b \in Bookings \ {id} : bookings'[b] = bookings[b]
  BY <1>4, <1>5, <1>11, <1>12 DEF BookingTypeOK
<1>14. row # Nil /\ Exists(id)' BY <1>11, <1>13, NilIsApart DEF Exists
<1>15. status \notin Standing BY <1>8 DEF Standing
<1>16. ASSUME NEW b \in Bookings, Seated(b)'
       PROVE  b # id /\ Seated(b) /\ bookings'[b] = bookings[b]
  <2>1. b # id BY <1>11, <1>13, <1>15, <1>16 DEF Seated
  <2>2. bookings'[b] = bookings[b] BY <1>13, <2>1
  <2> QED BY <1>16, <2>1, <2>2 DEF Seated, Exists
<1>17. AllAsked'
  <2>1. bookings[id].status # "needs_reconfirmation" /\ status # "needs_reconfirmation"
    BY <1>5, <1>6, <1>8
  <2>2. row.proposed = Nil /\ row.before = Nil BY <1>4, <1>5, <1>11, <2>1 DEF AllAsked
  <2>3. ASSUME NEW b \in Bookings, Exists(b)'
        PROVE  /\ (bookings'[b].proposed # Nil) <=> (bookings'[b].status = "needs_reconfirmation")
               /\ (bookings'[b].before # Nil) <=> (bookings'[b].status = "needs_reconfirmation")
               /\ bookings'[b].proposed # Nil => bookings'[b].proposed # bookings'[b].slot
    <3>1. CASE b = id BY <1>11, <1>13, <2>1, <2>2, <3>1
    <3>2. CASE b # id
      <4>1. bookings'[b] = bookings[b] BY <1>13, <3>2
      <4>2. Exists(b) BY <2>3, <4>1 DEF Exists
      <4> QED BY <1>4, <4>1, <4>2 DEF AllAsked
    <3> QED BY <3>1, <3>2
  <2> QED BY <2>3 DEF AllAsked
<1>18. ASSUME NEW s \in grid.booked PROVE RowKeeps(s)' \/ clerk[c].row.slot = s
  <2>1. PICK b \in Bookings : /\ Exists(b) /\ bookings[b].slot = s
                              /\ bookings[b].status \in Standing \cup {"lapsed", "auto_declined"}
    BY <1>3 DEF RowKeeps
  <2>2. CASE b = id BY <1>5, <2>1, <2>2
  <2>3. CASE b # id
    <3>1. bookings'[b] = bookings[b] BY <1>13, <2>3
    <3>2. Exists(b)' BY <2>1, <3>1 DEF Exists
    <3> QED BY <2>1, <3>1, <3>2 DEF RowKeeps
  <2> QED BY <2>2, <2>3
<1>19. ASSUME clerk[c].op \notin {"complete", "mark", "noshow"}
       PROVE  taught' = Cardinality(CompletedRows')
  <2>1. status # "completed" /\ bookings[id].status # "completed" BY <1>5, <1>6, <1>8, <1>19
  <2>2. ASSUME NEW b \in Bookings
        PROVE  Exists(b)' /\ bookings'[b].status = "completed" <=>
               Exists(b) /\ bookings[b].status = "completed"
    <3>1. CASE b = id BY <1>11, <1>13, <2>1, <3>1
    <3>2. CASE b # id
      <4>1. bookings'[b] = bookings[b] BY <1>13, <3>2
      <4> QED BY <4>1 DEF Exists
    <3> QED BY <3>1, <3>2
  <2>3. CompletedRows' = CompletedRows BY <2>2 DEF CompletedRows
  <2> QED BY <1>1, <1>3, <2>3
<1>20. ASSUME NEW b \in Bookings \ {id}, Seated(b) PROVE bookings[b].slot # clerk[c].row.slot
  <2>1. CASE bookings[id].slot = Nil BY <1>5, <1>20, <2>1 DEF Seated
  <2>2. CASE bookings[id].slot # Nil
    <3>1. Seated(id) BY <1>5, <1>6, <2>2 DEF Seated, Standing
    <3> QED BY <1>3, <1>5, <1>20, <3>1
  <2> QED BY <2>1, <2>2
<1>21. PICK job : job = [clerk[c] EXCEPT !.done = "saved"] OBVIOUS
<1>22. clerk[c] \in ClerkJob BY <1>2, <1>4, ClerkTypes
<1>23. /\ job \in ClerkJob /\ job.op = clerk[c].op /\ job.done = "saved" /\ job.id = id
       /\ job.row = clerk[c].row /\ job.copy = clerk[c].copy
  BY <1>0, <1>21, <1>22 DEF ClerkJob
<1>24. clerk' = [clerk EXCEPT ![c] = job] BY <1>1, <1>21
<1>25. taught' \in 0..Cardinality(Bookings) BY <1>1, <1>4 DEF BookingTypeOK
<1>26. \A b \in Bookings : Seated(b)' => Seated(b) /\ bookings'[b].slot = bookings[b].slot
  BY <1>16
<1>27. \/ taught' = Cardinality(CompletedRows')
       \/ job.op \in {"complete", "mark", "noshow"} /\ job.done = "saved"
  BY <1>19, <1>23
<1>28. bookings'[id].slot = job.row.slot /\ bookings'[id].status \notin Standing
  BY <1>5, <1>11, <1>13, <1>15, <1>23
<1>29. \A s \in grid.booked : RowKeeps(s)' \/ job.row.slot = s BY <1>18, <1>23
<1>30. \A b \in Bookings \ {id} : Seated(b) => bookings[b].slot # job.row.slot BY <1>20, <1>23
<1> QED BY <1>1, <1>5, <1>13, <1>14, <1>17, <1>23, <1>24, <1>25, <1>26, <1>27, <1>28, <1>29,
           <1>30, LoneGoesOn

LEMMA LoadExpertKeeps == ASSUME BookingIInv, NEW c \in Clerks, LoadExpert(c) PROVE BookingIInv'
<1>1. /\ clerk[c].op \in Releasing /\ clerk[c].done = "saved"
      /\ clerk' = [clerk EXCEPT ![c].done = "loaded", ![c].copy = IF @ = Nil THEN grid ELSE @]
      /\ taught' = (IF Counting(clerk[c].op) THEN Cardinality(CompletedRows) ELSE taught)
      /\ UNCHANGED <<bookings, grid, beat, crashes>>
  BY DEF LoadExpert
<1>2. clerk[c].op \notin Gentle \cup {Nil} /\ clerk[c].op \notin {"book", "open"}
  BY <1>1, ReleasingIsLone
<1>3. /\ \A b \in Bookings : Holds(b) <=> Seated(b)
      /\ \A s \in grid.booked : RowKeeps(s) \/ clerk[c].row.slot = s
      /\ \/ taught = Cardinality(CompletedRows)
         \/ clerk[c].op \in {"complete", "mark", "noshow"}
      /\ JobFits(clerk[c])
  BY <1>1, <1>2, LoneRows
<1>4. BookingTypeOK /\ AllAsked BY BookingParts
<1>5. /\ clerk[c].id \in Bookings /\ Exists(clerk[c].id) /\ clerk[c].row \in BookingRow
      /\ bookings[clerk[c].id].slot = clerk[c].row.slot
      /\ bookings[clerk[c].id].status \notin Standing
      /\ clerk[c].copy \in {Nil, grid} /\ FreeOfOthers(clerk[c].row.slot, clerk[c].id)
  BY <1>1, <1>2, <1>3 DEF JobFits
<1>6. PICK job : job = [clerk[c] EXCEPT !.done = "loaded", !.copy = IF @ = Nil THEN grid ELSE @]
  OBVIOUS
<1>7. clerk[c] \in ClerkJob BY <1>2, <1>4, ClerkTypes
<1>8. grid \in Grid BY <1>4 DEF BookingTypeOK
<1>9. /\ job \in ClerkJob /\ job.op = clerk[c].op /\ job.done = "loaded" /\ job.id = clerk[c].id
      /\ job.row = clerk[c].row /\ job.copy = grid
  BY <1>5, <1>6, <1>7, <1>8 DEF ClerkJob
<1>10. clerk' = [clerk EXCEPT ![c] = job] BY <1>1, <1>6
<1>11. CompletedRows' = CompletedRows BY <1>1 DEF CompletedRows, Exists
<1>12. taught' = Cardinality(CompletedRows') BY <1>1, <1>3, <1>11 DEF Counting
<1>13. taught' \in 0..Cardinality(Bookings)
  <2>1. IsFiniteSet(Bookings) BY SkillBookingAssumption
  <2>2. CompletedRows \subseteq Bookings BY DEF CompletedRows
  <2>3. IsFiniteSet(CompletedRows) /\ Cardinality(CompletedRows) <= Cardinality(Bookings)
    BY <2>1, <2>2, FS_Subset
  <2>4. Cardinality(CompletedRows) \in Nat BY <2>3, FS_CardinalityType
  <2>5. Cardinality(Bookings) \in Nat BY <2>1, FS_CardinalityType
  <2> QED BY <1>11, <1>12, <2>3, <2>4, <2>5
<1>14. \A b \in Bookings : /\ Seated(b)' <=> Seated(b)
                           /\ Exists(b)' <=> Exists(b)
  BY <1>1 DEF Seated, Exists
<1>15. \A s : RowKeeps(s)' <=> RowKeeps(s) BY <1>1 DEF RowKeeps, Exists
<1>16. AllAsked' BY <1>1, <1>4 DEF AllAsked, Exists
<1>17. \A b \in Bookings \ {job.id} : Seated(b) => bookings[b].slot # job.row.slot
  BY <1>3, <1>5, <1>9 DEF FreeOfOthers
<1>18. bookings' \in [Bookings -> BookingRow \cup {Nil}] BY <1>1, <1>4 DEF BookingTypeOK
<1>19. \A s \in grid.booked : RowKeeps(s)' \/ job.row.slot = s BY <1>3, <1>9, <1>15
<1>20. /\ job.id \in Bookings /\ Exists(job.id)' /\ job.row \in BookingRow
       /\ bookings'[job.id].slot = job.row.slot /\ bookings'[job.id].status \notin Standing
  BY <1>1, <1>5, <1>9, <1>14
<1>21. \A b \in Bookings : Seated(b)' => Seated(b) /\ bookings'[b].slot = bookings[b].slot
  BY <1>1, <1>14
<1> QED BY <1>1, <1>9, <1>10, <1>12, <1>13, <1>16, <1>17, <1>18, <1>19, <1>20, <1>21, LoneGoesOn

-----------------------------------------------------------------------------
(* The sweeps.                                                             *)

LEMMA IdleRows ==
    ASSUME BookingIInv, \A c \in Clerks : clerk[c].op = Nil
    PROVE  /\ \A b \in Bookings : Holds(b) <=> Seated(b)
           /\ \A a, b \in Bookings : a # b /\ Seated(a) /\ Seated(b) =>
                  bookings[a].slot # bookings[b].slot
           /\ \A b \in Bookings : Seated(b) => bookings[b].slot \in grid.booked
           /\ \A s : Accountable(s) <=> RowKeeps(s)
           /\ \A s \in grid.booked : RowKeeps(s)
           /\ taught = Cardinality(CompletedRows)
<1>1. NoDoubleBooking /\ HeldIsBooked /\ SlotsAccounted /\ TaughtOrDue BY BookingParts
<1>2. Nil \notin {"complete", "mark", "noshow"} /\ Nil \notin Releasing /\ Nil # "accept"
  BY NilIsApart DEF Ops, Releasing
<1>3. \A b \in Bookings : ~Reslotting(b) BY <1>2 DEF Reslotting
<1>4. \A b \in Bookings : Holds(b) <=> Seated(b) BY <1>3 DEF Holds, Seated
<1>5. \A s : Accountable(s) <=> RowKeeps(s) BY <1>2, <1>3 DEF Accountable, RowKeeps
<1>6. \A s \in grid.booked : RowKeeps(s) BY <1>1, <1>5 DEF SlotsAccounted
<1>7. taught = Cardinality(CompletedRows) BY <1>1, <1>2 DEF TaughtOrDue
<1>8. \A a, b \in Bookings : a # b /\ Seated(a) /\ Seated(b) => bookings[a].slot # bookings[b].slot
  BY <1>1, <1>4 DEF NoDoubleBooking
<1>9. \A b \in Bookings : Seated(b) => bookings[b].slot \in grid.booked
  BY <1>1, <1>4 DEF HeldIsBooked
<1> QED BY <1>4, <1>5, <1>6, <1>7, <1>8, <1>9

LEMMA ThenIdle ==
    ASSUME \A c \in Clerks : clerk'[c].op = Nil
    PROVE  /\ \A b \in Bookings : Holds(b)' <=> Seated(b)'
           /\ \A s : RowKeeps(s)' => Accountable(s)'
<1>1. Nil # "accept" BY NilIsApart DEF Ops
<1>2. \A b \in Bookings : ~Reslotting(b)' BY <1>1 DEF Reslotting
<1> QED BY <1>2 DEF Holds, Seated, Accountable, RowKeeps

(* A row is passed over by a sweep.                                        *)
LEMMA RowPasses ==
    ASSUME BookingTypeOK, AllAsked, NEW b \in Bookings, Exists(b),
           bookings[b].status \in {"requested", "confirmed"},
           NEW status \in {"lapsed", "auto_declined"},
           bookings' = [bookings EXCEPT ![b].status = status]
    PROVE  /\ bookings' \in [Bookings -> BookingRow \cup {Nil}]
           /\ \A a \in Bookings \ {b} : bookings'[a] = bookings[a]
           /\ \A a \in Bookings : Exists(a) => Exists(a)'
           /\ \A a \in Bookings : Seated(a)' =>
                  a # b /\ Seated(a) /\ bookings'[a].slot = bookings[a].slot
           /\ \A s : RowKeeps(s) => RowKeeps(s)'
           /\ AllAsked' /\ CompletedRows' = CompletedRows
<1>1. bookings[b] \in BookingRow BY RowTypes
<1>2. PICK row : row = [bookings[b] EXCEPT !.status = status] OBVIOUS
<1>3. /\ row \in BookingRow /\ row.slot = bookings[b].slot /\ row.status = status
      /\ row.proposed = bookings[b].proposed /\ row.before = bookings[b].before
  BY <1>1, <1>2 DEF BookingRow, BookingStatuses
<1>4. bookings' = [bookings EXCEPT ![b] = row] BY <1>2
<1>5. /\ bookings' \in [Bookings -> BookingRow \cup {Nil}] /\ bookings'[b] = row
      /\ \A a \in Bookings \ {b} : bookings'[a] = bookings[a]
  BY <1>3, <1>4 DEF BookingTypeOK
<1>6. row # Nil /\ status \notin Standing /\ status # "completed"
  BY <1>3, NilIsApart DEF Standing
<1>7. ASSUME NEW a \in Bookings PROVE Exists(a)' <=> Exists(a)
  <2>1. CASE a = b BY <1>5, <1>6, <2>1 DEF Exists
  <2>2. CASE a # b
    <3>1. bookings'[a] = bookings[a] BY <1>5, <2>2
    <3> QED BY <3>1 DEF Exists
  <2> QED BY <2>1, <2>2
<1>8. ASSUME NEW a \in Bookings, Seated(a)'
      PROVE  a # b /\ Seated(a) /\ bookings'[a].slot = bookings[a].slot
  <2>1. a # b BY <1>3, <1>5, <1>6, <1>8 DEF Seated
  <2>2. bookings'[a] = bookings[a] BY <1>5, <2>1
  <2> QED BY <1>8, <2>1, <2>2 DEF Seated, Exists
<1>9. ASSUME NEW s, RowKeeps(s) PROVE RowKeeps(s)'
  <2>1. PICK a \in Bookings : /\ Exists(a) /\ bookings[a].slot = s
                              /\ bookings[a].status \in Standing \cup {"lapsed", "auto_declined"}
    BY <1>9 DEF RowKeeps
  <2>2. bookings'[a].slot = s /\ bookings'[a].status \in Standing \cup {"lapsed", "auto_declined"}
    <3>1. CASE a = b BY <1>3, <1>5, <2>1, <3>1
    <3>2. CASE a # b
      <4>1. bookings'[a] = bookings[a] BY <1>5, <3>2
      <4> QED BY <2>1, <4>1
    <3> QED BY <3>1, <3>2
  <2>3. Exists(a)' BY <1>7, <2>1
  <2> QED BY <2>2, <2>3 DEF RowKeeps
<1>10. AllAsked'
  <2>1. row.proposed = Nil /\ row.before = Nil /\ row.status # "needs_reconfirmation"
    BY <1>3 DEF AllAsked
  <2>2. ASSUME NEW a \in Bookings, Exists(a)'
        PROVE  /\ (bookings'[a].proposed # Nil) <=> (bookings'[a].status = "needs_reconfirmation")
               /\ (bookings'[a].before # Nil) <=> (bookings'[a].status = "needs_reconfirmation")
               /\ bookings'[a].proposed # Nil => bookings'[a].proposed # bookings'[a].slot
    <3>1. CASE a = b BY <1>5, <2>1, <3>1
    <3>2. CASE a # b
      <4>1. bookings'[a] = bookings[a] /\ Exists(a) BY <1>5, <1>7, <2>2, <3>2
      <4> QED BY <4>1 DEF AllAsked
    <3> QED BY <3>1, <3>2
  <2> QED BY <2>2 DEF AllAsked
<1>11. CompletedRows' = CompletedRows
  <2>1. ASSUME NEW a \in Bookings
        PROVE  Exists(a)' /\ bookings'[a].status = "completed" <=>
               Exists(a) /\ bookings[a].status = "completed"
    <3>1. CASE a = b BY <1>3, <1>5, <1>6, <3>1
    <3>2. CASE a # b
      <4>1. bookings'[a] = bookings[a] BY <1>5, <3>2
      <4> QED BY <4>1 DEF Exists
    <3> QED BY <3>1, <3>2
  <2> QED BY <2>1 DEF CompletedRows
<1> QED BY <1>5, <1>7, <1>8, <1>9, <1>10, <1>11

LEMMA StartSweepKeeps ==
    ASSUME BookingIInv, Careful, StartAutoDecline \/ StartLapse PROVE BookingIInv'
<1>1. BookingTypeOK /\ AllAsked BY BookingParts
<1>2. "autodecline" \notin Gentle /\ "lapse" \notin Gentle /\ "autodecline" # Nil /\ "lapse" # Nil
  BY NilIsApart DEF Gentle, Ops
<1>3. /\ \A c \in Clerks : clerk[c].op = Nil
      /\ UNCHANGED <<bookings, grid, taught, clerk, crashes>>
  BY <1>1, <1>2, Alongside DEF StartAutoDecline, StartLapse
<1>4. /\ \A b \in Bookings : Holds(b) <=> Seated(b)
      /\ \A a, b \in Bookings : a # b /\ Seated(a) /\ Seated(b) =>
             bookings[a].slot # bookings[b].slot
      /\ \A b \in Bookings : Seated(b) => bookings[b].slot \in grid.booked
      /\ \A s \in grid.booked : RowKeeps(s)
      /\ taught = Cardinality(CompletedRows)
  BY <1>3, IdleRows
<1>5. \A b \in Bookings : /\ Seated(b)' <=> Seated(b)
                          /\ Exists(b)' <=> Exists(b)
  BY <1>3 DEF Seated, Exists
<1>6. \A s : RowKeeps(s)' <=> RowKeeps(s) BY <1>3 DEF RowKeeps, Exists
<1>7. AllAsked' BY <1>1, <1>3 DEF AllAsked, Exists
<1>8. CompletedRows' = CompletedRows BY <1>3 DEF CompletedRows, Exists
<1>9. /\ \A b \in Bookings : Holds(b)' <=> Seated(b)'
      /\ \A s : RowKeeps(s)' => Accountable(s)'
  BY <1>3, ThenIdle
<1>10. BookingTypeOK' /\ SweepFits'
  <2>1. CASE StartAutoDecline
    <3>1. beat' = [op |-> "autodecline", todo |-> StaleRequests,
                   slots |-> [b \in StaleRequests |-> bookings[b].slot],
                   copy |-> grid, releases |-> Nil]
      BY <2>1 DEF StartAutoDecline
    <3>2. StaleRequests \subseteq Bookings BY DEF StaleRequests
    <3>3. BookingTypeOK' BY <1>1, <1>3, <3>1, <3>2 DEF BookingTypeOK, SlotOrNone
    <3>4. \A b \in StaleRequests : Exists(b) /\ bookings[b].status = "requested"
      BY DEF StaleRequests
    <3>5. /\ beat'.op = "autodecline" /\ beat'.todo = StaleRequests /\ beat'.copy = grid
          /\ beat'.releases = Nil
          /\ DOMAIN beat' = {"op", "todo", "slots", "copy", "releases"}
          /\ \A b \in StaleRequests : beat'.slots[b] = bookings[b].slot
      BY <3>1
    <3>6. (\A b \in beat.todo : Exists(b))' BY <1>5, <3>2, <3>4, <3>5
    <3>7. \A b \in Bookings : Holds(b)' => /\ bookings'[b].slot \in beat'.copy.booked
                                           /\ bookings'[b].slot # beat'.releases
      BY <1>3, <1>4, <1>5, <1>9, <3>5 DEF Seated
    <3>8. \A s \in beat'.copy.booked : Accountable(s)' BY <1>4, <1>6, <1>9, <3>5
    <3>9. grid \in Grid BY <1>1 DEF BookingTypeOK
    <3>10. SweepFits' BY <1>3, <3>4, <3>5, <3>6, <3>7, <3>8, <3>9 DEF SweepFits
    <3> QED BY <3>3, <3>10
  <2>2. CASE StartLapse
    <3>1. beat' = [NoSweep EXCEPT !.op = "lapse", !.todo = Unheld] BY <2>2 DEF StartLapse
    <3>2. /\ beat'.op = "lapse" /\ beat'.todo = Unheld /\ beat'.copy = Nil /\ beat'.releases = Nil
          /\ DOMAIN beat' = {"op", "todo", "slots", "copy", "releases"}
      BY <3>1 DEF NoSweep
    <3>3. Unheld \subseteq Bookings BY DEF Unheld
    <3>4. \A b \in Unheld : Exists(b) /\ bookings[b].status = "confirmed" BY DEF Unheld
    <3>5. BookingTypeOK' BY <1>1, <1>3, <3>2, <3>3 DEF BookingTypeOK, SlotOrNone
    <3>6. (\A b \in beat.todo : Exists(b))' BY <1>5, <3>2, <3>3, <3>4
    <3>7. SweepFits' BY <1>3, <3>2, <3>4, <3>6 DEF SweepFits
    <3> QED BY <3>5, <3>7
  <2> QED BY <2>1, <2>2
<1>11. \A b \in Bookings : Seated(b)' => bookings'[b].slot \in grid'.booked BY <1>3, <1>4, <1>5
<1>12. \A a, b \in Bookings : a # b /\ Seated(a)' /\ Seated(b)' =>
           bookings'[a].slot # bookings'[b].slot
  BY <1>3, <1>4, <1>5
<1>13. \A c \in Clerks : clerk'[c].op = Nil BY <1>3
<1>14. \A s \in grid'.booked : RowKeeps(s)' BY <1>3, <1>4, <1>6
<1>15. taught' = Cardinality(CompletedRows') BY <1>3, <1>4, <1>8
<1> QED BY <1>7, <1>10, <1>11, <1>12, <1>13, <1>14, <1>15, ThenQuiet

LEMMA SweepFacts ==
    ASSUME BookingIInv, beat.op # Nil
    PROVE  /\ BookingTypeOK /\ AllAsked /\ SweepFits
           /\ \A c \in Clerks : clerk[c].op = Nil
           /\ beat.todo \subseteq Bookings /\ \A b \in beat.todo : Exists(b)
BY BookingParts DEF OneAtATime, SweepFits, BookingTypeOK

LEMMA NoSweepFits ==
    /\ NoSweep.op = Nil /\ NoSweep.todo = {} /\ NoSweep.releases = Nil /\ NoSweep.copy = Nil
    /\ DOMAIN NoSweep = {"op", "todo", "slots", "copy", "releases"}
    /\ Nil # "autodecline" /\ Nil # "lapse"
BY NilIsApart DEF NoSweep, Ops

LEMMA LapseKeeps == ASSUME BookingIInv, NEW b \in Bookings, Lapse(b) PROVE BookingIInv'
<1>1. /\ beat.op = "lapse" /\ b \in beat.todo
      /\ bookings' = [bookings EXCEPT ![b].status = "lapsed"]
      /\ beat' = (IF SweepEnds(b) THEN NoSweep ELSE [beat EXCEPT !.todo = @ \ {b}])
      /\ UNCHANGED <<grid, taught, clerk, crashes>>
  BY DEF Lapse
<1>2. beat.op # Nil BY <1>1, NoSweepFits
<1>3. /\ BookingTypeOK /\ AllAsked /\ SweepFits /\ \A c \in Clerks : clerk[c].op = Nil
      /\ beat.todo \subseteq Bookings /\ \A a \in beat.todo : Exists(a)
  BY <1>2, SweepFacts
<1>4. Exists(b) /\ bookings[b].status = "confirmed" BY <1>1, <1>3 DEF SweepFits
<1>5. /\ bookings' \in [Bookings -> BookingRow \cup {Nil}]
      /\ \A a \in Bookings \ {b} : bookings'[a] = bookings[a]
      /\ \A a \in Bookings : Exists(a) => Exists(a)'
      /\ \A a \in Bookings : Seated(a)' =>
             a # b /\ Seated(a) /\ bookings'[a].slot = bookings[a].slot
      /\ \A s : RowKeeps(s) => RowKeeps(s)'
      /\ AllAsked' /\ CompletedRows' = CompletedRows
  BY <1>1, <1>3, <1>4, RowPasses
<1>6. /\ \A a, d \in Bookings : a # d /\ Seated(a) /\ Seated(d) =>
             bookings[a].slot # bookings[d].slot
      /\ \A a \in Bookings : Seated(a) => bookings[a].slot \in grid.booked
      /\ \A s \in grid.booked : RowKeeps(s)
      /\ taught = Cardinality(CompletedRows)
  BY <1>3, IdleRows
<1>7. BookingTypeOK' /\ SweepFits'
  <2>1. CASE beat' = NoSweep
    <3>1. BookingTypeOK' BY <1>1, <1>3, <1>5, <2>1, NoSweepFits DEF BookingTypeOK, SlotOrNone
    <3>2. SweepFits' BY <2>1, NoSweepFits DEF SweepFits
    <3> QED BY <3>1, <3>2
  <2>2. CASE beat' = [beat EXCEPT !.todo = @ \ {b}]
    <3>1. DOMAIN beat = {"op", "todo", "slots", "copy", "releases"} BY <1>3 DEF SweepFits
    <3>2. /\ beat'.op = "lapse" /\ beat'.todo = beat.todo \ {b} /\ beat'.copy = beat.copy
          /\ beat'.releases = beat.releases
          /\ DOMAIN beat' = {"op", "todo", "slots", "copy", "releases"}
      BY <1>1, <2>2, <3>1
    <3>3. BookingTypeOK' BY <1>1, <1>3, <1>5, <3>2 DEF BookingTypeOK
    <3>4. (\A a \in beat.todo : Exists(a))' BY <1>3, <1>5, <3>2
    <3>5. \A a \in beat'.todo : bookings'[a].status = "confirmed"
      BY <1>1, <1>3, <1>5, <3>2 DEF SweepFits
    <3>6. SweepFits' BY <3>2, <3>4, <3>5 DEF SweepFits
    <3> QED BY <3>3, <3>6
  <2> QED BY <1>1, <2>1, <2>2
<1>8. \A a, d \in Bookings : a # d /\ Seated(a)' /\ Seated(d)' =>
          bookings'[a].slot # bookings'[d].slot
  BY <1>5, <1>6
<1>9. \A a \in Bookings : Seated(a)' => bookings'[a].slot \in grid'.booked BY <1>1, <1>5, <1>6
<1>10. \A s \in grid'.booked : RowKeeps(s)' BY <1>1, <1>5, <1>6
<1>11. taught' = Cardinality(CompletedRows') BY <1>1, <1>5, <1>6
<1>12. \A c \in Clerks : clerk'[c].op = Nil BY <1>1, <1>3
<1> QED BY <1>5, <1>7, <1>8, <1>9, <1>10, <1>11, <1>12, ThenQuiet

LEMMA AutoDeclineKeeps == ASSUME BookingIInv, NEW b \in Bookings, AutoDecline(b) PROVE BookingIInv'
<1>1. /\ beat.op = "autodecline" /\ b \in beat.todo
      /\ bookings' = [bookings EXCEPT ![b].status = "auto_declined"]
      /\ beat' = (IF beat.slots[b] = Nil /\ SweepEnds(b) THEN NoSweep
                  ELSE [beat EXCEPT !.todo = @ \ {b}, !.releases = beat.slots[b]])
      /\ UNCHANGED <<grid, taught, clerk, crashes>>
  BY DEF AutoDecline
<1>2. beat.op # Nil BY <1>1, NoSweepFits
<1>3. /\ BookingTypeOK /\ AllAsked /\ SweepFits /\ \A c \in Clerks : clerk[c].op = Nil
      /\ beat.todo \subseteq Bookings /\ \A a \in beat.todo : Exists(a)
  BY <1>2, SweepFacts
<1>4. Exists(b) /\ bookings[b].status = "requested" /\ beat.slots[b] = bookings[b].slot
  BY <1>1, <1>3 DEF SweepFits
<1>5. /\ bookings' \in [Bookings -> BookingRow \cup {Nil}]
      /\ \A a \in Bookings \ {b} : bookings'[a] = bookings[a]
      /\ \A a \in Bookings : Exists(a) => Exists(a)'
      /\ \A a \in Bookings : Seated(a)' =>
             a # b /\ Seated(a) /\ bookings'[a].slot = bookings[a].slot
      /\ \A s : RowKeeps(s) => RowKeeps(s)'
      /\ AllAsked' /\ CompletedRows' = CompletedRows
  BY <1>1, <1>3, <1>4, RowPasses
<1>6. /\ \A a \in Bookings : Holds(a) <=> Seated(a)
      /\ \A a, d \in Bookings : a # d /\ Seated(a) /\ Seated(d) =>
             bookings[a].slot # bookings[d].slot
      /\ \A a \in Bookings : Seated(a) => bookings[a].slot \in grid.booked
      /\ \A s : Accountable(s) <=> RowKeeps(s)
      /\ \A s \in grid.booked : RowKeeps(s)
      /\ taught = Cardinality(CompletedRows)
  BY <1>3, IdleRows
<1>7. \A c \in Clerks : clerk'[c].op = Nil BY <1>1, <1>3
<1>8. /\ \A a \in Bookings : Holds(a)' <=> Seated(a)'
      /\ \A s : RowKeeps(s)' => Accountable(s)'
  BY <1>7, ThenIdle
<1>9. BookingTypeOK' /\ SweepFits'
  <2>1. CASE beat' = NoSweep
    <3>1. BookingTypeOK' BY <1>1, <1>3, <1>5, <2>1, NoSweepFits DEF BookingTypeOK, SlotOrNone
    <3>2. SweepFits' BY <2>1, NoSweepFits DEF SweepFits
    <3> QED BY <3>1, <3>2
  <2>2. CASE beat' = [beat EXCEPT !.todo = @ \ {b}, !.releases = beat.slots[b]]
    <3>1. DOMAIN beat = {"op", "todo", "slots", "copy", "releases"} BY <1>3 DEF SweepFits
    <3>2. /\ beat'.op = "autodecline" /\ beat'.todo = beat.todo \ {b} /\ beat'.copy = beat.copy
          /\ beat'.releases = bookings[b].slot /\ beat'.slots = beat.slots
          /\ DOMAIN beat' = {"op", "todo", "slots", "copy", "releases"}
      BY <1>1, <1>4, <2>2, <3>1
    <3>3. bookings[b].slot \in SlotOrNone BY <1>3, <1>4, RowTypes
    <3>4. BookingTypeOK' BY <1>1, <1>3, <1>5, <3>2, <3>3 DEF BookingTypeOK
    <3>5. (\A a \in beat.todo : Exists(a))' BY <1>3, <1>5, <3>2
    <3>6. \A a \in beat'.todo : /\ bookings'[a].status = "requested"
                                /\ beat'.slots[a] = bookings'[a].slot
      BY <1>1, <1>3, <1>5, <3>2 DEF SweepFits
    <3>7. ASSUME NEW a \in Bookings, Holds(a)'
          PROVE  bookings'[a].slot \in beat'.copy.booked /\ bookings'[a].slot # beat'.releases
      <4>1. a # b /\ Seated(a) /\ Holds(a) /\ bookings'[a].slot = bookings[a].slot
        BY <1>5, <1>6, <1>8, <3>7
      <4>2. bookings[a].slot \in beat.copy.booked BY <1>1, <1>3, <4>1 DEF SweepFits
      <4>3. bookings[a].slot # bookings[b].slot
        <5>1. CASE bookings[b].slot = Nil BY <4>1, <5>1 DEF Seated
        <5>2. CASE bookings[b].slot # Nil
          <6>1. Seated(b) BY <1>4, <5>2 DEF Seated, Standing
          <6> QED BY <1>6, <4>1, <6>1
        <5> QED BY <5>1, <5>2
      <4> QED BY <3>2, <4>1, <4>2, <4>3
    <3>8. \A s \in beat'.copy.booked : Accountable(s)'
      BY <1>1, <1>3, <1>5, <1>6, <1>8, <3>2 DEF SweepFits
    <3>9. beat.copy \in Grid BY <1>1, <1>3 DEF SweepFits
    <3>10. beat'.copy \in Grid BY <3>2, <3>9
    <3>11. "autodecline" # "lapse" OBVIOUS
    <3>12. SweepFits' BY <3>2, <3>5, <3>6, <3>7, <3>8, <3>10, <3>11 DEF SweepFits
    <3> QED BY <3>4, <3>12
  <2> QED BY <1>1, <2>1, <2>2
<1>10. \A a, d \in Bookings : a # d /\ Seated(a)' /\ Seated(d)' =>
          bookings'[a].slot # bookings'[d].slot
  BY <1>5, <1>6
<1>11. \A a \in Bookings : Seated(a)' => bookings'[a].slot \in grid'.booked BY <1>1, <1>5, <1>6
<1>12. \A s \in grid'.booked : RowKeeps(s)' BY <1>1, <1>5, <1>6
<1>13. taught' = Cardinality(CompletedRows') BY <1>1, <1>5, <1>6
<1> QED BY <1>5, <1>7, <1>9, <1>10, <1>11, <1>12, <1>13, ThenQuiet

(* The grid is written back as the sweep read it, but for the one slot.    *)
LEMMA AutoReleaseKeeps == ASSUME BookingIInv, AutoRelease PROVE BookingIInv'
<1>1. /\ beat.op = "autodecline" /\ grid' = free_slot(beat.copy, beat.releases)
      /\ beat' = (IF beat.todo = {} THEN NoSweep ELSE [beat EXCEPT !.releases = Nil])
      /\ UNCHANGED <<bookings, taught, clerk, crashes>>
  BY DEF AutoRelease
<1>2. beat.op # Nil BY <1>1, NoSweepFits
<1>3. /\ BookingTypeOK /\ AllAsked /\ SweepFits /\ \A c \in Clerks : clerk[c].op = Nil
      /\ beat.todo \subseteq Bookings /\ \A a \in beat.todo : Exists(a)
  BY <1>2, SweepFacts
<1>4. /\ beat.copy \in Grid
      /\ \A b \in beat.todo : bookings[b].status = "requested" /\ beat.slots[b] = bookings[b].slot
      /\ \A b \in Bookings : Holds(b) => /\ bookings[b].slot \in beat.copy.booked
                                         /\ bookings[b].slot # beat.releases
      /\ \A s \in beat.copy.booked : Accountable(s)
      /\ DOMAIN beat = {"op", "todo", "slots", "copy", "releases"}
  BY <1>1, <1>3 DEF SweepFits
<1>5. /\ \A a \in Bookings : Holds(a) <=> Seated(a)
      /\ \A a, d \in Bookings : a # d /\ Seated(a) /\ Seated(d) =>
             bookings[a].slot # bookings[d].slot
      /\ \A s : Accountable(s) <=> RowKeeps(s)
      /\ taught = Cardinality(CompletedRows)
  BY <1>3, IdleRows
<1>6. grid' \in Grid /\ grid'.booked = beat.copy.booked \ {beat.releases}
  BY <1>1, <1>4, GridTypes
<1>7. \A c \in Clerks : clerk'[c].op = Nil BY <1>1, <1>3
<1>8. /\ \A a \in Bookings : Holds(a)' <=> Seated(a)'
      /\ \A s : RowKeeps(s)' => Accountable(s)'
  BY <1>7, ThenIdle
<1>9. \A b \in Bookings : /\ Seated(b)' <=> Seated(b)
                          /\ Exists(b)' <=> Exists(b)
  BY <1>1 DEF Seated, Exists
<1>10. \A s : RowKeeps(s)' <=> RowKeeps(s) BY <1>1 DEF RowKeeps, Exists
<1>11. AllAsked' BY <1>1, <1>3 DEF AllAsked, Exists
<1>12. CompletedRows' = CompletedRows BY <1>1 DEF CompletedRows, Exists
<1>13. BookingTypeOK' /\ SweepFits'
  <2>1. CASE beat' = NoSweep
    <3>1. BookingTypeOK' BY <1>1, <1>3, <1>6, <2>1, NoSweepFits DEF BookingTypeOK, SlotOrNone
    <3>2. SweepFits' BY <2>1, NoSweepFits DEF SweepFits
    <3> QED BY <3>1, <3>2
  <2>2. CASE beat' = [beat EXCEPT !.releases = Nil]
    <3>1. /\ beat'.op = "autodecline" /\ beat'.todo = beat.todo /\ beat'.copy = beat.copy
          /\ beat'.releases = Nil /\ beat'.slots = beat.slots
          /\ DOMAIN beat' = {"op", "todo", "slots", "copy", "releases"}
      BY <1>1, <1>4, <2>2
    <3>2. BookingTypeOK' BY <1>1, <1>3, <1>6, <3>1 DEF BookingTypeOK, SlotOrNone
    <3>3. (\A a \in beat.todo : Exists(a))' BY <1>3, <1>9, <3>1
    <3>4. \A a \in beat'.todo : bookings'[a].status = "requested" /\ beat'.slots[a] = bookings'[a].slot
      BY <1>1, <1>4, <3>1
    <3>5. \A a \in Bookings : Holds(a)' => /\ bookings'[a].slot \in beat'.copy.booked
                                           /\ bookings'[a].slot # beat'.releases
      BY <1>1, <1>4, <1>5, <1>8, <1>9, <3>1 DEF Seated
    <3>6. \A s \in beat'.copy.booked : Accountable(s)'
      BY <1>4, <1>5, <1>8, <1>10, <3>1
    <3>7. SweepFits' BY <1>4, <3>1, <3>3, <3>4, <3>5, <3>6 DEF SweepFits
    <3> QED BY <3>2, <3>7
  <2> QED BY <1>1, <2>1, <2>2
<1>14. \A a, d \in Bookings : a # d /\ Seated(a)' /\ Seated(d)' =>
           bookings'[a].slot # bookings'[d].slot
  BY <1>1, <1>5, <1>9
<1>15. \A a \in Bookings : Seated(a)' => bookings'[a].slot \in grid'.booked
  BY <1>1, <1>4, <1>5, <1>6, <1>9
<1>16. \A s \in grid'.booked : RowKeeps(s)' BY <1>4, <1>5, <1>6, <1>10
<1>17. taught' = Cardinality(CompletedRows') BY <1>1, <1>5, <1>12
<1> QED BY <1>7, <1>11, <1>13, <1>14, <1>15, <1>16, <1>17, ThenQuiet

-----------------------------------------------------------------------------
(* Time.                                                                   *)

LEMMA TimeKeeps ==
    ASSUME BookingIInv, NEW b \in Bookings, GrowStale(b) \/ ComeDue(b) PROVE BookingIInv'
<1>1. /\ BookingTypeOK /\ NoDoubleBooking /\ HeldIsBooked /\ AllAsked /\ SlotsAccounted
      /\ TaughtOrDue /\ OneAtATime /\ JobsFit /\ RequestsApart /\ SweepFits
  BY BookingParts
<1>2. Exists(b) /\ UNCHANGED <<grid, taught, clerk, beat, crashes>> BY DEF GrowStale, ComeDue
<1>3. bookings[b] \in BookingRow BY <1>1, <1>2, RowTypes
<1>4. PICK row \in BookingRow :
        /\ bookings' = [bookings EXCEPT ![b] = row]
        /\ row.status = bookings[b].status /\ row.slot = bookings[b].slot
        /\ row.proposed = bookings[b].proposed /\ row.before = bookings[b].before
  <2>1. CASE GrowStale(b)
    <3>1. PICK new : new = [bookings[b] EXCEPT !.stale = TRUE] OBVIOUS
    <3>2. bookings' = [bookings EXCEPT ![b] = new] BY <2>1, <3>1 DEF GrowStale
    <3>3. /\ new \in BookingRow
          /\ new.status = bookings[b].status /\ new.slot = bookings[b].slot
          /\ new.proposed = bookings[b].proposed /\ new.before = bookings[b].before
      BY <1>3, <3>1 DEF BookingRow
    <3> QED BY <3>2, <3>3
  <2>2. CASE ComeDue(b)
    <3>1. PICK new : new = [bookings[b] EXCEPT !.scheduled = "past"] OBVIOUS
    <3>2. bookings' = [bookings EXCEPT ![b] = new] BY <2>2, <3>1 DEF ComeDue
    <3>3. /\ new \in BookingRow
          /\ new.status = bookings[b].status /\ new.slot = bookings[b].slot
          /\ new.proposed = bookings[b].proposed /\ new.before = bookings[b].before
      BY <1>3, <3>1 DEF BookingRow
    <3> QED BY <3>2, <3>3
  <2> QED BY <2>1, <2>2
<1>5. /\ bookings' \in [Bookings -> BookingRow \cup {Nil}] /\ bookings'[b] = row
      /\ \A a \in Bookings \ {b} : bookings'[a] = bookings[a]
  BY <1>1, <1>4 DEF BookingTypeOK
<1>6. row # Nil BY NilIsApart
<1>7. ASSUME NEW a \in Bookings
      PROVE  /\ Exists(a)' <=> Exists(a)
             /\ Exists(a) => /\ bookings'[a].status = bookings[a].status
                             /\ bookings'[a].slot = bookings[a].slot
                             /\ bookings'[a].proposed = bookings[a].proposed
                             /\ bookings'[a].before = bookings[a].before
  <2>1. CASE a = b BY <1>2, <1>4, <1>5, <1>6, <2>1 DEF Exists
  <2>2. CASE a # b
    <3>1. bookings'[a] = bookings[a] BY <1>5, <2>2
    <3> QED BY <3>1 DEF Exists
  <2> QED BY <2>1, <2>2
<1>8. \A a \in Bookings : Reslotting(a)' <=> Reslotting(a) BY <1>2 DEF Reslotting
<1>9. \A a \in Bookings : Holds(a)' <=> Holds(a) BY <1>7, <1>8 DEF Holds
<1>10. \A a \in Bookings : Holds(a) => bookings'[a].slot = bookings[a].slot BY <1>7 DEF Holds
<1>11. ASSUME NEW s, Accountable(s) PROVE Accountable(s)'
  BY <1>2, <1>7, <1>8, <1>11 DEF Accountable
<1>12. BookingTypeOK' BY <1>1, <1>2, <1>5 DEF BookingTypeOK
<1>13. NoDoubleBooking' BY <1>1, <1>9, <1>10 DEF NoDoubleBooking
<1>14. HeldIsBooked' BY <1>1, <1>2, <1>9, <1>10 DEF HeldIsBooked
<1>15. AllAsked' BY <1>1, <1>7 DEF AllAsked
<1>16. SlotsAccounted' BY <1>1, <1>2, <1>11 DEF SlotsAccounted
<1>17. CompletedRows' = CompletedRows BY <1>7 DEF CompletedRows
<1>18. TaughtOrDue' BY <1>1, <1>2, <1>17 DEF TaughtOrDue
<1>19. OneAtATime' BY <1>1, <1>2 DEF OneAtATime
<1>20. ASSUME NEW j, JobFits(j) PROVE JobFits(j)'
  <2>1. \A s, id : FreeOfOthers(s, id)' <=> FreeOfOthers(s, id) BY <1>9, <1>10 DEF FreeOfOthers
  <2>2. j.op \notin {"book", "open"} =>
          /\ j.id \in Bookings /\ Exists(j.id)
          /\ bookings'[j.id].status = bookings[j.id].status
          /\ bookings'[j.id].slot = bookings[j.id].slot
          /\ bookings'[j.id].proposed = bookings[j.id].proposed
    BY <1>7, <1>20 DEF JobFits
  <2>3. j.op = "book" => j.id \in Bookings BY <1>20 DEF JobFits
  <2>4. Releasing \cap {"book", "open"} = {} BY DEF Releasing
  <2> QED BY <1>2, <1>7, <1>20, <2>1, <2>2, <2>3, <2>4 DEF JobFits
<1>21. JobsFit' BY <1>1, <1>2, <1>20 DEF JobsFit
<1>22. RequestsApart' BY <1>1, <1>2 DEF RequestsApart
<1>23. SweepFits'
  <2>1. beat.todo \subseteq Bookings BY <1>1 DEF BookingTypeOK
  <2>2. (beat.op # Nil => \A a \in beat.todo : Exists(a))' BY <1>1, <1>2, <1>7, <2>1 DEF SweepFits
  <2>3. beat.op = "autodecline" =>
          /\ \A a \in Bookings : Holds(a)' => /\ bookings'[a].slot \in beat'.copy.booked
                                              /\ bookings'[a].slot # beat'.releases
          /\ \A s \in beat'.copy.booked : Accountable(s)'
    BY <1>1, <1>2, <1>9, <1>10, <1>11 DEF SweepFits
  <2>4. "autodecline" # Nil /\ "lapse" # Nil BY NoSweepFits
  <2>5. beat.op # Nil => \A a \in beat.todo : /\ bookings'[a].status = bookings[a].status
                                              /\ bookings'[a].slot = bookings[a].slot
    BY <1>1, <1>7, <2>1 DEF SweepFits
  <2> QED BY <1>1, <1>2, <2>2, <2>3, <2>4, <2>5 DEF SweepFits
<1> QED BY <1>12, <1>13, <1>14, <1>15, <1>16, <1>18, <1>19, <1>21, <1>22, <1>23 DEF BookingIInv

-----------------------------------------------------------------------------
(* What may overlap.                                                       *)

LEMMA GentleFacts ==
    ASSUME BookingIInv, beat.op = Nil, \A d \in Clerks : clerk[d].op \in Gentle \cup {Nil}
    PROVE  /\ taught = Cardinality(CompletedRows)
           /\ \A d \in Clerks : clerk[d].op \in {"book", "accept", "refuse"} => JobFits(clerk[d])
           /\ \A s : Accountable(s) <=>
                \/ \E b \in Bookings : /\ Exists(b) /\ bookings[b].slot = s /\ ~Reslotting(b)
                                       /\ bookings[b].status \in Standing \cup {"lapsed", "auto_declined"}
                \/ \E d \in Clerks : /\ clerk[d].op = "accept" /\ clerk[d].done = "saved"
                                     /\ clerk[d].row.proposed = s
<1>1. TaughtOrDue /\ JobsFit BY BookingParts
<1>2. \A d \in Clerks : clerk[d].op \notin Releasing /\ clerk[d].op \notin {"complete", "mark", "noshow"}
  BY NilIsApart DEF Ops, Releasing, Gentle
<1>3. Nil \notin {"book", "accept", "refuse"} BY NilIsApart DEF Ops, Gentle
<1>4. taught = Cardinality(CompletedRows) BY <1>1, <1>2 DEF TaughtOrDue
<1>5. \A d \in Clerks : clerk[d].op \in {"book", "accept", "refuse"} => JobFits(clerk[d])
  BY <1>1, <1>3 DEF JobsFit
<1> QED BY <1>2, <1>4, <1>5 DEF Accountable

LEMMA GentleOnly ==
    ASSUME BookingIInv, NEW c \in Clerks, clerk[c].op \in Gentle
    PROVE  beat.op = Nil /\ \A d \in Clerks : clerk[d].op \in Gentle \cup {Nil}
<1>1. OneAtATime BY BookingParts
<1>2. clerk[c].op # Nil BY NilIsNoOp
<1> QED BY <1>1, <1>2 DEF OneAtATime

LEMMA ThenGentle ==
    ASSUME BookingIInv, beat.op = Nil, UNCHANGED beat,
           \A d \in Clerks : clerk'[d].op \in Gentle \cup {Nil},
           BookingTypeOK', NoDoubleBooking', HeldIsBooked', AllAsked', SlotsAccounted', RequestsApart',
           taught' = Cardinality(CompletedRows'),
           \A d \in Clerks : clerk'[d].op \in Gentle => JobFits(clerk[d])'
    PROVE  BookingIInv'
<1>1. SweepFits BY BookingParts
<1>2. SweepFits' BY <1>1, NoSweepFits DEF SweepFits
<1>3. OneAtATime' BY DEF OneAtATime
<1>4. JobsFit' BY DEF JobsFit
<1>5. TaughtOrDue' BY DEF TaughtOrDue
<1> QED BY <1>2, <1>3, <1>4, <1>5 DEF BookingIInv

(* A request is turned down, or finds its slot taken.                      *)
LEMMA DropsKeeps ==
    ASSUME BookingIInv, NEW c \in Clerks, clerk[c].op \in {"book", "accept"},
           clerk[c].op = "accept" => clerk[c].done # "saved", Finished(c),
           UNCHANGED <<bookings, grid, taught, beat, crashes>>
    PROVE  BookingIInv'
<1>1. /\ BookingTypeOK /\ NoDoubleBooking /\ HeldIsBooked /\ AllAsked /\ SlotsAccounted /\ RequestsApart
  BY BookingParts
<1>2. beat.op = Nil /\ \A d \in Clerks : clerk[d].op \in Gentle \cup {Nil}
  BY GentleOnly DEF Gentle
<1>3. /\ taught = Cardinality(CompletedRows)
      /\ \A d \in Clerks : clerk[d].op \in {"book", "accept", "refuse"} => JobFits(clerk[d])
  BY <1>2, GentleFacts
<1>4. /\ clerk'[c] = ClerkIdle /\ \A d \in Clerks \ {c} : clerk'[d] = clerk[d]
      /\ clerk' \in [Clerks -> ClerkJob \cup {ClerkIdle}] /\ ClerkIdle.op = Nil
  BY <1>1 DEF Finished, BookingTypeOK, ClerkIdle
<1>5. Nil # "accept" /\ Nil # "book" /\ Nil \notin Releasing /\ Nil \notin Gentle
      /\ clerk[c].op \notin Releasing
  BY NilIsApart DEF Ops, Releasing, Gentle
<1>6. \A b \in Bookings : Reslotting(b)' <=> Reslotting(b) BY <1>4, <1>5 DEF Reslotting
<1>7. \A b \in Bookings : /\ Holds(b)' <=> Holds(b)
                          /\ Exists(b)' <=> Exists(b)
  BY <1>6 DEF Holds, Exists
<1>8. ASSUME NEW s, Accountable(s) PROVE Accountable(s)'
  BY <1>4, <1>5, <1>6, <1>7, <1>8 DEF Accountable
<1>9. \A d \in Clerks : clerk'[d].op \in Gentle \cup {Nil} BY <1>2, <1>4
<1>10. BookingTypeOK' BY <1>1, <1>4 DEF BookingTypeOK
<1>11. NoDoubleBooking' /\ HeldIsBooked' BY <1>1, <1>7 DEF NoDoubleBooking, HeldIsBooked
<1>12. AllAsked' BY <1>1, <1>7 DEF AllAsked
<1>13. SlotsAccounted' BY <1>1, <1>8 DEF SlotsAccounted
<1>14. CompletedRows' = CompletedRows BY <1>7 DEF CompletedRows
<1>15. RequestsApart' BY <1>1, <1>4, <1>5 DEF RequestsApart
<1>16. ASSUME NEW d \in Clerks, clerk'[d].op \in Gentle PROVE JobFits(clerk[d])'
  <2>1. d # c /\ clerk'[d] = clerk[d] BY <1>4, <1>5, <1>16
  <2>2. JobFits(clerk[d]) BY <1>3, <1>16, <2>1 DEF Gentle
  <2>3. clerk[d].id \in Bookings /\ clerk[d].op \notin Releasing
        /\ clerk[d].op \notin {"confirm", "propose", "join", "open"}
    BY <1>16, <2>1, <2>2 DEF JobFits, Gentle, Releasing
  <2>4. \A s, id : FreeOfOthers(s, id)' <=> FreeOfOthers(s, id) BY <1>7 DEF FreeOfOthers
  <2> QED BY <1>7, <2>1, <2>2, <2>3, <2>4 DEF JobFits
<1> QED BY <1>2, <1>3, <1>9, <1>10, <1>11, <1>12, <1>13, <1>14, <1>15, <1>16, ThenGentle

(* A session is booked.                                                    *)
LEMMA RowAppears ==
    ASSUME BookingIInv, NEW b \in Bookings, ~Exists(b), beat.op = Nil,
           \A d \in Clerks : clerk[d].op \in Gentle \cup {Nil},
           NEW row \in BookingRow, row.status = "requested", row.proposed = Nil, row.before = Nil,
           bookings' = [bookings EXCEPT ![b] = row], UNCHANGED <<taught, beat, crashes>>,
           grid' \in Grid, grid'.booked = grid.booked \cup ({row.slot} \ {Nil}),
           row.slot \notin grid.booked,
           clerk' \in [Clerks -> ClerkJob \cup {ClerkIdle}],
           \A d \in Clerks : \/ clerk'[d] = clerk[d]
                             \/ clerk'[d] = ClerkIdle /\ clerk[d].op = "book",
           \A d \in Clerks : clerk'[d].op = "book" => clerk'[d].id # b
    PROVE  BookingIInv'
<1>1. /\ BookingTypeOK /\ NoDoubleBooking /\ HeldIsBooked /\ AllAsked /\ SlotsAccounted /\ RequestsApart
  BY BookingParts
<1>2. /\ taught = Cardinality(CompletedRows)
      /\ \A d \in Clerks : clerk[d].op \in {"book", "accept", "refuse"} => JobFits(clerk[d])
  BY GentleFacts
<1>3. ClerkIdle.op = Nil /\ Nil \notin Gentle /\ Nil # "accept" /\ Nil # "book"
  BY NilIsApart DEF ClerkIdle, Gentle, Ops
<1>4. /\ bookings' \in [Bookings -> BookingRow \cup {Nil}] /\ bookings'[b] = row
      /\ \A a \in Bookings \ {b} : bookings'[a] = bookings[a]
  BY <1>1 DEF BookingTypeOK
<1>5. row # Nil /\ Exists(b)' BY <1>4, NilIsApart DEF Exists
<1>6. \A a \in Bookings : /\ Exists(a) => a # b
                          /\ Exists(a)' <=> Exists(a) \/ a = b
  BY <1>4, <1>5 DEF Exists
<1>7. \A d \in Clerks : clerk[d].op = "accept" => clerk'[d] = clerk[d] BY <1>3
<1>8. \A a \in Bookings : Reslotting(a)' <=> Reslotting(a) BY <1>3, <1>7 DEF Reslotting
<1>9. ~Reslotting(b)
  <2>1. \A d \in Clerks : clerk[d].op = "accept" => Exists(clerk[d].id) BY <1>2 DEF JobFits
  <2> QED BY <2>1 DEF Reslotting
<1>10. \A a \in Bookings \ {b} : Holds(a)' <=> Holds(a) BY <1>4, <1>8 DEF Holds, Exists
<1>11. Holds(b)' <=> row.slot # Nil BY <1>4, <1>5, <1>8, <1>9 DEF Holds, Standing
<1>12. ~Holds(b) BY DEF Holds
<1>13. \A a \in Bookings : Holds(a) => bookings[a].slot \in grid.booked BY <1>1 DEF HeldIsBooked
<1>14. NoDoubleBooking'
  <2> SUFFICES ASSUME NEW a \in Bookings, NEW d \in Bookings, a # d, Holds(a)', Holds(d)'
               PROVE  bookings'[a].slot # bookings'[d].slot
    BY DEF NoDoubleBooking
  <2>1. CASE a = b
    <3>1. Holds(d) /\ bookings'[d] = bookings[d] BY <1>4, <1>10, <2>1
    <3> QED BY <1>4, <1>13, <2>1, <3>1
  <2>2. CASE d = b
    <3>1. Holds(a) /\ bookings'[a] = bookings[a] BY <1>4, <1>10, <2>2
    <3> QED BY <1>4, <1>13, <2>2, <3>1
  <2>3. CASE a # b /\ d # b
    <3>1. Holds(a) /\ Holds(d) /\ bookings'[a] = bookings[a] /\ bookings'[d] = bookings[d]
      BY <1>4, <1>10, <2>3
    <3> QED BY <1>1, <3>1 DEF NoDoubleBooking
  <2> QED BY <2>1, <2>2, <2>3
<1>15. HeldIsBooked'
  <2> SUFFICES ASSUME NEW a \in Bookings, Holds(a)' PROVE bookings'[a].slot \in grid'.booked
    BY DEF HeldIsBooked
  <2>1. CASE a = b BY <1>4, <1>11, <2>1
  <2>2. CASE a # b BY <1>4, <1>10, <1>13, <2>2
  <2> QED BY <2>1, <2>2
<1>16. AllAsked'
  <2>1. ASSUME NEW a \in Bookings, Exists(a)'
        PROVE  /\ (bookings'[a].proposed # Nil) <=> (bookings'[a].status = "needs_reconfirmation")
               /\ (bookings'[a].before # Nil) <=> (bookings'[a].status = "needs_reconfirmation")
               /\ bookings'[a].proposed # Nil => bookings'[a].proposed # bookings'[a].slot
    <3>1. CASE a = b BY <1>4, <3>1
    <3>2. CASE a # b
      <4>1. bookings'[a] = bookings[a] /\ Exists(a) BY <1>4, <1>6, <2>1, <3>2
      <4> QED BY <1>1, <4>1 DEF AllAsked
    <3> QED BY <3>1, <3>2
  <2> QED BY <2>1 DEF AllAsked
<1>17. ASSUME NEW s \in grid'.booked PROVE Accountable(s)'
  <2>1. CASE s = row.slot
    <3>1. /\ Exists(b)' /\ bookings'[b].slot = s /\ ~Reslotting(b)'
          /\ bookings'[b].status \in Standing \cup {"lapsed", "auto_declined"}
      BY <1>4, <1>5, <1>8, <1>9, <2>1 DEF Standing
    <3> QED BY <3>1 DEF Accountable
  <2>2. CASE s # row.slot
    <3>1. Accountable(s) BY <1>1, <2>2 DEF SlotsAccounted
    <3>2. CASE \E a \in Bookings :
                 /\ Exists(a) /\ bookings[a].slot = s /\ ~Reslotting(a)
                 /\ bookings[a].status \in Standing \cup {"lapsed", "auto_declined"}
      <4>1. PICK a \in Bookings :
              /\ Exists(a) /\ bookings[a].slot = s /\ ~Reslotting(a)
              /\ bookings[a].status \in Standing \cup {"lapsed", "auto_declined"}
        BY <3>2
      <4>2. bookings'[a] = bookings[a] /\ Exists(a)' /\ ~Reslotting(a)'
        BY <1>4, <1>6, <1>8, <4>1
      <4> QED BY <4>1, <4>2 DEF Accountable
    <3>3. CASE \E d \in Clerks : /\ clerk[d].op = "accept" /\ clerk[d].done = "saved"
                                 /\ clerk[d].row.proposed = s
      BY <1>7, <3>3 DEF Accountable
    <3> QED BY <3>1, <3>2, <3>3, GentleFacts
  <2> QED BY <2>1, <2>2
<1>18. SlotsAccounted' BY <1>17 DEF SlotsAccounted
<1>19. CompletedRows' = CompletedRows
  <2>1. ASSUME NEW a \in Bookings
        PROVE  Exists(a)' /\ bookings'[a].status = "completed" <=>
               Exists(a) /\ bookings[a].status = "completed"
    <3>1. CASE a = b BY <1>4, <3>1
    <3>2. CASE a # b BY <1>4, <1>6, <3>2
    <3> QED BY <3>1, <3>2
  <2> QED BY <2>1 DEF CompletedRows
<1>20. RequestsApart' BY <1>1, <1>3 DEF RequestsApart
<1>21. BookingTypeOK' BY <1>1, <1>4 DEF BookingTypeOK
<1>22. \A d \in Clerks : clerk'[d].op \in Gentle \cup {Nil} BY <1>3
<1>23. ASSUME NEW d \in Clerks, clerk'[d].op \in Gentle PROVE JobFits(clerk[d])'
  <2>1. clerk'[d] = clerk[d] BY <1>3, <1>23
  <2>2. JobFits(clerk[d]) /\ clerk[d].op \in {"book", "accept", "refuse"}
    BY <1>2, <1>23, <2>1 DEF Gentle
  <2>3. clerk[d].id \in Bookings /\ clerk[d].op \notin Releasing
        /\ clerk[d].op \notin {"confirm", "propose", "join", "open"}
    BY <2>2 DEF JobFits, Releasing
  <2>4. CASE clerk[d].op = "book"
    <3>1. clerk[d].id # b /\ ~Exists(clerk[d].id) /\ clerk[d].slot \in GridSlots
      BY <2>1, <2>2, <2>4 DEF JobFits
    <3>2. ~Exists(clerk[d].id)' BY <1>6, <2>1, <2>3, <3>1
    <3> QED BY <2>1, <2>3, <2>4, <3>1, <3>2 DEF JobFits
  <2>5. CASE clerk[d].op # "book"
    <3>1. Exists(clerk[d].id) BY <2>2, <2>5 DEF JobFits
    <3>2. clerk[d].id # b /\ bookings'[clerk[d].id] = bookings[clerk[d].id] /\ Exists(clerk[d].id)'
      BY <1>4, <1>6, <2>1, <2>3, <3>1
    <3>3. ASSUME clerk[d].op = "accept", clerk[d].done = "saved"
          PROVE  /\ clerk[d].row.proposed \in grid'.booked
                 /\ FreeOfOthers(clerk[d].row.proposed, clerk[d].id)'
      <4>1. /\ clerk[d].row.proposed \in grid.booked
            /\ FreeOfOthers(clerk[d].row.proposed, clerk[d].id)
        BY <2>2, <3>3 DEF JobFits
      <4>2. ASSUME NEW a \in Bookings \ {clerk[d].id}, Holds(a)'
            PROVE  bookings'[a].slot # clerk[d].row.proposed
        <5>1. CASE a = b BY <1>4, <4>1, <5>1
        <5>2. CASE a # b BY <1>4, <1>10, <4>1, <4>2, <5>2 DEF FreeOfOthers
        <5> QED BY <5>1, <5>2
      <4>3. FreeOfOthers(clerk[d].row.proposed, clerk[d].id)' BY <2>1, <4>2 DEF FreeOfOthers
      <4> QED BY <4>1, <4>3
    <3> QED BY <2>1, <2>2, <2>3, <2>5, <3>2, <3>3 DEF JobFits
  <2> QED BY <2>4, <2>5
<1> QED BY <1>2, <1>14, <1>15, <1>16, <1>18, <1>19, <1>20, <1>21, <1>22, <1>23, ThenGentle

LEMMA NewRowType ==
    ASSUME NEW slot \in SlotOrNone, NEW when \in {"none", "ahead"}
    PROVE  /\ NewRow(slot, when) \in BookingRow /\ NewRow(slot, when).status = "requested"
           /\ NewRow(slot, when).slot = slot
           /\ NewRow(slot, when).proposed = Nil /\ NewRow(slot, when).before = Nil
BY DEF NewRow, BookingRow, BookingStatuses, SlotOrNone

LEMMA BookKeeps == ASSUME BookingIInv, NEW c \in Clerks, Book(c) PROVE BookingIInv'
<1>1. clerk[c].op = "book" /\ Finished(c) /\ UNCHANGED <<taught, beat, crashes>> BY DEF Book
<1>2. beat.op = Nil /\ \A d \in Clerks : clerk[d].op \in Gentle \cup {Nil}
  BY <1>1, GentleOnly DEF Gentle
<1>3. JobFits(clerk[c]) BY <1>1, <1>2, GentleFacts
<1>4. BookingTypeOK /\ RequestsApart BY BookingParts
<1>5. PICK b \in Bookings, s \in GridSlots : b = clerk[c].id /\ s = clerk[c].slot /\ ~Exists(b)
  BY <1>1, <1>3 DEF JobFits
<1>6. CASE slot_is_open(grid, s)
  <2>1. bookings' = [bookings EXCEPT ![b] = NewRow(s, "ahead")] /\ grid' = mark_slot_booked(grid, s)
    BY <1>5, <1>6 DEF Book
  <2>2. s \in SlotOrNone /\ s # Nil BY NilIsNoStatus DEF SlotOrNone
  <2>3. PICK row \in BookingRow :
          /\ row = NewRow(s, "ahead") /\ row.status = "requested" /\ row.slot = s
          /\ row.proposed = Nil /\ row.before = Nil
    BY <2>2, NewRowType
  <2>4. grid \in Grid BY <1>4 DEF BookingTypeOK
  <2>5. grid' \in Grid /\ grid'.booked = grid.booked \cup ({row.slot} \ {Nil})
    BY <2>1, <2>2, <2>3, <2>4, GridTypes
  <2>6. row.slot \notin grid.booked BY <1>6, <2>3 DEF slot_is_open
  <2>7. /\ clerk'[c] = ClerkIdle /\ \A d \in Clerks \ {c} : clerk'[d] = clerk[d]
        /\ clerk' \in [Clerks -> ClerkJob \cup {ClerkIdle}] /\ ClerkIdle.op # "book"
    BY <1>1, <1>4, NilIsApart DEF Finished, BookingTypeOK, ClerkIdle, Ops
  <2>8. \A d \in Clerks : clerk'[d].op = "book" => clerk'[d].id # b
    BY <1>1, <1>4, <1>5, <2>7 DEF RequestsApart
  <2>9. ASSUME NEW d \in Clerks
        PROVE  clerk'[d] = clerk[d] \/ (clerk'[d] = ClerkIdle /\ clerk[d].op = "book")
    <3>1. CASE d = c BY <1>1, <2>7, <3>1
    <3>2. CASE d # c BY <2>7, <3>2
    <3> QED BY <3>1, <3>2
  <2>10. bookings' = [bookings EXCEPT ![b] = row] BY <2>1, <2>3
  <2> QED BY <1>1, <1>2, <1>5, <2>3, <2>5, <2>6, <2>7, <2>8, <2>9, <2>10, RowAppears
<1>7. CASE ~slot_is_open(grid, s)
  <2>1. UNCHANGED <<bookings, grid>> BY <1>5, <1>7 DEF Book
  <2>2. clerk[c].op # "accept" BY <1>1
  <2> QED BY <1>1, <2>1, <2>2, DropsKeeps
<1> QED BY <1>6, <1>7

LEMMA SessionRequestKeeps ==
    ASSUME BookingIInv, Careful, NEW b \in Bookings, SessionRequest(b) PROVE BookingIInv'
<1>1. /\ ~Exists(b) /\ MayStart("book") /\ \A c \in Clerks : clerk[c].op = "book" => clerk[c].id # b
      /\ UNCHANGED <<grid, taught, clerk, beat, crashes>>
  BY DEF SessionRequest
<1>2. PICK when \in {"none", "ahead"} : bookings' = [bookings EXCEPT ![b] = NewRow(Nil, when)]
  BY DEF SessionRequest
<1>3. BookingTypeOK BY BookingParts
<1>4. "book" # Nil BY NilIsApart DEF Ops
<1>5. beat.op = Nil /\ \A d \in Clerks : clerk[d].op \in Gentle \cup {Nil}
  BY <1>1, <1>3, <1>4, Alongside, SweepIsNotGentle
<1>6. Nil \in SlotOrNone BY DEF SlotOrNone
<1>7. PICK row \in BookingRow :
        /\ row = NewRow(Nil, when) /\ row.status = "requested" /\ row.slot = Nil
        /\ row.proposed = Nil /\ row.before = Nil
  BY <1>6, NewRowType
<1>8. grid \in Grid BY <1>3 DEF BookingTypeOK
<1>9. grid.booked \subseteq GridSlots BY <1>8, GridTypes
<1>10. grid' \in Grid /\ grid'.booked = grid.booked \cup ({row.slot} \ {Nil})
  BY <1>1, <1>7, <1>8
<1>11. row.slot \notin grid.booked BY <1>7, <1>9, NilIsNoStatus
<1>12. clerk' \in [Clerks -> ClerkJob \cup {ClerkIdle}] BY <1>1, <1>3 DEF BookingTypeOK
<1> QED BY <1>1, <1>2, <1>5, <1>7, <1>10, <1>11, <1>12, RowAppears

(* A session that stands goes on standing.                                 *)
LEMMA RowMoves ==
    ASSUME BookingTypeOK, AllAsked, NEW id \in Bookings, Exists(id), NEW row \in BookingRow,
           bookings' = [bookings EXCEPT ![id] = row],
           bookings[id].status \in Standing, row.status \in {"requested", "confirmed"},
           row.proposed = Nil, row.before = Nil
    PROVE  /\ bookings' \in [Bookings -> BookingRow \cup {Nil}] /\ bookings'[id] = row
           /\ \A a \in Bookings \ {id} : bookings'[a] = bookings[a]
           /\ \A a \in Bookings : Exists(a)' <=> Exists(a)
           /\ AllAsked' /\ CompletedRows' = CompletedRows
<1>1. /\ bookings' \in [Bookings -> BookingRow \cup {Nil}] /\ bookings'[id] = row
      /\ \A a \in Bookings \ {id} : bookings'[a] = bookings[a]
  BY DEF BookingTypeOK
<1>2. row # Nil /\ bookings[id].status # "completed" BY NilIsApart DEF Standing
<1>3. ASSUME NEW a \in Bookings PROVE Exists(a)' <=> Exists(a)
  <2>1. CASE a = id BY <1>1, <1>2, <2>1 DEF Exists
  <2>2. CASE a # id
    <3>1. bookings'[a] = bookings[a] BY <1>1, <2>2
    <3> QED BY <3>1 DEF Exists
  <2> QED BY <2>1, <2>2
<1>4. AllAsked'
  <2>1. ASSUME NEW a \in Bookings, Exists(a)'
        PROVE  /\ (bookings'[a].proposed # Nil) <=> (bookings'[a].status = "needs_reconfirmation")
               /\ (bookings'[a].before # Nil) <=> (bookings'[a].status = "needs_reconfirmation")
               /\ bookings'[a].proposed # Nil => bookings'[a].proposed # bookings'[a].slot
    <3>1. CASE a = id BY <1>1, <3>1
    <3>2. CASE a # id
      <4>1. bookings'[a] = bookings[a] /\ Exists(a) BY <1>1, <1>3, <2>1, <3>2
      <4> QED BY <4>1 DEF AllAsked
    <3> QED BY <3>1, <3>2
  <2> QED BY <2>1 DEF AllAsked
<1>5. CompletedRows' = CompletedRows
  <2>1. ASSUME NEW a \in Bookings
        PROVE  Exists(a)' /\ bookings'[a].status = "completed" <=>
               Exists(a) /\ bookings[a].status = "completed"
    <3>1. CASE a = id BY <1>1, <1>2, <3>1
    <3>2. CASE a # id
      <4>1. bookings'[a] = bookings[a] BY <1>1, <3>2
      <4> QED BY <1>3, <4>1
    <3> QED BY <3>1, <3>2
  <2> QED BY <2>1 DEF CompletedRows
<1> QED BY <1>1, <1>3, <1>4, <1>5

LEMMA RefuseKeeps == ASSUME BookingIInv, NEW c \in Clerks, Refuse(c) PROVE BookingIInv'
<1>0. PICK id : id = clerk[c].id OBVIOUS
<1>1. /\ clerk[c].op = "refuse" /\ Finished(c) /\ UNCHANGED <<grid, taught, beat, crashes>>
      /\ bookings' = [bookings EXCEPT ![id] =
                        [bookings[id] EXCEPT !.status = Back(c), !.proposed = Nil, !.before = Nil]]
  BY <1>0 DEF Refuse, SaveSkill
<1>2. /\ BookingTypeOK /\ NoDoubleBooking /\ HeldIsBooked /\ AllAsked /\ SlotsAccounted /\ RequestsApart
  BY BookingParts
<1>3. beat.op = Nil /\ \A d \in Clerks : clerk[d].op \in Gentle \cup {Nil}
  BY <1>1, GentleOnly DEF Gentle
<1>4. /\ taught = Cardinality(CompletedRows)
      /\ \A d \in Clerks : clerk[d].op \in {"book", "accept", "refuse"} => JobFits(clerk[d])
  BY <1>3, GentleFacts
<1>5. /\ id \in Bookings /\ Exists(id) /\ clerk[c].row \in BookingRow
      /\ bookings[id].status \in Standing
  BY <1>0, <1>1, <1>4 DEF JobFits
<1>6. Back(c) \in {"requested", "confirmed"} BY <1>5 DEF Back, BookingRow
<1>7. bookings[id] \in BookingRow BY <1>2, <1>5, RowTypes
<1>8. PICK back : back = Back(c) OBVIOUS
<1>9. PICK row : row = [bookings[id] EXCEPT !.status = back, !.proposed = Nil, !.before = Nil]
  OBVIOUS
<1>10. /\ row \in BookingRow /\ row.status = back /\ row.slot = bookings[id].slot
       /\ row.proposed = Nil /\ row.before = Nil
  BY <1>6, <1>7, <1>8, <1>9 DEF BookingRow, BookingStatuses, SlotOrNone
<1>11. bookings' = [bookings EXCEPT ![id] = row] BY <1>1, <1>8, <1>9
<1>12. /\ bookings' \in [Bookings -> BookingRow \cup {Nil}] /\ bookings'[id] = row
       /\ \A a \in Bookings \ {id} : bookings'[a] = bookings[a]
       /\ \A a \in Bookings : Exists(a)' <=> Exists(a)
       /\ AllAsked' /\ CompletedRows' = CompletedRows
  BY <1>2, <1>5, <1>6, <1>8, <1>10, <1>11, RowMoves
<1>13. /\ clerk'[c] = ClerkIdle /\ \A d \in Clerks \ {c} : clerk'[d] = clerk[d]
       /\ clerk' \in [Clerks -> ClerkJob \cup {ClerkIdle}] /\ ClerkIdle.op = Nil
  BY <1>1, <1>2 DEF Finished, BookingTypeOK, ClerkIdle
<1>14. Nil # "accept" /\ Nil # "book" /\ Nil \notin Releasing /\ Nil \notin Gentle
  BY NilIsApart DEF Ops, Releasing, Gentle
<1>15. \A a \in Bookings : Reslotting(a)' <=> Reslotting(a) BY <1>1, <1>13, <1>14 DEF Reslotting
<1>16. ASSUME NEW a \in Bookings
       PROVE  /\ Exists(a) => bookings'[a].slot = bookings[a].slot
              /\ Exists(a) => (bookings[a].status \in Standing <=> bookings'[a].status \in Standing)
              /\ Exists(a) /\ bookings'[a].status = "needs_reconfirmation" =>
                     bookings'[a] = bookings[a]
  <2>1. CASE a = id BY <1>5, <1>6, <1>8, <1>10, <1>12, <2>1 DEF Standing
  <2>2. CASE a # id
    <3>1. bookings'[a] = bookings[a] BY <1>12, <2>2
    <3> QED BY <3>1
  <2> QED BY <2>1, <2>2
<1>17. \A a \in Bookings : Holds(a)' <=> Holds(a) BY <1>12, <1>15, <1>16 DEF Holds
<1>18. \A a \in Bookings : Holds(a) => bookings'[a].slot = bookings[a].slot BY <1>16 DEF Holds
<1>19. NoDoubleBooking' BY <1>2, <1>17, <1>18 DEF NoDoubleBooking
<1>20. HeldIsBooked' BY <1>1, <1>2, <1>17, <1>18 DEF HeldIsBooked
<1>21. ASSUME NEW s \in grid'.booked PROVE Accountable(s)'
  <2>1. Accountable(s) BY <1>1, <1>2 DEF SlotsAccounted
  <2>2. CASE \E a \in Bookings :
               /\ Exists(a) /\ bookings[a].slot = s /\ ~Reslotting(a)
               /\ bookings[a].status \in Standing \cup {"lapsed", "auto_declined"}
    <3>1. PICK a \in Bookings :
            /\ Exists(a) /\ bookings[a].slot = s /\ ~Reslotting(a)
            /\ bookings[a].status \in Standing \cup {"lapsed", "auto_declined"}
      BY <2>2
    <3>2. bookings'[a].status \in Standing \cup {"lapsed", "auto_declined"}
      <4>1. CASE a = id BY <1>5, <1>16, <4>1
      <4>2. CASE a # id BY <1>12, <3>1, <4>2
      <4> QED BY <4>1, <4>2
    <3>3. Exists(a)' /\ bookings'[a].slot = s /\ ~Reslotting(a)' BY <1>12, <1>15, <1>16, <3>1
    <3> QED BY <3>2, <3>3 DEF Accountable
  <2>3. CASE \E d \in Clerks : /\ clerk[d].op = "accept" /\ clerk[d].done = "saved"
                               /\ clerk[d].row.proposed = s
    BY <1>1, <1>13, <2>3 DEF Accountable
  <2> QED BY <1>3, <2>1, <2>2, <2>3, GentleFacts
<1>22. SlotsAccounted' BY <1>21 DEF SlotsAccounted
<1>23. RequestsApart' BY <1>2, <1>13, <1>14 DEF RequestsApart
<1>24. BookingTypeOK' BY <1>1, <1>2, <1>12, <1>13 DEF BookingTypeOK
<1>25. \A d \in Clerks : clerk'[d].op \in Gentle \cup {Nil} BY <1>3, <1>13
<1>26. ASSUME NEW d \in Clerks, clerk'[d].op \in Gentle PROVE JobFits(clerk[d])'
  <2>1. d # c /\ clerk'[d] = clerk[d] BY <1>13, <1>14, <1>26
  <2>2. JobFits(clerk[d]) /\ clerk[d].op \in {"book", "accept", "refuse"}
    BY <1>4, <1>26, <2>1 DEF Gentle
  <2>3. clerk[d].id \in Bookings /\ clerk[d].op \notin Releasing
        /\ clerk[d].op \notin {"confirm", "propose", "join", "open"}
    BY <2>2 DEF JobFits, Releasing
  <2>4. \A s, a : FreeOfOthers(s, a)' <=> FreeOfOthers(s, a) BY <1>17, <1>18 DEF FreeOfOthers
  <2>5. CASE clerk[d].op = "book"
    <3>1. ~Exists(clerk[d].id) /\ clerk[d].slot \in GridSlots BY <2>2, <2>5 DEF JobFits
    <3>2. ~Exists(clerk[d].id)' BY <1>12, <2>1, <2>3, <3>1
    <3> QED BY <2>1, <2>3, <2>5, <3>1, <3>2 DEF JobFits
  <2>6. CASE clerk[d].op # "book"
    <3>1. Exists(clerk[d].id) BY <2>2, <2>6 DEF JobFits
    <3>2. PICK k \in Bookings : k = clerk[d].id BY <2>3
    <3>3. Exists(k) /\ Exists(k)' BY <1>12, <3>1, <3>2
    <3>4. /\ bookings'[k].slot = bookings[k].slot
          /\ (bookings[k].status \in Standing <=> bookings'[k].status \in Standing)
          /\ bookings'[k].status = "needs_reconfirmation" => bookings'[k] = bookings[k]
      BY <1>16, <3>3
    <3>5. clerk'[d].id = k BY <2>1, <3>2
    <3> QED BY <1>1, <2>1, <2>2, <2>3, <2>4, <2>6, <3>2, <3>3, <3>4, <3>5 DEF JobFits
  <2> QED BY <2>5, <2>6
<1>27. taught' = Cardinality(CompletedRows') BY <1>1, <1>4, <1>12
<1> QED BY <1>1, <1>3, <1>12, <1>19, <1>20, <1>22, <1>23, <1>24, <1>25, <1>26, <1>27, ThenGentle

(* What is known of an acceptance whose grid is not written yet.           *)
LEMMA AcceptReads ==
    ASSUME BookingIInv, NEW c \in Clerks, clerk[c].op = "accept", clerk[c].done = "read",
           clerk[c].row.proposed \notin grid.booked
    PROVE  /\ ~Reslotting(clerk[c].id) /\ bookings[clerk[c].id].slot = clerk[c].row.slot
<1>1. NoDoubleBooking /\ HeldIsBooked /\ RequestsApart BY BookingParts
<1>2. \A d \in Clerks : clerk[d].op = "accept" => JobFits(clerk[d])
  BY GentleOnly, GentleFacts DEF Gentle
<1>3. ~Reslotting(clerk[c].id)
  <2> SUFFICES ASSUME NEW d \in Clerks, clerk[d].op = "accept", clerk[d].id = clerk[c].id,
                      clerk[d].done = "saved"
               PROVE  FALSE
    BY DEF Reslotting
  <2>1. d # c OBVIOUS
  <2>2. clerk[d].row.proposed = clerk[c].row.proposed BY <1>1, <2>1 DEF RequestsApart
  <2>3. clerk[d].row.proposed \in grid.booked BY <1>2 DEF JobFits
  <2> QED BY <2>2, <2>3
<1>4. PICK id \in Bookings :
        /\ id = clerk[c].id /\ Exists(id) /\ bookings[id].status \in Standing
        /\ bookings[id].slot \in {clerk[c].row.slot, clerk[c].row.proposed}
        /\ clerk[c].row.proposed \in GridSlots
  BY <1>2 DEF JobFits
<1>5. bookings[id].slot # clerk[c].row.proposed
  <2> SUFFICES ASSUME bookings[id].slot = clerk[c].row.proposed PROVE FALSE OBVIOUS
  <2>1. Holds(id) BY <1>3, <1>4, NilIsNoStatus DEF Holds
  <2> QED BY <1>1, <1>4, <2>1 DEF HeldIsBooked
<1> QED BY <1>3, <1>4, <1>5

LEMMA AcceptGridKeeps == ASSUME BookingIInv, NEW c \in Clerks, AcceptGrid(c) PROVE BookingIInv'
<1>1. /\ clerk[c].op = "accept" /\ clerk[c].done = "read"
      /\ UNCHANGED <<bookings, taught, beat, crashes>>
  BY DEF AcceptGrid
<1>2. /\ BookingTypeOK /\ NoDoubleBooking /\ HeldIsBooked /\ AllAsked /\ SlotsAccounted /\ RequestsApart
  BY BookingParts
<1>3. beat.op = Nil /\ \A d \in Clerks : clerk[d].op \in Gentle \cup {Nil}
  BY <1>1, GentleOnly DEF Gentle
<1>4. /\ taught = Cardinality(CompletedRows)
      /\ \A d \in Clerks : clerk[d].op \in {"book", "accept", "refuse"} => JobFits(clerk[d])
  BY <1>3, GentleFacts
<1>5. PICK id \in Bookings, old \in SlotOrNone, new \in GridSlots :
        /\ id = clerk[c].id /\ old = clerk[c].row.slot /\ new = clerk[c].row.proposed
        /\ new # old /\ Exists(id) /\ bookings[id].status \in Standing
        /\ clerk[c].row \in BookingRow
  <2>1. JobFits(clerk[c]) BY <1>1, <1>4
  <2>2. clerk[c].op \notin {"book", "open"} BY <1>1
  <2>3. clerk[c].row \in BookingRow BY <2>1, <2>2 DEF JobFits
  <2>4. clerk[c].row.slot \in SlotOrNone BY <2>3 DEF BookingRow
  <2> QED BY <1>1, <2>1, <2>2, <2>3, <2>4 DEF JobFits
<1>6. new # Nil BY NilIsNoStatus
<1>7. CASE ~slot_is_open(grid, new)
  <2>1. Finished(c) /\ UNCHANGED grid BY <1>5, <1>6, <1>7 DEF AcceptGrid
  <2>2. clerk[c].done # "saved" BY <1>1
  <2> QED BY <1>1, <2>1, <2>2, DropsKeeps
<1>8. CASE slot_is_open(grid, new)
  <2>1. grid' = Reslotted(grid, old, new) /\ clerk' = [clerk EXCEPT ![c].done = "saved"]
    BY <1>5, <1>6, <1>8 DEF AcceptGrid
  <2>2. new \notin grid.booked BY <1>8 DEF slot_is_open
  <2>3. ~Reslotting(id) /\ bookings[id].slot = old BY <1>1, <1>5, <2>2, AcceptReads
  <2>4. grid' \in Grid /\ grid'.booked = (grid.booked \ {old}) \cup {new}
    <3>1. grid \in Grid BY <1>2 DEF BookingTypeOK
    <3>2. free_slot(grid, old) \in Grid /\ free_slot(grid, old).booked = grid.booked \ {old}
      BY <3>1, GridTypes
    <3>3. grid' = mark_slot_booked(free_slot(grid, old), new) BY <1>5, <2>1 DEF Reslotted
    <3> QED BY <3>2, <3>3, GridTypes
  <2>5. PICK job : job = [clerk[c] EXCEPT !.done = "saved"] OBVIOUS
  <2>6. clerk[c] \in ClerkJob BY <1>1, <1>2, ClerkTypes, NilIsApart DEF Ops
  <2>7. /\ job \in ClerkJob /\ job.op = "accept" /\ job.done = "saved" /\ job.id = id
        /\ job.row = clerk[c].row
    BY <1>1, <1>5, <2>5, <2>6 DEF ClerkJob
  <2>8. clerk' = [clerk EXCEPT ![c] = job] BY <2>1, <2>5
  <2>9. /\ clerk'[c] = job /\ \A d \in Clerks \ {c} : clerk'[d] = clerk[d]
        /\ clerk' \in [Clerks -> ClerkJob \cup {ClerkIdle}]
    BY <1>2, <2>7, <2>8 DEF BookingTypeOK
  <2>10. "read" # "saved" OBVIOUS
  <2>11. ASSUME NEW a \in Bookings PROVE Reslotting(a)' <=> (Reslotting(a) \/ a = id)
    BY <1>1, <2>7, <2>9, <2>10 DEF Reslotting
  <2>12. \A a \in Bookings : Holds(a)' <=> (Holds(a) /\ a # id) BY <1>1, <2>11 DEF Holds, Exists
  <2>13. \A a \in Bookings : Exists(a)' <=> Exists(a) BY <1>1 DEF Exists
  <2>14. old # Nil => Holds(id) BY <1>5, <2>3 DEF Holds
  <2>15. ASSUME NEW a \in Bookings \ {id}, Holds(a)
         PROVE  bookings[a].slot \in grid.booked /\ bookings[a].slot # old /\ bookings[a].slot # new
    <3>1. bookings[a].slot \in grid.booked BY <1>2, <2>15 DEF HeldIsBooked
    <3>2. bookings[a].slot # old
      <4>1. CASE old = Nil BY <2>15, <4>1 DEF Holds
      <4>2. CASE old # Nil BY <1>2, <2>3, <2>14, <2>15, <4>2 DEF NoDoubleBooking
      <4> QED BY <4>1, <4>2
    <3> QED BY <2>2, <3>1, <3>2
  <2>16. NoDoubleBooking' BY <1>1, <1>2, <2>12 DEF NoDoubleBooking
  <2>17. HeldIsBooked' BY <1>1, <2>4, <2>12, <2>15 DEF HeldIsBooked
  <2>18. AllAsked' BY <1>1, <1>2, <2>13 DEF AllAsked
  <2>19. ASSUME NEW d \in Clerks, d # c, clerk[d].op = "accept", clerk[d].done = "saved"
         PROVE  /\ clerk[d].row.proposed \in grid.booked /\ clerk[d].row.proposed # old
                /\ clerk[d].row.proposed # new
    <3>1. JobFits(clerk[d]) BY <1>4, <2>19
    <3>2. /\ clerk[d].row.proposed \in grid.booked /\ clerk[d].row.proposed \in GridSlots
          /\ FreeOfOthers(clerk[d].row.proposed, clerk[d].id)
      BY <2>19, <3>1 DEF JobFits
    <3>3. clerk[d].id # id BY <2>3, <2>19 DEF Reslotting
    <3>4. clerk[d].row.proposed # old
      <4>1. CASE old = Nil BY <3>2, <4>1, NilIsNoStatus
      <4>2. CASE old # Nil BY <2>3, <2>14, <3>2, <3>3, <4>2 DEF FreeOfOthers
      <4> QED BY <4>1, <4>2
    <3> QED BY <2>2, <3>2, <3>4
  <2>20. ASSUME NEW s \in grid'.booked PROVE Accountable(s)'
    <3>1. CASE s = new
      <4>1. clerk'[c].op = "accept" /\ clerk'[c].done = "saved" /\ clerk'[c].row.proposed = s
        BY <1>5, <2>7, <2>9, <3>1
      <4> QED BY <4>1 DEF Accountable
    <3>2. CASE s # new
      <4>1. s # old /\ Accountable(s) BY <1>2, <2>4, <3>2 DEF SlotsAccounted
      <4>2. CASE \E a \in Bookings :
                   /\ Exists(a) /\ bookings[a].slot = s /\ ~Reslotting(a)
                   /\ bookings[a].status \in Standing \cup {"lapsed", "auto_declined"}
        <5>1. PICK a \in Bookings :
                /\ Exists(a) /\ bookings[a].slot = s /\ ~Reslotting(a)
                /\ bookings[a].status \in Standing \cup {"lapsed", "auto_declined"}
          BY <4>2
        <5>2. a # id BY <2>3, <4>1, <5>1
        <5>3. ~Reslotting(a)' /\ Exists(a)' BY <2>11, <2>13, <5>1, <5>2
        <5> QED BY <1>1, <5>1, <5>3 DEF Accountable
      <4>3. CASE \E d \in Clerks : /\ clerk[d].op = "accept" /\ clerk[d].done = "saved"
                                   /\ clerk[d].row.proposed = s
        <5>1. PICK d \in Clerks : /\ clerk[d].op = "accept" /\ clerk[d].done = "saved"
                                  /\ clerk[d].row.proposed = s
          BY <4>3
        <5>2. d # c BY <1>1, <5>1
        <5>3. clerk'[d] = clerk[d] BY <2>9, <5>2
        <5> QED BY <5>1, <5>3 DEF Accountable
      <4> QED BY <1>3, <4>1, <4>2, <4>3, GentleFacts
    <3> QED BY <3>1, <3>2
  <2>21. SlotsAccounted' BY <2>20 DEF SlotsAccounted
  <2>22. RequestsApart'
    <3>1. ASSUME NEW d \in Clerks \ {c}, clerk[d].op = "accept"
          PROVE  /\ clerk[d].id = id => /\ clerk[d].row.slot = clerk[c].row.slot
                                        /\ clerk[d].row.proposed = clerk[c].row.proposed
                 /\ clerk[d].done = "saved" => clerk[d].row.proposed # new
      BY <1>1, <1>2, <1>5, <2>19, <3>1 DEF RequestsApart
    <3> QED BY <1>2, <1>5, <2>7, <2>9, <3>1 DEF RequestsApart
  <2>23. BookingTypeOK' BY <1>1, <1>2, <2>4, <2>9 DEF BookingTypeOK
  <2>24. \A d \in Clerks : clerk'[d].op \in Gentle \cup {Nil} BY <1>3, <2>7, <2>9 DEF Gentle
  <2>25. CompletedRows' = CompletedRows BY <1>1, <2>13 DEF CompletedRows
  <2>26. ASSUME NEW d \in Clerks, clerk'[d].op \in Gentle PROVE JobFits(clerk[d])'
    <3>1. CASE d = c
      <4>1. JobFits(clerk[c]) BY <1>1, <1>4
      <4>2. ASSUME NEW a \in Bookings \ {id}, Holds(a)' PROVE bookings'[a].slot # new
        BY <1>1, <2>12, <2>15, <4>2
      <4>3. FreeOfOthers(job.row.proposed, job.id)' BY <1>5, <2>7, <4>2 DEF FreeOfOthers
      <4>4. job.row.proposed \in grid'.booked BY <1>5, <2>4, <2>7
      <4>5. Exists(job.id)' BY <1>5, <2>7, <2>13
      <4>6. /\ bookings'[job.id] = bookings[clerk[c].id] /\ job.id \in Bookings
            /\ job.op \notin Releasing /\ job.row = clerk[c].row
        BY <1>1, <1>5, <2>7 DEF Releasing
      <4>7. clerk'[d] = job BY <2>9, <3>1
      <4> QED BY <1>1, <2>7, <4>1, <4>3, <4>4, <4>5, <4>6, <4>7 DEF JobFits
    <3>2. CASE d # c
      <4>1. clerk'[d] = clerk[d] BY <2>9, <3>2
      <4>2. JobFits(clerk[d]) /\ clerk[d].op \in {"book", "accept", "refuse"}
        BY <1>4, <2>26, <4>1 DEF Gentle
      <4>3. clerk[d].id \in Bookings /\ clerk[d].op \notin Releasing
            /\ clerk[d].op \notin {"confirm", "propose", "join", "open"}
        BY <4>2 DEF JobFits, Releasing
      <4>4. Exists(clerk[d].id)' <=> Exists(clerk[d].id) BY <2>13, <4>1, <4>3
      <4>5. ASSUME clerk[d].op = "accept", clerk[d].done = "saved"
            PROVE  /\ clerk[d].row.proposed \in grid'.booked
                   /\ FreeOfOthers(clerk[d].row.proposed, clerk[d].id)'
        <5>1. clerk[d].row.proposed \in grid'.booked BY <2>4, <2>19, <3>2, <4>5
        <5>2. FreeOfOthers(clerk[d].row.proposed, clerk[d].id) BY <4>2, <4>5 DEF JobFits
        <5>3. FreeOfOthers(clerk[d].row.proposed, clerk[d].id)' BY <1>1, <2>12, <4>1, <5>2 DEF FreeOfOthers
        <5> QED BY <5>1, <5>3
      <4> QED BY <1>1, <4>1, <4>2, <4>3, <4>4, <4>5 DEF JobFits
    <3> QED BY <3>1, <3>2
  <2>27. taught' = Cardinality(CompletedRows') BY <1>1, <1>4, <2>25
  <2> QED BY <1>1, <1>3, <2>16, <2>17, <2>18, <2>21, <2>22, <2>23, <2>24, <2>26, <2>27, ThenGentle
<1> QED BY <1>7, <1>8

LEMMA AcceptSaveKeeps == ASSUME BookingIInv, NEW c \in Clerks, AcceptSave(c) PROVE BookingIInv'
<1>1. /\ clerk[c].op = "accept" /\ clerk[c].done = "saved" /\ Finished(c)
      /\ UNCHANGED <<grid, taught, beat, crashes>>
  BY DEF AcceptSave, SaveSkill
<1>2. /\ BookingTypeOK /\ NoDoubleBooking /\ HeldIsBooked /\ AllAsked /\ SlotsAccounted /\ RequestsApart
  BY BookingParts
<1>3. beat.op = Nil /\ \A d \in Clerks : clerk[d].op \in Gentle \cup {Nil}
  BY <1>1, GentleOnly DEF Gentle
<1>4. /\ taught = Cardinality(CompletedRows)
      /\ \A d \in Clerks : clerk[d].op \in {"book", "accept", "refuse"} => JobFits(clerk[d])
  BY <1>3, GentleFacts
<1>5. PICK id \in Bookings, new \in GridSlots :
        /\ id = clerk[c].id /\ new = clerk[c].row.proposed
        /\ Exists(id) /\ bookings[id].status \in Standing
        /\ new \in grid.booked /\ FreeOfOthers(new, id)
  BY <1>1, <1>4 DEF JobFits
<1>6. PICK when \in {"ahead", "past"} :
        bookings' = [bookings EXCEPT ![id] =
                       [bookings[id] EXCEPT !.status = "confirmed", !.slot = new,
                          !.scheduled = when, !.proposed = Nil, !.before = Nil]]
  BY <1>5 DEF AcceptSave, SaveSkill
<1>7. PICK row : row = [bookings[id] EXCEPT !.status = "confirmed", !.slot = new,
                          !.scheduled = when, !.proposed = Nil, !.before = Nil]
  OBVIOUS
<1>8. bookings[id] \in BookingRow BY <1>2, <1>5, RowTypes
<1>9. /\ row \in BookingRow /\ row.status = "confirmed" /\ row.slot = new
      /\ row.proposed = Nil /\ row.before = Nil
  BY <1>7, <1>8 DEF BookingRow, BookingStatuses, SlotOrNone
<1>10. bookings' = [bookings EXCEPT ![id] = row] BY <1>6, <1>7
<1>11. /\ bookings' \in [Bookings -> BookingRow \cup {Nil}] /\ bookings'[id] = row
       /\ \A a \in Bookings \ {id} : bookings'[a] = bookings[a]
       /\ \A a \in Bookings : Exists(a)' <=> Exists(a)
       /\ AllAsked' /\ CompletedRows' = CompletedRows
  BY <1>2, <1>5, <1>9, <1>10, RowMoves
<1>12. /\ clerk'[c] = ClerkIdle /\ \A d \in Clerks \ {c} : clerk'[d] = clerk[d]
       /\ clerk' \in [Clerks -> ClerkJob \cup {ClerkIdle}] /\ ClerkIdle.op = Nil
  BY <1>1, <1>2 DEF Finished, BookingTypeOK, ClerkIdle
<1>13. Nil # "accept" /\ Nil # "book" /\ Nil \notin Releasing /\ Nil \notin Gentle /\ new # Nil
  BY NilIsApart, NilIsNoStatus DEF Ops, Releasing, Gentle
<1>14. ASSUME NEW d \in Clerks \ {c}, clerk[d].op = "accept"
       PROVE  /\ clerk[d].id = id => clerk[d].row.proposed = new /\ clerk[d].done # "saved"
              /\ clerk[d].done = "saved" => clerk[d].row.proposed # new
  BY <1>1, <1>2, <1>5, <1>14 DEF RequestsApart
<1>15. Reslotting(id) BY <1>1, <1>5 DEF Reslotting
<1>16. ASSUME NEW a \in Bookings PROVE Reslotting(a)' <=> (Reslotting(a) /\ a # id)
  BY <1>1, <1>5, <1>12, <1>13, <1>14 DEF Reslotting
<1>17. \A a \in Bookings \ {id} : Holds(a)' <=> Holds(a) BY <1>11, <1>16 DEF Holds
<1>18. ~Holds(id) BY <1>15 DEF Holds
<1>19. \A a \in Bookings \ {id} : Holds(a)' => bookings'[a].slot = bookings[a].slot
                                              /\ bookings'[a].slot # new
  BY <1>5, <1>11, <1>17 DEF FreeOfOthers
<1>20. NoDoubleBooking'
  <2> SUFFICES ASSUME NEW a \in Bookings, NEW b \in Bookings, a # b, Holds(a)', Holds(b)'
               PROVE  bookings'[a].slot # bookings'[b].slot
    BY DEF NoDoubleBooking
  <2>1. CASE a = id BY <1>9, <1>11, <1>19, <2>1
  <2>2. CASE b = id BY <1>9, <1>11, <1>19, <2>2
  <2>3. CASE a # id /\ b # id
    <3>1. /\ Holds(a) /\ Holds(b) /\ bookings'[a].slot = bookings[a].slot
          /\ bookings'[b].slot = bookings[b].slot
      BY <1>17, <1>19, <2>3
    <3> QED BY <1>2, <3>1 DEF NoDoubleBooking
  <2> QED BY <2>1, <2>2, <2>3
<1>21. HeldIsBooked'
  <2> SUFFICES ASSUME NEW a \in Bookings, Holds(a)' PROVE bookings'[a].slot \in grid'.booked
    BY DEF HeldIsBooked
  <2>1. CASE a = id BY <1>1, <1>5, <1>9, <1>11, <2>1
  <2>2. CASE a # id BY <1>1, <1>2, <1>17, <1>19, <2>2 DEF HeldIsBooked
  <2> QED BY <2>1, <2>2
<1>22. ASSUME NEW s \in grid'.booked PROVE Accountable(s)'
  <2>1. Accountable(s) BY <1>1, <1>2 DEF SlotsAccounted
  <2>2. CASE \E a \in Bookings :
               /\ Exists(a) /\ bookings[a].slot = s /\ ~Reslotting(a)
               /\ bookings[a].status \in Standing \cup {"lapsed", "auto_declined"}
    <3>1. PICK a \in Bookings :
            /\ Exists(a) /\ bookings[a].slot = s /\ ~Reslotting(a)
            /\ bookings[a].status \in Standing \cup {"lapsed", "auto_declined"}
      BY <2>2
    <3>2. a # id BY <1>15, <3>1
    <3>3. bookings'[a] = bookings[a] /\ Exists(a)' /\ ~Reslotting(a)' BY <1>11, <1>16, <3>1, <3>2
    <3> QED BY <3>1, <3>3 DEF Accountable
  <2>3. CASE \E d \in Clerks : /\ clerk[d].op = "accept" /\ clerk[d].done = "saved"
                               /\ clerk[d].row.proposed = s
    <3>1. PICK d \in Clerks : /\ clerk[d].op = "accept" /\ clerk[d].done = "saved"
                              /\ clerk[d].row.proposed = s
      BY <2>3
    <3>2. CASE d = c
      <4>1. bookings'[id].slot = s /\ ~Reslotting(id)' /\ Exists(id)'
        BY <1>5, <1>9, <1>11, <1>16, <3>1, <3>2
      <4>2. bookings'[id].status \in Standing \cup {"lapsed", "auto_declined"}
        BY <1>9, <1>11 DEF Standing
      <4> QED BY <4>1, <4>2 DEF Accountable
    <3>3. CASE d # c
      <4>1. clerk'[d] = clerk[d] BY <1>12, <3>3
      <4> QED BY <3>1, <4>1 DEF Accountable
    <3> QED BY <3>2, <3>3
  <2> QED BY <1>3, <2>1, <2>2, <2>3, GentleFacts
<1>23. SlotsAccounted' BY <1>22 DEF SlotsAccounted
<1>24. RequestsApart' BY <1>2, <1>12, <1>13 DEF RequestsApart
<1>25. BookingTypeOK' BY <1>1, <1>2, <1>11, <1>12 DEF BookingTypeOK
<1>26. \A d \in Clerks : clerk'[d].op \in Gentle \cup {Nil} BY <1>3, <1>12
<1>27. ASSUME NEW d \in Clerks, clerk'[d].op \in Gentle PROVE JobFits(clerk[d])'
  <2>1. d # c /\ clerk'[d] = clerk[d] BY <1>12, <1>13, <1>27
  <2>2. JobFits(clerk[d]) /\ clerk[d].op \in {"book", "accept", "refuse"}
    BY <1>4, <1>27, <2>1 DEF Gentle
  <2>3. clerk[d].op \notin Releasing /\ clerk[d].op \notin {"confirm", "propose", "join", "open"}
    BY <2>2 DEF Releasing
  <2>4. PICK k \in Bookings : k = clerk[d].id BY <2>2 DEF JobFits
  <2>5. CASE clerk[d].op = "book"
    <3>1. ~Exists(k) /\ clerk[d].slot \in GridSlots BY <2>2, <2>4, <2>5 DEF JobFits
    <3>2. ~Exists(k)' BY <1>11, <3>1
    <3>3. clerk'[d].id = k /\ ~Exists(clerk[d].id)' BY <2>1, <2>4, <3>2
    <3> QED BY <2>1, <2>3, <2>4, <2>5, <3>1, <3>3 DEF JobFits
  <2>6. CASE clerk[d].op \in {"accept", "refuse"} /\ k = id
    <3>1. /\ Exists(k)' /\ bookings'[k].status = "confirmed" /\ bookings'[k].slot = new
          /\ "confirmed" \in Standing
      BY <1>5, <1>9, <1>11, <2>6 DEF Standing
    <3>2. clerk[d].op = "accept" => clerk[d].row.proposed = new /\ clerk[d].done # "saved"
      BY <1>14, <2>1, <2>4, <2>6
    <3> QED BY <2>1, <2>2, <2>3, <2>4, <2>6, <3>1, <3>2 DEF JobFits
  <2>7. CASE clerk[d].op \in {"accept", "refuse"} /\ k # id
    <3>1. bookings'[k] = bookings[k] /\ (Exists(k)' <=> Exists(k)) BY <1>11, <2>7
    <3>2. ASSUME clerk[d].op = "accept", clerk[d].done = "saved"
          PROVE  FreeOfOthers(clerk[d].row.proposed, k)'
      <4>1. FreeOfOthers(clerk[d].row.proposed, k) /\ clerk[d].row.proposed # new
        BY <1>14, <2>1, <2>2, <2>4, <3>2 DEF JobFits
      <4>2. ASSUME NEW a \in Bookings \ {k}, Holds(a)'
            PROVE  bookings'[a].slot # clerk[d].row.proposed
        <5>1. CASE a = id BY <1>9, <1>11, <4>1, <5>1
        <5>2. CASE a # id BY <1>17, <1>19, <4>1, <4>2, <5>2 DEF FreeOfOthers
        <5> QED BY <5>1, <5>2
      <4> QED BY <2>1, <4>2 DEF FreeOfOthers
    <3> QED BY <1>1, <2>1, <2>2, <2>3, <2>4, <2>7, <3>1, <3>2 DEF JobFits
  <2> QED BY <2>2, <2>5, <2>6, <2>7
<1>28. taught' = Cardinality(CompletedRows') BY <1>1, <1>4, <1>11
<1> QED BY <1>1, <1>3, <1>11, <1>20, <1>21, <1>23, <1>24, <1>25, <1>26, <1>27, <1>28, ThenGentle

-----------------------------------------------------------------------------
(* Every handler starts from what it has read.                             *)

LEMMA BeginsKeep ==
    ASSUME BookingIInv, Careful, NEW c \in Clerks, NEW b \in Bookings,
           \/ \E s \in GridSlots : BeginBook(c, b, s) \/ BeginPropose(c, b, s)
           \/ \E op \in SessionOps : BeginOn(c, op, b)
    PROVE  BookingIInv'
<1>1. BookingTypeOK /\ AllAsked BY BookingParts
<1>2. grid \in Grid BY <1>1 DEF BookingTypeOK
<1>3. ASSUME NEW s \in GridSlots, BeginBook(c, b, s) PROVE BookingIInv'
  <2>1. PICK job : job = NewJob("book", b, s, Nil) OBVIOUS
  <2>2. /\ ~Exists(b) /\ \A d \in Clerks : clerk[d].op = "book" => clerk[d].id # b
        /\ BeginHandler(c, job)
    BY <1>3, <2>1 DEF BeginBook
  <2>3. job = [op |-> "book", id |-> b, row |-> Nil, slot |-> s, copy |-> Nil, done |-> "read"]
    BY <2>1, <2>2 DEF NewJob
  <2>4. job \in ClerkJob /\ job.op = "book" /\ job.id = b /\ job.slot = s /\ job.done = "read"
    BY <2>3 DEF ClerkJob, Ops, SlotOrNone
  <2>5. JobFits(job) BY <2>2, <2>4 DEF JobFits, Releasing
  <2> QED BY <2>2, <2>4, <2>5, HandlerStartsKeeps
<1>4. ASSUME NEW op \in Ops, op \notin {"book", "open"}, NEW s \in SlotOrNone,
             NEW copy \in {Nil, grid}, Exists(b), bookings[b].status \in AcceptedIn(op),
             op \in {"accept", "refuse"} \cup Releasing \cup {"confirm", "propose", "join"},
             op = "propose" => s \in GridSlots \ grid.booked,
             BeginHandler(c, NewJob(op, b, s, copy))
      PROVE  BookingIInv'
  <2>1. PICK job : job = NewJob(op, b, s, copy) OBVIOUS
  <2>2. b # Nil BY NilIsNoStatus
  <2>3. job = [op |-> op, id |-> b, row |-> bookings[b], slot |-> s, copy |-> copy, done |-> "read"]
    BY <1>4, <2>1, <2>2 DEF NewJob
  <2>4. bookings[b] \in BookingRow BY <1>1, <1>4, RowTypes
  <2>5. /\ job \in ClerkJob /\ job.op = op /\ job.id = b /\ job.slot = s /\ job.done = "read"
        /\ job.row = bookings[b] /\ job.copy = copy
    BY <1>2, <2>3, <2>4 DEF ClerkJob
  <2>6. BeginHandler(c, job) BY <1>4, <2>1
  <2>7. op \in {"accept", "refuse"} =>
          /\ bookings[b].status = "needs_reconfirmation" /\ bookings[b].status \in Standing
          /\ bookings[b].proposed \in GridSlots /\ bookings[b].proposed # bookings[b].slot
    <3> SUFFICES ASSUME op \in {"accept", "refuse"}
                 PROVE  /\ bookings[b].status = "needs_reconfirmation" /\ bookings[b].status \in Standing
                        /\ bookings[b].proposed \in GridSlots /\ bookings[b].proposed # bookings[b].slot
      OBVIOUS
    <3>1. bookings[b].status = "needs_reconfirmation"
      <4>1. CASE op = "accept" BY <1>4, <4>1 DEF AcceptedIn
      <4>2. CASE op = "refuse" BY <1>4, <4>2 DEF AcceptedIn
      <4> QED BY <4>1, <4>2
    <3>2. bookings[b].proposed # Nil /\ bookings[b].proposed # bookings[b].slot
      BY <1>1, <1>4, <3>1 DEF AllAsked
    <3>3. bookings[b].proposed \in SlotOrNone BY <2>4 DEF BookingRow
    <3> QED BY <3>1, <3>2, <3>3 DEF SlotOrNone, Standing
  <2>8. JobFits(job)
    <3>1. {"accept", "refuse"} \cap (Releasing \cup {"confirm", "propose", "join"}) = {}
          /\ Releasing \cap {"propose", "confirm", "join"} = {}
      BY DEF Releasing
    <3> QED BY <1>4, <2>4, <2>5, <2>7, <3>1 DEF JobFits
  <2>9. job.op = "accept" => /\ job.row = bookings[job.id]
                             /\ bookings[job.id].status = "needs_reconfirmation"
    BY <2>5, <2>7
  <2>10. job.op # "book" BY <1>4, <2>5
  <2> QED BY <2>5, <2>6, <2>8, <2>9, <2>10, HandlerStartsKeeps
<1>5. ASSUME NEW s \in GridSlots, BeginPropose(c, b, s) PROVE BookingIInv'
  <2>1. /\ Exists(b) /\ bookings[b].status \in AcceptedIn("propose")
        /\ s \in GridSlots \ grid.booked /\ s \in SlotOrNone
        /\ BeginHandler(c, NewJob("propose", b, s, Nil))
    BY <1>5 DEF BeginPropose, Accepts, slot_is_open, SlotOrNone
  <2>2. "propose" \in Ops /\ "propose" \notin {"book", "open"} BY DEF Ops
  <2> QED BY <1>4, <2>1, <2>2
<1>6. ASSUME NEW op \in SessionOps, BeginOn(c, op, b) PROVE BookingIInv'
  <2>1. PICK copy \in {Nil, grid} : BeginHandler(c, NewJob(op, b, Nil, copy))
    BY <1>6 DEF BeginOn
  <2>2. Exists(b) /\ bookings[b].status \in AcceptedIn(op) BY <1>6 DEF BeginOn, Accepts
  <2>3. /\ op \in Ops /\ op \notin {"book", "open"} /\ op # "propose"
        /\ op \in {"accept", "refuse"} \cup Releasing \cup {"confirm", "propose", "join"}
    BY DEF SessionOps, Ops, Releasing
  <2>4. Nil \in SlotOrNone BY DEF SlotOrNone
  <2> QED BY <1>4, <2>1, <2>2, <2>3, <2>4
<1> QED BY <1>3, <1>5, <1>6

LEMMA BeginOpenKeeps ==
    ASSUME BookingIInv, Careful, NEW c \in Clerks, NEW offer \in Offers, BeginOpen(c, offer)
    PROVE  BookingIInv'
<1>1. PICK job : job = NewJob("open", Nil, offer, grid) OBVIOUS
<1>2. job = [op |-> "open", id |-> Nil, row |-> Nil, slot |-> offer, copy |-> grid, done |-> "read"]
  BY <1>1 DEF NewJob
<1>3. grid \in Grid BY BookingParts DEF BookingTypeOK
<1>4. job \in ClerkJob /\ job.op = "open" /\ job.slot = offer /\ job.copy = grid /\ job.done = "read"
  BY <1>2, <1>3 DEF ClerkJob, Ops
<1>5. BeginHandler(c, job) BY <1>1 DEF BeginOpen
<1>6. JobFits(job) BY <1>4 DEF JobFits, Releasing
<1>7. job.op # "book" /\ job.op # "accept" BY <1>4
<1> QED BY <1>4, <1>5, <1>6, <1>7, HandlerStartsKeeps

-----------------------------------------------------------------------------
(* The whole.                                                              *)

LEMMA BookingStarts == BookingInit => BookingIInv
<1> SUFFICES ASSUME BookingInit PROVE BookingIInv OBVIOUS
<1>1. PICK offer \in Offers : grid = [open |-> offer, booked |-> {}] BY DEF BookingInit
<1>2. /\ bookings = [b \in Bookings |-> Nil] /\ taught = 0
      /\ clerk = [c \in Clerks |-> ClerkIdle] /\ beat = NoSweep /\ crashes = 0
  BY DEF BookingInit
<1>3. offer \subseteq GridSlots BY SkillBookingAssumption
<1>4. grid \in Grid /\ grid.booked = {} BY <1>1, <1>3 DEF Grid
<1>5. \A b \in Bookings : ~Exists(b) BY <1>2 DEF Exists
<1>6. \A c \in Clerks : clerk[c] = ClerkIdle /\ clerk[c].op = Nil BY <1>2 DEF ClerkIdle
<1>7. CompletedRows = {} BY <1>5 DEF CompletedRows
<1>8. taught = Cardinality(CompletedRows) BY <1>2, <1>7, FS_EmptySet
<1>9. BookingTypeOK
  <2>1. IsFiniteSet(Bookings) /\ MaxCrashes \in Nat BY SkillBookingAssumption
  <2>2. Cardinality(Bookings) \in Nat BY <2>1, FS_CardinalityType
  <2>3. taught \in 0..Cardinality(Bookings) BY <1>2, <2>2
  <2>4. crashes \in 0..MaxCrashes BY <1>2, <2>1
  <2>5. /\ beat.op \in {"autodecline", "lapse", Nil} /\ beat.todo \subseteq Bookings
        /\ beat.releases \in SlotOrNone /\ beat.copy \in Grid \cup {Nil}
    BY <1>2, NoSweepFits DEF SlotOrNone
  <2>6. bookings \in [Bookings -> BookingRow \cup {Nil}] BY <1>2
  <2>7. clerk \in [Clerks -> ClerkJob \cup {ClerkIdle}] BY <1>2
  <2> QED BY <1>4, <2>3, <2>4, <2>5, <2>6, <2>7 DEF BookingTypeOK
<1>10. NoDoubleBooking /\ HeldIsBooked BY <1>5 DEF NoDoubleBooking, HeldIsBooked, Holds
<1>11. AllAsked BY <1>5 DEF AllAsked
<1>12. SlotsAccounted BY <1>4 DEF SlotsAccounted
<1>13. TaughtOrDue BY <1>8 DEF TaughtOrDue
<1>14. OneAtATime BY <1>2, <1>6, NoSweepFits DEF OneAtATime
<1>15. JobsFit BY <1>6 DEF JobsFit
<1>16. RequestsApart
  <2>1. Nil # "accept" /\ Nil # "book" BY NilIsApart DEF Ops
  <2> QED BY <1>6, <2>1 DEF RequestsApart
<1>17. SweepFits BY <1>2, NoSweepFits DEF SweepFits
<1> QED BY <1>9, <1>10, <1>11, <1>12, <1>13, <1>14, <1>15, <1>16, <1>17 DEF BookingIInv

LEMMA BookingStepKeeps ==
    ASSUME BookingIInv, Careful, [BookingNext]_bookingVars PROVE BookingIInv'
<1>1. CASE UNCHANGED bookingVars
  <2>1. UNCHANGED <<bookings, grid, taught, clerk, beat, crashes>> BY <1>1 DEF bookingVars
  <2>2. (\A b \in Bookings : (Reslotting(b)' <=> Reslotting(b)) /\ (Exists(b)' <=> Exists(b)))
        /\ CompletedRows' = CompletedRows
    BY <2>1 DEF Reslotting, Exists, CompletedRows
  <2>3. \A b \in Bookings : Holds(b)' <=> Holds(b) BY <2>1, <2>2 DEF Holds
  <2>4. \A s : Accountable(s)' <=> Accountable(s) BY <2>1, <2>2 DEF Accountable
  <2>5. /\ BookingTypeOK /\ NoDoubleBooking /\ HeldIsBooked /\ AllAsked /\ SlotsAccounted
        /\ TaughtOrDue /\ OneAtATime /\ JobsFit /\ RequestsApart /\ SweepFits
    BY BookingParts
  <2>6. BookingTypeOK' BY <2>1, <2>5 DEF BookingTypeOK
  <2>7. NoDoubleBooking' /\ HeldIsBooked' BY <2>1, <2>3, <2>5 DEF NoDoubleBooking, HeldIsBooked
  <2>8. AllAsked' BY <2>1, <2>2, <2>5 DEF AllAsked
  <2>9. SlotsAccounted' BY <2>1, <2>4, <2>5 DEF SlotsAccounted
  <2>10. TaughtOrDue' BY <2>1, <2>2, <2>5 DEF TaughtOrDue
  <2>11. OneAtATime' /\ RequestsApart' BY <2>1, <2>5 DEF OneAtATime, RequestsApart
  <2>12. ASSUME NEW c \in Clerks, clerk'[c].op # Nil PROVE JobFits(clerk[c])'
    <3>1. JobFits(clerk[c]) BY <2>1, <2>5, <2>12 DEF JobsFit
    <3>2. \A s, id : FreeOfOthers(s, id)' <=> FreeOfOthers(s, id) BY <2>1, <2>3 DEF FreeOfOthers
    <3>3. clerk[c].op # "open" => clerk[c].id \in Bookings BY <3>1 DEF JobFits
    <3> QED BY <2>1, <2>2, <3>1, <3>2, <3>3 DEF JobFits
  <2>13. JobsFit' BY <2>12 DEF JobsFit
  <2>14. SweepFits'
    <3>1. beat.todo \subseteq Bookings BY <2>5 DEF BookingTypeOK
    <3> QED BY <2>1, <2>2, <2>3, <2>4, <2>5, <3>1 DEF SweepFits
  <2> QED BY <2>6, <2>7, <2>8, <2>9, <2>10, <2>11, <2>13, <2>14 DEF BookingIInv
<1>2. ASSUME NEW c \in Clerks, ClerkGoesOn(c) \/ Crash(c) PROVE BookingIInv'
  <2>1. ~Crash(c)
    <3>1. crashes \in 0..0 BY BookingParts DEF BookingTypeOK, Careful
    <3> QED BY <3>1 DEF Crash, Careful
  <2> QED BY <1>2, <2>1, BookKeeps, ConfirmProposeJoinKeep, RefuseKeeps, AcceptGridKeeps,
             AcceptSaveKeeps, EndBookingKeeps, LoadExpertKeeps, ReleaseKeeps, SetOpenKeeps
          DEF ClerkGoesOn
<1>3. CASE BookingNext
  BY <1>2, <1>3, SessionRequestKeeps, TimeKeeps, BeginsKeep, BeginOpenKeeps, StartSweepKeeps,
     AutoReleaseKeeps, AutoDeclineKeeps, LapseKeeps
  DEF BookingNext
<1> QED BY <1>1, <1>3

LEMMA BookingImplies == BookingIInv => BookingInv
<1> SUFFICES ASSUME BookingIInv PROVE BookingInv OBVIOUS
<1>1. BookingTypeOK /\ NoDoubleBooking /\ HeldIsBooked /\ AllAsked BY BookingParts
<1>2. Quiet => \A c \in Clerks : clerk[c].op = Nil BY DEF Quiet, Running
<1>3. FreedWhenEnded BY <1>2, IdleRows DEF FreedWhenEnded, RowKeeps
<1>4. ProposalIffAsked BY <1>1 DEF ProposalIffAsked, AllAsked
<1>5. TaughtAgrees BY <1>2, IdleRows DEF TaughtAgrees
<1> QED BY <1>1, <1>3, <1>4, <1>5 DEF BookingInv

(* Rows, the expert's grid and the expert's counter agree, for any number  *)
(* of sessions, slots and requests, when only bookings, acceptances and    *)
(* refusals overlap, a no-show is reported of a confirmed session and no   *)
(* handler dies (skills/views.py, skills/reschedule_views.py).             *)
THEOREM BookingIsConsistent == ASSUME Careful PROVE BookingSpec => []BookingInv
BY BookingStarts, BookingStepKeeps, BookingImplies, PTL DEF BookingSpec

-----------------------------------------------------------------------------
(* The scholarship exam of one pupil.                                      *)

(* The result of a record that could still be used is empty.               *)
RowUses(row) == row.status = "reserved" => row.score = NoScore /\ row.award = "none"

GoodLedger(rows) ==
    /\ rows \in Seq(LedgerRow) /\ Len(rows) <= MaxRecords
    /\ Unique(rows) /\ \A r \in DOMAIN rows : RowUses(rows[r])

(* What a request holds between its steps.                                 *)
ScoringJobs == [op: {"submit"}, rec: Nat, auto: BOOLEAN, score: {NoScore, 0, 1}]
ReviewJobs == [op: {"void", "clear"}, rec: Nat,
            status: {"none", "in_progress", "voided"} \cup ExamEnded]
ExamJob == {Unoccupied} \cup [op: {"reserve"}] \cup [op: {"start", "paper", "award"}, rec: Nat]
           \cup ScoringJobs \cup ReviewJobs \cup [op: {"answer"}, rec: Nat, choice: Choices]

(* A job is about a record that is there, an award job about one whose     *)
(* attempt is used up.                                                     *)
ExamJobFits(job, rows) ==
    /\ job.op \notin {"none", "reserve"} => job.rec \in DOMAIN rows
    /\ job.op = "award" => rows[job.rec].status # "reserved"

ExamIInv ==
    /\ GoodLedger(ledger)
    /\ errand \in [Examiners -> ExamJob] /\ \A t \in Examiners : ExamJobFits(errand[t], ledger)
    /\ sweeping \subseteq Entries

-----------------------------------------------------------------------------
(* Ledgers.                                                                *)

LEMMA LedgerIndices == ASSUME NEW rows \in Seq(LedgerRow)
                 PROVE  /\ DOMAIN rows = 1..Len(rows) /\ Len(rows) \in Nat
                        /\ IsFiniteSet(ActiveRows(rows)) /\ Cardinality(ActiveRows(rows)) \in Nat
<1>1. DOMAIN rows = 1..Len(rows) /\ Len(rows) \in Nat OBVIOUS
<1>2. IsFiniteSet(1..Len(rows)) BY <1>1, FS_Interval
<1>3. ActiveRows(rows) \subseteq 1..Len(rows) BY <1>1 DEF ActiveRows
<1>4. IsFiniteSet(ActiveRows(rows)) BY <1>2, <1>3, FS_Subset
<1> QED BY <1>1, <1>4, FS_CardinalityType

(* A row that changes keeps the ledger good unless it becomes active.      *)
LEMMA EntryChanges ==
    ASSUME NEW rows, GoodLedger(rows), NEW r \in DOMAIN rows, NEW row \in LedgerRow,
           row.status \in {rows[r].status, "voided"}, RowUses(row),
           NEW next, next = [rows EXCEPT ![r] = row]
    PROVE  GoodLedger(next) /\ DOMAIN next = DOMAIN rows
<1>1. rows \in Seq(LedgerRow) BY DEF GoodLedger
<1>2. DOMAIN rows = 1..Len(rows) /\ Len(rows) \in Nat BY <1>1
<1>3. next \in Seq(LedgerRow) /\ Len(next) = Len(rows) /\ DOMAIN next = DOMAIN rows
  BY <1>1, <1>2
<1>4. /\ next[r] = row /\ \A x \in DOMAIN rows : x # r => next[x] = rows[x]
  BY <1>1, <1>2
<1>5. ActiveRows(next) \subseteq ActiveRows(rows)
  BY <1>3, <1>4 DEF ActiveRows
<1>6. Cardinality(ActiveRows(next)) <= Cardinality(ActiveRows(rows))
  BY <1>1, <1>5, LedgerIndices, FS_Subset
<1>7. Cardinality(ActiveRows(rows)) <= 1 BY DEF GoodLedger, Unique
<1>8. Cardinality(ActiveRows(rows)) \in Nat /\ Cardinality(ActiveRows(next)) \in Nat
  BY <1>1, <1>3, LedgerIndices
<1>9. Unique(next) BY <1>6, <1>7, <1>8 DEF Unique
<1> QED BY <1>3, <1>4, <1>9 DEF GoodLedger

LEMMA EntryAdded ==
    ASSUME NEW rows, GoodLedger(rows), NEW row \in LedgerRow, RowUses(row), Len(rows) < MaxRecords,
           Unique(Append(rows, row))
    PROVE  /\ GoodLedger(Append(rows, row)) /\ DOMAIN rows \subseteq DOMAIN Append(rows, row)
           /\ \A r \in DOMAIN rows : Append(rows, row)[r] = rows[r]
<1>1. rows \in Seq(LedgerRow) BY DEF GoodLedger
<1> DEFINE next == Append(rows, row)
<1>2. /\ next \in Seq(LedgerRow) /\ Len(next) = Len(rows) + 1
      /\ DOMAIN next = 1..(Len(rows) + 1) /\ DOMAIN rows = 1..Len(rows) /\ Len(rows) \in Nat
  BY <1>1
<1>3. next[Len(rows) + 1] = row /\ \A x \in DOMAIN rows : next[x] = rows[x]
  BY <1>1, <1>2
<1>4. \A x \in DOMAIN next : x = Len(rows) + 1 \/ x \in DOMAIN rows BY <1>2
<1>5. Len(next) <= MaxRecords BY <1>2, ScholarshipAssumption
<1>6. \A x \in DOMAIN next : RowUses(next[x]) BY <1>3, <1>4 DEF GoodLedger
<1>7. DOMAIN rows \subseteq DOMAIN next BY <1>2
<1> HIDE DEF next
<1> QED BY <1>2, <1>3, <1>5, <1>6, <1>7 DEF GoodLedger, next

(* The ledger and one request move.                                        *)
LedgerForward(rows, next) ==
    /\ GoodLedger(next) /\ DOMAIN rows \subseteq DOMAIN next
    /\ \A r \in DOMAIN rows : rows[r].status # "reserved" => next[r].status # "reserved"

LEMMA LedgerStays == ExamIInv => LedgerForward(ledger, ledger)
BY DEF ExamIInv, LedgerForward

LEMMA LedgerChanges ==
    ASSUME ExamIInv, NEW r \in Entries, NEW row \in LedgerRow,
           row.status \in {ledger[r].status, "voided"}, RowUses(row),
           ledger' = [ledger EXCEPT ![r] = row]
    PROVE  LedgerForward(ledger, ledger')
<1>1. GoodLedger(ledger') /\ DOMAIN ledger' = DOMAIN ledger
  BY EntryChanges DEF ExamIInv, Entries
<1>2. \A x \in DOMAIN ledger : ledger'[x] = IF x = r THEN row ELSE ledger[x]
  BY DEF ExamIInv, GoodLedger, Entries
<1> QED BY <1>1, <1>2 DEF LedgerForward

LEMMA ExamMoves ==
    ASSUME ExamIInv, LedgerForward(ledger, ledger'), NEW t \in Examiners, NEW job \in ExamJob,
           ExamJobFits(job, ledger'), errand' = [errand EXCEPT ![t] = job],
           sweeping' \subseteq Entries
    PROVE  ExamIInv'
<1>1. errand' \in [Examiners -> ExamJob] BY DEF ExamIInv
<1>2. ASSUME NEW x \in Examiners PROVE ExamJobFits(errand'[x], ledger')
  <2>1. CASE x = t BY <2>1 DEF ExamIInv
  <2>2. CASE x # t
    <3>1. errand'[x] = errand[x] /\ ExamJobFits(errand[x], ledger) BY <2>2 DEF ExamIInv
    <3>2. errand[x].op = "award" => errand[x].rec \in DOMAIN ledger BY <3>1 DEF ExamJobFits
    <3> QED BY <3>1, <3>2 DEF ExamJobFits, LedgerForward
  <2> QED BY <2>1, <2>2
<1> QED BY <1>1, <1>2 DEF ExamIInv, LedgerForward, Entries

LEMMA ExamRequestsStay ==
    ASSUME ExamIInv, LedgerForward(ledger, ledger'), UNCHANGED errand, sweeping' \subseteq Entries
    PROVE  ExamIInv'
<1>1. ASSUME NEW x \in Examiners PROVE ExamJobFits(errand[x], ledger')
  <2>1. ExamJobFits(errand[x], ledger) BY DEF ExamIInv
  <2>2. errand[x].op = "award" => errand[x].rec \in DOMAIN ledger BY <2>1 DEF ExamJobFits
  <2> QED BY <2>1, <2>2 DEF ExamJobFits, LedgerForward
<1> QED BY <1>1 DEF ExamIInv, LedgerForward, Entries

(* A request takes a job or lays it down, and nothing else happens.        *)
LEMMA ExamTaking ==
    ASSUME ExamIInv, NEW t \in Examiners, NEW job \in ExamJob, ExamJobFits(job, ledger), Takes(t, job),
           UNCHANGED <<ledger, sweeping>>
    PROVE  ExamIInv'
BY LedgerStays, ExamMoves DEF Takes, ExamIInv

LEMMA UnoccupiedIsAJob == Unoccupied \in ExamJob /\ \A rows : ExamJobFits(Unoccupied, rows)
BY DEF ExamJob, ExamJobFits, Unoccupied

(* A request writes one row and lays its job down.                         *)
LEMMA EntryWritten ==
    ASSUME ExamIInv, NEW t \in Examiners, NEW r \in Entries, NEW row \in LedgerRow,
           row.status \in {ledger[r].status, "voided"}, RowUses(row),
           ledger' = [ledger EXCEPT ![r] = row], Leaves(t), sweeping' \subseteq Entries
    PROVE  ExamIInv'
<1>1. LedgerForward(ledger, ledger') BY LedgerChanges
<1> QED BY <1>1, ExamMoves, UnoccupiedIsAJob DEF Leaves

(* What is known of the row a job is about.                                *)
LEMMA EntryOfJob ==
    ASSUME ExamIInv, NEW t \in Examiners, errand[t].op \notin {"none", "reserve"}
    PROVE  /\ errand[t].rec \in Entries /\ ledger[errand[t].rec] \in LedgerRow
           /\ RowUses(ledger[errand[t].rec])
<1>1. errand[t].rec \in DOMAIN ledger BY DEF ExamIInv, ExamJobFits
<1>2. ledger \in Seq(LedgerRow) BY DEF ExamIInv, GoodLedger
<1> QED BY <1>1, <1>2 DEF ExamIInv, GoodLedger, Entries

-----------------------------------------------------------------------------
(* Requests that only take a job.                                          *)

LEMMA ExamJobKinds ==
    ASSUME NEW job \in ExamJob
    PROVE  /\ job.op = "submit" => job \in ScoringJobs
           /\ job.op \in {"void", "clear"} => job \in ReviewJobs
           /\ job.op = "answer" => job \in [op: {"answer"}, rec: Nat, choice: Choices]
           /\ job.op \in {"start", "paper", "award"} =>
                  job \in [op: {"start", "paper", "award"}, rec: Nat]
BY DEF ExamJob, ScoringJobs, ReviewJobs, Unoccupied

LEMMA EntriesAreNumbers ==
    ASSUME ExamIInv, NEW r \in Entries
    PROVE  r \in Nat /\ ledger[r] \in LedgerRow /\ RowUses(ledger[r]) /\ r \in DOMAIN ledger
<1>1. ledger \in Seq(LedgerRow) BY DEF ExamIInv, GoodLedger
<1> QED BY <1>1 DEF ExamIInv, GoodLedger, Entries

LEMMA ExamRequestsKeep == ASSUME ExamIInv, NEW t \in Browsers, ExamRequest(t) PROVE ExamIInv'
<1>1. t \in Examiners BY DEF Examiners
<1>2. CASE Apply(t)
  <2>1. [op |-> "reserve"] \in ExamJob /\ ExamJobFits([op |-> "reserve"], ledger) BY DEF ExamJob, ExamJobFits
  <2> QED BY <1>1, <1>2, <2>1, ExamTaking DEF Apply
<1>3. ASSUME NEW r \in Entries, StartExam(t, r) PROVE ExamIInv'
  <2> DEFINE job == [op |-> "start", rec |-> r]
  <2>1. job \in ExamJob /\ ExamJobFits(job, ledger) BY EntriesAreNumbers DEF ExamJob, ExamJobFits
  <2>2. Takes(t, job) /\ UNCHANGED <<ledger, sweeping>> BY <1>3 DEF StartExam
  <2> HIDE DEF job
  <2> QED BY <1>1, <2>1, <2>2, ExamTaking
<1>4. ASSUME NEW r \in Entries, TouchExam(t, r) \/ SubmitExam(t, r) PROVE ExamIInv'
  <2>1. PICK auto \in BOOLEAN :
            Takes(t, Scoring(r, auto)) /\ UNCHANGED <<ledger, sweeping>>
    BY <1>4 DEF TouchExam, SubmitExam
  <2>2. Scoring(r, auto) \in ExamJob /\ ExamJobFits(Scoring(r, auto), ledger)
    BY EntriesAreNumbers DEF ExamJob, ExamJobFits, Scoring, ScoringJobs
  <2> QED BY <1>1, <2>1, <2>2, ExamTaking
<1>5. ASSUME NEW r \in Entries, FindAward(t, r) PROVE ExamIInv'
  <2> DEFINE job == [op |-> "award", rec |-> r]
  <2>1. ledger[r].award = "open" /\ Takes(t, job) /\ UNCHANGED <<ledger, sweeping>>
    BY <1>5 DEF FindAward
  <2>2. job \in ExamJob /\ ExamJobFits(job, ledger)
    BY <2>1, EntriesAreNumbers DEF ExamJob, ExamJobFits, RowUses
  <2> HIDE DEF job
  <2> QED BY <1>1, <2>1, <2>2, ExamTaking
<1>6. ASSUME NEW r \in Entries, NEW c \in Choices, WriteAnswer(t, r, c) PROVE ExamIInv'
  <2> DEFINE job == [op |-> "answer", rec |-> r, choice |-> c]
  <2>1. job \in ExamJob /\ ExamJobFits(job, ledger) BY EntriesAreNumbers DEF ExamJob, ExamJobFits
  <2>2. Takes(t, job) /\ UNCHANGED <<ledger, sweeping>> BY <1>6 DEF WriteAnswer
  <2> HIDE DEF job
  <2> QED BY <1>1, <2>1, <2>2, ExamTaking
<1>7. ASSUME NEW r \in Entries, NEW action \in {"clear", "void"}, Review(t, r, action)
      PROVE  ExamIInv'
  <2> DEFINE status == IF action = "clear" THEN ledger[r].exam ELSE "voided"
             job == [op |-> action, rec |-> r, status |-> status]
  <2>1. status \in {"none", "in_progress", "voided"} \cup ExamEnded
    BY EntriesAreNumbers DEF LedgerRow
  <2>2. Takes(t, job) /\ UNCHANGED <<ledger, sweeping>> BY <1>7 DEF Review
  <2> HIDE DEF status
  <2>3. job \in ExamJob /\ ExamJobFits(job, ledger)
    BY <2>1, EntriesAreNumbers DEF ExamJob, ExamJobFits, ReviewJobs
  <2> HIDE DEF job
  <2> QED BY <1>1, <2>2, <2>3, ExamTaking
<1> QED BY <1>2, <1>3, <1>4, <1>5, <1>6, <1>7 DEF ExamRequest

-----------------------------------------------------------------------------
(* The later steps of a request.                                           *)

LEMMA ReserveKeeps == ASSUME ExamIInv, NEW t \in Examiners, Reserve(t) PROVE ExamIInv'
<1> DEFINE row == [status |-> "reserved", exam |-> "none", overdue |-> FALSE, paper |-> FALSE,
                   answer |-> "other", score |-> NoScore, award |-> "none"]
<1>1. row \in LedgerRow /\ RowUses(row) BY DEF LedgerRow, RowUses, Choices
<1>2. /\ Len(ledger) < MaxRecords /\ UNCHANGED sweeping /\ Leaves(t)
      /\ ledger' = IF Unique(Append(ledger, row)) THEN Append(ledger, row) ELSE ledger
  BY DEF Reserve
<1> HIDE DEF row
<1>3. LedgerForward(ledger, ledger')
  <2>1. CASE Unique(Append(ledger, row))
    BY <1>1, <1>2, <2>1, EntryAdded DEF ExamIInv, LedgerForward
  <2>2. CASE ~Unique(Append(ledger, row)) BY <1>2, <2>2, LedgerStays
  <2> QED BY <2>1, <2>2
<1> QED BY <1>2, <1>3, ExamMoves, UnoccupiedIsAJob DEF Leaves, ExamIInv

LEMMA OpenExamKeeps == ASSUME ExamIInv, NEW t \in Examiners, OpenExam(t) PROVE ExamIInv'
<1>0. PICK r \in Entries : r = errand[t].rec /\ ledger[r] \in LedgerRow /\ RowUses(ledger[r])
  BY EntryOfJob DEF OpenExam
<1>1. errand[t] \in ExamJob /\ errand[t].op = "start" BY DEF ExamIInv, OpenExam
<1>2. CASE ledger[r].exam = "none"
  <2> DEFINE row == [ledger[r] EXCEPT !.exam = "in_progress"]
             job == [errand[t] EXCEPT !.op = "paper"]
  <2>1. /\ ledger' = [ledger EXCEPT ![r] = row] /\ errand' = [errand EXCEPT ![t] = job]
        /\ UNCHANGED sweeping
    BY <1>0, <1>2 DEF OpenExam, Takes
  <2>2. row \in LedgerRow /\ row.status = ledger[r].status /\ RowUses(row)
    BY <1>0 DEF LedgerRow, RowUses
  <2>3. job \in ExamJob /\ job.op = "paper" /\ job.rec = r
    BY <1>0, <1>1, ExamJobKinds DEF ExamJob
  <2> HIDE DEF row, job
  <2>4. LedgerForward(ledger, ledger') BY <2>1, <2>2, LedgerChanges
  <2>5. ExamJobFits(job, ledger') BY <2>3, <2>4, EntriesAreNumbers DEF ExamJobFits, LedgerForward
  <2> QED BY <2>1, <2>3, <2>4, <2>5, ExamMoves DEF ExamIInv
<1>3. CASE ledger[r].exam # "none"
  BY <1>0, <1>3, ExamTaking, UnoccupiedIsAJob DEF OpenExam, Leaves, Takes
<1> QED BY <1>2, <1>3

LEMMA DrawPaperKeeps ==
    ASSUME ExamIInv, NEW t \in Examiners, NEW filled \in BOOLEAN, DrawPaper(t, filled) PROVE ExamIInv'
<1>0. PICK r \in Entries : r = errand[t].rec /\ ledger[r] \in LedgerRow /\ RowUses(ledger[r])
  BY EntryOfJob DEF DrawPaper
<1> DEFINE row == [ledger[r] EXCEPT !.paper = filled]
<1>1. ledger' = [ledger EXCEPT ![r] = row] /\ Leaves(t) /\ sweeping' \subseteq Entries
  BY <1>0 DEF DrawPaper, ExamIInv
<1>2. row \in LedgerRow /\ row.status = ledger[r].status /\ RowUses(row)
  BY <1>0 DEF LedgerRow, RowUses
<1> HIDE DEF row
<1> QED BY <1>1, <1>2, EntryWritten

LEMMA ReadAnswersKeeps == ASSUME ExamIInv, NEW t \in Examiners, ReadAnswers(t) PROVE ExamIInv'
<1>1. errand[t] \in ScoringJobs /\ ExamJobFits(errand[t], ledger) BY ExamJobKinds DEF ExamIInv, ReadAnswers
<1>2. PICK score \in {0, 1} : Takes(t, [errand[t] EXCEPT !.score = score])
  BY DEF ReadAnswers
<1> DEFINE job == [errand[t] EXCEPT !.score = score]
<1>3. job \in ScoringJobs /\ job.op = "submit" /\ job.rec = errand[t].rec
  BY <1>1 DEF ScoringJobs
<1>4. Takes(t, job) BY <1>2
<1> HIDE DEF job
<1>5. job \in ExamJob /\ ExamJobFits(job, ledger) BY <1>1, <1>3 DEF ExamJob, ExamJobFits, ScoringJobs
<1> QED BY <1>4, <1>5, ExamTaking DEF ReadAnswers

LEMMA CommitScoreKeeps == ASSUME ExamIInv, NEW t \in Examiners, CommitScore(t) PROVE ExamIInv'
<1>0. PICK r \in Entries : r = errand[t].rec /\ ledger[r] \in LedgerRow /\ RowUses(ledger[r])
  BY EntryOfJob DEF CommitScore
<1>1. errand[t] \in ScoringJobs BY ExamJobKinds DEF ExamIInv, CommitScore
<1> DEFINE row == Scored(ledger[r], errand[t])
           rows == [ledger EXCEPT ![r] = row]
<1>2. /\ IF Unique(rows) THEN ledger' = rows /\ UNCHANGED sweeping
          ELSE UNCHANGED ledger /\ sweeping' \subseteq sweeping
      /\ Leaves(t)
  BY <1>0 DEF CommitScore
<1>3. row \in LedgerRow /\ row.status = "consumed"
  <2> DEFINE score == errand[t].score
             exam == IF errand[t].auto THEN "expired" ELSE "submitted"
             award == IF errand[t].score = 1 /\ ledger[r].award = "none"
                        THEN "open" ELSE ledger[r].award
  <2>1. score \in {NoScore, 0, 1} /\ exam \in ExamEnded BY <1>1 DEF ScoringJobs, ExamEnded
  <2>2. award \in {"none", "open", "lapsed", "redeemed", "expired", "voided"}
    BY <1>0 DEF LedgerRow
  <2>3. row = [ledger[r] EXCEPT !.score = score, !.exam = exam, !.status = "consumed",
                                !.award = award]
    BY <1>0 DEF Scored, LedgerRow
  <2> HIDE DEF row, score, exam, award
  <2>4. row.status = "consumed" BY <1>0, <2>3 DEF LedgerRow
  <2> QED BY <1>0, <2>1, <2>2, <2>3, <2>4 DEF LedgerRow
<1> HIDE DEF row
<1>4. ledger \in Seq(LedgerRow) /\ Len(ledger) <= MaxRecords
      /\ \A x \in DOMAIN ledger : RowUses(ledger[x])
  BY DEF ExamIInv, GoodLedger
<1>5. /\ rows \in Seq(LedgerRow) /\ Len(rows) = Len(ledger) /\ DOMAIN rows = DOMAIN ledger
      /\ \A x \in DOMAIN ledger : rows[x] = IF x = r THEN row ELSE ledger[x]
  BY <1>3, <1>4 DEF Entries
<1> HIDE DEF rows
<1>6. Unique(rows) => LedgerForward(ledger, rows)
  <2>1. \A x \in DOMAIN rows : RowUses(rows[x]) BY <1>3, <1>4, <1>5 DEF RowUses
  <2> QED BY <1>3, <1>4, <1>5, <2>1 DEF LedgerForward, GoodLedger
<1>7. LedgerForward(ledger, ledger') BY <1>2, <1>6, LedgerStays
<1>8. sweeping' \subseteq Entries BY <1>2 DEF ExamIInv
<1> QED BY <1>2, <1>7, <1>8, ExamMoves, UnoccupiedIsAJob DEF Leaves

LEMMA SaveAnswerKeeps == ASSUME ExamIInv, NEW t \in Examiners, SaveAnswer(t) PROVE ExamIInv'
<1>0. PICK r \in Entries : r = errand[t].rec /\ ledger[r] \in LedgerRow /\ RowUses(ledger[r])
  BY EntryOfJob DEF SaveAnswer
<1>1. errand[t].choice \in Choices BY ExamJobKinds DEF ExamIInv, SaveAnswer
<1> DEFINE row == [ledger[r] EXCEPT !.answer = errand[t].choice]
<1>2. ledger' = [ledger EXCEPT ![r] = row] /\ Leaves(t) /\ sweeping' \subseteq Entries
  BY <1>0 DEF SaveAnswer, ExamIInv
<1>3. row \in LedgerRow /\ row.status = ledger[r].status /\ RowUses(row)
  BY <1>0, <1>1 DEF LedgerRow, RowUses
<1> HIDE DEF row
<1> QED BY <1>2, <1>3, EntryWritten

LEMMA RedeemKeeps == ASSUME ExamIInv, NEW t \in Examiners, RedeemAward(t) PROVE ExamIInv'
<1>0. PICK r \in Entries : r = errand[t].rec /\ ledger[r] \in LedgerRow /\ RowUses(ledger[r])
  BY EntryOfJob DEF RedeemAward
<1>1. ledger[r].status # "reserved" BY <1>0 DEF ExamIInv, ExamJobFits, RedeemAward
<1> DEFINE row == [ledger[r] EXCEPT !.award = "redeemed"]
<1>2. ledger' = [ledger EXCEPT ![r] = row] /\ Leaves(t) /\ sweeping' \subseteq Entries
  BY <1>0 DEF RedeemAward, ExamIInv
<1>3. row \in LedgerRow /\ row.status = ledger[r].status /\ RowUses(row)
  BY <1>0, <1>1 DEF LedgerRow, RowUses
<1> HIDE DEF row
<1> QED BY <1>2, <1>3, EntryWritten

LEMMA VoidTheAwardKeeps == ASSUME ExamIInv, NEW t \in Examiners, VoidTheAward(t) PROVE ExamIInv'
<1>0. PICK r \in Entries : r = errand[t].rec /\ ledger[r] \in LedgerRow /\ RowUses(ledger[r])
  BY EntryOfJob DEF VoidTheAward
<1>1. errand[t] \in ReviewJobs BY ExamJobKinds DEF ExamIInv, VoidTheAward
<1> DEFINE row == [ledger[r] EXCEPT !.award = IF @ = "none" THEN @ ELSE "voided"]
           job == [errand[t] EXCEPT !.op = "clear"]
<1>2. /\ ledger' = [ledger EXCEPT ![r] = row] /\ errand' = [errand EXCEPT ![t] = job]
      /\ UNCHANGED sweeping
  BY <1>0 DEF VoidTheAward, Takes
<1>3. row \in LedgerRow /\ row.status = ledger[r].status /\ RowUses(row)
  BY <1>0 DEF LedgerRow, RowUses
<1>4. job \in ReviewJobs /\ job.op = "clear" /\ job.rec = r BY <1>0, <1>1 DEF ReviewJobs
<1> HIDE DEF row, job
<1>5. LedgerForward(ledger, ledger') BY <1>2, <1>3, LedgerChanges
<1>6. job \in ExamJob BY <1>4 DEF ExamJob
<1>7. ExamJobFits(job, ledger') BY <1>4, <1>5, EntriesAreNumbers DEF ExamJobFits, LedgerForward
<1> QED BY <1>2, <1>5, <1>6, <1>7, ExamMoves DEF ExamIInv

LEMMA SaveReviewKeeps == ASSUME ExamIInv, NEW t \in Examiners, SaveReview(t) PROVE ExamIInv'
<1>0. PICK r \in Entries : r = errand[t].rec /\ ledger[r] \in LedgerRow /\ RowUses(ledger[r])
  BY EntryOfJob DEF SaveReview
<1>1. errand[t].status \in {"none", "in_progress", "voided"} \cup ExamEnded
  BY ExamJobKinds DEF ExamIInv, SaveReview, ReviewJobs
<1> DEFINE row == [ledger[r] EXCEPT !.exam = errand[t].status]
<1>2. ledger' = [ledger EXCEPT ![r] = row] /\ Leaves(t) /\ sweeping' \subseteq Entries
  BY <1>0 DEF SaveReview, ExamIInv
<1>3. row \in LedgerRow /\ row.status = ledger[r].status /\ RowUses(row)
  BY <1>0, <1>1 DEF LedgerRow, RowUses
<1> HIDE DEF row
<1> QED BY <1>2, <1>3, EntryWritten

LEMMA ExamStepsKeep == ASSUME ExamIInv, NEW t \in Examiners, ExamStep(t) PROVE ExamIInv'
BY ReserveKeeps, OpenExamKeeps, DrawPaperKeeps, ReadAnswersKeeps, CommitScoreKeeps,
    SaveAnswerKeeps, RedeemKeeps, VoidTheAwardKeeps, SaveReviewKeeps DEF ExamStep

-----------------------------------------------------------------------------
(* The clock, the beat jobs and the admin's single statements.             *)

LEMMA ExamSweepKeeps ==
    ASSUME ExamIInv, SweepBegins \/ \E r \in Entries : SweepTakes(r) PROVE ExamIInv'
<1>1. CASE SweepBegins
  BY <1>1, LedgerStays, ExamRequestsStay DEF SweepBegins, StaleExams
<1>2. ASSUME NEW r \in Entries, SweepTakes(r) PROVE ExamIInv'
  <2>1. sweeping' \subseteq Entries /\ UNCHANGED ledger BY <1>2 DEF SweepTakes, ExamIInv
  <2>2. CASE UNCHANGED errand BY <2>1, <2>2, LedgerStays, ExamRequestsStay
  <2>3. CASE Takes(Sweeper, Scoring(r, TRUE))
    <3>1. Scoring(r, TRUE) \in ExamJob /\ ExamJobFits(Scoring(r, TRUE), ledger')
      BY <2>1, EntriesAreNumbers DEF ExamJob, ExamJobFits, Scoring, ScoringJobs
    <3>2. Sweeper \in Examiners BY DEF Examiners
    <3> QED BY <2>1, <2>3, <3>1, <3>2, LedgerStays, ExamMoves DEF Takes
  <2> QED BY <1>2, <2>2, <2>3 DEF SweepTakes
<1> QED BY <1>1, <1>2

LEMMA ExamWritesKeep ==
    ASSUME ExamIInv, NEW r \in Entries,
           DeadlinePasses(r) \/ AwardLapses(r) \/ VoidRecord(r) \/ VoidAward(r)
    PROVE  ExamIInv'
<1>1. ledger[r] \in LedgerRow /\ RowUses(ledger[r]) BY EntriesAreNumbers
<1>2. PICK row : /\ row \in LedgerRow /\ row.status \in {ledger[r].status, "voided"}
                 /\ RowUses(row) /\ ledger' = [ledger EXCEPT ![r] = row]
  <2>1. CASE DeadlinePasses(r)
    <3> DEFINE row == [ledger[r] EXCEPT !.overdue = TRUE]
    <3>1. row \in LedgerRow /\ row.status = ledger[r].status /\ RowUses(row)
      BY <1>1 DEF LedgerRow, RowUses
    <3>2. ledger' = [ledger EXCEPT ![r] = row] BY <2>1 DEF DeadlinePasses
    <3> QED BY <3>1, <3>2
  <2>2. CASE AwardLapses(r)
    <3> DEFINE row == [ledger[r] EXCEPT !.award = "lapsed"]
    <3>1. row \in LedgerRow /\ row.status = ledger[r].status /\ RowUses(row)
      BY <1>1, <2>2 DEF LedgerRow, RowUses, AwardLapses
    <3>2. ledger' = [ledger EXCEPT ![r] = row] BY <2>2 DEF AwardLapses
    <3> QED BY <3>1, <3>2
  <2>3. CASE VoidRecord(r)
    <3> DEFINE row == [ledger[r] EXCEPT !.status = "voided"]
    <3>1. row \in LedgerRow /\ row.status = "voided" /\ RowUses(row)
      BY <1>1 DEF LedgerRow, RowUses
    <3>2. ledger' = [ledger EXCEPT ![r] = row] BY <2>3 DEF VoidRecord
    <3> QED BY <3>1, <3>2
  <2>4. CASE VoidAward(r)
    <3> DEFINE row == [ledger[r] EXCEPT !.award = "voided"]
    <3>1. row \in LedgerRow /\ row.status = ledger[r].status /\ RowUses(row)
      BY <1>1, <2>4 DEF LedgerRow, RowUses, VoidAward
    <3>2. ledger' = [ledger EXCEPT ![r] = row] BY <2>4 DEF VoidAward
    <3> QED BY <3>1, <3>2
  <2> QED BY <2>1, <2>2, <2>3, <2>4
<1>3. LedgerForward(ledger, ledger') BY <1>2, LedgerChanges
<1>4. UNCHANGED <<errand, sweeping>>
  BY DEF DeadlinePasses, AwardLapses, VoidRecord, VoidAward
<1> QED BY <1>3, <1>4, ExamRequestsStay DEF ExamIInv

LEMMA ExpireAwardsKeeps == ASSUME ExamIInv, ExpireAwards PROVE ExamIInv'
<1>1. /\ ledger \in Seq(LedgerRow) /\ Len(ledger) <= MaxRecords /\ Unique(ledger)
      /\ \A r \in DOMAIN ledger : RowUses(ledger[r])
  BY DEF ExamIInv, GoodLedger
<1> DEFINE Lapsed(row) == [row EXCEPT !.award = IF @ = "lapsed" THEN "expired" ELSE @]
<1>2. ledger' = [r \in Entries |-> Lapsed(ledger[r])] /\ UNCHANGED <<errand, sweeping>>
  BY DEF ExpireAwards
<1>3. \A row \in LedgerRow : /\ Lapsed(row) \in LedgerRow /\ Lapsed(row).status = row.status
                             /\ RowUses(row) => RowUses(Lapsed(row))
  BY DEF LedgerRow, RowUses
<1> HIDE DEF Lapsed
<1>4. Entries = 1..Len(ledger) /\ Len(ledger) \in Nat /\ \A r \in Entries : ledger[r] \in LedgerRow
  BY <1>1 DEF Entries
<1>5. ledger' \in [1..Len(ledger) -> LedgerRow] BY <1>2, <1>3, <1>4
<1>6. ledger' \in Seq(LedgerRow) /\ Len(ledger') = Len(ledger) /\ DOMAIN ledger' = DOMAIN ledger
  BY <1>4, <1>5 DEF Entries
<1>7. \A r \in DOMAIN ledger : ledger'[r] = Lapsed(ledger[r]) BY <1>2 DEF Entries
<1>8. ActiveRows(ledger') = ActiveRows(ledger)
  BY <1>3, <1>4, <1>6, <1>7 DEF ActiveRows, Entries
<1>9. Unique(ledger') BY <1>1, <1>8 DEF Unique
<1>10. \A r \in DOMAIN ledger' : RowUses(ledger'[r]) BY <1>1, <1>3, <1>4, <1>6, <1>7 DEF Entries
<1>11. GoodLedger(ledger') BY <1>1, <1>6, <1>9, <1>10 DEF GoodLedger
<1>12. LedgerForward(ledger, ledger') BY <1>3, <1>4, <1>6, <1>7, <1>11 DEF LedgerForward, Entries
<1> QED BY <1>2, <1>12, ExamRequestsStay DEF ExamIInv

(* The invariant holds in every state of every behaviour.                  *)
THEOREM ExamInvariance == ExamSpec => []ExamIInv
<1>1. ExamInit => ExamIInv
  <2>1. ASSUME ExamInit PROVE GoodLedger(ledger) /\ Entries = {}
    <3>1. ledger = <<>> BY <2>1 DEF ExamInit
    <3>2. ActiveRows(ledger) = {} /\ DOMAIN ledger = {} BY <3>1 DEF ActiveRows
    <3> QED BY <3>1, <3>2, FS_EmptySet, ScholarshipAssumption DEF GoodLedger, Unique, Entries
  <2> QED BY <2>1, UnoccupiedIsAJob DEF ExamInit, ExamIInv
<1>2. ASSUME ExamIInv, [ExamNext]_examVars PROVE ExamIInv'
  <2>1. CASE UNCHANGED examVars
    BY <1>2, <2>1 DEF examVars, ExamIInv, GoodLedger, ExamJobFits, Entries, Unique, ActiveRows, RowUses
  <2>2. CASE ExamNext
    BY <1>2, <2>2, ExamRequestsKeep, ExamStepsKeep, ExamSweepKeeps, ExamWritesKeep, ExpireAwardsKeeps
       DEF ExamNext
  <2> QED BY <1>2, <2>1, <2>2
<1> QED BY <1>1, <1>2, PTL DEF ExamSpec

(* Whatever the accounts, the sweep and an admin do at the same time, one  *)
(* attempt of the pupil counts, and who has a result or an award cannot    *)
(* sit the exam with the record again, for any number of records.          *)
THEOREM ExamIsSafe == ExamSpec => []ExamInv
<1>1. ASSUME ExamIInv PROVE ExamInv
  <2>1. ledger \in Seq(LedgerRow) /\ \A r \in Entries : ledger[r] \in LedgerRow
    BY <1>1, EntriesAreNumbers DEF ExamIInv, GoodLedger
  <2>2. {r \in Entries : ledger[r].status # "voided"} = ActiveRows(ledger)
    BY <2>1 DEF ActiveRows, Entries, LedgerRow
  <2>3. OneAttemptCounts BY <1>1, <2>2 DEF OneAttemptCounts, ExamIInv, GoodLedger, Unique
  <2>4. ResultUsesAttempt BY <1>1 DEF ResultUsesAttempt, ExamIInv, GoodLedger, RowUses, Entries
  <2>5. ExamTypeOK BY <1>1, <2>1 DEF ExamTypeOK, ExamIInv, GoodLedger, ExamJobFits, Entries
  <2> QED BY <2>3, <2>4, <2>5 DEF ExamInv
<1> QED BY <1>1, ExamInvariance, PTL

-----------------------------------------------------------------------------
(* Awards.                                                                 *)

SpentIn(rows, r) == rows[r].award \in {"redeemed", "expired", "voided"}

SpentStay == \A r \in Entries : SpentIn(ledger, r) => ledger'[r].award # "open"

LEMMA SpentRest == ASSUME UNCHANGED ledger PROVE SpentStay
BY DEF SpentStay, SpentIn

(* A row is written that leaves its award alone, spends it, or is the      *)
(* first to have one.                                                      *)
LEMMA SpentChange ==
    ASSUME ExamIInv, NEW r \in Entries, NEW row, ledger' = [ledger EXCEPT ![r] = row],
           row.award = "open" => ledger[r].award \in {"none", "open"}
    PROVE  SpentStay
<1>1. \A x \in Entries : ledger'[x] = IF x = r THEN row ELSE ledger[x]
  BY DEF ExamIInv, GoodLedger, Entries
<1> QED BY <1>1 DEF SpentStay, SpentIn

LEMMA SpentInSteps == ASSUME ExamIInv, NEW t \in Examiners, ExamStep(t) PROVE SpentStay
<1>1. ASSUME errand[t].op \notin {"none", "reserve"}
      PROVE  errand[t].rec \in Entries /\ ledger[errand[t].rec] \in LedgerRow
  BY <1>1, EntryOfJob
<1> DEFINE r == errand[t].rec
<1>2. CASE Reserve(t)
  <2>1. PICK row : ledger' = Append(ledger, row) \/ UNCHANGED ledger BY <1>2 DEF Reserve
  <2>2. \A x \in Entries : ledger'[x] = ledger[x]
    BY <2>1 DEF ExamIInv, GoodLedger, Entries
  <2> QED BY <2>2 DEF SpentStay, SpentIn
<1>3. CASE OpenExam(t)
  <2> DEFINE row == [ledger[r] EXCEPT !.exam = "in_progress"]
  <2>1. ledger' = [ledger EXCEPT ![r] = row] \/ UNCHANGED ledger BY <1>3 DEF OpenExam
  <2>2. r \in Entries /\ row.award = ledger[r].award BY <1>1, <1>3 DEF OpenExam, LedgerRow
  <2> HIDE DEF row
  <2> QED BY <2>1, <2>2, SpentRest, SpentChange
<1>4. ASSUME NEW filled \in BOOLEAN, DrawPaper(t, filled) PROVE SpentStay
  <2> DEFINE row == [ledger[r] EXCEPT !.paper = filled]
  <2>1. ledger' = [ledger EXCEPT ![r] = row] BY <1>4 DEF DrawPaper
  <2>2. r \in Entries /\ row.award = ledger[r].award BY <1>1, <1>4 DEF DrawPaper, LedgerRow
  <2> HIDE DEF row
  <2> QED BY <2>1, <2>2, SpentChange
<1>5. CASE CommitScore(t)
  <2> DEFINE row == Scored(ledger[r], errand[t])
  <2>1. ledger' = [ledger EXCEPT ![r] = row] \/ UNCHANGED ledger BY <1>5 DEF CommitScore
  <2>2. r \in Entries /\ (row.award = "open" => ledger[r].award \in {"none", "open"})
    BY <1>1, <1>5 DEF CommitScore, Scored, LedgerRow
  <2> HIDE DEF row
  <2> QED BY <2>1, <2>2, SpentRest, SpentChange
<1>6. CASE SaveAnswer(t)
  <2> DEFINE row == [ledger[r] EXCEPT !.answer = errand[t].choice]
  <2>1. ledger' = [ledger EXCEPT ![r] = row] BY <1>6 DEF SaveAnswer
  <2>2. r \in Entries /\ row.award = ledger[r].award BY <1>1, <1>6 DEF SaveAnswer, LedgerRow
  <2> HIDE DEF row
  <2> QED BY <2>1, <2>2, SpentChange
<1>7. CASE RedeemAward(t)
  <2> DEFINE row == [ledger[r] EXCEPT !.award = "redeemed"]
  <2>1. ledger' = [ledger EXCEPT ![r] = row] BY <1>7 DEF RedeemAward
  <2>2. r \in Entries /\ row.award # "open" BY <1>1, <1>7 DEF RedeemAward, LedgerRow
  <2> HIDE DEF row
  <2> QED BY <2>1, <2>2, SpentChange
<1>8. CASE VoidTheAward(t)
  <2> DEFINE row == [ledger[r] EXCEPT !.award = IF @ = "none" THEN @ ELSE "voided"]
  <2>1. ledger' = [ledger EXCEPT ![r] = row] BY <1>8 DEF VoidTheAward
  <2>2. r \in Entries /\ row.award # "open" BY <1>1, <1>8 DEF VoidTheAward, LedgerRow
  <2> HIDE DEF row
  <2> QED BY <2>1, <2>2, SpentChange
<1>9. CASE SaveReview(t)
  <2> DEFINE row == [ledger[r] EXCEPT !.exam = errand[t].status]
  <2>1. ledger' = [ledger EXCEPT ![r] = row] BY <1>9 DEF SaveReview
  <2>2. r \in Entries /\ row.award = ledger[r].award BY <1>1, <1>9 DEF SaveReview, LedgerRow
  <2> HIDE DEF row
  <2> QED BY <2>1, <2>2, SpentChange
<1>10. CASE ReadAnswers(t) BY <1>10, SpentRest DEF ReadAnswers
<1> QED BY <1>2, <1>3, <1>4, <1>5, <1>6, <1>7, <1>8, <1>9, <1>10 DEF ExamStep

LEMMA SpentInWrites ==
    ASSUME ExamIInv, NEW r \in Entries,
           DeadlinePasses(r) \/ AwardLapses(r) \/ VoidRecord(r) \/ VoidAward(r)
    PROVE  SpentStay
<1>1. ledger[r] \in LedgerRow BY EntriesAreNumbers
<1>2. PICK row : /\ ledger' = [ledger EXCEPT ![r] = row]
                 /\ row.award \in {ledger[r].award, "lapsed", "voided"}
  <2>1. CASE DeadlinePasses(r)
    <3> DEFINE row == [ledger[r] EXCEPT !.overdue = TRUE]
    <3>1. ledger' = [ledger EXCEPT ![r] = row] BY <2>1 DEF DeadlinePasses
    <3>2. row.award = ledger[r].award BY <1>1 DEF LedgerRow
    <3> QED BY <3>1, <3>2
  <2>2. CASE AwardLapses(r)
    <3> DEFINE row == [ledger[r] EXCEPT !.award = "lapsed"]
    <3>1. ledger' = [ledger EXCEPT ![r] = row] BY <2>2 DEF AwardLapses
    <3>2. row.award = "lapsed" BY <1>1 DEF LedgerRow
    <3> QED BY <3>1, <3>2
  <2>3. CASE VoidRecord(r)
    <3> DEFINE row == [ledger[r] EXCEPT !.status = "voided"]
    <3>1. ledger' = [ledger EXCEPT ![r] = row] BY <2>3 DEF VoidRecord
    <3>2. row.award = ledger[r].award BY <1>1 DEF LedgerRow
    <3> QED BY <3>1, <3>2
  <2>4. CASE VoidAward(r)
    <3> DEFINE row == [ledger[r] EXCEPT !.award = "voided"]
    <3>1. ledger' = [ledger EXCEPT ![r] = row] BY <2>4 DEF VoidAward
    <3>2. row.award = "voided" BY <1>1 DEF LedgerRow
    <3> QED BY <3>1, <3>2
  <2> QED BY <2>1, <2>2, <2>3, <2>4
<1> QED BY <1>2, SpentChange

LEMMA SpentInExpiry == ASSUME ExamIInv, ExpireAwards PROVE SpentStay
<1>1. \A r \in Entries :
          ledger'[r] = [ledger[r] EXCEPT !.award = IF @ = "lapsed" THEN "expired" ELSE @]
  BY DEF ExpireAwards
<1>2. ASSUME NEW r \in Entries, SpentIn(ledger, r) PROVE ledger'[r].award # "open"
  <2>1. ledger[r] \in LedgerRow BY EntriesAreNumbers
  <2> QED BY <1>1, <1>2, <2>1 DEF SpentIn, LedgerRow
<1> QED BY <1>2 DEF SpentStay

(* An award that was redeemed, voided or has expired never becomes usable  *)
(* again, whatever submits, sweeps, redemptions and reviews are still      *)
(* under way about it.                                                     *)
THEOREM SpentAwardsStaySpent == ExamSpec => SpentAwardStaysSpent
<1>1. ASSUME ExamIInv, [ExamNext]_examVars PROVE [SpentStay]_examVars
  <2>1. CASE UNCHANGED examVars BY <2>1
  <2>2. ASSUME NEW t \in Browsers, ExamRequest(t) PROVE SpentStay
    BY <2>2, SpentRest DEF ExamRequest, Apply, StartExam, TouchExam, SubmitExam, FindAward,
       WriteAnswer, Review
  <2>3. CASE SweepBegins \/ \E r \in Entries : SweepTakes(r)
    BY <2>3, SpentRest DEF SweepBegins, SweepTakes
  <2>4. CASE ExamNext
    BY <1>1, <2>2, <2>3, <2>4, SpentInSteps, SpentInWrites, SpentInExpiry DEF ExamNext
  <2> QED BY <1>1, <2>1, <2>4
<1>2. [SpentStay]_examVars => [\A r \in Entries : ledger[r].award \in {"redeemed", "expired", "voided"} =>
           ledger'[r].award # "open"]_examVars
  BY DEF SpentStay, SpentIn
<1> QED BY <1>1, <1>2, ExamInvariance, PTL DEF ExamSpec, SpentAwardStaysSpent

-----------------------------------------------------------------------------
(* The desks side by side.                                                 *)

DesksIInv == BookingIInv /\ DiaryIInv /\ ForumIInv /\ FacultyIInv

LEMMA DesksStart == DesksInit => DesksIInv
BY BookingStarts, DiaryStarts, ForumStarts, FacultyStarts DEF DesksInit, DesksIInv

(* One desk takes a step, the others rest.                                 *)
LEMMA DesksStepKeeps ==
    ASSUME DesksIInv, Careful, "tracks" \notin Crossing, [DesksNext]_desksVars
    PROVE  DesksIInv'
<1>1. BookingIInv /\ DiaryIInv /\ ForumIInv /\ FacultyIInv BY DEF DesksIInv
<1>2. [BookingNext]_bookingVars
  <2>1. CASE UNCHANGED desksVars BY <2>1 DEF desksVars
  <2>2. CASE DesksNext BY <2>2 DEF DesksNext
  <2> QED BY <2>1, <2>2
<1>3. [DiaryNext]_diaryVars
  <2>1. CASE UNCHANGED desksVars BY <2>1 DEF desksVars
  <2>2. CASE DesksNext BY <2>2 DEF DesksNext
  <2> QED BY <2>1, <2>2
<1>4. [ForumNext]_forumVars
  <2>1. CASE UNCHANGED desksVars BY <2>1 DEF desksVars
  <2>2. CASE DesksNext BY <2>2 DEF DesksNext
  <2> QED BY <2>1, <2>2
<1>5. [FacultyNext]_facultyVars
  <2>1. CASE UNCHANGED desksVars BY <2>1 DEF desksVars
  <2>2. CASE DesksNext BY <2>2 DEF DesksNext
  <2> QED BY <2>1, <2>2
<1>6. BookingIInv' BY <1>1, <1>2, BookingStepKeeps
<1>7. DiaryIInv' BY <1>1, <1>3, DiaryStepKeeps
<1>8. ForumIInv' BY <1>1, <1>4, ForumStepKeeps
<1>9. FacultyIInv' BY <1>1, <1>5, FacultyStepKeeps
<1> QED BY <1>6, <1>7, <1>8, <1>9 DEF DesksIInv

(* What the four desks hand out agrees, under the conditions each of them  *)
(* is claimed under: DeskBooksInv of every instance, not only of the run's.*)
THEOREM DesksAreConsistent ==
    ASSUME Careful, OnlyTimesCollide, "tracks" \notin Crossing
    PROVE  DesksSpec => []DeskBooksInv
<1>1. DesksIInv => DeskBooksInv
  BY BookingImplies, DiaryImplies, ForumImplies, FacultyImplies DEF DesksIInv, DeskBooksInv
<1>2. DesksIInv /\ [DesksNext]_desksVars => DesksIInv' BY DesksStepKeeps
<1> QED BY <1>1, <1>2, DesksStart, PTL DEF DesksSpec
=============================================================================
