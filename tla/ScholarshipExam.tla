--------------------------- MODULE ScholarshipExam ---------------------------
(***************************************************************************)
(* The scholarship exam of one pupil in one academic year.  The requests   *)
(* may come from several accounts that apply for the same pupil; the       *)
(* eligibility ledger grants one attempt, an admin can void it.            *)
(*                                                                         *)
(* Nothing here takes a lock.  A handler reads the session, acts on the    *)
(* copy and writes it back, so every handler that decides on what it has   *)
(* read is two steps or more.  The celery sweep of every minute submits    *)
(* the overdue exams one after the other in one task.                      *)
(*                                                                         *)
(* Abstractions.  A paper is one question and its answer right or anything *)
(* else, so the score is 0 or 1 and only 1 earns an award.  LOCKED and     *)
(* ACTIVE awards are both "open", and "lapsed" past expires_at.  Guardian  *)
(* verification, the class check and the cheat signals are left out.       *)
(***************************************************************************)
EXTENDS Integers, Sequences, FiniteSets

CONSTANTS
    Browsers,      \* requests that may be under way
    Sweeper,       \* the worker that runs expire_exam_sessions
    MaxRecords,    \* bound on eligibility records
    Reviewing,     \* TRUE: an admin reviews sessions
    VoidsSitting,  \* TRUE: an admin voids a record whose exam is not over
    NoScore

ASSUME ScholarshipAssumption ==
    /\ Sweeper \notin Browsers /\ MaxRecords \in Nat
    /\ Reviewing \in BOOLEAN /\ VoidsSitting \in BOOLEAN /\ NoScore \notin {0, 1}

VARIABLES
    ledger,    \* eligibility records with their exam and award, oldest first
    errand,    \* what each request has read and still has to do
    sweeping   \* sessions the sweep still has to submit

examVars == <<ledger, errand, sweeping>>

Choices == {"right", "other"}
ExamEnded == {"submitted", "expired"}
LedgerRow == [status: {"reserved", "consumed", "voided"},
              exam: {"none", "in_progress", "voided"} \cup ExamEnded, overdue: BOOLEAN,
              paper: BOOLEAN, answer: Choices, score: {NoScore, 0, 1},
              award: {"none", "open", "lapsed", "redeemed", "expired", "voided"}]
Unoccupied == [op |-> "none"]
Examiners == Browsers \cup {Sweeper}

ExamTypeOK ==
    /\ ledger \in Seq(LedgerRow) /\ Len(ledger) <= MaxRecords
    /\ \A t \in Examiners : errand[t].op \notin {"none", "reserve"} => errand[t].rec \in DOMAIN ledger
    /\ sweeping \subseteq DOMAIN ledger

ExamInit ==
    /\ ledger = <<>>
    /\ errand = [t \in Examiners |-> Unoccupied]
    /\ sweeping = {}

-----------------------------------------------------------------------------
Entries == DOMAIN ledger
ActiveRows(rows) == {r \in DOMAIN rows : rows[r].status \in {"reserved", "consumed"}}

Takes(t, job) == errand' = [errand EXCEPT ![t] = job]
Leaves(t) == errand' = [errand EXCEPT ![t] = Unoccupied]

-----------------------------------------------------------------------------
(* Eligibility: get_or_reserve_eligibility.                                *)

\* An active record is resumed or refused, and nothing changes.
Apply(t) ==
    /\ errand[t] = Unoccupied /\ ActiveRows(ledger) = {}
    /\ Takes(t, [op |-> "reserve"])
    /\ UNCHANGED <<ledger, sweeping>>

(* faulty: no unique constraint.                                           *)
Reservable(rows) == TRUE

\* scholarship_one_active_attempt_per_year
Unique(rows) == Cardinality(ActiveRows(rows)) <= 1

Reserve(t) ==
    /\ errand[t].op = "reserve" /\ Len(ledger) < MaxRecords
    /\ LET rows == Append(ledger, [status |-> "reserved", exam |-> "none",
                                   overdue |-> FALSE, paper |-> FALSE, answer |-> "other",
                                   score |-> NoScore, award |-> "none"])
       IN  ledger' = IF Unique(rows) THEN rows ELSE ledger
    /\ Leaves(t)
    /\ UNCHANGED sweeping

-----------------------------------------------------------------------------
(* start_or_resume_exam_session and generate_exam_questions.               *)

StartExam(t, r) ==
    /\ errand[t] = Unoccupied
    /\ ledger[r].status # "voided" /\ ledger[r].exam = "none"
    /\ Takes(t, [op |-> "start", rec |-> r])
    /\ UNCHANGED <<ledger, sweeping>>

\* The exam of a record is one to one: the second insert fails.
OpenExam(t) ==
    /\ errand[t].op = "start"
    /\ IF ledger[errand[t].rec].exam = "none"
       THEN /\ ledger' = [ledger EXCEPT ![errand[t].rec].exam = "in_progress"]
            /\ Takes(t, [errand[t] EXCEPT !.op = "paper"])
       ELSE Leaves(t) /\ UNCHANGED ledger
    /\ UNCHANGED sweeping

\* A bank that cannot fill the paper leaves the session without questions.
DrawPaper(t, filled) ==
    /\ errand[t].op = "paper"
    /\ ledger' = [ledger EXCEPT ![errand[t].rec].paper = filled]
    /\ Leaves(t)
    /\ UNCHANGED sweeping

-----------------------------------------------------------------------------
(* submit_exam.                                                            *)

Scoring(r, auto) == [op |-> "submit", rec |-> r, auto |-> auto, score |-> NoScore]

\* Any read of an overdue session: expire_if_past_deadline.
TouchExam(t, r) ==
    /\ errand[t] = Unoccupied
    /\ ledger[r].exam = "in_progress" /\ ledger[r].overdue
    /\ Takes(t, Scoring(r, TRUE))
    /\ UNCHANGED <<ledger, sweeping>>

\* ExamSubmitView: whatever is not over is scored, a voided session too.
SubmitExam(t, r) ==
    /\ errand[t] = Unoccupied
    /\ ledger[r].exam \notin ExamEnded \cup {"none"}
    /\ ~Reviewing => ledger[r].exam # "voided"
    /\ Takes(t, Scoring(r, FALSE))
    /\ UNCHANGED <<ledger, sweeping>>

ReadAnswers(t) ==
    /\ errand[t].op = "submit" /\ errand[t].score = NoScore
    /\ LET row == ledger[errand[t].rec]
       IN  Takes(t, [errand[t] EXCEPT !.score = IF row.paper /\ row.answer = "right" THEN 1 ELSE 0])
    /\ UNCHANGED <<ledger, sweeping>>

(* faulty: the attempt is used up only when it earned something.           *)
ScoredForWinners(row, job) ==
    [row EXCEPT !.score = job.score, !.exam = IF job.auto THEN "expired" ELSE "submitted",
                !.status = IF job.score = 1 THEN "consumed" ELSE @,
                !.award = IF job.score = 1 /\ @ = "none" THEN "open" ELSE @]

(* faulty: every submit mints a usable award.                              *)
ScoredMintingAgain(row, job) ==
    [row EXCEPT !.score = job.score, !.exam = IF job.auto THEN "expired" ELSE "submitted",
                !.status = "consumed", !.award = IF job.score = 1 THEN "open" ELSE @]

(* faulty: the session is given a word that is none of its statuses.       *)
ScoredWithFlag(row, job) ==
    [row EXCEPT !.score = job.score, !.exam = IF job.auto THEN "auto_expired" ELSE "submitted",
                !.status = "consumed",
                !.award = IF job.score = 1 /\ @ = "none" THEN "open" ELSE @]

\* The award is get_or_create: one that is there stays as it is.
Scored(row, job) ==
    [row EXCEPT !.score = job.score, !.exam = IF job.auto THEN "expired" ELSE "submitted",
                !.status = "consumed",
                !.award = IF job.score = 1 /\ @ = "none" THEN "open" ELSE @]

\* One transaction.  A record voided meanwhile becomes consumed again; when
\* another one has taken its place the constraint undoes the whole submit,
\* and the exception ends the sweep.
CommitScore(t) ==
    /\ errand[t].op = "submit" /\ errand[t].score # NoScore
    /\ LET rows == [ledger EXCEPT ![errand[t].rec] = Scored(@, errand[t])]
       IN  IF Unique(rows)
           THEN ledger' = rows /\ UNCHANGED sweeping
           ELSE /\ UNCHANGED ledger
                /\ sweeping' = IF t = Sweeper THEN {} ELSE sweeping
    /\ Leaves(t)

-----------------------------------------------------------------------------
(* Answers: ExamAnswerView.                                                *)

\* patch asks for a session in progress, delete only for the deadline.
WriteAnswer(t, r, c) ==
    /\ errand[t] = Unoccupied
    /\ ledger[r].paper /\ ~ledger[r].overdue
    /\ c = "right" => ledger[r].exam = "in_progress"
    /\ Takes(t, [op |-> "answer", rec |-> r, choice |-> c])
    /\ UNCHANGED <<ledger, sweeping>>

SaveAnswer(t) ==
    /\ errand[t].op = "answer"
    /\ ledger' = [ledger EXCEPT ![errand[t].rec].answer = errand[t].choice]
    /\ Leaves(t)
    /\ UNCHANGED sweeping

-----------------------------------------------------------------------------
(* The beat jobs and the clock.                                            *)

\* Once an exam is over its deadline no longer matters.
DeadlinePasses(r) ==
    /\ ledger[r].exam = "in_progress" /\ ~ledger[r].overdue
    /\ ledger' = [ledger EXCEPT ![r].overdue = TRUE]
    /\ UNCHANGED <<errand, sweeping>>

(* faulty: exams without a paper are passed over.                          *)
StaleWithPaper == {r \in Entries : ledger[r].exam = "in_progress" /\ ledger[r].overdue /\ ledger[r].paper}

StaleExams == {r \in Entries : ledger[r].exam = "in_progress" /\ ledger[r].overdue}

SweepBegins ==
    /\ sweeping = {} /\ errand[Sweeper] = Unoccupied /\ StaleExams # {}
    /\ sweeping' = StaleExams
    /\ UNCHANGED <<ledger, errand>>

\* The session is read again; one that has ended is passed over.
SweepTakes(r) ==
    /\ r \in sweeping /\ errand[Sweeper] = Unoccupied
    /\ sweeping' = sweeping \ {r}
    /\ IF ledger[r].exam \in ExamEnded THEN UNCHANGED errand ELSE Takes(Sweeper, Scoring(r, TRUE))
    /\ UNCHANGED ledger

\* The award outlives its academic year.
AwardLapses(r) ==
    /\ ledger[r].award = "open"
    /\ ledger' = [ledger EXCEPT ![r].award = "lapsed"]
    /\ UNCHANGED <<errand, sweeping>>

\* expire_scholarship_awards: one update statement.
ExpireAwards ==
    /\ \E r \in Entries : ledger[r].award = "lapsed"
    /\ ledger' = [r \in Entries |-> [ledger[r] EXCEPT !.award = IF @ = "lapsed" THEN "expired" ELSE @]]
    /\ UNCHANGED <<errand, sweeping>>

-----------------------------------------------------------------------------
(* The award at enrollment, and the admin.                                 *)

\* get_active_award, then redeem_award on the copy.
FindAward(t, r) ==
    /\ errand[t] = Unoccupied /\ ledger[r].award = "open"
    /\ Takes(t, [op |-> "award", rec |-> r])
    /\ UNCHANGED <<ledger, sweeping>>

RedeemAward(t) ==
    /\ errand[t].op = "award"
    /\ ledger' = [ledger EXCEPT ![errand[t].rec].award = "redeemed"]
    /\ Leaves(t)
    /\ UNCHANGED sweeping

\* ExamSessionDetailAdminView: "clear" saves the status it has read, "void"
\* updates the award and then saves the session.
Review(t, r, action) ==
    /\ Reviewing
    /\ errand[t] = Unoccupied /\ ledger[r].exam # "none"
    /\ Takes(t, [op |-> action, rec |-> r, status |-> IF action = "clear" THEN ledger[r].exam ELSE "voided"])
    /\ UNCHANGED <<ledger, sweeping>>

VoidTheAward(t) ==
    /\ errand[t].op = "void"
    /\ ledger' = [ledger EXCEPT ![errand[t].rec].award = IF @ = "none" THEN @ ELSE "voided"]
    /\ Takes(t, [errand[t] EXCEPT !.op = "clear"])
    /\ UNCHANGED sweeping

SaveReview(t) ==
    /\ errand[t].op = "clear"
    /\ ledger' = [ledger EXCEPT ![errand[t].rec].exam = errand[t].status]
    /\ Leaves(t)
    /\ UNCHANGED sweeping

\* EligibilityVoidView
VoidRecord(r) ==
    /\ ledger[r].status # "voided"
    /\ VoidsSitting \/ /\ ledger[r].exam \notin {"none", "in_progress"}
                       /\ \A t \in Examiners : errand[t] # Unoccupied => errand[t].op = "reserve"
    /\ ledger' = [ledger EXCEPT ![r].status = "voided"]
    /\ UNCHANGED <<errand, sweeping>>

\* AwardVoidView
VoidAward(r) ==
    /\ ledger[r].award \notin {"none", "voided"}
    /\ ledger' = [ledger EXCEPT ![r].award = "voided"]
    /\ UNCHANGED <<errand, sweeping>>

ExamStep(t) ==
    \/ Reserve(t) \/ OpenExam(t) \/ \E filled \in BOOLEAN : DrawPaper(t, filled)
    \/ ReadAnswers(t) \/ CommitScore(t) \/ SaveAnswer(t)
    \/ RedeemAward(t) \/ VoidTheAward(t) \/ SaveReview(t)

ExamRequest(t) ==
    \/ Apply(t)
    \/ \E r \in Entries :
           \/ StartExam(t, r) \/ TouchExam(t, r) \/ SubmitExam(t, r) \/ FindAward(t, r)
           \/ \E c \in Choices : WriteAnswer(t, r, c)
           \/ \E action \in {"clear", "void"} : Review(t, r, action)

ExamNext ==
    \/ \E t \in Browsers : ExamRequest(t)
    \/ \E t \in Examiners : ExamStep(t)
    \/ SweepBegins
    \/ \E r \in Entries : DeadlinePasses(r) \/ AwardLapses(r) \/ SweepTakes(r)
                          \/ VoidRecord(r) \/ VoidAward(r)
    \/ ExpireAwards

\* A request that was accepted ends; the beat runs the sweep again and again.
ExamFairness ==
    /\ \A t \in Examiners : WF_examVars(ExamStep(t))
    /\ WF_examVars(SweepBegins)
    /\ WF_examVars(\E r \in Entries : SweepTakes(r))

ExamSpec == ExamInit /\ [][ExamNext]_examVars
FairExamSpec == ExamSpec /\ ExamFairness

-----------------------------------------------------------------------------
(* Properties.                                                             *)

\* Whatever the accounts and the admin do at the same time, the pupil never
\* has two attempts that count (models.py:402).
OneAttemptCounts == Cardinality({r \in Entries : ledger[r].status # "voided"}) <= 1

\* A result and an award use the attempt up: neither is there while the ledger
\* would still let the pupil sit the exam with the record.
ResultUsesAttempt ==
    \A r \in Entries : ledger[r].score # NoScore \/ ledger[r].award # "none" =>
        ledger[r].status # "reserved"

\* No second submit, sweep or review makes an award usable again that was
\* redeemed, voided or has expired.
SpentAwardStaysSpent ==
    [][\A r \in Entries : ledger[r].award \in {"redeemed", "expired", "voided"} =>
           ledger'[r].award # "open"]_examVars

\* An exam whose deadline has passed is scored, whether or not anybody comes
\* back to it (tasks.py:1).
OverdueExamIsScored ==
    \A r \in 1..MaxRecords :
        (r \in Entries /\ ledger[r].exam = "in_progress" /\ ledger[r].overdue)
            ~> (r \in Entries /\ ledger[r].exam # "in_progress")

\* The state invariant: one attempt counts, and a result uses it up, also when
\* records are voided and scored again.
ExamInv == ExamTypeOK /\ OneAttemptCounts /\ ResultUsesAttempt
=============================================================================
