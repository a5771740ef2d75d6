---------------------------- MODULE QuizAttempt -----------------------------
(***************************************************************************)
(* One learner profile takes one quiz of a teacher, in several tabs.       *)
(*                                                                         *)
(* Start holds a lock on the learner's profile, submit one on the attempt, *)
(* and the instant check of a practice answer none: what each has read can *)
(* be old when it writes.  A start that finds the open attempt past its    *)
(* deadline closes it or, when it holds no answers, deletes it, in the     *)
(* transaction that creates the next one.                                  *)
(*                                                                         *)
(* Abstractions.  A question has one right and one wrong choice and is     *)
(* worth one mark.  Nothing keeps an attempt from having several answers   *)
(* to a question, or several equal ones, which are numbered: a submitted   *)
(* list may repeat itself, and two tabs may check one question at once.    *)
(* Subscription, batch and email checks are left out.  The deadline        *)
(* includes the grace.                                                     *)
(***************************************************************************)
EXTENDS Integers, FiniteSets, Sequences

CONSTANTS
    Questions,
    QuizKinds,  \* the quizzes: [type, timed, quota, penalty]
    Tabs,       \* requests that may be under way
    Punctual,   \* TRUE: no deadline passes while a submit is under way
    MaxItems,   \* bound on the answers of a list, and on equal ones of an attempt
    MaxRows,    \* bound on attempts ever created
    NoAttempt   \* no attempt, no quota

QuizKind == [type: {"practice", "mock"}, timed: BOOLEAN, quota: Nat \cup {NoAttempt},
             penalty: Nat]

ASSUME QuizAttemptAssumption ==
    /\ IsFiniteSet(Questions) /\ QuizKinds \subseteq QuizKind
    /\ Punctual \in BOOLEAN /\ MaxItems \in Nat /\ MaxRows \in Nat
    /\ NoAttempt \notin Nat /\ NoAttempt \notin STRING

VARIABLES
    quiz,      \* the Quiz row as far as attempts read it
    assigned,  \* Quiz.is_assigned
    attempts,  \* QuizAttempt rows in the order of their creation
    tab        \* what each request has read and still has to do

attemptVars == <<quiz, assigned, attempts, tab>>

AnswerRow == Questions \X {"right", "wrong"} \X (1..MaxItems)
AttemptRow == [number: 1..MaxRows, status: {"PENDING", "SUBMITTED"}, expired: BOOLEAN,
               answers: SUBSET AnswerRow, score: Int]
TabIdle == [op |-> "none"]

ASSUME NoAttemptIsNoRow == NoAttempt \notin AttemptRow

AttemptTypeOK ==
    /\ quiz \in QuizKinds /\ assigned \in BOOLEAN
    /\ attempts \in Seq(AttemptRow \cup {NoAttempt}) /\ Len(attempts) <= MaxRows
    /\ \A t \in Tabs : tab[t].op \in {"none", "start", "submit", "check"}

AttemptInit ==
    /\ quiz \in QuizKinds
    /\ assigned \in BOOLEAN
    /\ attempts = <<>>
    /\ tab = [t \in Tabs |-> TabIdle]

-----------------------------------------------------------------------------
Rows == {a \in DOMAIN attempts : attempts[a] # NoAttempt}
PendingRows == {a \in Rows : attempts[a].status = "PENDING"}
SubmittedRows == {a \in Rows : attempts[a].status = "SUBMITTED"}

\* The member with the highest attempt number, if there is one.
LatestOf(rows) ==
    IF rows = {} THEN NoAttempt
    ELSE CHOOSE a \in rows : \A b \in rows : attempts[b].number <= attempts[a].number

\* negative_marks_for: only a mock subtracts.
ScoreOf(answers) ==
    Cardinality({x \in answers : x[2] = "right"})
        - (IF quiz.type = "mock" THEN quiz.penalty ELSE 0) * Cardinality({x \in answers : x[2] = "wrong"})

\* select_for_update of the submit under way holds the row.
RowFree(a) == \A t \in Tabs : ~(tab[t].op = "submit" /\ tab[t].row = a)
ProfileFree == \A t \in Tabs : tab[t].op # "start"

TabEnds(t) == tab' = [tab EXCEPT ![t] = TabIdle]
TabGoes(t, job) == tab' = [tab EXCEPT ![t] = job]

-----------------------------------------------------------------------------
(* StartQuizView.                                                          *)

(* faulty: no lock on the profile.                                         *)
StartUnlocked(t, intent) ==
    /\ tab[t] = TabIdle /\ assigned
    /\ LET open == LatestOf(PendingRows)
       IN  /\ open # NoAttempt => attempts[open].expired
           /\ TabGoes(t, [op |-> "start", row |-> open, intent |-> intent, swept |-> {},
                          step |-> IF open = NoAttempt THEN "create" ELSE "look"])
    /\ UNCHANGED <<quiz, assigned, attempts>>

\* An open attempt that is still in time is resumed and nothing changes.
StartAttempt(t, intent) ==
    /\ tab[t] = TabIdle /\ assigned /\ ProfileFree
    /\ LET open == LatestOf(PendingRows)
       IN  /\ open # NoAttempt => attempts[open].expired
           /\ TabGoes(t, [op |-> "start", row |-> open, intent |-> intent, swept |-> {},
                          step |-> IF open = NoAttempt THEN "create" ELSE "look"])
    /\ UNCHANGED <<quiz, assigned, attempts>>

\* Is there something to preserve?
StartLook(t) ==
    /\ tab[t].op = "start" /\ tab[t].step = "look"
    /\ TabGoes(t, [tab[t] EXCEPT !.step = IF attempts[tab[t].row].answers # {} THEN "close" ELSE "sweep"])
    /\ UNCHANGED <<quiz, assigned, attempts>>

\* Deleting an attempt first deletes the answers that are there by then.
StartSweep(t) ==
    /\ tab[t].op = "start" /\ tab[t].step = "sweep"
    /\ TabGoes(t, [tab[t] EXCEPT !.step = "delete", !.swept = attempts[tab[t].row].answers])
    /\ UNCHANGED <<quiz, assigned, attempts>>

\* The attempts once the expired one is closed or deleted.
Cleared(job) ==
    CASE job.step = "create" -> attempts
      [] job.step = "close"  -> [attempts EXCEPT ![job.row].status = "SUBMITTED"]
      [] job.step = "delete" -> [attempts EXCEPT ![job.row] = NoAttempt]

QuotaLeft(submitted) == quiz.quota = NoAttempt \/ submitted < quiz.quota

Fresh(n) == [number |-> n, status |-> "PENDING", expired |-> FALSE, answers |-> {}, score |-> 0]

(* faulty: deleted attempts are counted; numbers start at the last one.    *)
NextEverCreated(rows) == Fresh(Len(rows) + 1)
NextFromZero(rows) == Fresh(Cardinality({a \in DOMAIN rows : rows[a] # NoAttempt}))

\* The numbers of the rows that are left, and the row after the last of them.
Numbers(rows) == {rows[a].number : a \in {x \in DOMAIN rows : rows[x] # NoAttempt}}
NextAttempt(rows) ==
    LET numbers == Numbers(rows)
    IN  Fresh(IF numbers = {} THEN 1 ELSE 1 + CHOOSE n \in numbers : \A m \in numbers : m <= n)

(* faulty: the quota counts what was submitted before the expired attempt  *)
(* was closed.                                                             *)
CreatesBeforeClosing(rows, intent) ==
    /\ QuotaLeft(Cardinality(SubmittedRows))
    /\ \A a \in DOMAIN rows :
           rows[a] # NoAttempt /\ rows[a].status = "SUBMITTED" => intent

\* Quota first, then the wish for another attempt.
Creates(rows, intent) ==
    LET done == {a \in DOMAIN rows : rows[a] # NoAttempt /\ rows[a].status = "SUBMITTED"}
        last == {a \in done : \A n \in Numbers(rows) : n <= rows[a].number}
    IN  QuotaLeft(Cardinality(done)) /\ (last = {} \/ intent)

\* The rest of the transaction.  An answer that was committed after the sweep
\* makes the deletion fail at the commit, and with it the whole start.
StartCommit(t) ==
    /\ tab[t].op = "start" /\ tab[t].step \in {"create", "close", "delete"}
    /\ tab[t].step # "create" => RowFree(tab[t].row)
    /\ IF tab[t].step = "delete" /\ ~(attempts[tab[t].row].answers \subseteq tab[t].swept)
       THEN UNCHANGED attempts
       ELSE LET rows == Cleared(tab[t])
            IN  IF Creates(rows, tab[t].intent)
                THEN Len(attempts) < MaxRows /\ attempts' = Append(rows, NextAttempt(rows))
                ELSE attempts' = rows
    /\ TabEnds(t)
    /\ UNCHANGED <<quiz, assigned>>

-----------------------------------------------------------------------------
(* SubmitQuizView and QuizSubmitSerializer.save.                           *)

(* faulty: the open attempt is read without a lock.                        *)
SubmitUnlocked(t, payload) ==
    /\ tab[t] = TabIdle /\ assigned
    /\ \E a \in PendingRows :
           /\ a = LatestOf(PendingRows) /\ ~attempts[a].expired
           /\ TabGoes(t, [op |-> "submit", row |-> a, payload |-> payload])
    /\ UNCHANGED <<quiz, assigned, attempts>>

\* The lock waits for another submit and then finds the attempt submitted.
Submit(t, payload) ==
    /\ tab[t] = TabIdle /\ assigned
    /\ \E a \in PendingRows :
           /\ a = LatestOf(PendingRows) /\ RowFree(a) /\ ~attempts[a].expired
           /\ TabGoes(t, [op |-> "submit", row |-> a, payload |-> payload])
    /\ UNCHANGED <<quiz, assigned, attempts>>

(* faulty: scored before the answers are replaced.                         *)
GradedEarly(row, payload) ==
    [row EXCEPT !.status = "SUBMITTED", !.answers = payload, !.score = ScoreOf(row.answers)]

\* The recorded answers give way to those of the paper.
Graded(row, payload) ==
    [row EXCEPT !.status = "SUBMITTED", !.answers = payload, !.score = ScoreOf(payload)]

SubmitCommit(t) ==
    /\ tab[t].op = "submit"
    /\ attempts' = [attempts EXCEPT ![tab[t].row] = Graded(@, tab[t].payload)]
    /\ TabEnds(t)
    /\ UNCHANGED <<quiz, assigned>>

-----------------------------------------------------------------------------
(* CheckAnswerView: instant feedback of a practice quiz.                   *)

\* The row after the equal ones, if the bound leaves one.
NextRows(answers, answer) ==
    {x \in AnswerRow \ answers :
        /\ <<x[1], x[2]>> = answer
        /\ \A n \in 1..(x[3] - 1) : <<x[1], x[2], n>> \in answers}

Check(t, q, choice) ==
    /\ tab[t] = TabIdle /\ assigned /\ quiz.type = "practice"
    /\ \E a \in PendingRows :
           /\ a = LatestOf(PendingRows)
           /\ \A x \in attempts[a].answers : x[1] # q
           /\ TabGoes(t, [op |-> "check", row |-> a, answer |-> <<q, choice>>])
    /\ UNCHANGED <<quiz, assigned, attempts>>

\* The insert waits for whoever holds the attempt; it fails when it is gone.
CheckCommit(t) ==
    /\ tab[t].op = "check" /\ RowFree(tab[t].row)
    /\ IF attempts[tab[t].row] = NoAttempt THEN UNCHANGED attempts
       ELSE \E x \in NextRows(attempts[tab[t].row].answers, tab[t].answer) :
                attempts' = [attempts EXCEPT ![tab[t].row].answers = @ \cup {x}]
    /\ TabEnds(t)
    /\ UNCHANGED <<quiz, assigned>>

-----------------------------------------------------------------------------
\* TeacherQuizAssignView.
Assign(on) ==
    /\ assigned # on /\ assigned' = on
    /\ UNCHANGED <<quiz, attempts, tab>>

\* The deadline and its grace pass.
Expire(a) ==
    /\ quiz.timed /\ a \in PendingRows /\ ~attempts[a].expired
    /\ Punctual => RowFree(a)
    /\ attempts' = [attempts EXCEPT ![a].expired = TRUE]
    /\ UNCHANGED <<quiz, assigned, tab>>

(* What a submitted list becomes: any number of answers to each question.  *)
Papers == {p \in SUBSET AnswerRow :
               /\ Cardinality(p) <= MaxItems
               /\ \A x \in p : x[3] > 1 => <<x[1], x[2], x[3] - 1>> \in p}

AttemptNext ==
    \/ \E t \in Tabs :
           \/ \E intent \in BOOLEAN : StartAttempt(t, intent)
           \/ StartLook(t) \/ StartSweep(t) \/ StartCommit(t)
           \/ \E p \in Papers : Submit(t, p)
           \/ SubmitCommit(t)
           \/ \E q \in Questions, choice \in {"right", "wrong"} : Check(t, q, choice)
           \/ CheckCommit(t)
    \/ \E on \in BOOLEAN : Assign(on)
    \/ \E a \in Rows : Expire(a)

AttemptSpec == AttemptInit /\ [][AttemptNext]_attemptVars

-----------------------------------------------------------------------------
(* Properties.                                                             *)

\* However many tabs press Start, one attempt is open at a time (views.py:1563).
OneAttemptOpen == Cardinality(PendingRows) <= 1

\* Each attempt has a number of its own and the numbers count from 1 without
\* a gap, although expired attempts are deleted.
NumbersRunOn == {attempts[a].number : a \in Rows} = 1..Cardinality(Rows)

\* The learner never gets more attempts than the quota, the open one included,
\* though the quota is counted while other tabs submit.
QuotaKept == quiz.quota # NoAttempt => Cardinality(Rows) <= quiz.quota

\* What was submitted is never deleted, reopened or graded again by another
\* tab, and the paper of a mock is not touched (views.py:1622).
SubmittedStands ==
    [][\A a \in SubmittedRows :
           /\ attempts'[a] # NoAttempt
           /\ attempts'[a].status = "SUBMITTED" /\ attempts'[a].score = attempts[a].score
           /\ quiz.type = "mock" => attempts'[a].answers = attempts[a].answers]_attemptVars

\* The score of a submitted mock is the score of the answers it keeps.
ScoreIsOfTheAnswers ==
    quiz.type = "mock" => \A a \in SubmittedRows : attempts[a].score = ScoreOf(attempts[a].answers)

\* The state invariant: whatever tabs start, check and submit at once, there is
\* one open attempt, numbers run on, the quota is kept and scores are true.
AttemptInv ==
    /\ AttemptTypeOK /\ OneAttemptOpen /\ NumbersRunOn
    /\ QuotaKept /\ ScoreIsOfTheAnswers
=============================================================================
