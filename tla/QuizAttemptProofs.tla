-------------------------- MODULE QuizAttemptProofs --------------------------
(***************************************************************************)
(* A quiz taken in any number of tabs: one attempt is open, numbers run    *)
(* on, the quota is kept, scores are true, and, when no deadline passes    *)
(* under a submit, what was submitted stands.                              *)
(***************************************************************************)
EXTENDS QuizAttempt, FiniteSetTheorems, TLAPS

(* The attempts that are there, and the open ones, of any list of rows.    *)
Held(rows) == {a \in DOMAIN rows : rows[a] # NoAttempt}
OpenIn(rows) == {a \in Held(rows) : rows[a].status = "PENDING"}

(* Each attempt has a number of its own, and only the last can be open.    *)
InOrder(rows) ==
    /\ Numbers(rows) = 1..Cardinality(Held(rows))
    /\ \A a, b \in Held(rows) : rows[a].number = rows[b].number => a = b
    /\ \A a \in OpenIn(rows) : rows[a].number = Cardinality(Held(rows))

InQuota(rows) == quiz.quota # NoAttempt => Cardinality(Held(rows)) <= quiz.quota

(* In a mock, open attempts too have the score of their answers: none.     *)
TrueScore(row) == quiz.type = "mock" => row.score = ScoreOf(row.answers)

GoodRows(rows) ==
    /\ rows \in Seq(AttemptRow \cup {NoAttempt}) /\ Len(rows) <= MaxRows
    /\ InOrder(rows) /\ InQuota(rows)
    /\ \A a \in Held(rows) : TrueScore(rows[a])

(* What a tab holds between its steps.                                     *)
StartJob == [op: {"start"}, row: Nat \cup {NoAttempt}, intent: BOOLEAN,
             swept: SUBSET AnswerRow, step: {"create", "look", "close", "sweep", "delete"}]
SubmitJob == [op: {"submit"}, row: Nat, payload: SUBSET AnswerRow]
CheckJob == [op: {"check"}, row: Nat, answer: Questions \X {"right", "wrong"}]
Job == {TabIdle} \cup StartJob \cup SubmitJob \cup CheckJob

(* A start is about the last attempt, or about none when none is open; a   *)
(* submit about the open one.  When no deadline passes under a submit, the *)
(* two are never about the same.                                           *)
JobFits(job, rows) ==
    /\ job.op = "start" =>
         IF job.step = "create" THEN OpenIn(rows) = {}
         ELSE /\ job.row \in Held(rows) /\ rows[job.row].number = Cardinality(Held(rows))
              /\ Punctual => job.row \in OpenIn(rows) /\ rows[job.row].expired
    /\ job.op = "submit" =>
         job.row \in OpenIn(rows) /\ (Punctual => ~rows[job.row].expired)
    /\ job.op = "check" => job.row \in DOMAIN rows /\ quiz.type = "practice"

(* The two locks: one start at a time, and one submit of an attempt.       *)
Clash(job, other) ==
    /\ job.op = other.op
    /\ job.op = "start" \/ (job.op = "submit" /\ job.row = other.row)

IInv ==
    /\ quiz \in QuizKinds /\ assigned \in BOOLEAN
    /\ GoodRows(attempts)
    /\ tab \in [Tabs -> Job]
    /\ \A t \in Tabs : JobFits(tab[t], attempts)
    /\ \A t, u \in Tabs : t # u => ~Clash(tab[t], tab[u])

-----------------------------------------------------------------------------
(* Counting.                                                               *)

LEMMA Indices ==
    ASSUME NEW rows \in Seq(AttemptRow \cup {NoAttempt})
    PROVE  /\ DOMAIN rows = 1..Len(rows) /\ Len(rows) \in Nat
           /\ IsFiniteSet(Held(rows)) /\ Cardinality(Held(rows)) \in Nat
           /\ Cardinality(Held(rows)) <= Len(rows)
           /\ \A a \in Held(rows) : a \in Nat /\ rows[a] \in AttemptRow
<1>1. DOMAIN rows = 1..Len(rows) /\ Len(rows) \in Nat OBVIOUS
<1>2. IsFiniteSet(1..Len(rows)) /\ Cardinality(1..Len(rows)) = Len(rows)
  BY <1>1, FS_Interval
<1>3. Held(rows) \subseteq 1..Len(rows) BY <1>1 DEF Held
<1>4. IsFiniteSet(Held(rows)) /\ Cardinality(Held(rows)) <= Len(rows)
  BY <1>2, <1>3, FS_Subset
<1>5. \A a \in Held(rows) : a \in Nat /\ rows[a] \in AttemptRow BY <1>1 DEF Held
<1> QED BY <1>1, <1>4, <1>5, FS_CardinalityType

LEMMA NumbersOf == \A rows : Numbers(rows) = {rows[a].number : a \in Held(rows)}
BY DEF Numbers, Held

(* The parts of GoodRows(rows), each for the steps that need it.           *)
LEMMA InOrderGives ==
    ASSUME NEW rows, GoodRows(rows)
    PROVE  /\ Numbers(rows) = 1..Cardinality(Held(rows))
           /\ \A a, b \in Held(rows) : rows[a].number = rows[b].number => a = b
           /\ \A a \in OpenIn(rows) : a \in Held(rows) /\ rows[a].number = Cardinality(Held(rows))
BY DEF GoodRows, InOrder, OpenIn

(* There are finitely many answer rows.                                    *)
LEMMA RowsAreFinite == IsFiniteSet(AnswerRow)
<1> DEFINE Choices == {"right", "wrong"}
           Copies == 1..MaxItems
           Pairs == (Questions \X Choices) \X Copies
           row == [p \in Pairs |-> <<p[1][1], p[1][2], p[2]>>]
<1>1. IsFiniteSet({"right", "wrong"})
  <2>1. {"right", "wrong"} = {"right"} \cup {"wrong"} OBVIOUS
  <2>2. IsFiniteSet({"right"}) /\ IsFiniteSet({"wrong"}) BY FS_Singleton
  <2>3. IsFiniteSet({"right"} \cup {"wrong"}) BY <2>2, FS_Union
  <2> QED BY <2>1, <2>3
<1>2. IsFiniteSet(Copies) BY FS_Interval, QuizAttemptAssumption
<1>3. IsFiniteSet(Pairs)
  <2> HIDE DEF Copies, Choices
  <2>1. IsFiniteSet(Questions \X Choices) BY <1>1, FS_Product, QuizAttemptAssumption DEF Choices
  <2> QED BY <1>2, <2>1, FS_Product
<1>4. row \in Surjection(Pairs, AnswerRow)
  <2>1. ASSUME NEW x \in AnswerRow PROVE \E p \in Pairs : row[p] = x
    <3>1. <<<<x[1], x[2]>>, x[3]>> \in Pairs BY DEF AnswerRow
    <3> QED BY <3>1 DEF AnswerRow
  <2> QED BY <2>1 DEF Surjection, AnswerRow
<1> QED
  <2> HIDE DEF row, Pairs
  <2> QED BY <1>3, <1>4, FS_Surjection

(* The score of a paper is an integer, and nothing scores nothing.         *)
LEMMA Scores ==
    ASSUME quiz \in QuizKinds, NEW answers \in SUBSET AnswerRow
    PROVE  ScoreOf(answers) \in Int /\ ScoreOf({}) = 0
<1> DEFINE right(S) == Cardinality({x \in S : x[2] = "right"})
           wrong(S) == Cardinality({x \in S : x[2] = "wrong"})
           cost == IF quiz.type = "mock" THEN quiz.penalty ELSE 0
<1>2. IsFiniteSet(AnswerRow) BY RowsAreFinite
<1>3. \A S \in SUBSET AnswerRow : right(S) \in Nat /\ wrong(S) \in Nat
  <2> TAKE S \in SUBSET AnswerRow
  <2>1. {x \in S : x[2] = "right"} \in SUBSET AnswerRow
        /\ {x \in S : x[2] = "wrong"} \in SUBSET AnswerRow OBVIOUS
  <2>2. IsFiniteSet({x \in S : x[2] = "right"}) /\ IsFiniteSet({x \in S : x[2] = "wrong"})
    BY <1>2, <2>1, FS_Subset
  <2> QED BY <2>2, FS_CardinalityType
<1>4. right({}) = 0 /\ wrong({}) = 0
  <2>1. {x \in {} : x[2] = "right"} = {} /\ {x \in {} : x[2] = "wrong"} = {} OBVIOUS
  <2> QED BY <2>1, FS_EmptySet
<1>5. cost \in Nat BY QuizAttemptAssumption DEF QuizKind
<1>6. \A S : ScoreOf(S) = right(S) - cost * wrong(S) BY DEF ScoreOf
<1> HIDE DEF right, wrong, cost
<1>7. \A w \in Nat : cost * w \in Nat /\ cost * 0 = 0 BY <1>5
<1>8. right(answers) \in Nat /\ cost * wrong(answers) \in Nat BY <1>3, <1>7
<1>9. ScoreOf(answers) \in Int BY <1>6, <1>8
<1>10. ScoreOf({}) = 0 BY <1>4, <1>6, <1>7
<1> QED BY <1>9, <1>10

-----------------------------------------------------------------------------
(* What becomes of a list of rows.                                         *)

(* One row changes at most, and the rows stay good.                        *)
Follows(rows, next, a) ==
    /\ GoodRows(next) /\ DOMAIN next = DOMAIN rows /\ Len(next) = Len(rows)
    /\ \A b \in DOMAIN rows : b # a => next[b] = rows[b]

(* A row is rewritten under its number and not reopened.                   *)
LEMMA RowChanges ==
    ASSUME NEW rows, GoodRows(rows), NEW a \in Held(rows), NEW row \in AttemptRow,
           row.number = rows[a].number, row.status \in {rows[a].status, "SUBMITTED"},
           TrueScore(row)
    PROVE  LET next == [rows EXCEPT ![a] = row]
           IN  /\ Follows(rows, next, a) /\ next[a] = row
               /\ Held(next) = Held(rows) /\ OpenIn(next) \subseteq OpenIn(rows)
<1> DEFINE next == [rows EXCEPT ![a] = row]
<1>1. rows \in Seq(AttemptRow \cup {NoAttempt}) BY DEF GoodRows
<1>2. DOMAIN rows = 1..Len(rows) /\ Len(rows) \in Nat BY <1>1
<1>3. /\ next \in Seq(AttemptRow \cup {NoAttempt}) /\ Len(next) = Len(rows)
      /\ DOMAIN next = DOMAIN rows
  BY <1>1, <1>2 DEF Held
<1>4. next[a] = row /\ \A b \in DOMAIN rows : b # a => next[b] = rows[b]
  BY <1>1, <1>2 DEF Held
<1>5. row # NoAttempt BY NoAttemptIsNoRow
<1> HIDE DEF next
<1>6. Held(next) = Held(rows) BY <1>3, <1>4, <1>5 DEF Held
<1>7. \A b \in Held(rows) : next[b].number = rows[b].number BY <1>4 DEF Held
<1>8. OpenIn(next) \subseteq OpenIn(rows) BY <1>4, <1>6 DEF OpenIn, Held
<1>9. Numbers(next) = Numbers(rows) BY <1>6, <1>7, NumbersOf
<1>10. InOrder(next)
  <2>1. \A b, c \in Held(next) : next[b].number = next[c].number => b = c
    BY <1>6, <1>7, InOrderGives
  <2>2. \A b \in OpenIn(next) : next[b].number = Cardinality(Held(next))
    BY <1>6, <1>7, <1>8, InOrderGives
  <2>3. Numbers(next) = 1..Cardinality(Held(next)) BY <1>6, <1>9, InOrderGives
  <2> QED BY <2>1, <2>2, <2>3 DEF InOrder
<1>11. InQuota(next) BY <1>6 DEF GoodRows, InQuota
<1>12. \A b \in Held(next) : TrueScore(next[b]) BY <1>4, <1>6 DEF GoodRows, Held
<1>13. GoodRows(next) BY <1>3, <1>10, <1>11, <1>12 DEF GoodRows
<1> QED BY <1>3, <1>4, <1>6, <1>8, <1>13 DEF next, Follows

(* The last attempt is deleted; it was the only one that could be open.    *)
LEMMA LastGoes ==
    ASSUME quiz \in QuizKinds, NEW rows, GoodRows(rows), NEW a \in Held(rows),
           rows[a].number = Cardinality(Held(rows))
    PROVE  LET next == [rows EXCEPT ![a] = NoAttempt]
           IN  Follows(rows, next, a) /\ OpenIn(next) = {}
<1> DEFINE next == [rows EXCEPT ![a] = NoAttempt]
<1>1. rows \in Seq(AttemptRow \cup {NoAttempt}) BY DEF GoodRows
<1>2. DOMAIN rows = 1..Len(rows) /\ Len(rows) \in Nat BY <1>1
<1>3. /\ next \in Seq(AttemptRow \cup {NoAttempt}) /\ Len(next) = Len(rows)
      /\ DOMAIN next = DOMAIN rows
  BY <1>1, <1>2 DEF Held
<1>4. next[a] = NoAttempt /\ \A b \in DOMAIN rows : b # a => next[b] = rows[b]
  BY <1>1, <1>2 DEF Held
<1> HIDE DEF next
<1>5. Held(next) = Held(rows) \ {a} BY <1>3, <1>4 DEF Held
<1> DEFINE n == Cardinality(Held(rows))
<1>6. Cardinality(Held(next)) = n - 1 /\ n \in Nat
  BY <1>1, <1>5, Indices, FS_RemoveElement
<1>7. \A b \in Held(next) : next[b] = rows[b] /\ b \in Held(rows) /\ b # a
  BY <1>4, <1>5 DEF Held
<1>8. OpenIn(next) = {}
  <2> SUFFICES ASSUME NEW b \in OpenIn(next) PROVE FALSE OBVIOUS
  <2>1. b \in OpenIn(rows) /\ b # a BY <1>7 DEF OpenIn
  <2> QED BY <2>1, InOrderGives
<1>9. Numbers(next) = 1..(n - 1)
  <2>1. Numbers(rows) = 1..n /\ n \in Nat BY <1>6, InOrderGives
  <2>2. Numbers(next) = Numbers(rows) \ {n}
    <3>1. \A b \in Held(next) : next[b].number \in Numbers(rows) /\ next[b].number # n
      BY <1>7, NumbersOf, InOrderGives
    <3>2. \A b \in Held(rows) : rows[b].number # n => b \in Held(next) /\ next[b] = rows[b]
      BY <1>5, <1>7
    <3>3. Numbers(next) = {next[b].number : b \in Held(next)}
          /\ Numbers(rows) = {rows[b].number : b \in Held(rows)} BY NumbersOf
    <3>4. ASSUME NEW m \in Numbers(next) PROVE m \in Numbers(rows) \ {n} BY <3>1, <3>3
    <3>5. ASSUME NEW m \in Numbers(rows) \ {n} PROVE m \in Numbers(next)
      <4>1. PICK b \in Held(rows) : m = rows[b].number /\ m # n BY <3>3
      <4>2. b \in Held(next) /\ next[b].number = m BY <3>2, <4>1
      <4> QED BY <3>3, <4>2
    <3> QED BY <3>4, <3>5
  <2> HIDE DEF n
  <2>3. \A m : m \in 1..(n - 1) <=> m \in 1..n /\ m # n BY <2>1
  <2> QED BY <2>1, <2>2, <2>3
<1>10. InOrder(next)
  <2>1. \A b, c \in Held(next) : next[b].number = next[c].number => b = c
    BY <1>7, InOrderGives
  <2>2. Numbers(next) = 1..Cardinality(Held(next)) BY <1>6, <1>9
  <2> QED BY <1>8, <2>1, <2>2 DEF InOrder
<1>11. InQuota(next)
  <2>1. quiz.quota # NoAttempt => n <= quiz.quota BY DEF GoodRows, InQuota
  <2>2. quiz.quota # NoAttempt => quiz.quota \in Nat BY QuizAttemptAssumption DEF QuizKind
  <2> QED BY <1>6, <2>1, <2>2 DEF InQuota
<1>12. \A b \in Held(next) : TrueScore(next[b]) BY <1>7 DEF GoodRows
<1>13. GoodRows(next) BY <1>3, <1>10, <1>11, <1>12 DEF GoodRows
<1> QED BY <1>3, <1>4, <1>8, <1>13 DEF next, Follows

(* The next attempt follows on the last number, and the quota allows it.   *)
LEMMA NextAdded ==
    ASSUME quiz \in QuizKinds, NEW rows, GoodRows(rows), OpenIn(rows) = {},
           Len(rows) < MaxRows, QuotaLeft(Cardinality(Held(rows))),
           NEW next, next = Append(rows, NextAttempt(rows))
    PROVE  /\ GoodRows(next) /\ DOMAIN rows \subseteq DOMAIN next
           /\ \A b \in DOMAIN rows : next[b] = rows[b]
<1> DEFINE n == Cardinality(Held(rows))
           last == Len(rows) + 1
           row == Fresh(n + 1)
<1>1. /\ rows \in Seq(AttemptRow \cup {NoAttempt}) /\ DOMAIN rows = 1..Len(rows)
      /\ Len(rows) \in Nat /\ n \in Nat /\ n <= Len(rows) /\ IsFiniteSet(Held(rows))
  BY Indices DEF GoodRows
<1>2. NextAttempt(rows) = row
  <2>1. Numbers(rows) = 1..n BY InOrderGives
  <2>2. CASE n = 0
    <3>1. Numbers(rows) = {} BY <2>1, <2>2
    <3> QED BY <2>2, <3>1 DEF NextAttempt
  <2>3. CASE n # 0
    <3>1. n \in Numbers(rows) /\ \A m \in Numbers(rows) : m <= n BY <1>1, <2>1, <2>3
    <3>2. \A k \in Numbers(rows) : (\A m \in Numbers(rows) : m <= k) => k = n
      BY <1>1, <2>1, <3>1
    <3>3. (CHOOSE k \in Numbers(rows) : \A m \in Numbers(rows) : m <= k) = n
      BY <3>1, <3>2
    <3>4. Numbers(rows) # {} BY <3>1
    <3>5. 1 + n = n + 1 BY <1>1
    <3> HIDE DEF n
    <3> QED BY <3>3, <3>4, <3>5 DEF NextAttempt
  <2> QED BY <2>2, <2>3
<1>3. row \in AttemptRow /\ row.number = n + 1 /\ row.status = "PENDING" /\ row # NoAttempt
  <2>1. n + 1 \in 1..MaxRows BY <1>1, QuizAttemptAssumption
  <2>2. row \in AttemptRow BY <2>1 DEF Fresh, AttemptRow
  <2> QED BY <2>2, NoAttemptIsNoRow DEF Fresh
<1>4. TrueScore(row)
  <2>1. {} \in SUBSET AnswerRow OBVIOUS
  <2> QED BY <2>1, Scores DEF TrueScore, Fresh
<1> HIDE DEF row
<1>5. /\ next \in Seq(AttemptRow \cup {NoAttempt}) /\ Len(next) = last
      /\ DOMAIN next = 1..last
  BY <1>1, <1>2, <1>3
<1>6. next[last] = row /\ \A b \in DOMAIN rows : next[b] = rows[b] BY <1>1, <1>2
<1>7. Held(next) = Held(rows) \cup {last} /\ last \notin Held(rows)
  <2>1. \A b \in DOMAIN next : b = last \/ b \in DOMAIN rows BY <1>1, <1>5
  <2>2. DOMAIN rows \subseteq DOMAIN next /\ last \in DOMAIN next /\ last \notin DOMAIN rows
    BY <1>1, <1>5
  <2> HIDE DEF last
  <2> QED BY <1>3, <1>6, <2>1, <2>2 DEF Held
<1>8. Cardinality(Held(next)) = n + 1 BY <1>1, <1>7, FS_AddElement
<1>9. \A b \in Held(next) : \/ b = last /\ next[b] = row
                            \/ b \in Held(rows) /\ b # last /\ next[b] = rows[b]
  BY <1>6, <1>7 DEF Held
<1> HIDE DEF last
<1>10. \A b \in Held(rows) : b \in Held(next) /\ rows[b].number \in 1..n
  <2>1. \A b \in Held(rows) : rows[b].number \in Numbers(rows) BY NumbersOf
  <2>2. Numbers(rows) = 1..n BY InOrderGives
  <2>3. Held(rows) \subseteq Held(next) BY <1>7
  <2> HIDE DEF n
  <2> QED BY <2>1, <2>2, <2>3
<1>11. Numbers(next) = 1..(n + 1)
  <2>0. n + 1 \in 1..(n + 1) /\ 1..n \subseteq 1..(n + 1) BY <1>1
  <2>1. \A b \in Held(next) : next[b].number \in 1..(n + 1)
    BY <1>3, <1>9, <1>10, <2>0
  <2>2. ASSUME NEW m \in 1..(n + 1) PROVE \E b \in Held(next) : next[b].number = m
    <3>1. CASE m = n + 1 BY <1>3, <1>6, <1>7, <3>1
    <3>2. CASE m # n + 1
      <4>1. m \in Numbers(rows) BY <1>1, <3>2, InOrderGives
      <4>2. PICK b \in Held(rows) : rows[b].number = m BY <4>1, NumbersOf
      <4> QED BY <1>6, <1>10, <4>2 DEF Held
    <3> QED BY <3>1, <3>2
  <2>3. Numbers(next) = {next[b].number : b \in Held(next)} BY NumbersOf
  <2> QED BY <2>1, <2>2, <2>3
<1>12. InOrder(next)
  <2>1. ASSUME NEW b \in Held(next), NEW c \in Held(next), next[b].number = next[c].number
        PROVE  b = c
    <3>1. \A d \in Held(rows) : rows[d].number # n + 1 BY <1>1, <1>10
    <3>2. CASE b = last \/ c = last BY <1>3, <1>9, <2>1, <3>1, <3>2
    <3>3. CASE b # last /\ c # last
      <4>1. b \in Held(rows) /\ c \in Held(rows) /\ rows[b].number = rows[c].number
        BY <1>9, <2>1, <3>3
      <4> QED BY <4>1, InOrderGives
    <3> QED BY <3>2, <3>3
  <2>2. ASSUME NEW b \in OpenIn(next) PROVE next[b].number = n + 1
    <3>1. b \in Held(next) /\ next[b].status = "PENDING" BY DEF OpenIn
    <3>2. b \notin Held(rows) \/ rows[b].status # "PENDING" BY DEF OpenIn
    <3> QED BY <1>3, <1>9, <3>1, <3>2
  <2> QED BY <1>8, <1>11, <2>1, <2>2 DEF InOrder
<1>13. InQuota(next)
  <2>1. quiz.quota # NoAttempt => quiz.quota \in Nat BY QuizAttemptAssumption DEF QuizKind
  <2> QED BY <1>1, <1>8, <2>1 DEF InQuota, QuotaLeft
<1>14. \A b \in Held(next) : TrueScore(next[b]) BY <1>4, <1>9 DEF GoodRows
<1>15. Len(next) <= MaxRows /\ DOMAIN rows \subseteq DOMAIN next
  BY <1>1, <1>5, QuizAttemptAssumption DEF last
<1> QED BY <1>5, <1>6, <1>12, <1>13, <1>14, <1>15 DEF GoodRows

-----------------------------------------------------------------------------
(* Tabs.                                                                   *)

LEMMA Jobs ==
    ASSUME NEW job \in Job
    PROVE  /\ job.op = "start" => job \in StartJob
           /\ job.op = "submit" => job \in SubmitJob
           /\ job.op = "check" => job \in CheckJob
           /\ job.op \in {"none", "start", "submit", "check"}
BY DEF Job, StartJob, SubmitJob, CheckJob, TabIdle

LEMMA IdleFits ==
    /\ TabIdle \in Job
    /\ \A rows : JobFits(TabIdle, rows)
    /\ \A job : ~Clash(TabIdle, job)
BY DEF Job, TabIdle, JobFits, Clash

(* One tab moves on, and perhaps the attempts with it.                     *)
LEMMA Moves ==
    ASSUME IInv, UNCHANGED quiz, assigned' \in BOOLEAN, GoodRows(attempts'),
           NEW t \in Tabs, NEW job \in Job, tab' = [tab EXCEPT ![t] = job],
           JobFits(job, attempts'),
           \A u \in Tabs : u # t => JobFits(tab[u], attempts') /\ ~Clash(job, tab[u])
    PROVE  IInv'
<1>1. GoodRows(attempts)'
  BY DEF GoodRows, InOrder, InQuota, TrueScore, ScoreOf, Held, OpenIn, Numbers
<1>2. tab' \in [Tabs -> Job] /\ tab'[t] = job /\ \A u \in Tabs : u # t => tab'[u] = tab[u]
  BY DEF IInv
<1>3. ASSUME NEW u \in Tabs PROVE JobFits(tab[u], attempts)'
  <2>1. JobFits(tab'[u], attempts') BY <1>2
  <2> QED BY <2>1 DEF JobFits, Held, OpenIn
<1>4. \A u, v \in Tabs : u # v => ~Clash(tab'[u], tab'[v]) BY <1>2 DEF IInv, Clash
<1>5. (\A u, v \in Tabs : u # v => ~Clash(tab[u], tab[v]))' BY <1>4 DEF Clash
<1> QED BY <1>1, <1>2, <1>3, <1>5 DEF IInv

(* The tabs wait while the attempts, or the assignment, change.            *)
LEMMA TabsWait ==
    ASSUME IInv, UNCHANGED <<quiz, tab>>, assigned' \in BOOLEAN, GoodRows(attempts'),
           \A u \in Tabs : JobFits(tab[u], attempts')
    PROVE  IInv'
<1>1. GoodRows(attempts)'
  BY DEF GoodRows, InOrder, InQuota, TrueScore, ScoreOf, Held, OpenIn, Numbers
<1>2. ASSUME NEW u \in Tabs PROVE JobFits(tab[u], attempts)'
  BY DEF JobFits, Held, OpenIn
<1> QED BY <1>1, <1>2 DEF IInv, Clash

(* A tab takes a job, and nothing else happens.                            *)
LEMMA Taking ==
    ASSUME IInv, NEW t \in Tabs, NEW job \in Job, JobFits(job, attempts), TabGoes(t, job),
           UNCHANGED <<quiz, assigned, attempts>>,
           \A u \in Tabs : u # t => ~Clash(job, tab[u])
    PROVE  IInv'
BY Moves DEF TabGoes, IInv

(* A tab is done, and the others still fit what it wrote.                  *)
LEMMA Ending ==
    ASSUME IInv, UNCHANGED <<quiz, assigned>>, GoodRows(attempts'), NEW t \in Tabs, TabEnds(t),
           \A u \in Tabs : u # t => JobFits(tab[u], attempts')
    PROVE  IInv'
<1>1. TabIdle \in Job /\ JobFits(TabIdle, attempts') /\ \A u \in Tabs : ~Clash(TabIdle, tab[u])
  BY IdleFits
<1>2. tab' = [tab EXCEPT ![t] = TabIdle] /\ assigned' \in BOOLEAN BY DEF TabEnds, IInv
<1> QED BY <1>1, <1>2, Moves

(* There is no open attempt, or the one that is the latest.                *)
LEMMA TheOpenOne ==
    ASSUME IInv
    PROVE  /\ Rows = Held(attempts) /\ PendingRows = OpenIn(attempts)
           /\ \/ PendingRows = {} /\ LatestOf(PendingRows) = NoAttempt
              \/ /\ LatestOf(PendingRows) \in OpenIn(attempts)
                 /\ LatestOf(PendingRows) # NoAttempt
           /\ \A a, b \in OpenIn(attempts) : a = b
           /\ \A a \in OpenIn(attempts) :
                /\ a \in Held(attempts) /\ a \in Nat /\ attempts[a] \in AttemptRow
                /\ attempts[a].number = Cardinality(Held(attempts))
<1>1. Rows = Held(attempts) /\ PendingRows = OpenIn(attempts)
  BY DEF Rows, PendingRows, Held, OpenIn
<1>2. GoodRows(attempts) /\ attempts \in Seq(AttemptRow \cup {NoAttempt})
  BY DEF IInv, GoodRows
<1>3. \A a, b \in OpenIn(attempts) : a = b BY <1>2, InOrderGives
<1>4. \A a \in OpenIn(attempts) :
        /\ a \in Held(attempts) /\ a \in Nat /\ attempts[a] \in AttemptRow
        /\ attempts[a].number = Cardinality(Held(attempts))
  BY <1>2, Indices, InOrderGives
<1>5. CASE PendingRows = {} BY <1>1, <1>3, <1>4, <1>5 DEF LatestOf
<1>6. CASE PendingRows # {}
  <2>1. PICK a \in PendingRows : TRUE BY <1>6
  <2>2. \A b \in PendingRows : attempts[b].number <= attempts[a].number
    <3>1. attempts[a].number \in Nat BY <1>1, <1>4, <2>1 DEF AttemptRow
    <3>2. \A b \in PendingRows : b = a BY <1>1, <1>3, <2>1
    <3> QED BY <3>1, <3>2
  <2>3. LatestOf(PendingRows) \in PendingRows BY <1>6, <2>1, <2>2 DEF LatestOf
  <2>4. LatestOf(PendingRows) \in Nat BY <1>1, <1>4, <2>3
  <2> QED BY <1>1, <1>3, <1>4, <2>3, <2>4, QuizAttemptAssumption
<1> QED BY <1>5, <1>6

-----------------------------------------------------------------------------
(* Start.                                                                  *)

LEMMA StartKeeps ==
    ASSUME IInv, NEW t \in Tabs, NEW intent \in BOOLEAN, StartAttempt(t, intent) PROVE IInv'
<1> DEFINE open == LatestOf(PendingRows)
           job == [op |-> "start", row |-> open, intent |-> intent, swept |-> {},
                   step |-> IF open = NoAttempt THEN "create" ELSE "look"]
<1>1. /\ TabGoes(t, job) /\ UNCHANGED <<quiz, assigned, attempts>>
      /\ open # NoAttempt => attempts[open].expired
      /\ ProfileFree
  BY DEF StartAttempt
<1>2. open \in Nat \cup {NoAttempt} BY TheOpenOne
<1>3. job \in StartJob BY <1>2 DEF StartJob
<1>4. job \in Job BY <1>3 DEF Job
<1>5. JobFits(job, attempts) BY <1>1, TheOpenOne DEF JobFits
<1>6. \A u \in Tabs : ~Clash(job, tab[u]) BY <1>1 DEF Clash, ProfileFree
<1> HIDE DEF job
<1> QED BY <1>1, <1>4, <1>5, <1>6, Taking

LEMMA LookAndSweepKeep ==
    ASSUME IInv, NEW t \in Tabs, StartLook(t) \/ StartSweep(t) PROVE IInv'
<1>1. /\ tab[t] \in StartJob /\ JobFits(tab[t], attempts) /\ tab[t].op = "start"
      /\ tab[t].step \in {"look", "sweep"}
  BY Jobs DEF IInv, StartLook, StartSweep
<1>2. attempts[tab[t].row].answers \in SUBSET AnswerRow
  <2>1. tab[t].row \in Held(attempts) BY <1>1 DEF JobFits
  <2>2. attempts[tab[t].row] \in AttemptRow BY <2>1, Indices DEF IInv, GoodRows
  <2> QED BY <2>2 DEF AttemptRow
<1>3. PICK step \in {"close", "sweep", "delete"}, swept \in SUBSET AnswerRow :
        TabGoes(t, [tab[t] EXCEPT !.step = step, !.swept = swept])
        /\ UNCHANGED <<quiz, assigned, attempts>>
  <2>1. CASE StartLook(t)
    <3> DEFINE step == IF attempts[tab[t].row].answers # {} THEN "close" ELSE "sweep"
    <3>1. TabGoes(t, [tab[t] EXCEPT !.step = step]) /\ UNCHANGED <<quiz, assigned, attempts>>
      BY <2>1 DEF StartLook
    <3>2. [tab[t] EXCEPT !.step = step] = [tab[t] EXCEPT !.step = step, !.swept = tab[t].swept]
      BY <1>1 DEF StartJob
    <3>3. step \in {"close", "sweep", "delete"} /\ tab[t].swept \in SUBSET AnswerRow
      BY <1>1 DEF StartJob
    <3> HIDE DEF step
    <3> QED BY <3>1, <3>2, <3>3
  <2>2. CASE StartSweep(t) BY <1>2, <2>2 DEF StartSweep
  <2> QED BY <2>1, <2>2
<1> DEFINE job == [tab[t] EXCEPT !.step = step, !.swept = swept]
<1>4. job \in StartJob /\ job.op = "start" /\ job.row = tab[t].row /\ job.step # "create"
  BY <1>1, <1>3 DEF StartJob
<1>5. TabGoes(t, job) BY <1>3
<1> HIDE DEF job
<1>6. job \in Job BY <1>4 DEF Job
<1>7. JobFits(job, attempts) BY <1>1, <1>4 DEF JobFits
<1>8. \A u \in Tabs : u # t => ~Clash(job, tab[u])
  <2>1. \A u \in Tabs : u # t => tab[u].op # "start" BY <1>1 DEF IInv, Clash
  <2> QED BY <1>4, <2>1 DEF Clash
<1> QED BY <1>3, <1>5, <1>6, <1>7, <1>8, Taking

(* Once the expired attempt is closed or gone no attempt is open.          *)
LEMMA ClearedIsGood ==
    ASSUME IInv, NEW t \in Tabs, tab[t].op = "start",
           tab[t].step \in {"create", "close", "delete"},
           NEW rows, rows = Cleared(tab[t])
    PROVE  /\ GoodRows(rows) /\ OpenIn(rows) = {} /\ DOMAIN rows = DOMAIN attempts
           /\ Len(rows) = Len(attempts)
           /\ \A a \in DOMAIN attempts : (tab[t].step # "create" => a # tab[t].row)
                                           => rows[a] = attempts[a]
<1> DEFINE job == tab[t]
<1>1. GoodRows(attempts) /\ JobFits(job, attempts) /\ quiz \in QuizKinds BY DEF IInv
<1>2. CASE job.step = "create" BY <1>1, <1>2 DEF Cleared, JobFits
<1>3. CASE job.step # "create"
  <2>1. job.row \in Held(attempts) /\ attempts[job.row].number = Cardinality(Held(attempts))
    BY <1>1, <1>3 DEF JobFits
  <2>2. CASE job.step = "delete"
    <3>1. rows = [attempts EXCEPT ![job.row] = NoAttempt] BY <2>2 DEF Cleared
    <3>2. Follows(attempts, [attempts EXCEPT ![job.row] = NoAttempt], job.row)
      BY <1>1, <2>1, LastGoes
    <3>3. OpenIn([attempts EXCEPT ![job.row] = NoAttempt]) = {} BY <1>1, <2>1, LastGoes
    <3> QED BY <1>3, <3>1, <3>2, <3>3 DEF Follows
  <2>3. CASE job.step = "close"
    <3> DEFINE row == [attempts[job.row] EXCEPT !.status = "SUBMITTED"]
    <3>1. rows = [attempts EXCEPT ![job.row] = row] BY <2>3 DEF Cleared
    <3>2. attempts[job.row] \in AttemptRow BY <1>1, <2>1, Indices DEF GoodRows
    <3>3. /\ row \in AttemptRow /\ row.number = attempts[job.row].number
          /\ row.status = "SUBMITTED" /\ row.score = attempts[job.row].score
          /\ row.answers = attempts[job.row].answers
      BY <3>2 DEF AttemptRow
    <3>4. TrueScore(row)
      <4>1. TrueScore(attempts[job.row]) BY <1>1, <2>1 DEF GoodRows
      <4> QED BY <3>3, <4>1 DEF TrueScore
    <3> HIDE DEF row
    <3>9. row.status \in {attempts[job.row].status, "SUBMITTED"} BY <3>3
    <3> DEFINE next == [attempts EXCEPT ![job.row] = row]
    <3>5. Follows(attempts, next, job.row) BY <1>1, <2>1, <3>3, <3>4, <3>9, RowChanges
    <3>10. next[job.row] = row BY <2>1 DEF Held
    <3>11. OpenIn(next) \subseteq OpenIn(attempts) BY <1>1, <2>1, <3>3, <3>4, <3>9, RowChanges
    <3>12. rows = next BY <3>1
    <3> HIDE DEF next
    <3>6. \A a \in OpenIn(attempts) : a = job.row BY <1>1, <2>1, InOrderGives
    <3>7. job.row \notin OpenIn(rows) BY <3>3, <3>10, <3>12 DEF OpenIn
    <3>8. OpenIn(rows) = {} BY <3>6, <3>7, <3>11, <3>12
    <3> QED BY <1>3, <3>5, <3>8, <3>12 DEF Follows
  <2> QED BY <1>3, <2>2, <2>3
<1> QED BY <1>2, <1>3

(* A start that commits meets no other start and no submit.                *)
LEMMA StartIsAlone ==
    ASSUME IInv, NEW t \in Tabs, StartCommit(t), NEW u \in Tabs, u # t
    PROVE  tab[u].op \in {"none", "check"}
<1>1. tab[t].op = "start" /\ JobFits(tab[t], attempts) /\ JobFits(tab[u], attempts)
  BY DEF IInv, StartCommit
<1>2. tab[u].op # "start" BY <1>1 DEF IInv, Clash
<1>3. ASSUME tab[u].op = "submit" PROVE FALSE
  <2>1. tab[u].row \in OpenIn(attempts) BY <1>1, <1>3 DEF JobFits
  <2>2. tab[t].step # "create" BY <1>1, <2>1 DEF JobFits
  <2>3. tab[u].row # tab[t].row BY <1>3, <2>2 DEF StartCommit, RowFree
  <2> QED BY <1>1, <2>1, <2>2, <2>3, InOrderGives DEF JobFits, IInv
<1> QED BY <1>2, <1>3, Jobs DEF IInv

LEMMA StartCommitKeeps == ASSUME IInv, NEW t \in Tabs, StartCommit(t) PROVE IInv'
<1> DEFINE rows == Cleared(tab[t])
           done == {a \in DOMAIN rows : rows[a] # NoAttempt /\ rows[a].status = "SUBMITTED"}
<1>1. /\ GoodRows(rows) /\ OpenIn(rows) = {} /\ DOMAIN rows = DOMAIN attempts
  BY ClearedIsGood DEF StartCommit
<1>2. quiz \in QuizKinds /\ GoodRows(attempts) BY DEF IInv
<1>3. done = Held(rows)
  <2>1. \A a \in Held(rows) : rows[a] \in AttemptRow BY <1>1, Indices DEF GoodRows
  <2>2. \A a \in Held(rows) : rows[a].status = "SUBMITTED"
    BY <1>1, <2>1 DEF AttemptRow, OpenIn
  <2> QED BY <2>2 DEF Held
<1>4. Len(rows) = Len(attempts) BY ClearedIsGood DEF StartCommit
<1>5. \/ UNCHANGED attempts \/ attempts' = rows
      \/ /\ Len(attempts) < MaxRows /\ attempts' = Append(rows, NextAttempt(rows))
         /\ QuotaLeft(Cardinality(done))
  BY DEF StartCommit, Creates
<1> HIDE DEF rows, done
<1>6. GoodRows(attempts') /\ DOMAIN attempts \subseteq DOMAIN attempts'
  BY <1>1, <1>2, <1>3, <1>4, <1>5, NextAdded
<1>7. \A u \in Tabs : u # t => JobFits(tab[u], attempts')
  <2> TAKE u \in Tabs
  <2> HAVE u # t
  <2>1. tab[u].op \in {"none", "check"} /\ JobFits(tab[u], attempts)
    BY StartIsAlone DEF IInv
  <2> QED BY <1>6, <2>1 DEF JobFits
<1> QED BY <1>6, <1>7, Ending DEF StartCommit

-----------------------------------------------------------------------------
(* Submit.                                                                 *)

LEMMA SubmitKeeps ==
    ASSUME IInv, NEW t \in Tabs, NEW payload \in Papers, Submit(t, payload) PROVE IInv'
<1>1. PICK a \in PendingRows :
        /\ RowFree(a) /\ ~attempts[a].expired
        /\ TabGoes(t, [op |-> "submit", row |-> a, payload |-> payload])
  BY DEF Submit
<1> DEFINE job == [op |-> "submit", row |-> a, payload |-> payload]
<1>2. a \in OpenIn(attempts) /\ a \in Nat BY TheOpenOne
<1>3. job \in SubmitJob BY <1>2 DEF SubmitJob, Papers
<1>4. job \in Job /\ JobFits(job, attempts) BY <1>1, <1>2, <1>3 DEF Job, JobFits
<1>5. \A u \in Tabs : ~Clash(job, tab[u]) BY <1>1 DEF Clash, RowFree
<1>6. TabGoes(t, job) /\ UNCHANGED <<quiz, assigned, attempts>> BY <1>1 DEF Submit
<1> HIDE DEF job
<1> QED BY <1>4, <1>5, <1>6, Taking

(* The graded row.                                                         *)
LEMMA GradedRow ==
    ASSUME IInv, NEW row \in AttemptRow, NEW payload \in SUBSET AnswerRow
    PROVE  /\ Graded(row, payload) \in AttemptRow /\ Graded(row, payload).status = "SUBMITTED"
           /\ Graded(row, payload).number = row.number /\ TrueScore(Graded(row, payload))
<1>1. ScoreOf(payload) \in Int BY Scores DEF IInv
<1> DEFINE score == ScoreOf(payload)
           next == [row EXCEPT !.status = "SUBMITTED", !.answers = payload, !.score = score]
<1>2. Graded(row, payload) = next BY DEF Graded
<1>3. TrueScore(next) <=> (quiz.type = "mock" => next.score = ScoreOf(next.answers))
  BY DEF TrueScore
<1>4. next.score = score /\ next.answers = payload BY DEF AttemptRow
<1>5. TrueScore(next) BY <1>3, <1>4
<1> HIDE DEF score
<1>6. next \in AttemptRow /\ next.status = "SUBMITTED" /\ next.number = row.number
  BY <1>1 DEF AttemptRow, score
<1> QED BY <1>2, <1>5, <1>6

LEMMA SubmitCommitKeeps == ASSUME IInv, NEW t \in Tabs, SubmitCommit(t) PROVE IInv'
<1>1. tab[t] \in SubmitJob /\ tab[t].op = "submit" /\ JobFits(tab[t], attempts)
  BY Jobs DEF IInv, SubmitCommit
<1> DEFINE a == tab[t].row
           row == Graded(attempts[a], tab[t].payload)
<1>2. a \in OpenIn(attempts) /\ (Punctual => ~attempts[a].expired) BY <1>1 DEF JobFits
<1>3. a \in Held(attempts) /\ attempts[a] \in AttemptRow BY <1>2, TheOpenOne
<1>4. row \in AttemptRow /\ row.status = "SUBMITTED" /\ row.number = attempts[a].number
      /\ TrueScore(row)
  BY <1>1, <1>3, GradedRow DEF SubmitJob
<1>5. attempts' = [attempts EXCEPT ![a] = row] BY DEF SubmitCommit
<1> HIDE DEF row
<1>0. /\ Follows(attempts, attempts', a)
      /\ attempts'[a] = row
      /\ Held(attempts') = Held(attempts)
      /\ OpenIn(attempts') \subseteq OpenIn(attempts)
  <2>1. GoodRows(attempts) /\ row.status \in {attempts[a].status, "SUBMITTED"} BY <1>4 DEF IInv
  <2> HIDE DEF a
  <2>2. Follows(attempts, attempts', a) BY <1>3, <1>4, <1>5, <2>1, RowChanges
  <2>3. attempts'[a] = row BY <1>3, <1>4, <1>5, <2>1, RowChanges
  <2>4. Held(attempts') = Held(attempts) BY <1>3, <1>4, <1>5, <2>1, RowChanges
  <2>5. OpenIn(attempts') \subseteq OpenIn(attempts) BY <1>3, <1>4, <1>5, <2>1, RowChanges
  <2> QED BY <2>2, <2>3, <2>4, <2>5
<1>6. /\ GoodRows(attempts') /\ DOMAIN attempts' = DOMAIN attempts
      /\ Held(attempts') = Held(attempts) /\ OpenIn(attempts') \subseteq OpenIn(attempts)
      /\ attempts'[a] = row /\ \A b \in DOMAIN attempts : b # a => attempts'[b] = attempts[b]
  BY <1>0 DEF Follows
<1>7. ASSUME NEW u \in Tabs, u # t PROVE JobFits(tab[u], attempts')
  <2>1. JobFits(tab[u], attempts) BY DEF IInv
  <2>2. CASE tab[u].op = "start"
    <3>1. CASE tab[u].step = "create" BY <1>6, <2>1, <2>2, <3>1 DEF JobFits
    <3>2. CASE tab[u].step # "create"
      <4>1. /\ tab[u].row \in Held(attempts)
            /\ attempts[tab[u].row].number = Cardinality(Held(attempts))
            /\ Punctual => tab[u].row \in OpenIn(attempts) /\ attempts[tab[u].row].expired
        BY <2>1, <2>2, <3>2 DEF JobFits
      <4>2. attempts'[tab[u].row].number = Cardinality(Held(attempts'))
        BY <1>4, <1>6, <4>1 DEF Held
      <4>3. ~Punctual BY <1>2, <4>1, TheOpenOne
      <4> QED BY <1>6, <2>2, <3>2, <4>1, <4>2, <4>3 DEF JobFits
    <3> QED BY <3>1, <3>2
  <2>3. CASE tab[u].op = "submit"
    <3>1. tab[u].row # a BY <1>1, <1>7, <2>3 DEF IInv, Clash
    <3>2. tab[u].row \in OpenIn(attempts) BY <2>1, <2>3 DEF JobFits
    <3> QED BY <1>2, <3>1, <3>2, TheOpenOne
  <2>4. CASE tab[u].op = "check" BY <1>6, <2>1, <2>4 DEF JobFits
  <2> QED BY <2>2, <2>3, <2>4 DEF JobFits
<1> QED BY <1>6, <1>7, Ending DEF SubmitCommit

-----------------------------------------------------------------------------
(* The instant check, the teacher's switch and the clock.                  *)

LEMMA CheckKeeps ==
    ASSUME IInv, NEW t \in Tabs, NEW q \in Questions, NEW choice \in {"right", "wrong"},
           Check(t, q, choice)
    PROVE  IInv'
<1>1. PICK a \in PendingRows : TabGoes(t, [op |-> "check", row |-> a, answer |-> <<q, choice>>])
  BY DEF Check
<1> DEFINE job == [op |-> "check", row |-> a, answer |-> <<q, choice>>]
<1>2. a \in OpenIn(attempts) /\ a \in Nat /\ a \in DOMAIN attempts BY TheOpenOne DEF Held
<1>3. job \in CheckJob BY <1>2 DEF CheckJob
<1>4. job \in Job /\ JobFits(job, attempts) BY <1>2, <1>3 DEF Job, JobFits, Check
<1>5. \A u \in Tabs : ~Clash(job, tab[u]) BY DEF Clash
<1>6. TabGoes(t, job) /\ UNCHANGED <<quiz, assigned, attempts>> BY <1>1 DEF Check
<1> HIDE DEF job
<1> QED BY <1>4, <1>5, <1>6, Taking

(* A row changes that keeps its number, status and deadline: all tabs fit. *)
LEMMA OthersStillFit ==
    ASSUME IInv, NEW a \in Held(attempts), NEW u \in Tabs,
           Follows(attempts, attempts', a), Held(attempts') = Held(attempts),
           attempts'[a].number = attempts[a].number, attempts'[a].status = attempts[a].status,
           \/ attempts'[a].expired = attempts[a].expired
           \/ attempts'[a].expired /\ (Punctual => ~(tab[u].op = "submit" /\ tab[u].row = a))
    PROVE  JobFits(tab[u], attempts')
<1>1. JobFits(tab[u], attempts) BY DEF IInv
<1>2. \A b \in Held(attempts) : /\ attempts'[b].number = attempts[b].number
                                /\ attempts'[b].status = attempts[b].status
  BY DEF Follows, Held
<1>3. OpenIn(attempts') = OpenIn(attempts) BY <1>2 DEF OpenIn
<1>4. \A b \in OpenIn(attempts) : b \in Held(attempts) BY DEF OpenIn
<1>5. CASE tab[u].op = "start"
  <2>1. CASE tab[u].step = "create" BY <1>1, <1>3, <1>5, <2>1 DEF JobFits
  <2>2. CASE tab[u].step # "create"
    <3>1. /\ tab[u].row \in Held(attempts)
          /\ attempts'[tab[u].row].number = Cardinality(Held(attempts'))
      BY <1>1, <1>2, <1>5, <2>2 DEF JobFits
    <3>2. Punctual => tab[u].row \in OpenIn(attempts) /\ attempts'[tab[u].row].expired
      BY <1>1, <1>5, <2>2, <3>1 DEF JobFits, Follows, Held
    <3> QED BY <1>3, <1>5, <2>2, <3>1, <3>2 DEF JobFits
  <2> QED BY <2>1, <2>2
<1>6. CASE tab[u].op = "submit"
  <2>1. tab[u].row \in OpenIn(attempts) /\ tab[u].row \in DOMAIN attempts
    BY <1>1, <1>4, <1>6 DEF JobFits, Held
  <2>2. Punctual => ~attempts'[tab[u].row].expired
    BY <1>1, <1>6, <2>1 DEF JobFits, Follows
  <2> QED BY <1>3, <1>6, <2>1, <2>2 DEF JobFits
<1>7. CASE tab[u].op = "check" BY <1>1, <1>7 DEF JobFits, Follows
<1> QED BY <1>5, <1>6, <1>7 DEF JobFits

LEMMA CheckCommitKeeps == ASSUME IInv, NEW t \in Tabs, CheckCommit(t) PROVE IInv'
<1>1. tab[t] \in CheckJob /\ JobFits(tab[t], attempts) /\ tab[t].op = "check"
      /\ GoodRows(attempts)
  BY Jobs DEF IInv, CheckCommit
<1> DEFINE a == tab[t].row
<1>2. a \in DOMAIN attempts /\ quiz.type = "practice" BY <1>1 DEF JobFits
<1>3. CASE attempts[a] = NoAttempt
  BY <1>1, <1>3, Ending DEF CheckCommit, IInv
<1>4. CASE attempts[a] # NoAttempt
  <2>1. a \in Held(attempts) /\ attempts[a] \in AttemptRow
    BY <1>1, <1>2, <1>4, Indices DEF Held, GoodRows
  <2>0. PICK x \in AnswerRow : attempts' = [attempts EXCEPT ![a].answers = @ \cup {x}]
    BY <1>4 DEF CheckCommit, NextRows
  <2> DEFINE row == [attempts[a] EXCEPT !.answers = @ \cup {x}]
  <2>2. attempts' = [attempts EXCEPT ![a] = row] BY <2>0
  <2>3. /\ row \in AttemptRow /\ row.number = attempts[a].number
        /\ row.status = attempts[a].status /\ row.expired = attempts[a].expired
    BY <2>1 DEF AttemptRow
  <2>4. TrueScore(row) /\ row.status \in {attempts[a].status, "SUBMITTED"}
    BY <1>2, <2>3 DEF TrueScore
  <2> HIDE DEF row, a
  <2>5. Follows(attempts, attempts', a) BY <1>1, <2>1, <2>2, <2>3, <2>4, RowChanges
  <2>6. Held(attempts') = Held(attempts) BY <1>1, <2>1, <2>2, <2>3, <2>4, RowChanges
  <2>7. attempts'[a] = row BY <2>1, <2>2 DEF Held
  <2>8. \A u \in Tabs : JobFits(tab[u], attempts')
    BY <2>1, <2>3, <2>5, <2>6, <2>7, OthersStillFit
  <2>9. GoodRows(attempts') BY <2>5 DEF Follows
  <2> QED BY <2>8, <2>9, Ending DEF CheckCommit
<1> QED BY <1>3, <1>4

LEMMA AssignKeeps == ASSUME IInv, NEW on \in BOOLEAN, Assign(on) PROVE IInv'
BY TabsWait DEF Assign, IInv

LEMMA ExpireKeeps == ASSUME IInv, NEW a \in Rows, Expire(a) PROVE IInv'
<1>1. /\ a \in Held(attempts) /\ a \in OpenIn(attempts) /\ attempts[a] \in AttemptRow
      /\ GoodRows(attempts)
  BY TheOpenOne DEF Expire, IInv
<1> DEFINE row == [attempts[a] EXCEPT !.expired = TRUE]
<1>2. attempts' = [attempts EXCEPT ![a] = row] BY DEF Expire
<1>3. /\ row \in AttemptRow /\ row.number = attempts[a].number
      /\ row.status = attempts[a].status /\ row.expired
      /\ row.score = attempts[a].score /\ row.answers = attempts[a].answers
  BY <1>1 DEF AttemptRow
<1>4. TrueScore(row) /\ row.status \in {attempts[a].status, "SUBMITTED"}
  <2>1. TrueScore(attempts[a]) BY <1>1 DEF GoodRows
  <2> QED BY <1>3, <2>1 DEF TrueScore
<1> HIDE DEF row
<1>5. Follows(attempts, attempts', a) BY <1>1, <1>2, <1>3, <1>4, RowChanges
<1>7. attempts'[a] = row BY <1>1, <1>2 DEF Held
<1>6. Held(attempts') = Held(attempts)
  <2>1. row # NoAttempt BY <1>3, NoAttemptIsNoRow
  <2> QED BY <1>1, <1>5, <1>7, <2>1 DEF Follows, Held
<1>8. \A u \in Tabs : JobFits(tab[u], attempts')
  <2> TAKE u \in Tabs
  <2>1. Punctual => ~(tab[u].op = "submit" /\ tab[u].row = a) BY DEF Expire, RowFree
  <2> QED BY <1>1, <1>3, <1>5, <1>6, <1>7, <2>1, OthersStillFit
<1>9. GoodRows(attempts') BY <1>5 DEF Follows
<1> QED BY <1>8, <1>9, TabsWait DEF Expire, IInv

-----------------------------------------------------------------------------

LEMMA StepsKeep == ASSUME IInv, AttemptNext PROVE IInv'
<1>1. ASSUME NEW t \in Tabs, NEW intent \in BOOLEAN, StartAttempt(t, intent) PROVE IInv'
  BY <1>1, StartKeeps
<1>2. ASSUME NEW t \in Tabs, StartLook(t) \/ StartSweep(t) PROVE IInv'
  BY <1>2, LookAndSweepKeep
<1>3. ASSUME NEW t \in Tabs, NEW p \in Papers, Submit(t, p) PROVE IInv' BY <1>3, SubmitKeeps
<1>4. ASSUME NEW t \in Tabs, StartCommit(t) \/ SubmitCommit(t) \/ CheckCommit(t) PROVE IInv'
  BY <1>4, StartCommitKeeps, SubmitCommitKeeps, CheckCommitKeeps
<1>5. ASSUME NEW t \in Tabs, NEW q \in Questions, NEW choice \in {"right", "wrong"},
             Check(t, q, choice)
      PROVE  IInv'
  BY <1>5, CheckKeeps
<1>6. ASSUME NEW on \in BOOLEAN, Assign(on) PROVE IInv' BY <1>6, AssignKeeps
<1>7. ASSUME NEW a \in Rows, Expire(a) PROVE IInv' BY <1>7, ExpireKeeps
<1> QED BY <1>1, <1>2, <1>3, <1>4, <1>5, <1>6, <1>7 DEF AttemptNext

(* The invariant holds in every state: numbers run on in every list of     *)
(* attempts, a start is about the last attempt, a submit about the open    *)
(* one, and the two locks keep starts and submits apart.                   *)
THEOREM AttemptInvariance == AttemptSpec => []IInv
<1>1. AttemptInit => IInv
  <2> SUFFICES ASSUME AttemptInit PROVE IInv OBVIOUS
  <2>1. attempts = <<>> /\ Held(attempts) = {} /\ OpenIn(attempts) = {}
    BY DEF AttemptInit, Held, OpenIn
  <2>2. Cardinality(Held(attempts)) = 0 BY <2>1, FS_EmptySet
  <2>3. Numbers(attempts) = {} BY <2>1, NumbersOf
  <2>9. 1..0 = {} OBVIOUS
  <2>4. InOrder(attempts) BY <2>1, <2>2, <2>3, <2>9 DEF InOrder
  <2>5. InQuota(attempts)
    <3>1. quiz.quota # NoAttempt => quiz.quota \in Nat
      BY QuizAttemptAssumption DEF AttemptInit, QuizKind
    <3> QED BY <2>2, <3>1 DEF InQuota
  <2>6. GoodRows(attempts) BY <2>1, <2>4, <2>5, QuizAttemptAssumption DEF GoodRows
  <2>7. \A t \in Tabs : tab[t] = TabIdle BY DEF AttemptInit
  <2>8. tab \in [Tabs -> Job] BY IdleFits DEF AttemptInit
  <2> QED BY <2>6, <2>7, <2>8, IdleFits DEF IInv, AttemptInit
<1>2. ASSUME IInv, [AttemptNext]_attemptVars PROVE IInv'
  <2>1. CASE UNCHANGED attemptVars
    <3>1. GoodRows(attempts') /\ \A u \in Tabs : JobFits(tab[u], attempts')
      BY <1>2, <2>1 DEF attemptVars, IInv
    <3> QED BY <1>2, <2>1, <3>1, TabsWait DEF attemptVars, IInv
  <2>2. CASE AttemptNext BY <1>2, <2>2, StepsKeep
  <2> QED BY <1>2, <2>1, <2>2
<1> QED BY <1>1, <1>2, PTL DEF AttemptSpec

(* Whatever tabs start, check and submit at once: one attempt is open,     *)
(* numbers count from 1 without a gap, the quota is kept and the score of  *)
(* a mock is that of its answers, for any number of tabs, of questions and *)
(* of attempts.                                                            *)
THEOREM AttemptsAreSafe == AttemptSpec => []AttemptInv
<1>1. ASSUME IInv PROVE AttemptInv
  <2>1. /\ Rows = Held(attempts) /\ PendingRows = OpenIn(attempts)
        /\ \A a, b \in OpenIn(attempts) : a = b
    BY <1>1, TheOpenOne
  <2>2. OneAttemptOpen
    <3>1. PendingRows = {} \/ \E a : PendingRows = {a} BY <2>1
    <3>2. CASE PendingRows = {} BY <3>2, FS_EmptySet DEF OneAttemptOpen
    <3>3. CASE \E a : PendingRows = {a}
      <4>1. Cardinality(PendingRows) = 1 BY <3>3, FS_Singleton
      <4> QED BY <4>1 DEF OneAttemptOpen
    <3> QED BY <3>1, <3>2, <3>3
  <2>3. NumbersRunOn
    <3>1. Numbers(attempts) = 1..Cardinality(Held(attempts)) BY <1>1, InOrderGives DEF IInv
    <3> QED BY <2>1, <3>1, NumbersOf DEF NumbersRunOn
  <2>4. QuotaKept BY <1>1, <2>1 DEF QuotaKept, IInv, GoodRows, InQuota
  <2>5. ScoreIsOfTheAnswers
    BY <1>1, <2>1 DEF ScoreIsOfTheAnswers, IInv, GoodRows, TrueScore, SubmittedRows
  <2>6. AttemptTypeOK BY <1>1, Jobs DEF AttemptTypeOK, IInv, GoodRows
  <2> QED BY <2>2, <2>3, <2>4, <2>5, <2>6 DEF AttemptInv
<1> QED BY <1>1, AttemptInvariance, PTL

(* What a learner has submitted is not deleted, reopened or graded again,  *)
(* and a submitted mock keeps its paper, provided that no deadline passes  *)
(* while a submit is under way.                                            *)
THEOREM SubmittedAttemptsStand == ASSUME Punctual PROVE AttemptSpec => SubmittedStands
<1> DEFINE Stands ==
      \A a \in SubmittedRows :
         /\ attempts'[a] # NoAttempt
         /\ attempts'[a].status = "SUBMITTED" /\ attempts'[a].score = attempts[a].score
         /\ quiz.type = "mock" => attempts'[a].answers = attempts[a].answers
<1>1. ASSUME IInv, [AttemptNext]_attemptVars PROVE Stands
  <2> SUFFICES ASSUME NEW a \in SubmittedRows
               PROVE  /\ attempts'[a] # NoAttempt
                      /\ attempts'[a].status = "SUBMITTED"
                      /\ attempts'[a].score = attempts[a].score
                      /\ quiz.type = "mock" => attempts'[a].answers = attempts[a].answers
    OBVIOUS
  <2>1. a \in Held(attempts) /\ attempts[a].status = "SUBMITTED" /\ attempts[a] # NoAttempt
        /\ a \in DOMAIN attempts /\ a \notin OpenIn(attempts)
    BY DEF SubmittedRows, Rows, Held, OpenIn
  <2>2. attempts[a] \in AttemptRow BY <1>1, <2>1, Indices DEF IInv, GoodRows
  <2>3. CASE attempts'[a] = attempts[a] BY <2>1, <2>3
  <2>4. ASSUME NEW t \in Tabs, StartCommit(t) PROVE attempts'[a] = attempts[a]
    <3> DEFINE rows == Cleared(tab[t])
    <3>1. tab[t].op = "start" /\ JobFits(tab[t], attempts) /\ GoodRows(attempts)
          /\ tab[t].step \in {"create", "close", "delete"}
      BY <1>1, <2>4 DEF IInv, StartCommit
    <3>2. tab[t].step # "create" => tab[t].row # a BY <2>1, <3>1 DEF JobFits
    <3>3. /\ DOMAIN rows = DOMAIN attempts /\ rows[a] = attempts[a]
          /\ rows \in Seq(AttemptRow \cup {NoAttempt})
      BY <1>1, <2>1, <3>1, <3>2, ClearedIsGood DEF GoodRows
    <3>4. \/ UNCHANGED attempts \/ attempts' = rows
          \/ attempts' = Append(rows, NextAttempt(rows))
      BY <2>4 DEF StartCommit
    <3> HIDE DEF rows
    <3>5. Append(rows, NextAttempt(rows))[a] = rows[a] BY <2>1, <3>3
    <3> QED BY <3>3, <3>4, <3>5
  <2>5. ASSUME NEW t \in Tabs, SubmitCommit(t) PROVE attempts'[a] = attempts[a]
    <3>1. tab[t].row \in OpenIn(attempts) BY <1>1, <2>5 DEF IInv, JobFits, SubmitCommit
    <3> QED BY <2>1, <2>5, <3>1 DEF SubmitCommit
  <2>6. ASSUME NEW t \in Tabs, CheckCommit(t)
        PROVE  \/ attempts'[a] = attempts[a]
               \/ /\ quiz.type = "practice"
                  /\ \E x \in AnswerRow :
                         attempts'[a] = [attempts[a] EXCEPT !.answers = @ \cup {x}]
    BY <1>1, <2>1, <2>6 DEF IInv, JobFits, CheckCommit, NextRows
  <2>7. ASSUME NEW x \in AnswerRow, quiz.type = "practice",
               attempts'[a] = [attempts[a] EXCEPT !.answers = @ \cup {x}]
        PROVE  /\ attempts'[a] # NoAttempt /\ attempts'[a].status = "SUBMITTED"
               /\ attempts'[a].score = attempts[a].score
    <3>1. attempts'[a] \in AttemptRow BY <2>2, <2>7 DEF AttemptRow
    <3> QED BY <2>1, <2>2, <2>7, <3>1, NoAttemptIsNoRow DEF AttemptRow
  <2>8. ASSUME NEW b \in Rows, Expire(b) PROVE attempts'[a] = attempts[a]
    BY <1>1, <2>1, <2>8, TheOpenOne DEF Expire
  <2>9. CASE UNCHANGED attempts BY <2>3, <2>9
  <2> QED
    BY <1>1, <2>3, <2>4, <2>5, <2>6, <2>7, <2>8, <2>9
       DEF AttemptNext, attemptVars, StartAttempt, StartLook, StartSweep, Submit, Check, Assign
<1>2. IInv /\ [AttemptNext]_attemptVars => [Stands]_attemptVars BY <1>1
<1> QED BY <1>2, AttemptInvariance, PTL DEF AttemptSpec, SubmittedStands
=============================================================================
