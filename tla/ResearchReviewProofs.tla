------------------------ MODULE ResearchReviewProofs ------------------------
(***************************************************************************)
(* Theorems about ResearchReview, for every value of its constants, in     *)
(* four parts, each on top of the one before: the seats of a paper and     *)
(* its stale assignments (IInv); its cases, its public document and its    *)
(* withdrawal (CaseInv); its stage, its reviewers and what a publication   *)
(* rests on (SeatInv); the sweep, which changes nothing the second time.   *)
(***************************************************************************)
EXTENDS ResearchReview, FiniteSetTheorems, TLAPS

(* The parts of the inductive invariant that speak of the paper, as        *)
(* predicates of a paper, so that a lemma can state what an operator on    *)
(* papers preserves.                                                       *)
RowsOK(p) == \A a \in p.rows : a.version = p.version /\ p.status \in Open
SeatsOK(p) ==
    /\ Cardinality(Occupied(p)) <= p.required
    /\ Cardinality(Occupied(p)) = p.required => Pending(p) = {}
GoodPaper(p) == p \in PaperType /\ RowsOK(p) /\ SeatsOK(p)

IInv == TypeOK /\ NoStaleAssignment /\ SeatsRespected

-----------------------------------------------------------------------------
(* Finite sets.                                                            *)

(* A set of values of a function is no larger than its domain.             *)
LEMMA ImageBound ==
  ASSUME NEW S, IsFiniteSet(S), NEW f, NEW T \in SUBSET {f[x] : x \in S}
  PROVE  IsFiniteSet(T) /\ Cardinality(T) <= Cardinality(S)
PROOF
  <1> DEFINE R == {f[x] : x \in S}
             g == [x \in S |-> f[x]]
  <1>1. g \in Surjection(S, R)
    BY DEF Surjection
  <1>2. IsFiniteSet(R) /\ Cardinality(R) <= Cardinality(S)
    BY <1>1, FS_Surjection
  <1>3. IsFiniteSet(T) /\ Cardinality(T) <= Cardinality(R)
    BY <1>2, FS_Subset
  <1>4. Cardinality(S) \in Nat /\ Cardinality(R) \in Nat /\ Cardinality(T) \in Nat
    BY <1>2, <1>3, FS_CardinalityType
  <1> QED
    BY <1>2, <1>3, <1>4

LEMMA FiveFinite ==
  ASSUME NEW a, NEW b, NEW c, NEW d, NEW e
  PROVE  IsFiniteSet({a, b, c, d, e})
PROOF
  <1>1. IsFiniteSet({a})
    BY FS_Singleton
  <1>2. IsFiniteSet({a} \cup {b})
    BY <1>1, FS_AddElement
  <1>3. IsFiniteSet(({a} \cup {b}) \cup {c})
    BY <1>2, FS_AddElement
  <1>4. IsFiniteSet((({a} \cup {b}) \cup {c}) \cup {d})
    BY <1>3, FS_AddElement
  <1>5. IsFiniteSet(((({a} \cup {b}) \cup {c}) \cup {d}) \cup {e})
    BY <1>4, FS_AddElement
  <1>6. ((({a} \cup {b}) \cup {c}) \cup {d}) \cup {e} = {a, b, c, d, e}
    OBVIOUS
  <1> QED
    BY <1>5, <1>6

(* There are finitely many assignments, so every set of them is finite.    *)
LEMMA RowsFinite ==
  ASSUME NEW S \in SUBSET Assignment
  PROVE  IsFiniteSet(S)
PROOF
  <1> DEFINE St == {"invited", "accepted", "completed"}
             Du == {"later", "soon", "reminded", "past", "met"}
             De == {"", "approve", "changes"}
             T == Reviewers \X (Versions \X (St \X (Du \X De)))
             f == [a \in Assignment |->
                     <<a.reviewer, <<a.version, <<a.status, <<a.due, a.decision>>>>>>>>]
  <1>1. IsFiniteSet(Reviewers) /\ IsFiniteSet(Versions)
    BY ConstantsAssumption, FS_Interval DEF Versions
  <1>2. IsFiniteSet(Du)
    BY FiveFinite
  <1>3. IsFiniteSet(St)
    <2>1. IsFiniteSet({"invited", "accepted", "completed", "completed", "completed"})
      BY FiveFinite
    <2> QED BY <2>1
  <1>4. IsFiniteSet(De)
    <2>1. IsFiniteSet({"", "approve", "changes", "changes", "changes"})
      BY FiveFinite
    <2> QED BY <2>1
  <1>5. IsFiniteSet(T)
    BY <1>1, <1>2, <1>3, <1>4, FS_Product
  <1>6. f \in Injection(Assignment, T)
    <2>1. \A a \in Assignment : f[a] \in T
      BY DEF Assignment
    <2>2. ASSUME NEW a \in Assignment, NEW b \in Assignment, f[a] = f[b]
          PROVE  a = b
      <3>1. /\ f[a] = <<a.reviewer, <<a.version, <<a.status, <<a.due, a.decision>>>>>>>>
            /\ f[b] = <<b.reviewer, <<b.version, <<b.status, <<b.due, b.decision>>>>>>>>
        OBVIOUS
      <3>2. /\ a.reviewer = b.reviewer /\ a.version = b.version /\ a.status = b.status
            /\ a.due = b.due /\ a.decision = b.decision
        BY <2>2, <3>1
      <3>3. /\ a = [reviewer |-> a.reviewer, version |-> a.version, status |-> a.status,
                    due |-> a.due, decision |-> a.decision]
            /\ b = [reviewer |-> b.reviewer, version |-> b.version, status |-> b.status,
                    due |-> b.due, decision |-> b.decision]
        BY DEF Assignment
      <3> QED BY <3>2, <3>3
    <2>3. f \in [Assignment -> T]
      BY <2>1
    <2> HIDE DEF f
    <2> QED BY <2>2, <2>3 DEF Injection, IsInjective
  <1>7. IsFiniteSet(Assignment)
    BY <1>5, <1>6, FS_Injection
  <1> QED
    BY <1>7, FS_Subset

-----------------------------------------------------------------------------
(* Papers and their assignments.                                           *)

LEMMA SubsetsOfRows ==
  ASSUME NEW p \in PaperType
  PROVE  /\ Current(p) \subseteq p.rows /\ p.rows \subseteq Assignment
         /\ Occupied(p) \subseteq Current(p) /\ Pending(p) \subseteq Current(p)
         /\ Completed(p) \subseteq Occupied(p) /\ Running(p) \subseteq Current(p)
         /\ IsFiniteSet(Occupied(p)) /\ Cardinality(Occupied(p)) \in Nat
         /\ IsFiniteSet(Completed(p)) /\ Cardinality(Completed(p)) \in Nat
PROOF
  <1>1. /\ Current(p) \subseteq p.rows /\ p.rows \subseteq Assignment
        /\ Occupied(p) \subseteq Current(p) /\ Pending(p) \subseteq Current(p)
        /\ Completed(p) \subseteq Occupied(p) /\ Running(p) \subseteq Current(p)
    BY DEF PaperType, Current, Occupied, Pending, Completed, Running
  <1>2. IsFiniteSet(Occupied(p)) /\ IsFiniteSet(Completed(p))
    BY <1>1, RowsFinite
  <1> QED
    BY <1>1, <1>2, FS_CardinalityType

(* A paper without active assignments has all its seats free.              *)
LEMMA EmptyIsGood ==
  ASSUME NEW p \in PaperType, p.rows = {}
  PROVE  GoodPaper(p)
PROOF
  <1>1. Occupied(p) = {} /\ Pending(p) = {}
    BY DEF Occupied, Pending, Current
  <1>2. Cardinality(Occupied(p)) = 0
    BY <1>1, FS_EmptySet
  <1>3. p.required \in 1..3
    BY DEF PaperType
  <1> QED
    BY <1>1, <1>2, <1>3 DEF GoodPaper, RowsOK, SeatsOK

(* A change that takes seats and adds no invitation keeps SeatsOK.         *)
LEMMA SeatsShrink ==
  ASSUME NEW p \in PaperType, NEW q \in PaperType, SeatsOK(p),
         q.required = p.required,
         Cardinality(Occupied(q)) <= Cardinality(Occupied(p)),
         Pending(p) = {} => Pending(q) = {}
  PROVE  SeatsOK(q)
PROOF
  <1>1. /\ Cardinality(Occupied(p)) \in Nat /\ Cardinality(Occupied(q)) \in Nat
        /\ p.required \in Int
    BY SubsetsOfRows DEF PaperType
  <1> QED
    BY <1>1 DEF SeatsOK

LEMMA RetireIsGood ==
  ASSUME NEW p, GoodPaper(p), NEW gone
  PROVE  GoodPaper(Retire(p, gone))
PROOF
  <1> DEFINE q == Retire(p, gone)
  <1>1. p \in PaperType /\ q \in PaperType
    BY DEF GoodPaper, Retire, PaperType
  <1>2. /\ q.rows = p.rows \ gone /\ q.version = p.version
        /\ q.required = p.required /\ q.status = p.status
    BY <1>1 DEF Retire, PaperType
  <1>3. Occupied(q) \subseteq Occupied(p) /\ Pending(q) \subseteq Pending(p)
    BY <1>2 DEF Occupied, Pending, Current
  <1>4. Cardinality(Occupied(q)) <= Cardinality(Occupied(p))
    BY <1>1, <1>3, SubsetsOfRows, FS_Subset
  <1>5. SeatsOK(q)
    BY <1>1, <1>2, <1>3, <1>4, SeatsShrink DEF GoodPaper
  <1> QED
    BY <1>1, <1>2, <1>5 DEF GoodPaper, RowsOK

LEMMA StageIsOpen ==
  ASSUME NEW p \in PaperType
  PROVE  Stage(p) \in Open
PROOF
  <1>1. Cardinality(Completed(p)) \in Nat /\ p.required \in 1..3
    BY SubsetsOfRows DEF PaperType
  <1> QED
    BY <1>1 DEF Stage, Open, Live

LEMMA RefreshIsGood ==
  ASSUME NEW p, GoodPaper(p)
  PROVE  /\ GoodPaper(Refresh(p))
         /\ p.status \in Open => Refresh(p).status \in Open
         /\ Refresh(p).rows = p.rows /\ Refresh(p).required = p.required
         /\ Refresh(p).version = p.version
PROOF
  <1> DEFINE q == [p EXCEPT !.status = Stage(p)]
  <1>1. p \in PaperType /\ Stage(p) \in Open
    BY StageIsOpen DEF GoodPaper
  <1>2. q \in PaperType
    BY <1>1 DEF PaperType, Statuses
  <1>3. /\ q.rows = p.rows /\ q.version = p.version /\ q.required = p.required
        /\ q.status = Stage(p)
    BY <1>1 DEF PaperType
  <1>4. Occupied(q) = Occupied(p) /\ Pending(q) = Pending(p)
    BY <1>3 DEF Occupied, Pending, Current
  <1>5. GoodPaper(q)
    BY <1>1, <1>2, <1>3, <1>4 DEF GoodPaper, RowsOK, SeatsOK
  <1> QED
    BY <1>1, <1>3, <1>5 DEF Refresh

LEMMA InviteIsGood ==
  ASSUME NEW p, GoodPaper(p), p.status \in Open, NEW chosen \in SUBSET Reviewers,
         Cardinality(Occupied(p)) < p.required
  PROVE  /\ GoodPaper(Invite(p, chosen))
         /\ Invite(p, chosen).status = p.status
PROOF
  <1> DEFINE new == {[reviewer |-> r, version |-> p.version, status |-> "invited",
                      due |-> "later", decision |-> ""] : r \in chosen}
             q == Invite(p, chosen)
  <1>1. p \in PaperType
    BY DEF GoodPaper
  <1>2. \A a \in new : a \in Assignment /\ a.status = "invited" /\ a.version = p.version
    <2>1. SUFFICES ASSUME NEW a \in new
                   PROVE  a \in Assignment /\ a.status = "invited" /\ a.version = p.version
      OBVIOUS
    <2>2. PICK r \in chosen : a = [reviewer |-> r, version |-> p.version,
                                  status |-> "invited", due |-> "later", decision |-> ""]
      OBVIOUS
    <2>3. p.version \in Versions /\ r \in Reviewers
      BY <1>1 DEF PaperType
    <2> HIDE DEF new
    <2> QED
      BY <2>2, <2>3 DEF Assignment
  <1>9. q = [p EXCEPT !.rows = p.rows \cup new, !.used = p.used \cup chosen]
    BY DEF Invite
  <1> HIDE DEF q, new
  <1>3. /\ q.rows = p.rows \cup new /\ q.version = p.version
        /\ q.required = p.required /\ q.status = p.status
    BY <1>1, <1>9 DEF PaperType
  <1>4. q \in PaperType
    BY <1>1, <1>2, <1>9 DEF PaperType
  <1>5. Occupied(q) = Occupied(p)
    BY <1>3, <1>2 DEF Occupied, Current
  <1>6. SeatsOK(q)
    <2>1. Cardinality(Occupied(p)) \in Nat /\ p.required \in Int
      BY <1>1, SubsetsOfRows DEF PaperType
    <2> QED
      BY <1>3, <1>5, <2>1 DEF SeatsOK
  <1>7. RowsOK(q)
    BY <1>3, <1>2 DEF GoodPaper, RowsOK
  <1> QED
    BY <1>3, <1>4, <1>6, <1>7 DEF GoodPaper, q

(* Automatic matching keeps a paper good and, under review, under review.  *)
LEMMA FillIsGood ==
  ASSUME NEW p, GoodPaper(p), NEW prof
  PROVE  /\ GoodPaper(Fill(p, prof))
         /\ p.status \in Open => Fill(p, prof).status \in Open
         /\ p.status \notin Live => Fill(p, prof) = p
PROOF
  <1> DEFINE C == Candidates(p, prof)
             chosen == Best(C, prof, Batch(p))
             invited == Invite(p, chosen)
             noticed == [invited EXCEPT !.notice = NoticeAfter(p, C)]
  <1>1. p \in PaperType
    BY DEF GoodPaper
  <1>2. chosen \in SUBSET Reviewers
    BY DEF Best, Candidates
  <1>3. CASE ~p.auto \/ p.status \notin Live
    BY <1>3 DEF Fill
  <1>4. CASE p.auto /\ p.status \in Live /\ Needed(p) <= 0
    <2>1. Fill(p, prof) = Refresh(Retire(p, Pending(p)))
      BY <1>4 DEF Fill
    <2>2. GoodPaper(Retire(p, Pending(p))) /\ Retire(p, Pending(p)).status = p.status
      BY <1>1, RetireIsGood DEF Retire, PaperType
    <2> QED
      BY <1>4, <2>1, <2>2, RefreshIsGood DEF Open
  <1>5. CASE p.auto /\ p.status \in Live /\ ~(Needed(p) <= 0) /\ Batch(p) <= 0
    BY <1>5 DEF Fill, Open
  <1>6. CASE p.auto /\ p.status \in Live /\ ~(Needed(p) <= 0) /\ ~(Batch(p) <= 0)
    <2>1. Fill(p, prof) = Refresh(noticed)
      BY <1>6 DEF Fill
    <2>2. Cardinality(Occupied(p)) < p.required
      BY <1>1, <1>6, SubsetsOfRows DEF Needed, PaperType
    <2>3. p.status \in Open
      BY <1>6 DEF Open
    <2> HIDE DEF chosen
    <2>4. GoodPaper(invited) /\ invited.status = p.status
      BY <1>2, <2>2, <2>3, InviteIsGood
    <2>5. NoticeAfter(p, C) \in BOOLEAN
      BY <1>1 DEF NoticeAfter, PaperType
    <2> HIDE DEF invited
    <2>6. noticed \in PaperType
      BY <2>4, <2>5 DEF GoodPaper, PaperType
    <2>7. /\ noticed.rows = invited.rows /\ noticed.version = invited.version
          /\ noticed.required = invited.required /\ noticed.status = invited.status
      BY <2>4 DEF GoodPaper, PaperType
    <2> HIDE DEF noticed
    <2>8. Occupied(noticed) = Occupied(invited) /\ Pending(noticed) = Pending(invited)
      BY <2>7 DEF Occupied, Pending, Current
    <2>9. GoodPaper(noticed) /\ noticed.status \in Open
      BY <2>3, <2>4, <2>6, <2>7, <2>8 DEF GoodPaper, RowsOK, SeatsOK
    <2> QED
      BY <1>6, <2>1, <2>9, RefreshIsGood
  <1> QED
    BY <1>3, <1>4, <1>5, <1>6

LEMMA CloseIsGood ==
  ASSUME NEW p \in PaperType, \A a \in p.rows : a.version = p.version
  PROVE  /\ Close(p) \in PaperType /\ Close(p).rows = {} /\ GoodPaper(Close(p))
         /\ Close(p).status = p.status /\ Close(p).version = p.version
PROOF
  <1>1. Current(p) = p.rows
    BY DEF Current
  <1>2. /\ Close(p) \in PaperType /\ Close(p).rows = {}
        /\ Close(p).status = p.status /\ Close(p).version = p.version
    BY <1>1 DEF Close, Retire, PaperType
  <1> QED
    BY <1>2, EmptyIsGood

(* A new round starts from a paper that has no assignment left.            *)
LEMMA ResetIsGood ==
  ASSUME NEW p \in PaperType, p.rows = {}, NEW prof
  PROVE  GoodPaper(Reset(p, prof)) /\ Reset(p, prof).status \in Open
PROOF
  <1> DEFINE q == Close(p)
             r == [q EXCEPT !.status = "submitted", !.notice = FALSE]
  <1>1. q \in PaperType /\ q.rows = {}
    BY CloseIsGood
  <1> HIDE DEF q
  <1>2. r \in PaperType /\ r.rows = {} /\ r.status = "submitted"
    BY <1>1 DEF PaperType, Statuses, Open, Live
  <1>3. GoodPaper(r) /\ r.status \in Open
    BY <1>2, EmptyIsGood DEF Open, Live
  <1>4. Reset(p, prof) = Fill(r, prof)
    BY DEF Reset, q
  <1> HIDE DEF r
  <1> QED
    BY <1>3, <1>4, FillIsGood

(* Replacing an assignment by one of the same reviewer, version and seat.  *)
LEMMA ReplaceIsGood ==
  ASSUME NEW p, GoodPaper(p), NEW a \in Current(p), NEW b \in Assignment,
         b.version = a.version,
         b.status = "invited" => a.status = "invited",
         b.status \in {"accepted", "completed"} => a.status \in {"accepted", "completed"}
  PROVE  GoodPaper(Replace(p, a, b)) /\ Replace(p, a, b).status = p.status
PROOF
  <1> DEFINE q == Replace(p, a, b)
             f == [x \in Occupied(p) |-> IF x = a THEN b ELSE x]
  <1>1. p \in PaperType /\ a \in p.rows /\ a.version = p.version
    BY DEF GoodPaper, Current
  <1>2. q \in PaperType
    BY <1>1 DEF Replace, PaperType
  <1>3. /\ q.rows = (p.rows \ {a}) \cup {b} /\ q.version = p.version
        /\ q.required = p.required /\ q.status = p.status
    BY <1>1 DEF Replace, PaperType
  <1> HIDE DEF q
  <1>4. Occupied(q) \subseteq {f[x] : x \in Occupied(p)}
    <2>1. SUFFICES ASSUME NEW y \in Occupied(q)
                   PROVE  \E x \in Occupied(p) : y = f[x]
      OBVIOUS
    <2>2. CASE y \in p.rows \ {a}
      <3>1. y \in Occupied(p)
        BY <1>3, <2>2 DEF Occupied, Current
      <3> QED
        BY <2>2, <3>1
    <2>3. CASE y = b
      <3>1. a \in Occupied(p)
        BY <1>1, <2>3 DEF Occupied, Current
      <3> QED
        BY <2>3, <3>1
    <2> QED
      BY <1>3, <2>2, <2>3 DEF Occupied, Current
  <1>5. Cardinality(Occupied(q)) <= Cardinality(Occupied(p))
    <2> HIDE DEF f
    <2> QED
      BY <1>1, <1>4, SubsetsOfRows, ImageBound
  <1>6. Pending(p) = {} => Pending(q) = {}
    BY <1>1, <1>3 DEF Pending, Current
  <1>7. SeatsOK(q)
    BY <1>1, <1>2, <1>3, <1>5, <1>6, SeatsShrink DEF GoodPaper
  <1>8. RowsOK(q)
    BY <1>1, <1>3 DEF GoodPaper, RowsOK
  <1> QED
    BY <1>2, <1>3, <1>7, <1>8 DEF GoodPaper, q

-----------------------------------------------------------------------------
(* What the handlers make of a paper.                                      *)

(* The sweep releases and reminds, and only then refills.                  *)
LEMMA MaintainIsGood ==
  ASSUME NEW p, GoodPaper(p), NEW prof
  PROVE  GoodPaper(Maintain(p, prof))
PROOF
  <1> DEFINE lapsed == Lapsed(p, prof)
             remind == DueSoon(p, prof)
             f == [x \in p.rows |-> IF x \in remind THEN [x EXCEPT !.due = "reminded"] ELSE x]
             reminded == {[a EXCEPT !.due = "reminded"] : a \in remind}
             q == [p EXCEPT !.rows = (p.rows \ (lapsed \cup remind)) \cup reminded]
  <1>1. p \in PaperType /\ p.rows \subseteq Assignment
    BY DEF GoodPaper, PaperType
  <1>2. remind \subseteq p.rows
    BY DEF DueSoon, Running, Current
  <1>3. \A b \in reminded : \E a \in remind :
           /\ b = f[a] /\ b \in Assignment /\ b.version = a.version /\ b.status = a.status
    <2>1. SUFFICES ASSUME NEW b \in reminded
                   PROVE  \E a \in remind :
                             /\ b = f[a] /\ b \in Assignment
                             /\ b.version = a.version /\ b.status = a.status
      OBVIOUS
    <2>2. PICK a \in remind : b = [a EXCEPT !.due = "reminded"]
      OBVIOUS
    <2>3. a \in p.rows /\ a \in Assignment
      BY <1>1, <1>2
    <2>4. f[a] = [a EXCEPT !.due = "reminded"]
      BY <2>3
    <2> HIDE DEF f, remind, reminded
    <2>5. b \in Assignment /\ b.version = a.version /\ b.status = a.status
      BY <2>2, <2>3 DEF Assignment
    <2> QED
      BY <2>2, <2>4, <2>5
  <1>4. \A x \in p.rows \ remind : f[x] = x
    OBVIOUS
  <1> HIDE DEF f, reminded, remind, lapsed
  <1>5. q \in PaperType
    BY <1>1, <1>3 DEF PaperType
  <1>6. /\ q.rows = (p.rows \ (lapsed \cup remind)) \cup reminded /\ q.version = p.version
        /\ q.required = p.required /\ q.status = p.status
    BY <1>1 DEF PaperType
  <1>7. Maintain(p, prof) = IF p.status \in Live THEN Fill(Refresh(q), prof) ELSE p
    BY DEF Maintain, lapsed, remind, reminded
  <1> HIDE DEF q
  <1>8. Occupied(q) \subseteq {f[x] : x \in Occupied(p)}
    <2>1. SUFFICES ASSUME NEW y \in Occupied(q)
                   PROVE  \E x \in Occupied(p) : y = f[x]
      OBVIOUS
    <2>2. y \in q.rows /\ y.version = p.version /\ y.status \in {"accepted", "completed"}
      BY <1>6 DEF Occupied, Current
    <2>3. CASE y \in p.rows \ remind
      <3>1. y \in Occupied(p) /\ f[y] = y
        BY <1>4, <2>2, <2>3 DEF Occupied, Current
      <3> QED
        BY <3>1
    <2>4. CASE y \in reminded
      <3>1. PICK a \in remind : y = f[a] /\ y.version = a.version /\ y.status = a.status
        BY <1>3, <2>4
      <3>2. a \in Occupied(p)
        BY <1>2, <2>2, <3>1 DEF Occupied, Current
      <3> QED
        BY <3>1, <3>2
    <2> QED
      BY <1>6, <2>2, <2>3, <2>4
  <1>9. Cardinality(Occupied(q)) <= Cardinality(Occupied(p))
    BY <1>1, <1>8, SubsetsOfRows, ImageBound
  <1>10. Pending(p) = {} => Pending(q) = {}
    <2>1. ASSUME NEW y \in Pending(q)
          PROVE  Pending(p) # {}
      <3>1. y \in q.rows /\ y.version = p.version /\ y.status = "invited"
        BY <1>6 DEF Pending, Current
      <3>2. CASE y \in p.rows
        BY <3>1, <3>2 DEF Pending, Current
      <3>3. CASE y \in reminded
        BY <1>2, <1>3, <3>1, <3>3 DEF Pending, Current
      <3> QED
        BY <1>6, <3>1, <3>2, <3>3
    <2> QED
      BY <2>1
  <1>11. SeatsOK(q)
    BY <1>1, <1>5, <1>6, <1>9, <1>10, SeatsShrink DEF GoodPaper
  <1>12. RowsOK(q)
    BY <1>1, <1>2, <1>3, <1>6 DEF GoodPaper, RowsOK
  <1>13. GoodPaper(Refresh(q))
    BY <1>5, <1>11, <1>12, RefreshIsGood DEF GoodPaper
  <1> QED
    BY <1>7, <1>13, FillIsGood

LEMMA UnseatIsGood ==
  ASSUME NEW p, GoodPaper(p), NEW r, NEW prof
  PROVE  GoodPaper(Unseat(p, r, prof))
PROOF
  <1> DEFINE left == Retire(p, {a \in Current(p) : a.reviewer = r})
             q == [left EXCEPT !.status = "submitted"]
  <1>1. GoodPaper(left)
    BY RetireIsGood
  <1> HIDE DEF left
  <1>2. left \in PaperType
    BY <1>1 DEF GoodPaper
  <1>3. /\ q \in PaperType /\ q.rows = left.rows /\ q.version = left.version
        /\ q.required = left.required /\ q.status = "submitted"
    BY <1>2 DEF PaperType, Statuses, Open, Live
  <1>4. Unseat(p, r, prof) = IF p.status \in Open THEN Fill(Refresh(q), prof) ELSE left
    BY DEF Unseat, left
  <1> HIDE DEF q
  <1>5. Occupied(q) = Occupied(left) /\ Pending(q) = Pending(left)
    BY <1>3 DEF Occupied, Pending, Current
  <1>6. GoodPaper(q)
    BY <1>1, <1>3, <1>5 DEF GoodPaper, RowsOK, SeatsOK, Open, Live
  <1> QED
    BY <1>1, <1>4, <1>6, RefreshIsGood, FillIsGood

(* An acceptance takes one free seat; the last one closes the invitations. *)
LEMMA AcceptIsGood ==
  ASSUME NEW p, GoodPaper(p), NEW a \in Pending(p), NEW b \in Assignment,
         b.version = a.version, b.status = "accepted",
         Cardinality(Occupied(p)) < p.required
  PROVE  /\ ~LastSeat(p) => GoodPaper(Replace(p, a, b))
         /\ LastSeat(p) => GoodPaper(Retire(Replace(p, a, b), Pending(Replace(p, a, b))))
PROOF
  <1> DEFINE q == Replace(p, a, b)
             c == Retire(q, Pending(q))
  <1>1. p \in PaperType /\ a \in p.rows /\ a.version = p.version /\ a.status = "invited"
    BY DEF GoodPaper, Pending, Current
  <1>2. q \in PaperType
    BY <1>1 DEF Replace, PaperType
  <1>3. /\ q.rows = (p.rows \ {a}) \cup {b} /\ q.version = p.version
        /\ q.required = p.required /\ q.status = p.status
    BY <1>1 DEF Replace, PaperType
  <1>4. /\ c \in PaperType /\ c.rows = q.rows \ Pending(q) /\ c.version = p.version
        /\ c.required = p.required /\ c.status = p.status
    BY <1>2, <1>3 DEF Retire, PaperType
  <1>5. RowsOK(q) /\ RowsOK(c)
    BY <1>1, <1>3, <1>4 DEF GoodPaper, RowsOK
  <1>6. Occupied(q) \subseteq Occupied(p) \cup {b} /\ Occupied(c) \subseteq Occupied(p) \cup {b}
    BY <1>3, <1>4 DEF Occupied, Current
  <1>7. Pending(c) = {}
    BY <1>3, <1>4 DEF Pending, Current
  <1> HIDE DEF q, c
  <1>8. /\ IsFiniteSet(Occupied(p) \cup {b}) /\ Cardinality(Occupied(p)) \in Nat
        /\ Cardinality(Occupied(p) \cup {b}) <= Cardinality(Occupied(p)) + 1
        /\ Cardinality(Occupied(p) \cup {b}) \in Nat
    <2>1. IsFiniteSet(Occupied(p)) /\ Cardinality(Occupied(p)) \in Nat
      BY <1>1, SubsetsOfRows
    <2>2. /\ IsFiniteSet(Occupied(p) \cup {b})
          /\ \/ Cardinality(Occupied(p) \cup {b}) = Cardinality(Occupied(p))
             \/ Cardinality(Occupied(p) \cup {b}) = Cardinality(Occupied(p)) + 1
      BY <2>1, FS_AddElement
    <2> QED
      BY <2>1, <2>2
  <1>9. /\ Cardinality(Occupied(q)) <= Cardinality(Occupied(p)) + 1
        /\ Cardinality(Occupied(c)) <= Cardinality(Occupied(p)) + 1
        /\ Cardinality(Occupied(q)) \in Nat /\ Cardinality(Occupied(c)) \in Nat
    <2>1. /\ Cardinality(Occupied(q)) <= Cardinality(Occupied(p) \cup {b})
          /\ Cardinality(Occupied(c)) <= Cardinality(Occupied(p) \cup {b})
      BY <1>6, <1>8, FS_Subset
    <2>2. Cardinality(Occupied(q)) \in Nat /\ Cardinality(Occupied(c)) \in Nat
      BY <1>2, <1>4, SubsetsOfRows
    <2> QED
      BY <1>8, <2>1, <2>2
  <1>10. p.required \in Int
    BY <1>1 DEF PaperType
  <1>11. ~LastSeat(p) => SeatsOK(q)
    BY <1>3, <1>8, <1>9, <1>10 DEF SeatsOK, LastSeat
  <1>12. SeatsOK(c)
    BY <1>4, <1>7, <1>8, <1>9, <1>10 DEF SeatsOK
  <1>13. ~LastSeat(p) => GoodPaper(q)
    BY <1>2, <1>5, <1>11 DEF GoodPaper
  <1>14. GoodPaper(c)
    BY <1>4, <1>5, <1>12 DEF GoodPaper
  <1> QED
    BY <1>13, <1>14 DEF q, c

(* Where one review is required, the reviewer who accepted is alone: the   *)
(* reason why the single-review "changes" leaves no assignment behind.     *)
LEMMA SingleReviewer ==
  ASSUME NEW p, GoodPaper(p), p.required = 1, NEW a \in Occupied(p)
  PROVE  p.rows = {a}
PROOF
  <1>1. p \in PaperType /\ IsFiniteSet(Occupied(p)) /\ Cardinality(Occupied(p)) \in Nat
    BY SubsetsOfRows DEF GoodPaper
  <1>2. Cardinality(Occupied(p)) # 0
    BY <1>1, FS_EmptySet
  <1>3. Cardinality(Occupied(p)) = 1
    BY <1>1, <1>2 DEF GoodPaper, SeatsOK
  <1>4. Occupied(p) = {a}
    BY <1>1, <1>3, FS_Singleton
  <1>5. Pending(p) = {}
    BY <1>3 DEF GoodPaper, SeatsOK
  <1>6. \A x \in p.rows : x \in Occupied(p) \/ x \in Pending(p)
    BY <1>1 DEF GoodPaper, RowsOK, PaperType, Assignment, Occupied, Pending, Current
  <1> QED
    BY <1>4, <1>5, <1>6 DEF Occupied, Current

-----------------------------------------------------------------------------
(* The inductive invariant.                                                *)

(* What TypeOK says beside the paper.                                      *)
RestOK ==
    /\ cases \subseteq Case
    /\ decided \subseteq Versions \X Reviewers \X {"approve", "changes"}
    /\ public \in [doc : {"none", "shown", "hidden"}, version : 0..MaxVersion, count : Nat]
    /\ profile \in [Reviewers -> Profile]
    /\ edit \in [Reviewers -> {"none", "apply", "revoke", "revoke_here"}]
    /\ publishing \in BOOLEAN

LEMMA IInvParts == IInv <=> GoodPaper(paper) /\ RestOK
PROOF
  BY DEF IInv, TypeOK, NoStaleAssignment, SeatsRespected, GoodPaper, RowsOK, SeatsOK, RestOK

LEMMA CaseTypes ==
  ASSUME cases \subseteq Case, NEW v \in Versions
  PROVE  /\ \A kinds, outcome : outcome \in {"upheld", "dismissed", "published",
                "rejected", "cancelled", "closed"} => Settled(kinds, outcome) \subseteq Case
         /\ Moved(v) \subseteq Case
         /\ \A kind \in {"appeal", "correction"} : Opened(kind, v) \subseteq Case
PROOF
  <1>1. ASSUME NEW kinds, NEW outcome \in {"upheld", "dismissed", "published",
                  "rejected", "cancelled", "closed"}
        PROVE  Settled(kinds, outcome) \subseteq Case
    BY <1>1 DEF Settled, Case
  <1>2. Moved(v) \subseteq Case
    BY DEF Moved, Case
  <1>3. \A kind \in {"appeal", "correction"} : Opened(kind, v) \subseteq Case
    BY DEF Opened, Case
  <1> QED
    BY <1>1, <1>2, <1>3

LEMMA InitIInv == Init => IInv
PROOF
  <1>1. SUFFICES ASSUME Init PROVE GoodPaper(paper) /\ RestOK
    BY IInvParts
  <1>2. NewPaper \in PaperType /\ NewPaper.rows = {}
    BY ConstantsAssumption DEF NewPaper, PaperType, Statuses, Open, Live, Versions
  <1>3. GoodPaper(paper)
    BY <1>1, <1>2, EmptyIsGood, FillIsGood DEF Init
  <1>4. RestOK
    <2>1. MaxVersion \in Nat /\ FirstProfiles \subseteq [Reviewers -> Profile]
      BY ConstantsAssumption
    <2>2. public \in [doc : {"none", "shown", "hidden"}, version : 0..MaxVersion, count : Nat]
      BY <1>1, <2>1 DEF Init
    <2>3. edit \in [Reviewers -> {"none", "apply", "revoke", "revoke_here"}]
      BY <1>1 DEF Init
    <2> QED
      BY <1>1, <2>1, <2>2, <2>3 DEF Init, RestOK
  <1> QED
    BY <1>3, <1>4

(* A step that leaves the rest alone, or gives it values of its types.     *)
LEMMA RestUnchanged ==
  RestOK /\ UNCHANGED <<cases, decided, public, Outside>> => RestOK'
PROOF
  BY DEF RestOK, Outside

LEMMA IInvFromParts == GoodPaper(paper') /\ RestOK' => IInv'
PROOF
  BY DEF IInv, TypeOK, NoStaleAssignment, SeatsRespected, GoodPaper, RowsOK, SeatsOK,
         RestOK, Occupied, Pending, Current

LEMMA ReviewerStepIInv == IInv /\ ReviewerStep => IInv'
PROOF
  <1> SUFFICES ASSUME IInv, ReviewerStep
               PROVE  GoodPaper(paper') /\ RestOK'
    BY IInvFromParts
  <1>1. GoodPaper(paper) /\ RestOK /\ paper \in PaperType
    BY IInvParts DEF GoodPaper
  <1>2. PICK r \in Reviewers :
           Accept(r) \/ Decline(r) \/ \E d \in {"approve", "changes"} : Review(r, d)
    BY DEF ReviewerStep
  <1>3. CASE Accept(r)
    <2>1. PICK a \in Current(paper) :
             /\ a.status = "invited" /\ paper.status \in Live
             /\ Cardinality(Occupied(paper)) < paper.required
             /\ LET seated == Replace(paper, a, [a EXCEPT !.status = "accepted", !.due = "later"])
                    closed == IF LastSeat(paper) THEN Retire(seated, Pending(seated)) ELSE seated
                IN  paper' = Fill(Refresh(closed), profile)
      BY <1>3 DEF Accept
    <2> DEFINE b == [a EXCEPT !.status = "accepted", !.due = "later"]
               seated == Replace(paper, a, b)
               closed == IF LastSeat(paper) THEN Retire(seated, Pending(seated)) ELSE seated
    <2>2. a \in Assignment /\ a \in Pending(paper)
      BY <1>1, <2>1, SubsetsOfRows DEF Pending
    <2>3. b \in Assignment /\ b.version = a.version /\ b.status = "accepted"
      BY <2>2 DEF Assignment
    <2>4. paper' = Fill(Refresh(closed), profile)
      BY <2>1
    <2> HIDE DEF b
    <2>5. GoodPaper(closed)
      BY <1>1, <2>1, <2>2, <2>3, AcceptIsGood
    <2> HIDE DEF closed
    <2>6. GoodPaper(paper')
      BY <2>4, <2>5, RefreshIsGood, FillIsGood
    <2> QED
      BY <1>1, <1>3, <2>6, RestUnchanged DEF Accept
  <1>4. CASE Decline(r)
    <2>1. PICK a \in Current(paper) : paper' = Fill(Refresh(Retire(paper, {a})), profile)
      BY <1>4 DEF Decline
    <2>2. GoodPaper(paper')
      BY <1>1, <2>1, RetireIsGood, RefreshIsGood, FillIsGood
    <2> QED
      BY <1>1, <1>4, <2>2, RestUnchanged DEF Decline
  <1>5. ASSUME NEW d \in {"approve", "changes"}, Review(r, d)
        PROVE  GoodPaper(paper') /\ RestOK'
    <2>1. PICK a \in Current(paper) :
             /\ a.status = "accepted"
             /\ LET done == Replace(paper, a, [a EXCEPT !.status = "completed", !.due = "met",
                                                        !.decision = d])
                    judged == IF paper.required = 1 /\ d = "changes"
                                THEN [Retire(paper, {a}) EXCEPT !.status = "changes"]
                                ELSE done
                IN  paper' = Fill(Refresh(judged), profile)
      BY <1>5 DEF Review
    <2> DEFINE b == [a EXCEPT !.status = "completed", !.due = "met", !.decision = d]
               done == Replace(paper, a, b)
               left == Retire(paper, {a})
               sent == [left EXCEPT !.status = "changes"]
               judged == IF paper.required = 1 /\ d = "changes" THEN sent ELSE done
    <2>2. a \in Assignment /\ a \in Occupied(paper)
      BY <1>1, <2>1, SubsetsOfRows DEF Occupied
    <2>3. b \in Assignment /\ b.version = a.version /\ b.status = "completed"
      BY <2>2 DEF Assignment
    <2>4. paper' = Fill(Refresh(judged), profile)
      BY <2>1
    <2> HIDE DEF b
    <2>5. GoodPaper(done)
      BY <1>1, <2>1, <2>3, ReplaceIsGood
    <2>6. paper.required = 1 => GoodPaper(sent)
      <3>1. SUFFICES ASSUME paper.required = 1 PROVE GoodPaper(sent)
        OBVIOUS
      <3>2. paper.rows = {a}
        BY <1>1, <2>2, <3>1, SingleReviewer
      <3>3. left \in PaperType /\ left.rows = {}
        BY <1>1, <3>2 DEF Retire, PaperType
      <3> HIDE DEF left
      <3>4. sent \in PaperType /\ sent.rows = {}
        BY <3>3 DEF PaperType, Statuses
      <3> HIDE DEF sent
      <3> QED
        BY <3>4, EmptyIsGood
    <2>7. GoodPaper(judged)
      BY <2>5, <2>6
    <2> HIDE DEF judged
    <2>8. GoodPaper(paper')
      BY <2>4, <2>7, RefreshIsGood, FillIsGood
    <2>9. paper.version \in Versions
      BY <1>1 DEF PaperType
    <2>10. RestOK'
      BY <1>1, <1>5, <2>9 DEF Review, RestOK, Outside
    <2> QED
      BY <2>8, <2>10
  <1> QED
    BY <1>2, <1>3, <1>4, <1>5

(* A decision closes the assignments under the status it sets.             *)
LEMMA DecidedIsGood ==
  ASSUME NEW p, GoodPaper(p), NEW status \in Statuses
  PROVE  /\ GoodPaper(Close([p EXCEPT !.status = status]))
         /\ GoodPaper([Close(p) EXCEPT !.status = status])
PROOF
  <1> DEFINE q == [p EXCEPT !.status = status]
             c == Close(p)
             d == [c EXCEPT !.status = status]
  <1>1. p \in PaperType /\ \A a \in p.rows : a.version = p.version
    BY DEF GoodPaper, RowsOK
  <1>2. q \in PaperType /\ \A a \in q.rows : a.version = q.version
    BY <1>1 DEF PaperType
  <1>3. GoodPaper(Close(q))
    <2> HIDE DEF q
    <2> QED BY <1>2, CloseIsGood
  <1>4. c \in PaperType /\ c.rows = {}
    BY <1>1, CloseIsGood
  <1>5. GoodPaper(d)
    <2> HIDE DEF c
    <2>1. d \in PaperType /\ d.rows = {}
      BY <1>4 DEF PaperType
    <2> HIDE DEF d
    <2> QED BY <2>1, EmptyIsGood
  <1> QED
    BY <1>3, <1>5

LEMMA AdminStepIInv == IInv /\ AdminStep => IInv'
PROOF
  <1> SUFFICES ASSUME IInv, AdminStep
               PROVE  GoodPaper(paper') /\ RestOK'
    BY IInvFromParts
  <1>1. GoodPaper(paper) /\ RestOK /\ paper \in PaperType
    BY IInvParts DEF GoodPaper
  <1>2. paper.version \in Versions /\ {"changes", "published", "rejected"} \subseteq Statuses
    BY <1>1 DEF PaperType, Statuses, Terminal
  <1>3. CASE RequestChanges
    BY <1>1, <1>2, <1>3, DecidedIsGood, RestUnchanged DEF RequestChanges
  <1>4. CASE Reject
    <2>1. Settled({"correction"}, "rejected") \subseteq Case
      BY <1>1, <1>2, CaseTypes DEF RestOK
    <2>2. GoodPaper(paper')
      BY <1>1, <1>2, <1>4, DecidedIsGood DEF Reject
    <2> QED
      BY <1>1, <1>4, <2>1, <2>2 DEF Reject, RestOK, Outside
  <1>5. CASE Match
    BY <1>1, <1>5, FillIsGood, RestUnchanged DEF Match
  <1>6. ASSUME NEW n \in RequiredChoices, NEW m \in BOOLEAN, Configure(n, m)
        PROVE  GoodPaper(paper') /\ RestOK'
    <2> DEFINE q == [paper EXCEPT !.required = n, !.auto = m]
    <2>1. n \in 1..3
      BY ConstantsAssumption
    <2>2. /\ q \in PaperType /\ q.rows = paper.rows /\ q.version = paper.version
          /\ q.required = n /\ q.status = paper.status
      BY <1>1, <2>1 DEF PaperType
    <2>3. paper' = Fill(q, profile) /\ (n # paper.required => Occupied(paper) = {})
      BY <1>6 DEF Configure
    <2> HIDE DEF q
    <2>4. Occupied(q) = Occupied(paper) /\ Pending(q) = Pending(paper)
      BY <2>2 DEF Occupied, Pending, Current
    <2>5. SeatsOK(q)
      <3>1. CASE n = paper.required
        BY <1>1, <2>2, <2>4, <3>1 DEF GoodPaper, SeatsOK
      <3>2. CASE n # paper.required
        <4>1. Cardinality(Occupied(q)) = 0
          BY <2>3, <2>4, <3>2, FS_EmptySet
        <4> QED
          BY <2>1, <2>2, <4>1 DEF SeatsOK
      <3> QED
        BY <3>1, <3>2
    <2>6. GoodPaper(q)
      BY <1>1, <2>2, <2>5 DEF GoodPaper, RowsOK
    <2>7. GoodPaper(paper')
      BY <2>3, <2>6, FillIsGood
    <2> QED
      BY <1>1, <1>6, <2>7, RestUnchanged DEF Configure
  <1>7. ASSUME NEW u \in Admins, NEW r \in Reviewers, Assign(u, r)
        PROVE  GoodPaper(paper') /\ RestOK'
    <2>1. PICK target \in Targets(paper) :
             /\ Cardinality(Occupied(Retire(paper, target))) < Retire(paper, target).required
             /\ paper' = Refresh(Invite(Retire(paper, target), {r}))
      BY <1>7 DEF Assign
    <2>2. GoodPaper(Retire(paper, target)) /\ Retire(paper, target).status \in Open
      BY <1>1, <1>7, RetireIsGood DEF Assign, Retire, PaperType
    <2>3. GoodPaper(paper')
      BY <2>1, <2>2, InviteIsGood, RefreshIsGood
    <2> QED
      BY <1>1, <1>7, <2>3, RestUnchanged DEF Assign
  <1>8. ASSUME NEW u \in Admins, PublishBegin(u)
        PROVE  GoodPaper(paper') /\ RestOK'
    BY <1>1, <1>8 DEF PublishBegin, RestOK
  <1>9. ASSUME NEW u \in Admins, NEW outcome \in {"upheld", "dismissed"},
               DecideAppeal(u, outcome)
        PROVE  GoodPaper(paper') /\ RestOK'
    <2> DEFINE q == [paper EXCEPT !.auto = TRUE]
    <2>1. Settled({"appeal"}, outcome) \subseteq Case
      BY <1>1, <1>2, CaseTypes DEF RestOK
    <2>2. paper.rows = {}
      BY <1>1, <1>9 DEF DecideAppeal, GoodPaper, RowsOK, Open, Live
    <2>3. q \in PaperType /\ q.rows = {}
      BY <1>1, <2>2 DEF PaperType
    <2>4. paper' = IF outcome = "upheld" THEN Reset(q, profile) ELSE paper
      BY <1>9 DEF DecideAppeal
    <2> HIDE DEF q
    <2>5. GoodPaper(paper')
      BY <1>1, <2>3, <2>4, ResetIsGood
    <2> QED
      BY <1>1, <1>9, <2>1, <2>5 DEF DecideAppeal, RestOK, Outside
  <1> QED
    BY <1>3, <1>4, <1>5, <1>6, <1>7, <1>8, <1>9 DEF AdminStep

LEMMA AuthorStepIInv == IInv /\ AuthorStep => IInv'
PROOF
  <1> SUFFICES ASSUME IInv, AuthorStep
               PROVE  GoodPaper(paper') /\ RestOK'
    BY IInvFromParts
  <1>1. GoodPaper(paper) /\ RestOK /\ paper \in PaperType
    BY IInvParts DEF GoodPaper
  <1>2. paper.version \in Versions /\ {"published", "withdrawn"} \subseteq Statuses
    BY <1>1 DEF PaperType, Statuses, Terminal
  <1>3. CASE Appeal
    <2>1. Opened("appeal", paper.version) \subseteq Case
      BY <1>1, <1>2, CaseTypes DEF RestOK
    <2> QED
      BY <1>1, <1>3, <2>1 DEF Appeal, RestOK, Outside
  <1>4. CASE CancelCorrection
    <2>1. Settled({"correction"}, "cancelled") \subseteq Case
      BY <1>1, <1>2, CaseTypes DEF RestOK
    <2>2. GoodPaper(paper')
      BY <1>1, <1>2, <1>4, DecidedIsGood DEF CancelCorrection
    <2> QED
      BY <1>1, <1>4, <2>1, <2>2 DEF CancelCorrection, RestOK, Outside
  <1>5. ASSUME NEW u \in Admins \cup {Owner}, Withdraw(u)
        PROVE  GoodPaper(paper') /\ RestOK'
    <2>1. Settled({"appeal", "correction"}, "closed") \subseteq Case
      BY <1>1, <1>2, CaseTypes DEF RestOK
    <2>2. GoodPaper(paper')
      BY <1>1, <1>2, <1>5, DecidedIsGood DEF Withdraw
    <2> QED
      BY <1>1, <1>5, <2>1, <2>2 DEF Withdraw, RestOK, Outside
  <1>6. paper.status \notin Open => paper.rows = {}
    BY <1>1 DEF GoodPaper, RowsOK
  <1>7. paper.version < MaxVersion =>
          /\ paper.version + 1 \in Versions
          /\ NextVersion(paper) \in PaperType /\ NextVersion(paper).rows = paper.rows
    <2>1. paper.version < MaxVersion => paper.version + 1 \in Versions
      BY <1>2, ConstantsAssumption DEF Versions
    <2>2. /\ NextVersion(paper).rows = paper.rows
          /\ paper.version + 1 \in Versions => NextVersion(paper) \in PaperType
      BY <1>1 DEF NextVersion, PaperType
    <2> QED
      BY <2>1, <2>2
  <1>8. CASE Revise
    <2>1. Moved(paper.version + 1) \subseteq Case
      BY <1>1, <1>7, <1>8, CaseTypes DEF RestOK, Revise
    <2>2. GoodPaper(paper')
      BY <1>6, <1>7, <1>8, ResetIsGood DEF Revise, Open, Live
    <2> QED
      BY <1>1, <1>8, <2>1, <2>2 DEF Revise, RestOK, Outside
  <1>9. CASE ProposeCorrection
    <2> DEFINE n == NextVersion(paper)
               q == [n EXCEPT !.required = DefaultReviews, !.auto = AutoMatching]
    <2>1. Opened("correction", paper.version + 1) \subseteq Case
      BY <1>1, <1>7, <1>9, CaseTypes DEF RestOK, ProposeCorrection
    <2>2. n \in PaperType /\ n.rows = {}
      BY <1>6, <1>7, <1>9 DEF ProposeCorrection, Open, Live
    <2>3. paper' = Reset(q, profile)
      BY <1>9 DEF ProposeCorrection
    <2> HIDE DEF n
    <2>4. q \in PaperType /\ q.rows = {}
      BY <2>2, ConstantsAssumption DEF PaperType
    <2> HIDE DEF q
    <2>5. GoodPaper(paper')
      BY <2>3, <2>4, ResetIsGood
    <2> QED
      BY <1>1, <1>9, <2>1, <2>5 DEF ProposeCorrection, RestOK, Outside
  <1> QED
    BY <1>3, <1>4, <1>5, <1>8, <1>9 DEF AuthorStep

LEMMA ProfileStepIInv == IInv /\ ProfileStep => IInv'
PROOF
  <1> SUFFICES ASSUME IInv, ProfileStep
               PROVE  GoodPaper(paper') /\ RestOK'
    BY IInvFromParts
  <1>1. GoodPaper(paper) /\ RestOK
    BY IInvParts
  <1>2. PICK r \in Restless :
           \/ ApplyBegin(r)
           \/ \E expert \in BOOLEAN : ApplyCommit(r, expert)
           \/ \E available \in BOOLEAN : SetAvailable(r, available)
           \/ \E u \in Admins : Approve(u, r) \/ RevokeBegin(u, r)
           \/ RevokeCommit(r)
           \/ \E enabled \in BOOLEAN : SetEnabled(r, enabled)
           \/ \E load \in {0, Capacity} : OtherWork(r, load)
    BY DEF ProfileStep
  <1>3. r \in Reviewers /\ profile[r] \in Profile /\ Capacity \in Nat
    BY <1>1, ConstantsAssumption DEF RestOK
  <1>4. \A p \in Profile : SetProfile(r, p) => profile' \in [Reviewers -> Profile]
    BY <1>1 DEF SetProfile, RestOK
  <1>5. /\ \A b \in BOOLEAN : /\ [profile[r] EXCEPT !.approved = b] \in Profile
                              /\ [profile[r] EXCEPT !.available = b] \in Profile
                              /\ [profile[r] EXCEPT !.enabled = b] \in Profile
                              /\ [profile[r] EXCEPT !.approved = FALSE, !.expert = b] \in Profile
        /\ \A n \in {0, Capacity} : [profile[r] EXCEPT !.load = n] \in Profile
    <2> DEFINE q == profile[r]
    <2>1. q \in Profile /\ Capacity \in Nat
      BY <1>3
    <2> HIDE DEF q
    <2>2. ASSUME NEW b \in BOOLEAN PROVE [q EXCEPT !.approved = b] \in Profile
      BY <2>1 DEF Profile
    <2>3. ASSUME NEW b \in BOOLEAN PROVE [q EXCEPT !.available = b] \in Profile
      BY <2>1 DEF Profile
    <2>4. ASSUME NEW b \in BOOLEAN PROVE [q EXCEPT !.enabled = b] \in Profile
      BY <2>1 DEF Profile
    <2>5. ASSUME NEW b \in BOOLEAN
          PROVE  [q EXCEPT !.approved = FALSE, !.expert = b] \in Profile
      BY <2>1 DEF Profile
    <2>6. ASSUME NEW n \in {0, Capacity} PROVE [q EXCEPT !.load = n] \in Profile
      BY <2>1 DEF Profile
    <2> QED
      BY <2>2, <2>3, <2>4, <2>5, <2>6 DEF q
  <1>6. CASE ApplyBegin(r)
    BY <1>1, <1>6 DEF ApplyBegin, RestOK
  <1>7. ASSUME NEW b \in BOOLEAN, ApplyCommit(r, b)
        PROVE  GoodPaper(paper') /\ RestOK'
    BY <1>1, <1>4, <1>5, <1>7 DEF ApplyCommit, RestOK
  <1>8. ASSUME NEW b \in BOOLEAN, SetAvailable(r, b)
        PROVE  GoodPaper(paper') /\ RestOK'
    BY <1>1, <1>4, <1>5, <1>8 DEF SetAvailable, RestOK
  <1>9. ASSUME NEW u \in Admins, Approve(u, r)
        PROVE  GoodPaper(paper') /\ RestOK'
    BY <1>1, <1>4, <1>5, <1>9 DEF Approve, RestOK
  <1>10. ASSUME NEW u \in Admins, RevokeBegin(u, r)
         PROVE  GoodPaper(paper') /\ RestOK'
    BY <1>1, <1>10 DEF RevokeBegin, RestOK
  <1>11. CASE RevokeCommit(r)
    <2>1. GoodPaper(paper')
      BY <1>1, <1>11, UnseatIsGood DEF RevokeCommit
    <2>2. profile' \in [Reviewers -> Profile]
      BY <1>4, <1>5, <1>11 DEF RevokeCommit
    <2> QED
      BY <1>1, <1>11, <2>1, <2>2 DEF RevokeCommit, RestOK
  <1>12. ASSUME NEW b \in BOOLEAN, SetEnabled(r, b)
         PROVE  GoodPaper(paper') /\ RestOK'
    BY <1>1, <1>4, <1>5, <1>12 DEF SetEnabled, RestOK
  <1>13. ASSUME NEW n \in {0, Capacity}, OtherWork(r, n)
         PROVE  GoodPaper(paper') /\ RestOK'
    BY <1>1, <1>4, <1>5, <1>13 DEF OtherWork, RestOK
  <1> QED
    BY <1>2, <1>6, <1>7, <1>8, <1>9, <1>10, <1>11, <1>12, <1>13

LEMMA OtherStepIInv ==
  IInv /\ (PublishCommit \/ Age \/ Sweep \/ ModeratorHides) => IInv'
PROOF
  <1> SUFFICES ASSUME IInv, PublishCommit \/ Age \/ Sweep \/ ModeratorHides
               PROVE  GoodPaper(paper') /\ RestOK'
    BY IInvFromParts
  <1>1. GoodPaper(paper) /\ RestOK /\ paper \in PaperType
    BY IInvParts DEF GoodPaper
  <1>2. CASE PublishCommit
    <2>1. paper.version \in Versions /\ "published" \in Statuses
      BY <1>1 DEF PaperType, Statuses, Terminal
    <2>2. Settled({"correction"}, "published") \subseteq Case
      BY <1>1, <2>1, CaseTypes DEF RestOK
    <2>3. Cardinality(Completed(paper)) \in Nat /\ paper.version \in 0..MaxVersion
      BY <1>1, <2>1, ConstantsAssumption, SubsetsOfRows DEF Versions
    <2>4. GoodPaper(paper')
      BY <1>1, <1>2, <2>1, DecidedIsGood DEF PublishCommit
    <2> QED
      BY <1>1, <1>2, <2>2, <2>3, <2>4 DEF PublishCommit, RestOK
  <1>3. CASE Age
    <2>1. PICK a \in Running(paper) :
             /\ a.due \notin {"past", "met"}
             /\ paper' = Replace(paper, a, [a EXCEPT !.due = Older(@)])
      BY <1>3 DEF Age
    <2> DEFINE b == [a EXCEPT !.due = Older(a.due)]
    <2>2. a \in Current(paper) /\ a \in Assignment
      BY <1>1, SubsetsOfRows
    <2>3. Older(a.due) \in {"soon", "past"}
      BY <2>1, <2>2 DEF Assignment, Older
    <2>4. b \in Assignment /\ b.version = a.version /\ b.status = a.status
      BY <2>2, <2>3 DEF Assignment
    <2>5. paper' = Replace(paper, a, b)
      BY <2>1
    <2> HIDE DEF b
    <2>6. GoodPaper(paper')
      BY <1>1, <2>2, <2>4, <2>5, ReplaceIsGood
    <2> QED
      BY <1>1, <1>3, <2>6, RestUnchanged DEF Age
  <1>4. CASE Sweep
    BY <1>1, <1>4, MaintainIsGood, RestUnchanged DEF Sweep
  <1>5. CASE ModeratorHides
    BY <1>1, <1>5 DEF ModeratorHides, RestOK, Outside
  <1> QED
    BY <1>2, <1>3, <1>4, <1>5

LEMMA IInvInductive == IInv /\ [Next]_vars => IInv'
PROOF
  <1>1. IInv /\ UNCHANGED vars => IInv'
    <2>1. GoodPaper(paper) /\ RestOK /\ UNCHANGED vars => GoodPaper(paper') /\ RestOK'
      BY DEF vars, RestOK
    <2> QED
      BY <2>1, IInvParts, IInvFromParts
  <1> QED
    BY <1>1, ReviewerStepIInv, AdminStepIInv, AuthorStepIInv, ProfileStepIInv, OtherStepIInv
       DEF Next

-----------------------------------------------------------------------------
(* The inductive invariant holds in every reachable state.                 *)
THEOREM Invariance == Spec => []IInv
PROOF
  BY InitIInv, IInvInductive, PTL DEF Spec

(* The rows keep to their columns and choices.                             *)
THEOREM TypeCorrect == Spec => []TypeOK
PROOF
  <1>1. IInv => TypeOK
    BY DEF IInv
  <1> QED
    BY <1>1, Invariance, PTL

(* No assignment outlives its version or its round: a reviewer of an older *)
(* version, or of a decided paper, holds nothing.                          *)
THEOREM AssignmentsAreCurrent == Spec => []NoStaleAssignment
PROOF
  <1>1. IInv => NoStaleAssignment
    BY DEF IInv
  <1> QED
    BY <1>1, Invariance, PTL

(* Never more reviews than required, and no open invitation once all the   *)
(* seats are taken, however acceptances, replacements, revocations, the    *)
(* sweep and changed settings interleave.                                  *)
THEOREM SeatsAreRespected == Spec => []SeatsRespected
PROOF
  <1>1. IInv => SeatsRespected
    BY DEF IInv
  <1> QED
    BY <1>1, Invariance, PTL

-----------------------------------------------------------------------------
(* Second part: the cases and the public document.                         *)

(* A paper that nobody published, withdrew or rejected.                    *)
Working == Open \cup {"changes"}

(* The cases of a paper, its status and its public document belong         *)
(* together.  The second conjunct is why a new case cannot meet an older   *)
(* one of its version, the fifth why a rejected paper has no correction.   *)
CaseInv ==
    /\ publishing => paper.status = "approval"
    /\ \A c \in cases : c.version <= paper.version
    /\ CorrectionTracksPaper
    /\ AppealTracksPaper
    /\ paper.status = "rejected" => public.doc = "none"
    /\ WithdrawnIsClosed
    /\ public.version <= paper.version
    /\ paper.status \notin {"published", "withdrawn"} => public.version < paper.version

-----------------------------------------------------------------------------
(* What operators on papers do to the version and the status.  They are    *)
(* stated for any value with these two fields, whatever its assignments.   *)

Named(p) == {"version", "status", "rows", "notice"} \subseteq DOMAIN p
Same(p, q) == Named(q) /\ q.version = p.version /\ q.status = p.status

(* A step that may change the stage of an undecided paper and nothing that *)
(* cases or the public document depend on.                                 *)
Stays(p, q) ==
    /\ Named(q)
    /\ q.version = p.version
    /\ q.status = p.status \/ (p.status \in Working /\ q.status \in Working)

LEMMA PaperIsNamed == \A p \in PaperType : Named(p)
PROOF
  BY DEF Named, PaperType

LEMMA RowsKeep ==
  ASSUME NEW p, Named(p), NEW rows
  PROVE  Same(p, [p EXCEPT !.rows = rows])
PROOF
  BY DEF Named, Same

LEMMA RetireKeeps ==
  ASSUME NEW p, Named(p), NEW gone
  PROVE  Same(p, Retire(p, gone))
PROOF
  BY DEF Named, Same, Retire

LEMMA RefreshStays ==
  ASSUME NEW p, Named(p)
  PROVE  Stays(p, Refresh(p))
PROOF
  <1>1. Stage(p) \in Open
    BY DEF Stage, Open, Live
  <1> QED
    BY <1>1 DEF Refresh, Named, Stays, Working

LEMMA FillStays ==
  ASSUME NEW p, Named(p), NEW prof
  PROVE  Stays(p, Fill(p, prof))
PROOF
  <1> DEFINE C == Candidates(p, prof)
             invited == Invite(p, Best(C, prof, Batch(p)))
             noticed == [invited EXCEPT !.notice = NoticeAfter(p, C)]
             retired == Retire(p, Pending(p))
  <1>1. \/ Fill(p, prof) = p
        \/ Fill(p, prof) = Refresh(retired)
        \/ Fill(p, prof) = Refresh(noticed)
    BY DEF Fill
  <1>2. Same(p, retired)
    BY RetireKeeps
  <1>3. Same(p, invited)
    BY DEF Same, Named, Invite
  <1> HIDE DEF invited
  <1>4. Same(p, noticed)
    BY <1>3 DEF Same, Named
  <1> HIDE DEF noticed, retired
  <1>5. Stays(p, Refresh(retired)) /\ Stays(p, Refresh(noticed))
    BY <1>2, <1>4, RefreshStays DEF Same, Stays
  <1> QED
    BY <1>1, <1>5 DEF Stays

LEMMA RefillStays ==
  ASSUME NEW p, NEW q, Same(p, q), NEW prof
  PROVE  Stays(p, Fill(Refresh(q), prof)) /\ Stays(p, Fill(q, prof))
PROOF
  <1>1. Named(q)
    BY DEF Same
  <1>2. Stays(q, Refresh(q)) /\ Stays(q, Fill(q, prof))
    BY <1>1, RefreshStays, FillStays
  <1>3. Stays(Refresh(q), Fill(Refresh(q), prof))
    BY <1>2, FillStays DEF Stays
  <1> QED
    BY <1>2, <1>3 DEF Same, Stays

LEMMA ResetOpens ==
  ASSUME NEW p, Named(p), NEW prof
  PROVE  Reset(p, prof).version = p.version /\ Reset(p, prof).status \in Working
PROOF
  <1> DEFINE q == Close(p)
             r == [q EXCEPT !.status = "submitted", !.notice = FALSE]
  <1>1. Same(p, q)
    BY RetireKeeps DEF Close
  <1>2. Reset(p, prof) = Fill(r, prof)
    BY DEF Reset
  <1> HIDE DEF q
  <1>3. Named(r) /\ r.version = p.version /\ r.status \in Working
    BY <1>1 DEF Same, Named, Working, Open, Live
  <1> HIDE DEF r
  <1> QED
    BY <1>2, <1>3, FillStays DEF Stays

LEMMA MaintainStays ==
  ASSUME NEW p, Named(p), NEW prof
  PROVE  Stays(p, Maintain(p, prof))
PROOF
  <1> DEFINE rows == (p.rows \ (Lapsed(p, prof) \cup DueSoon(p, prof)))
                       \cup {[a EXCEPT !.due = "reminded"] : a \in DueSoon(p, prof)}
             q == [p EXCEPT !.rows = rows]
  <1>1. Maintain(p, prof) = IF p.status \in Live THEN Fill(Refresh(q), prof) ELSE p
    BY DEF Maintain
  <1> HIDE DEF rows
  <1>2. Same(p, q)
    BY RowsKeep
  <1> HIDE DEF q
  <1> QED
    BY <1>1, <1>2, RefillStays DEF Stays

LEMMA UnseatStays ==
  ASSUME NEW p, Named(p), NEW r, NEW prof
  PROVE  Stays(p, Unseat(p, r, prof))
PROOF
  <1> DEFINE left == Retire(p, {a \in Current(p) : a.reviewer = r})
             q == [left EXCEPT !.status = "submitted"]
  <1>1. Unseat(p, r, prof) = IF p.status \in Open THEN Fill(Refresh(q), prof) ELSE left
    BY DEF Unseat
  <1>2. Same(p, left)
    BY RetireKeeps
  <1> HIDE DEF left
  <1>3. Named(q) /\ q.version = p.version /\ q.status \in Working
    BY <1>2 DEF Same, Named, Working, Open, Live
  <1> HIDE DEF q
  <1>4. Stays(q, Fill(Refresh(q), prof))
    BY <1>3, RefillStays DEF Same
  <1> QED
    BY <1>1, <1>2, <1>3, <1>4 DEF Stays, Same, Working

-----------------------------------------------------------------------------
(* The steps that decide nothing.                                          *)

(* A step that keeps the paper in its round, cases and public document     *)
(* untouched.  Only a handler that holds the lock changes the stage.       *)
Quiet ==
    /\ paper'.version = paper.version
    /\ \/ paper'.status = paper.status
       \/ PaperFree /\ paper.status \in Working /\ paper'.status \in Working
    /\ UNCHANGED <<cases, public, publishing>>

LEMMA StaysIsQuiet ==
  ASSUME PaperFree, Stays(paper, paper'), UNCHANGED <<cases, decided, public, Outside>>
  PROVE  Quiet
PROOF
  BY DEF Quiet, Stays, Outside

LEMMA ReviewerStepQuiet == TypeOK /\ ReviewerStep => Quiet
PROOF
  <1> SUFFICES ASSUME TypeOK, ReviewerStep PROVE Quiet
    OBVIOUS
  <1>1. Named(paper)
    BY PaperIsNamed DEF TypeOK
  <1>2. PICK r \in Reviewers :
           Accept(r) \/ Decline(r) \/ \E d \in {"approve", "changes"} : Review(r, d)
    BY DEF ReviewerStep
  <1>3. CASE Accept(r)
    <2>1. PICK a : LET seated == Replace(paper, a, [a EXCEPT !.status = "accepted", !.due = "later"])
                       closed == IF LastSeat(paper) THEN Retire(seated, Pending(seated)) ELSE seated
                   IN  paper' = Fill(Refresh(closed), profile)
      BY <1>3 DEF Accept
    <2> DEFINE seated == Replace(paper, a, [a EXCEPT !.status = "accepted", !.due = "later"])
               closed == IF LastSeat(paper) THEN Retire(seated, Pending(seated)) ELSE seated
    <2>2. paper' = Fill(Refresh(closed), profile)
      BY <2>1
    <2>3. Same(paper, seated)
      BY <1>1, RowsKeep DEF Replace
    <2> HIDE DEF seated
    <2>4. Same(paper, closed)
      BY <2>3, RetireKeeps DEF Same
    <2> HIDE DEF closed
    <2>5. Stays(paper, paper')
      BY <2>2, <2>4, RefillStays
    <2> QED
      BY <1>3, <2>5, StaysIsQuiet DEF Accept
  <1>4. CASE Decline(r)
    <2>1. PICK a : paper' = Fill(Refresh(Retire(paper, {a})), profile)
      BY <1>4 DEF Decline
    <2>2. Stays(paper, paper')
      BY <1>1, <2>1, RetireKeeps, RefillStays
    <2> QED
      BY <1>4, <2>2, StaysIsQuiet DEF Decline
  <1>5. ASSUME NEW d \in {"approve", "changes"}, Review(r, d) PROVE Quiet
    <2>1. PICK a : LET done == Replace(paper, a, [a EXCEPT !.status = "completed", !.due = "met",
                                                          !.decision = d])
                       judged == IF paper.required = 1 /\ d = "changes"
                                   THEN [Retire(paper, {a}) EXCEPT !.status = "changes"]
                                   ELSE done
                   IN  paper' = Fill(Refresh(judged), profile)
      BY <1>5 DEF Review
    <2> DEFINE done == Replace(paper, a, [a EXCEPT !.status = "completed", !.due = "met",
                                                   !.decision = d])
               left == Retire(paper, {a})
               sent == [left EXCEPT !.status = "changes"]
               judged == IF paper.required = 1 /\ d = "changes" THEN sent ELSE done
    <2>2. paper' = Fill(Refresh(judged), profile)
      BY <2>1
    <2>3. Same(paper, done) /\ Same(paper, left)
      BY <1>1, RowsKeep, RetireKeeps DEF Replace
    <2>4. paper.status \in Working
      BY <1>5 DEF Review, Working, Open
    <2> HIDE DEF done, left
    <2>5. Named(sent) /\ sent.version = paper.version /\ sent.status \in Working
      BY <2>3 DEF Same, Named, Working
    <2> HIDE DEF sent
    <2>6. Named(judged) /\ judged.version = paper.version /\ judged.status \in Working
      BY <2>3, <2>4, <2>5 DEF Same
    <2> HIDE DEF judged
    <2>7. Stays(judged, paper')
      BY <2>2, <2>6, RefillStays DEF Same
    <2> QED
      BY <1>5, <2>4, <2>6, <2>7 DEF Review, Quiet, Stays, Outside, Working
  <1> QED
    BY <1>2, <1>3, <1>4, <1>5

LEMMA AdminStepQuiet ==
  ASSUME TypeOK,
         \/ RequestChanges \/ Match
         \/ \E n \in RequiredChoices, m \in BOOLEAN : Configure(n, m)
         \/ \E u \in Admins, r \in Reviewers : Assign(u, r)
  PROVE  Quiet
PROOF
  <1>1. Named(paper) /\ paper.status \in Statuses
    BY PaperIsNamed DEF TypeOK, PaperType
  <1>2. CASE RequestChanges
    <2> DEFINE q == [paper EXCEPT !.status = "changes"]
    <2>1. Named(q) /\ q.version = paper.version /\ q.status = "changes"
      BY <1>1 DEF Named
    <2>2. paper' = Close(q)
      BY <1>2 DEF RequestChanges
    <2> HIDE DEF q
    <2>3. paper'.version = paper.version /\ paper'.status = "changes"
      BY <2>1, <2>2, RetireKeeps DEF Close, Same
    <2> QED
      BY <1>1, <1>2, <2>3 DEF RequestChanges, Quiet, Working, Statuses, Outside
  <1>3. CASE Match
    BY <1>1, <1>3, FillStays, StaysIsQuiet DEF Match
  <1>4. ASSUME NEW n \in RequiredChoices, NEW m \in BOOLEAN, Configure(n, m) PROVE Quiet
    <2> DEFINE q == [paper EXCEPT !.required = n, !.auto = m]
    <2>1. Same(paper, q)
      BY <1>1 DEF Named, Same
    <2>2. paper' = Fill(q, profile)
      BY <1>4 DEF Configure
    <2> HIDE DEF q
    <2>3. Stays(paper, paper')
      BY <2>1, <2>2, RefillStays
    <2> QED
      BY <1>4, <2>3, StaysIsQuiet DEF Configure
  <1>5. ASSUME NEW u \in Admins, NEW r \in Reviewers, Assign(u, r) PROVE Quiet
    <2>1. PICK target : paper' = Refresh(Invite(Retire(paper, target), {r}))
      BY <1>5 DEF Assign
    <2> DEFINE left == Retire(paper, target)
               invited == Invite(left, {r})
    <2>2. Same(paper, left)
      BY <1>1, RetireKeeps
    <2> HIDE DEF left
    <2>3. Same(paper, invited)
      BY <2>2 DEF Same, Named, Invite
    <2>4. paper' = Refresh(invited)
      BY <2>1 DEF left
    <2> HIDE DEF invited
    <2>5. Stays(paper, paper')
      BY <2>3, <2>4, RefreshStays DEF Same, Stays
    <2> QED
      BY <1>5, <2>5, StaysIsQuiet DEF Assign
  <1> QED
    BY <1>2, <1>3, <1>4, <1>5

LEMMA OtherStepQuiet == TypeOK /\ (Age \/ Sweep \/ ProfileStep) => Quiet
PROOF
  <1> SUFFICES ASSUME TypeOK, Age \/ Sweep \/ ProfileStep PROVE Quiet
    OBVIOUS
  <1>1. Named(paper)
    BY PaperIsNamed DEF TypeOK
  <1>2. CASE Age
    <2>1. PICK rows : paper' = [paper EXCEPT !.rows = rows]
      BY <1>2 DEF Age, Replace
    <2> QED
      BY <1>1, <1>2, <2>1, RowsKeep DEF Age, Same, Quiet, Outside
  <1>3. CASE Sweep
    BY <1>1, <1>3, MaintainStays, StaysIsQuiet DEF Sweep
  <1>4. ASSUME NEW r \in Restless, RevokeCommit(r) PROVE Quiet
    BY <1>1, <1>4, UnseatStays DEF RevokeCommit, Quiet, Stays
  <1>5. CASE ProfileStep
    BY <1>4, <1>5 DEF ProfileStep, ApplyBegin, ApplyCommit, SetAvailable, Approve, RevokeBegin,
                      SetEnabled, OtherWork, Quiet
  <1> QED
    BY <1>2, <1>3, <1>5

(* Every other step is one of these.                                       *)
Decision ==
    \/ Reject
    \/ \E u \in Admins : \/ PublishBegin(u)
                         \/ \E outcome \in {"upheld", "dismissed"} : DecideAppeal(u, outcome)
    \/ PublishCommit
    \/ AuthorStep
    \/ ModeratorHides

LEMMA QuietOrDecision == TypeOK /\ [Next]_vars => Quiet \/ Decision
PROOF
  <1>1. UNCHANGED vars => Quiet
    BY DEF vars, Quiet
  <1>2. TypeOK /\ AdminStep => Quiet \/ Decision
    BY AdminStepQuiet DEF AdminStep, Decision
  <1> QED
    BY <1>1, <1>2, ReviewerStepQuiet, OtherStepQuiet DEF Next, Decision

-----------------------------------------------------------------------------
(* What the decisions make of the cases.                                   *)

LEMMA SettledFacts ==
  ASSUME cases \subseteq Case, NEW kinds, NEW outcome, outcome # "open"
  PROVE  /\ \A c \in Settled(kinds, outcome) : \E d \in cases :
               /\ c.kind = d.kind /\ c.version = d.version
               /\ c = d \/ d.status = "open"
               /\ c.status = "open" => c = d /\ d.kind \notin kinds
         /\ \A d \in cases : d.kind \notin kinds => d \in Settled(kinds, outcome)
PROOF
  <1>1. ASSUME NEW c \in Settled(kinds, outcome)
        PROVE  \E d \in cases :
               /\ c.kind = d.kind /\ c.version = d.version
               /\ c = d \/ d.status = "open"
               /\ c.status = "open" => c = d /\ d.kind \notin kinds
    <2>1. PICK d \in cases : c = IF d.status = "open" /\ d.kind \in kinds
                                   THEN [d EXCEPT !.status = outcome] ELSE d
      BY DEF Settled
    <2>2. d \in Case
      OBVIOUS
    <2>3. CASE d.status = "open" /\ d.kind \in kinds
      <3>1. c.kind = d.kind /\ c.version = d.version /\ c.status = outcome
        BY <2>1, <2>2, <2>3 DEF Case
      <3> QED
        BY <2>3, <3>1
    <2>4. CASE ~(d.status = "open" /\ d.kind \in kinds)
      BY <2>1, <2>2, <2>4 DEF Case
    <2> QED
      BY <2>3, <2>4
  <1>2. ASSUME NEW d \in cases, d.kind \notin kinds PROVE d \in Settled(kinds, outcome)
    BY <1>2 DEF Settled
  <1> QED
    BY <1>1, <1>2

(* No two cases of one kind for one version.                               *)
Distinct(C) == \A c, d \in C : c.kind = d.kind /\ c.version = d.version => c = d

LEMMA SettledDistinct ==
  ASSUME cases \subseteq Case, Distinct(cases), NEW kinds, NEW outcome
  PROVE  Distinct(Settled(kinds, outcome))
PROOF
  <1> SUFFICES ASSUME NEW c \in Settled(kinds, outcome), NEW d \in Settled(kinds, outcome),
                      c.kind = d.kind, c.version = d.version
               PROVE  c = d
    BY DEF Distinct
  <1> DEFINE f(x) == IF x.status = "open" /\ x.kind \in kinds
                       THEN [x EXCEPT !.status = outcome] ELSE x
  <1>1. PICK x \in cases, y \in cases : c = f(x) /\ d = f(y)
    BY DEF Settled
  <1>2. c.kind = x.kind /\ c.version = x.version /\ d.kind = y.kind /\ d.version = y.version
    BY <1>1 DEF Case
  <1>3. x = y
    BY <1>2 DEF Distinct
  <1> QED
    BY <1>1, <1>3

-----------------------------------------------------------------------------
(* CaseInv as a statement about a status, a version, the state of the      *)
(* public document, the version it shows, and a set of cases.              *)
OpenCase(C, kind) == \E c \in C : c.kind = kind /\ c.status = "open"

Fits(status, v, doc, shown, C) ==
    /\ \A c \in C : c.version <= v
    /\ \A c \in C : c.status = "open" => c.version = v
    /\ Distinct(C)
    /\ OpenCase(C, "correction") <=> doc # "none" /\ status \notin {"published", "withdrawn"}
    /\ OpenCase(C, "appeal") => status = "rejected"
    /\ status = "rejected" => doc = "none"
    /\ status = "withdrawn" => doc # "shown" /\ \A c \in C : c.status # "open"
    /\ shown <= v
    /\ status \notin {"published", "withdrawn"} => shown < v

LEMMA CaseInvFits ==
  cases \subseteq Case =>
    (CaseInv <=> /\ publishing => paper.status = "approval"
                 /\ Fits(paper.status, paper.version, public.doc, public.version, cases))
PROOF
  <1>1. \A c \in Case : c.kind \in {"appeal", "correction"}
    BY DEF Case
  <1> QED
    BY <1>1 DEF CaseInv, Fits, Distinct, OpenCase, CorrectionTracksPaper, AppealTracksPaper,
                WithdrawnIsClosed, HasCase

LEMMA CaseInvFitsNext ==
  cases' \subseteq Case /\ (publishing' => paper'.status = "approval")
    /\ Fits(paper'.status, paper'.version, public'.doc, public'.version, cases') => CaseInv'
PROOF
  <1>1. \A c \in Case : c.kind \in {"appeal", "correction"}
    BY DEF Case
  <1> QED
    BY <1>1 DEF CaseInv, Fits, Distinct, OpenCase, CorrectionTracksPaper, AppealTracksPaper,
                WithdrawnIsClosed, HasCase

LEMMA DecidedKeeps ==
  ASSUME NEW p, Named(p), NEW status
  PROVE  /\ Close([p EXCEPT !.status = status]).version = p.version
         /\ Close([p EXCEPT !.status = status]).status = status
         /\ [Close(p) EXCEPT !.status = status].version = p.version
         /\ [Close(p) EXCEPT !.status = status].status = status
PROOF
  <1> DEFINE q == [p EXCEPT !.status = status]
             c == Close(p)
  <1>1. Named(q) /\ q.version = p.version /\ q.status = status
    BY DEF Named
  <1> HIDE DEF q
  <1>2. Close(q).version = p.version /\ Close(q).status = status
    BY <1>1, RetireKeeps DEF Close, Same
  <1>3. Same(p, c)
    BY RetireKeeps DEF Close
  <1> HIDE DEF c
  <1>4. [c EXCEPT !.status = status].version = p.version /\ [c EXCEPT !.status = status].status = status
    BY <1>3 DEF Same, Named
  <1> QED
    BY <1>2, <1>4 DEF q, c

(* The step of a state that fits, with the types of what it reads.         *)
Ready ==
    /\ IInv /\ CaseInv /\ Named(paper)
    /\ paper.version \in Nat /\ public.version \in Nat
    /\ paper.status \in Statuses /\ public.doc \in {"none", "shown", "hidden"}
    /\ cases \subseteq Case /\ cases' \subseteq Case
    /\ publishing => paper.status = "approval"
    /\ Fits(paper.status, paper.version, public.doc, public.version, cases)

LEMMA GetReady == IInv /\ IInv' /\ CaseInv => Ready
PROOF
  <1> SUFFICES ASSUME IInv, IInv', CaseInv PROVE Ready
    OBVIOUS
  <1>1. cases \subseteq Case /\ cases' \subseteq Case /\ paper \in PaperType
    BY DEF IInv, TypeOK
  <1>2. /\ paper.version \in Nat /\ public.version \in Nat
        /\ paper.status \in Statuses /\ public.doc \in {"none", "shown", "hidden"}
    BY ConstantsAssumption DEF IInv, TypeOK, PaperType, Versions
  <1> QED
    BY <1>1, <1>2, PaperIsNamed, CaseInvFits DEF Ready

LEMMA QuietFits == Ready /\ Quiet => CaseInv'
PROOF
  <1> SUFFICES ASSUME Ready, Quiet PROVE CaseInv'
    OBVIOUS
  <1>1. publishing' => paper'.status = "approval"
    BY DEF Ready, Quiet, PaperFree
  <1>2. Fits(paper'.status, paper'.version, public'.doc, public'.version, cases')
    BY DEF Ready, Quiet, Fits, OpenCase, Working, Open, Live
  <1> QED
    BY <1>1, <1>2, CaseInvFitsNext DEF Ready

(* Settling the open cases under a decision, by the kinds it settles.      *)
LEMMA SettledFits ==
  ASSUME Ready, NEW kinds, NEW outcome, outcome # "open", NEW status, NEW doc, NEW shown \in Nat,
         {"appeal", "correction"} \subseteq kinds
           \/ (kinds = {"correction"} /\ paper.status # "rejected")
           \/ (kinds = {"appeal"} /\ paper.status = "rejected"),
         doc # "none" => status \in {"published", "withdrawn"},
         status = "withdrawn" => doc # "shown",
         shown <= paper.version,
         status \notin {"published", "withdrawn"} => shown < paper.version
  PROVE  Fits(status, paper.version, doc, shown, Settled(kinds, outcome))
PROOF
  <1> DEFINE C == Settled(kinds, outcome)
             v == paper.version
  <1>1. \A c \in C : \E d \in cases :
               /\ c.kind = d.kind /\ c.version = d.version
               /\ c = d \/ d.status = "open"
               /\ c.status = "open" => c = d /\ d.kind \notin kinds
    BY SettledFacts DEF Ready
  <1>2. Distinct(C)
    BY SettledDistinct DEF Ready, Fits
  <1> HIDE DEF C
  <1>3. \A d \in cases : d.kind \in {"appeal", "correction"} /\ d.version <= v
    BY DEF Ready, Fits, Case
  <1>4. \A c \in C : c.version <= v
    BY <1>1, <1>3
  <1>5. \A c \in C : c.status # "open"
    <2>1. ASSUME NEW c \in C, c.status = "open" PROVE FALSE
      <3>1. c \in cases /\ c.kind \notin kinds
        BY <1>1, <2>1
      <3>2. CASE c.kind = "appeal" /\ kinds = {"correction"} /\ paper.status # "rejected"
        BY <2>1, <3>1, <3>2 DEF Ready, Fits, OpenCase
      <3>3. CASE c.kind = "correction" /\ kinds = {"appeal"} /\ paper.status = "rejected"
        BY <2>1, <3>1, <3>3 DEF Ready, Fits, OpenCase
      <3> QED
        BY <1>3, <3>1, <3>2, <3>3
    <2> QED
      BY <2>1
  <1>6. CASE status # "rejected" \/ doc = "none"
    BY <1>2, <1>4, <1>5, <1>6 DEF Fits, OpenCase, C
  <1>7. CASE status = "rejected" /\ doc # "none"
    BY <1>7
  <1> QED
    BY <1>6, <1>7

LEMMA RejectFits == Ready /\ Reject => CaseInv'
PROOF
  <1> SUFFICES ASSUME Ready, Reject PROVE CaseInv'
    OBVIOUS
  <1> DEFINE status == IF HasCase("correction", "open") THEN "published" ELSE "rejected"
  <1>1. paper' = Close([paper EXCEPT !.status = status])
    BY DEF Reject
  <1>2. HasCase("correction", "open") <=> public.doc # "none"
    BY DEF Ready, Fits, OpenCase, HasCase, Reject, Terminal
  <1>3. paper.status # "rejected" /\ public.version < paper.version
    BY DEF Ready, Fits, Reject, Terminal
  <1>4. status \in {"published", "rejected"} /\ (status = "published" <=> public.doc # "none")
    BY <1>2
  <1> HIDE DEF status
  <1>5. paper'.version = paper.version /\ paper'.status = status
    BY <1>1, DecidedKeeps DEF Ready
  <1>6. Fits(status, paper.version, public.doc, public.version, Settled({"correction"}, "rejected"))
    <2>1. public.version <= paper.version /\ public.version \in Nat
      BY <1>3 DEF Ready
    <2> QED
      BY <1>3, <1>4, <2>1, SettledFits
  <1>7. UNCHANGED <<public, publishing>> /\ ~publishing /\ cases' = Settled({"correction"}, "rejected")
    BY DEF Reject, Outside, PaperFree
  <1> QED
    BY <1>5, <1>6, <1>7, CaseInvFitsNext DEF Ready

LEMMA PublishFits == Ready /\ (PublishCommit \/ \E u \in Admins : PublishBegin(u)) => CaseInv'
PROOF
  <1> SUFFICES ASSUME Ready, PublishCommit \/ \E u \in Admins : PublishBegin(u)
               PROVE  CaseInv'
    OBVIOUS
  <1>1. ASSUME NEW u \in Admins, PublishBegin(u) PROVE CaseInv'
    <2>1. paper.status = "approval" /\ UNCHANGED <<paper, public, cases>>
      BY <1>1 DEF PublishBegin
    <2> QED
      BY <2>1, CaseInvFitsNext DEF Ready
  <1>2. CASE PublishCommit
    <2>1. paper.status = "approval"
      BY <1>2 DEF Ready, PublishCommit
    <2>2. paper'.version = paper.version /\ paper'.status = "published"
      BY <1>2, DecidedKeeps DEF Ready, PublishCommit
    <2>3. public'.doc = "shown" /\ public'.version = paper.version
      BY <1>2 DEF PublishCommit
    <2>4. Fits("published", paper.version, "shown", paper.version,
               Settled({"correction"}, "published"))
      <3>1. paper.version \in Nat /\ paper.version <= paper.version
        BY DEF Ready
      <3> QED
        BY <2>1, <3>1, SettledFits
    <2>5. cases' = Settled({"correction"}, "published") /\ ~publishing'
      BY <1>2 DEF PublishCommit
    <2> QED
      BY <2>2, <2>3, <2>4, <2>5, CaseInvFitsNext DEF Ready
  <1> QED
    BY <1>1, <1>2

LEMMA AppealFits ==
  Ready /\ (Appeal \/ \E u \in Admins, outcome \in {"upheld", "dismissed"} :
                        DecideAppeal(u, outcome)) => CaseInv'
PROOF
  <1> SUFFICES ASSUME Ready, Appeal \/ \E u \in Admins, outcome \in {"upheld", "dismissed"} :
                                         DecideAppeal(u, outcome)
               PROVE  CaseInv'
    OBVIOUS
  <1>1. CASE Appeal
    <2> DEFINE v == paper.version
               new == [kind |-> "appeal", version |-> v, status |-> "open"]
    <2>1. /\ paper.status = "rejected" /\ UNCHANGED <<paper, public, publishing>> /\ ~publishing
          /\ \A c \in cases : ~(c.kind = "appeal" /\ c.version = v)
          /\ cases' = cases \cup {new}
      BY <1>1 DEF Appeal, Opened, Outside, PaperFree
    <2>2. new.kind = "appeal" /\ new.version = v /\ new.status = "open"
      OBVIOUS
    <2> HIDE DEF new
    <2>3. Distinct(cases')
      BY <2>1, <2>2 DEF Ready, Fits, Distinct
    <2>4. OpenCase(cases', "correction") <=> OpenCase(cases, "correction")
      BY <2>1, <2>2 DEF OpenCase
    <2>5. \A c \in cases' : c.version <= v /\ (c.status = "open" => c.version = v)
      BY <2>1, <2>2 DEF Ready, Fits
    <2>6. Fits(paper.status, v, public.doc, public.version, cases')
      BY <2>1, <2>3, <2>4, <2>5 DEF Ready, Fits
    <2> QED
      BY <2>1, <2>6, CaseInvFitsNext DEF Ready
  <1>2. ASSUME NEW u \in Admins, NEW outcome \in {"upheld", "dismissed"}, DecideAppeal(u, outcome)
        PROVE  CaseInv'
    <2> DEFINE q == [paper EXCEPT !.auto = TRUE]
    <2>1. /\ paper.status = "rejected" /\ UNCHANGED <<public, publishing>> /\ ~publishing
          /\ cases' = Settled({"appeal"}, outcome)
          /\ paper' = IF outcome = "upheld" THEN Reset(q, profile) ELSE paper
      BY <1>2 DEF DecideAppeal, Outside, PaperFree
    <2>2. Same(paper, q)
      BY DEF Ready, Named, Same
    <2> HIDE DEF q
    <2>3. paper'.version = paper.version
      BY <2>1, <2>2, ResetOpens DEF Same
    <2>4. paper'.status = "rejected" \/ paper'.status \in Working
      BY <2>1, <2>2, ResetOpens DEF Same
    <2>5. public.doc = "none" /\ public.version < paper.version
      BY <2>1 DEF Ready, Fits
    <2>6. paper'.status # "withdrawn"
      BY <2>4 DEF Working, Open, Live
    <2>7. public.version <= paper.version /\ public.version \in Nat
      BY <2>5 DEF Ready
    <2>8. Fits(paper'.status, paper.version, public.doc, public.version, Settled({"appeal"}, outcome))
      BY <2>1, <2>5, <2>6, <2>7, SettledFits
    <2> QED
      BY <2>1, <2>3, <2>8, CaseInvFitsNext DEF Ready
  <1> QED
    BY <1>1, <1>2

LEMMA EndFits == Ready /\ (CancelCorrection \/ \E u : Withdraw(u)) => CaseInv'
PROOF
  <1> SUFFICES ASSUME Ready, CancelCorrection \/ \E u : Withdraw(u) PROVE CaseInv'
    OBVIOUS
  <1>1. CASE CancelCorrection
    <2>1. /\ ~publishing /\ UNCHANGED <<public, publishing>>
          /\ cases' = Settled({"correction"}, "cancelled")
          /\ paper' = [Close(paper) EXCEPT !.status = "published"]
      BY <1>1 DEF CancelCorrection, Outside, PaperFree
    <2>2. paper'.version = paper.version /\ paper'.status = "published"
      BY <2>1, DecidedKeeps DEF Ready
    <2>3. public.doc # "none" /\ paper.status # "rejected"
      BY <1>1 DEF CancelCorrection, HasCase, Ready, Fits, OpenCase
    <2>4. public.version <= paper.version /\ public.version \in Nat
      BY DEF Ready, Fits
    <2>5. Fits("published", paper.version, public.doc, public.version,
               Settled({"correction"}, "cancelled"))
      BY <2>3, <2>4, SettledFits
    <2> QED
      BY <2>1, <2>2, <2>5, CaseInvFitsNext DEF Ready
  <1>2. ASSUME NEW u, Withdraw(u) PROVE CaseInv'
    <2>1. /\ ~publishing /\ UNCHANGED publishing
          /\ cases' = Settled({"appeal", "correction"}, "closed")
          /\ paper' = Close([paper EXCEPT !.status = "withdrawn"])
      BY <1>2 DEF Withdraw, Outside, PaperFree
    <2>2. paper'.version = paper.version /\ paper'.status = "withdrawn"
      BY <2>1, DecidedKeeps DEF Ready
    <2>3. public'.version = public.version /\ public'.doc # "shown"
      BY <1>2 DEF Ready, IInv, TypeOK, Withdraw
    <2>4. public.version <= paper.version /\ public.version \in Nat
      BY DEF Ready, Fits
    <2>5. Fits("withdrawn", paper.version, public'.doc, public.version,
               Settled({"appeal", "correction"}, "closed"))
      BY <2>3, <2>4, SettledFits
    <2> QED
      BY <2>1, <2>2, <2>3, <2>5, CaseInvFitsNext DEF Ready
  <1> QED
    BY <1>1, <1>2

LEMMA ModeratorFits == Ready /\ ModeratorHides => CaseInv'
PROOF
  <1> SUFFICES ASSUME Ready, ModeratorHides PROVE CaseInv'
    OBVIOUS
  <1>1. /\ public.doc = "shown" /\ public'.doc = "hidden" /\ public'.version = public.version
        /\ UNCHANGED <<paper, cases, publishing>>
    BY DEF ModeratorHides, Outside, Ready, IInv, TypeOK
  <1>2. Fits(paper.status, paper.version, "hidden", public.version, cases)
    BY <1>1 DEF Ready, Fits
  <1> QED
    BY <1>1, <1>2, CaseInvFitsNext DEF Ready

(* A further revision takes the open correction, if any, along.            *)
LEMMA MovedFacts ==
  ASSUME cases \subseteq Case, NEW v,
         NEW c \in Moved(v)
  PROVE  \E d \in cases :
            \/ /\ d.status = "open" /\ d.kind = "correction" /\ c.kind = "correction"
               /\ c.status = "open" /\ c.version = v
            \/ c = d /\ ~(d.status = "open" /\ d.kind = "correction")
PROOF
  BY DEF Moved, Case

LEMMA NextVersionOpens ==
  ASSUME Ready, NEW q, Named(q), q.version = paper.version + 1, paper' = Reset(q, profile)
  PROVE  paper'.version = paper.version + 1 /\ paper'.status \in Working
PROOF
  BY ResetOpens

LEMMA ReviseFits == Ready /\ Revise => CaseInv'
PROOF
  <1> SUFFICES ASSUME Ready, Revise PROVE CaseInv'
    OBVIOUS
  <1> DEFINE v == paper.version
             q == NextVersion(paper)
  <1>1. /\ paper.status = "changes" /\ ~publishing /\ UNCHANGED <<public, publishing>>
        /\ cases' = Moved(v + 1) /\ paper' = Reset(q, profile)
    BY DEF Revise, Outside, PaperFree
  <1>2. Named(q) /\ q.version = v + 1
    BY DEF Ready, Named, NextVersion
  <1> HIDE DEF q
  <1>3. paper'.version = v + 1 /\ paper'.status \in Working
    BY <1>1, <1>2, NextVersionOpens
  <1>4. v \in Nat /\ public.version < v /\ public.version \in Nat
    BY <1>1 DEF Ready, Fits
  <1>5. \A d \in cases : d.version <= v /\ d.version \in Nat /\ d.kind \in {"appeal", "correction"}
    BY DEF Ready, Fits, Case, Versions
  <1>6. \A d \in cases : d.status = "open" => d.kind = "correction" /\ d.version = v
    BY <1>1, <1>5 DEF Ready, Fits, OpenCase
  <1>7. \A c \in cases' : \E d \in cases :
            \/ /\ d.status = "open" /\ d.kind = "correction" /\ c.kind = "correction"
               /\ c.status = "open" /\ c.version = v + 1
            \/ c = d /\ ~(d.status = "open" /\ d.kind = "correction")
    BY <1>1, MovedFacts DEF Ready
  <1>8. ASSUME NEW c \in cases'
        PROVE  \/ c.kind = "correction" /\ c.status = "open" /\ c.version = v + 1
               \/ c \in cases /\ c.status # "open"
    <2>1. PICK d \in cases :
            \/ /\ d.status = "open" /\ d.kind = "correction" /\ c.kind = "correction"
               /\ c.status = "open" /\ c.version = v + 1
            \/ c = d /\ ~(d.status = "open" /\ d.kind = "correction")
      BY <1>7
    <2> QED
      BY <1>6, <2>1
  <1>9. Distinct(cases')
    <2> SUFFICES ASSUME NEW c \in cases', NEW d \in cases', c.kind = d.kind, c.version = d.version
                 PROVE  c = d
      BY DEF Distinct
    <2>1. CASE c \in cases /\ d \in cases
      BY <2>1 DEF Ready, Fits, Distinct
    <2>2. CASE c \notin cases \/ d \notin cases
      <3>1. c.version = v + 1 /\ d.version = v + 1
        BY <1>8, <2>2
      <3>2. /\ c.kind = "correction" /\ c.status = "open"
            /\ d.kind = "correction" /\ d.status = "open"
        BY <1>4, <1>5, <1>8, <3>1
      <3>3. c \in Case /\ d \in Case
        BY DEF Ready
      <3> QED
        BY <3>1, <3>2, <3>3 DEF Case
    <2> QED
      BY <2>1, <2>2
  <1>10. OpenCase(cases', "correction") <=> OpenCase(cases, "correction")
    <2>1. ASSUME OpenCase(cases', "correction") PROVE OpenCase(cases, "correction")
      BY <1>7, <2>1 DEF OpenCase
    <2>2. ASSUME OpenCase(cases, "correction") PROVE OpenCase(cases', "correction")
      <3>1. PICK d \in cases : d.kind = "correction" /\ d.status = "open"
        BY <2>2 DEF OpenCase
      <3>2. [d EXCEPT !.version = v + 1] \in cases'
        BY <1>1, <3>1 DEF Moved
      <3>3. d \in Case
        BY DEF Ready
      <3>4. /\ [d EXCEPT !.version = v + 1].kind = "correction"
            /\ [d EXCEPT !.version = v + 1].status = "open"
        BY <3>1, <3>3 DEF Case
      <3> QED
        BY <3>2, <3>4 DEF OpenCase
    <2> QED
      BY <2>1, <2>2
  <1>11. ~OpenCase(cases', "appeal")
    BY <1>8 DEF OpenCase
  <1>12. \A c \in cases' : c.version <= v + 1 /\ (c.status = "open" => c.version = v + 1)
    BY <1>4, <1>5, <1>8
  <1>13. public.doc # "none" <=> OpenCase(cases, "correction")
    BY <1>1 DEF Ready, Fits
  <1>14. public.version < v + 1 /\ public.version <= v + 1
    BY <1>4
  <1>15. paper'.status \notin {"published", "withdrawn", "rejected"}
    BY <1>3 DEF Working, Open, Live
  <1>16. Fits(paper'.status, v + 1, public.doc, public.version, cases')
    BY <1>9, <1>10, <1>11, <1>12, <1>13, <1>14, <1>15 DEF Fits
  <1> QED
    BY <1>1, <1>3, <1>16, CaseInvFitsNext DEF Ready

LEMMA ProposeFits == Ready /\ ProposeCorrection => CaseInv'
PROOF
  <1> SUFFICES ASSUME Ready, ProposeCorrection PROVE CaseInv'
    OBVIOUS
  <1> DEFINE v == paper.version
             n == NextVersion(paper)
             q == [n EXCEPT !.required = DefaultReviews, !.auto = AutoMatching]
             new == [kind |-> "correction", version |-> v + 1, status |-> "open"]
  <1>1. /\ paper.status = "published" /\ public.doc = "shown" /\ ~publishing
        /\ UNCHANGED <<public, publishing>>
        /\ cases' = cases \cup {new} /\ paper' = Reset(q, profile)
    BY DEF ProposeCorrection, Opened, Outside, PaperFree
  <1>2. Named(n) /\ n.version = v + 1
    BY DEF Ready, Named, NextVersion
  <1> HIDE DEF n
  <1>3. Named(q) /\ q.version = v + 1
    BY <1>2 DEF Named
  <1> HIDE DEF q
  <1>4. paper'.version = v + 1 /\ paper'.status \in Working
    BY <1>1, <1>3, NextVersionOpens
  <1>5. new.kind = "correction" /\ new.version = v + 1 /\ new.status = "open"
    OBVIOUS
  <1> HIDE DEF new
  <1>6. v \in Nat /\ public.version <= v /\ public.version \in Nat
    BY DEF Ready, Fits
  <1>7. \A d \in cases : d.version <= v /\ d.version \in Nat /\ d.kind \in {"appeal", "correction"}
    BY DEF Ready, Fits, Case, Versions
  <1>8. \A d \in cases : d.status # "open" /\ d.version # v + 1
    BY <1>1, <1>6, <1>7 DEF Ready, Fits, OpenCase
  <1>9. Distinct(cases')
    BY <1>1, <1>5, <1>8 DEF Ready, Fits, Distinct
  <1>10. OpenCase(cases', "correction") /\ ~OpenCase(cases', "appeal")
    BY <1>1, <1>5, <1>8 DEF OpenCase
  <1>11. \A c \in cases' : c.version <= v + 1 /\ (c.status = "open" => c.version = v + 1)
    BY <1>1, <1>5, <1>6, <1>7, <1>8
  <1>12. public.version < v + 1 /\ public.version <= v + 1
    BY <1>6
  <1>13. paper'.status \notin {"published", "withdrawn", "rejected"}
    BY <1>4 DEF Working, Open, Live
  <1>14. Fits(paper'.status, v + 1, public.doc, public.version, cases')
    BY <1>1, <1>9, <1>10, <1>11, <1>12, <1>13 DEF Fits
  <1> QED
    BY <1>1, <1>4, <1>14, CaseInvFitsNext DEF Ready

-----------------------------------------------------------------------------
(* The theorems.                                                           *)

LEMMA InitCase == Init => CaseInv
PROOF
  <1> SUFFICES ASSUME Init PROVE CaseInv
    OBVIOUS
  <1>1. NewPaper.version = 1 /\ NewPaper.status = "submitted" /\ Named(NewPaper)
    BY DEF NewPaper, Named
  <1>2. paper.version = 1 /\ paper.status \in Working
    BY <1>1, FillStays DEF Init, Stays, Working, Open, Live
  <1>3. cases = {} /\ public.doc = "none" /\ public.version = 0 /\ ~publishing
    BY DEF Init
  <1> QED
    BY <1>2, <1>3 DEF CaseInv, CorrectionTracksPaper, AppealTracksPaper, WithdrawnIsClosed,
                      HasCase, Working, Open, Live

LEMMA CaseInductive == IInv /\ IInv' /\ CaseInv /\ [Next]_vars => CaseInv'
PROOF
  <1> SUFFICES ASSUME IInv, IInv', CaseInv, [Next]_vars PROVE CaseInv'
    OBVIOUS
  <1>1. Ready
    BY GetReady
  <1>2. Quiet \/ Decision
    BY QuietOrDecision DEF IInv
  <1> QED
    BY <1>1, <1>2, QuietFits, RejectFits, PublishFits, AppealFits, EndFits, ModeratorFits,
       ReviseFits, ProposeFits
       DEF Decision, AuthorStep

(* Cases, status and public document belong together in every state.       *)
THEOREM CaseInvariance == Spec => []CaseInv
PROOF
  BY Invariance, InitCase, CaseInductive, PTL DEF Spec

(* A correction is open, for the current version, exactly while a paper    *)
(* that has a public document is under review again.                       *)
THEOREM CorrectionsTrackThePaper == Spec => []CorrectionTracksPaper
PROOF
  <1>1. CaseInv => CorrectionTracksPaper
    BY DEF CaseInv
  <1> QED
    BY <1>1, CaseInvariance, PTL

(* An open appeal is the appeal of the current, rejected version.          *)
THEOREM AppealsTrackThePaper == Spec => []AppealTracksPaper
PROOF
  <1>1. CaseInv => AppealTracksPaper
    BY DEF CaseInv
  <1> QED
    BY <1>1, CaseInvariance, PTL

(* A withdrawn paper has no public copy and no open case.                  *)
THEOREM WithdrawalCloses == Spec => []WithdrawnIsClosed
PROOF
  <1>1. CaseInv => WithdrawnIsClosed
    BY DEF CaseInv
  <1> QED
    BY <1>1, CaseInvariance, PTL

(* Every publication shows a newer version than the one before: the stage  *)
(* a publication began at is not moved before it commits.                  *)
THEOREM PublicationsAdvance == Spec => PublicationAdvances
PROOF
  <1>1. IInv /\ CaseInv /\ [Next]_vars => [PublishCommit => public'.version > public.version]_vars
    <2> SUFFICES ASSUME IInv, CaseInv, PublishCommit PROVE public'.version > public.version
      OBVIOUS
    <2>1. public'.version = paper.version
      BY DEF PublishCommit
    <2>2. public.version < paper.version
      BY DEF CaseInv, PublishCommit
    <2>3. public.version \in Int /\ paper.version \in Int
      BY DEF IInv, TypeOK, PaperType, Versions
    <2> QED
      BY <2>1, <2>2, <2>3
  <1> QED
    BY <1>1, Invariance, CaseInvariance, PTL DEF Spec, PublicationAdvances

(* No handler, sweep or commit brings a withdrawn paper back.              *)
THEOREM WithdrawalIsFinal == Spec => WithdrawnIsFinal
PROOF
  <1>1. IInv /\ IInv' /\ CaseInv /\ [Next]_vars
          => [paper.status = "withdrawn" => paper'.status = "withdrawn"]_vars
    <2> SUFFICES ASSUME IInv, IInv', CaseInv, [Next]_vars, paper.status = "withdrawn"
                 PROVE  paper'.status = "withdrawn"
      OBVIOUS
    <2>1. Quiet \/ Decision
      BY QuietOrDecision DEF IInv
    <2>2. CASE Quiet
      BY <2>2 DEF Quiet, Working, Open, Live
    <2>3. ~HasCase("correction", "open") /\ ~publishing
      BY DEF CaseInv, CorrectionTracksPaper
    <2>4. CASE Decision
      BY <2>3, <2>4 DEF Decision, AuthorStep, Reject, PublishBegin, DecideAppeal, PublishCommit,
            Appeal, CancelCorrection, Withdraw, Revise, ProposeCorrection, ModeratorHides, Terminal
    <2> QED
      BY <2>1, <2>2, <2>4
  <1> QED
    BY <1>1, Invariance, CaseInvariance, PTL DEF Spec, WithdrawnIsFinal

-----------------------------------------------------------------------------
(* Third part: the reviewers of a paper; its stage, one assignment for     *)
(* each, who judged what, and what a publication rests on.                 *)

(* Reviewer r judged version v, by the reviews D.                          *)
Judge(D, v, r) == \E d \in {"approve", "changes"} : <<v, r, d>> \in D

(* The assignments of a paper: of invited people other than the author,    *)
(* one each; a completed one stands for a review in D; everybody who       *)
(* judged the version was invited for it; and after an upheld appeal       *)
(* nobody who judged it still has to.                                      *)
Sound(p, D, upheld) ==
    /\ p \in PaperType
    /\ \A a \in p.rows : a.version = p.version
    /\ \A a \in p.rows : a.reviewer \in p.used /\ a.reviewer # Owner
    /\ \A a, b \in p.rows : a.reviewer = b.reviewer => a = b
    /\ \A a \in p.rows : a.status = "completed" => <<p.version, a.reviewer, a.decision>> \in D
    /\ \A r : Judge(D, p.version, r) => r \in p.used
    /\ upheld => \A a \in p.rows : a.status # "completed" => ~Judge(D, p.version, a.reviewer)

StageTrue(p) == p.status \in Open => p.status = Stage(p)

Upheld == HasCaseAt("appeal", "upheld", paper.version)

SeatInv ==
    /\ Sound(paper, decided, Upheld)
    /\ StageTrue(paper)
    /\ publishing => Endorsed(paper)
    /\ \A v, r, d : <<v, r, d>> \in decided => v <= paper.version
    /\ PublishedWasReviewed

-----------------------------------------------------------------------------
(* The stage.                                                              *)

LEMMA SameStage ==
  ASSUME NEW p, NEW q, q.required = p.required, Completed(q) = Completed(p),
         Occupied(q) = {} <=> Occupied(p) = {}, Pending(q) = {} <=> Pending(p) = {}
  PROVE  Stage(q) = Stage(p)
PROOF
  BY DEF Stage

LEMMA SameRowsStage ==
  ASSUME NEW p, NEW q, q.required = p.required, q.rows = p.rows, q.version = p.version
  PROVE  Stage(q) = Stage(p)
PROOF
  <1>1. /\ Completed(q) = Completed(p) /\ Occupied(q) = Occupied(p)
        /\ Pending(q) = Pending(p)
    BY DEF Completed, Occupied, Pending, Current
  <1> QED
    BY <1>1, SameStage

LEMMA RefreshIsTrue ==
  ASSUME NEW p \in PaperType
  PROVE  StageTrue(Refresh(p))
PROOF
  <1> DEFINE q == [p EXCEPT !.status = Stage(p)]
  <1>1. /\ q.status = Stage(p) /\ q.required = p.required /\ q.rows = p.rows
        /\ q.version = p.version
    BY DEF PaperType
  <1>2. Refresh(p) = IF p.status \in Open THEN q ELSE p
    BY DEF Refresh
  <1> HIDE DEF q
  <1>3. Stage(q) = Stage(p)
    BY <1>1, SameRowsStage
  <1> QED
    BY <1>1, <1>2, <1>3 DEF StageTrue

(* Without assignments the stage is "submitted".                           *)
LEMMA EmptyStage ==
  ASSUME NEW p \in PaperType, p.rows = {}
  PROVE  Stage(p) = "submitted"
PROOF
  <1>1. Completed(p) = {} /\ Occupied(p) = {} /\ Pending(p) = {}
    BY DEF Completed, Occupied, Pending, Current
  <1>2. Cardinality(Completed(p)) = 0 /\ p.required \in 1..3
    BY <1>1, FS_EmptySet DEF PaperType
  <1> QED
    BY <1>1, <1>2 DEF Stage

-----------------------------------------------------------------------------
(* What operators on papers preserve.                                      *)

LEMMA FewerRows ==
  ASSUME NEW p, NEW D, NEW upheld, Sound(p, D, upheld),
         NEW q \in PaperType, q.version = p.version, q.used = p.used, q.rows \subseteq p.rows
  PROVE  Sound(q, D, upheld)
PROOF
  BY DEF Sound

LEMMA NoRows ==
  ASSUME NEW q \in PaperType, q.rows = {}, NEW D, NEW upheld,
         \A r : Judge(D, q.version, r) => r \in q.used
  PROVE  Sound(q, D, upheld)
PROOF
  BY DEF Sound

LEMMA RetireIsSound ==
  ASSUME NEW p, NEW D, NEW upheld, Sound(p, D, upheld), NEW gone
  PROVE  Sound(Retire(p, gone), D, upheld)
PROOF
  <1>1. p \in PaperType
    BY DEF Sound
  <1>2. /\ Retire(p, gone) \in PaperType /\ Retire(p, gone).version = p.version
        /\ Retire(p, gone).used = p.used /\ Retire(p, gone).rows \subseteq p.rows
    BY <1>1 DEF Retire, PaperType
  <1> QED
    BY <1>2, FewerRows

LEMMA RefreshIsSound ==
  ASSUME NEW p, NEW D, NEW upheld, Sound(p, D, upheld)
  PROVE  Sound(Refresh(p), D, upheld)
PROOF
  <1>1. p \in PaperType /\ Stage(p) \in Open
    BY StageIsOpen DEF Sound
  <1>2. /\ Refresh(p) \in PaperType /\ Refresh(p).version = p.version
        /\ Refresh(p).used = p.used /\ Refresh(p).rows \subseteq p.rows
    BY <1>1 DEF Refresh, PaperType, Statuses
  <1> QED
    BY <1>2, FewerRows

(* Invitations to people without an assignment and, after an upheld        *)
(* appeal, without a verdict.                                              *)
LEMMA InviteIsSound ==
  ASSUME NEW p, NEW D, NEW upheld, Sound(p, D, upheld),
         NEW chosen \in SUBSET Reviewers, Owner \notin chosen,
         \A a \in p.rows : a.reviewer \notin chosen,
         upheld => \A r \in chosen : ~Judge(D, p.version, r)
  PROVE  Sound(Invite(p, chosen), D, upheld)
PROOF
  <1> DEFINE row(r) == [reviewer |-> r, version |-> p.version, status |-> "invited",
                        due |-> "later", decision |-> ""]
             new == {row(r) : r \in chosen}
             q == Invite(p, chosen)
  <1>1. p \in PaperType /\ p.version \in Versions
    BY DEF Sound, PaperType
  <1>2. ASSUME NEW a \in new
        PROVE  /\ a \in Assignment /\ a.status = "invited" /\ a.version = p.version
               /\ a.reviewer \in chosen /\ a = row(a.reviewer)
    <2>1. PICK r \in chosen : a = row(r)
      BY <1>2
    <2> QED
      BY <1>1, <2>1 DEF Assignment
  <1>3. q = [p EXCEPT !.rows = p.rows \cup new, !.used = p.used \cup chosen]
    BY DEF Invite
  <1> HIDE DEF q, new
  <1>4. /\ q.rows = p.rows \cup new /\ q.version = p.version
        /\ q.used = p.used \cup chosen /\ q \in PaperType
    BY <1>1, <1>2, <1>3 DEF PaperType
  <1>5. \A a \in q.rows : a.reviewer \in q.used /\ a.reviewer # Owner /\ a.version = q.version
    BY <1>2, <1>4 DEF Sound
  <1>6. ASSUME NEW a \in q.rows, NEW b \in q.rows, a.reviewer = b.reviewer PROVE a = b
    BY <1>2, <1>4, <1>6 DEF Sound
  <1>7. \A a \in q.rows : a.status = "completed" => <<q.version, a.reviewer, a.decision>> \in D
    BY <1>2, <1>4 DEF Sound
  <1>8. \A r : Judge(D, q.version, r) => r \in q.used
    BY <1>4 DEF Sound
  <1>9. upheld => \A a \in q.rows : a.status # "completed" => ~Judge(D, q.version, a.reviewer)
    BY <1>2, <1>4 DEF Sound
  <1> QED
    BY <1>4, <1>5, <1>6, <1>7, <1>8, <1>9 DEF Sound, q

(* Assignments that change without a verdict: an acceptance, a reminder, a *)
(* deadline that comes nearer.                                             *)
SameVerdict(a, b) == /\ b \in Assignment /\ b.reviewer = a.reviewer
                     /\ b.version = a.version /\ b.decision = a.decision
                     /\ b.status = "completed" <=> a.status = "completed"

LEMMA MapIsSound ==
  ASSUME NEW p, NEW D, NEW upheld, Sound(p, D, upheld), NEW f,
         \A a \in p.rows : SameVerdict(a, f[a]),
         NEW q \in PaperType, q.version = p.version, q.used = p.used,
         q.rows \subseteq {f[a] : a \in p.rows}
  PROVE  Sound(q, D, upheld)
PROOF
  <1>1. \A b \in q.rows : \E a \in p.rows : b = f[a]
    OBVIOUS
  <1>2. ASSUME NEW b \in q.rows
        PROVE  /\ b.reviewer \in q.used /\ b.reviewer # Owner /\ b.version = q.version
               /\ b.status = "completed" => <<q.version, b.reviewer, b.decision>> \in D
               /\ upheld /\ b.status # "completed" => ~Judge(D, q.version, b.reviewer)
    <2>1. PICK a \in p.rows : b = f[a]
      BY <1>1
    <2> QED
      BY <2>1 DEF Sound, SameVerdict
  <1>3. ASSUME NEW b \in q.rows, NEW c \in q.rows, b.reviewer = c.reviewer PROVE b = c
    <2>1. PICK x \in p.rows, y \in p.rows : b = f[x] /\ c = f[y]
      BY <1>1
    <2>2. x.reviewer = y.reviewer
      BY <1>3, <2>1 DEF SameVerdict
    <2>3. x = y
      BY <2>2 DEF Sound
    <2> QED
      BY <2>1, <2>3
  <1>4. \A r : Judge(D, q.version, r) => r \in q.used
    BY DEF Sound
  <1> QED
    BY <1>2, <1>3, <1>4 DEF Sound

LEMMA ReplaceIsSound ==
  ASSUME NEW p, NEW D, NEW upheld, Sound(p, D, upheld), NEW a \in p.rows,
         NEW b \in Assignment, b.reviewer = a.reviewer, b.version = a.version,
         b.decision = a.decision, b.status = "completed" <=> a.status = "completed"
  PROVE  Sound(Replace(p, a, b), D, upheld)
PROOF
  <1> DEFINE f == [x \in p.rows |-> IF x = a THEN b ELSE x]
             q == Replace(p, a, b)
  <1>1. p \in PaperType /\ p.rows \subseteq Assignment
    BY DEF Sound, PaperType
  <1>2. /\ q \in PaperType /\ q.version = p.version /\ q.used = p.used
        /\ q.rows = (p.rows \ {a}) \cup {b}
    BY <1>1 DEF Replace, PaperType
  <1> HIDE DEF q
  <1>3. \A x \in p.rows : f[x] = IF x = a THEN b ELSE x
    OBVIOUS
  <1> HIDE DEF f
  <1>4. q.rows \subseteq {f[x] : x \in p.rows}
    BY <1>2, <1>3
  <1>5. \A x \in p.rows : SameVerdict(x, f[x])
    BY <1>1, <1>3 DEF SameVerdict
  <1>6. Sound(q, D, upheld)
    BY <1>2, <1>4, <1>5, MapIsSound
  <1> QED
    BY <1>6 DEF q

(* A review: the assignment is completed and the verdict recorded at once. *)
LEMMA ReviewIsSound ==
  ASSUME NEW p, NEW D, NEW upheld, Sound(p, D, upheld), NEW a \in p.rows,
         NEW b \in Assignment, b.reviewer = a.reviewer, b.version = a.version,
         b.status = "completed", NEW E, E = D \cup {<<p.version, b.reviewer, b.decision>>}
  PROVE  /\ Sound(Replace(p, a, b), E, upheld)
         /\ \A r : Judge(E, p.version, r) => r \in p.used
PROOF
  <1> DEFINE q == Replace(p, a, b)
  <1>1. p \in PaperType
    BY DEF Sound
  <1>2. /\ q \in PaperType /\ q.version = p.version /\ q.used = p.used
        /\ q.rows = (p.rows \ {a}) \cup {b}
    BY <1>1 DEF Replace, PaperType
  <1> HIDE DEF q
  <1>3. \A r : Judge(E, p.version, r) <=> Judge(D, p.version, r)
                                           \/ (r = a.reviewer /\ b.decision \in {"approve", "changes"})
    BY DEF Judge
  <1>4. \A r : Judge(E, p.version, r) => r \in p.used
    BY <1>3 DEF Sound
  <1>5. \A x \in q.rows : x.reviewer \in q.used /\ x.reviewer # Owner /\ x.version = q.version
    BY <1>2 DEF Sound
  <1>6. ASSUME NEW x \in q.rows, NEW y \in q.rows, x.reviewer = y.reviewer PROVE x = y
    BY <1>2, <1>6 DEF Sound
  <1>7. \A x \in q.rows : x.status = "completed" => <<q.version, x.reviewer, x.decision>> \in E
    BY <1>2 DEF Sound
  <1>8. ASSUME upheld, NEW x \in q.rows, x.status # "completed"
        PROVE  ~Judge(E, q.version, x.reviewer)
    <2>1. x \in p.rows /\ x # a
      BY <1>2, <1>8
    <2>2. x.reviewer # a.reviewer /\ ~Judge(D, p.version, x.reviewer)
      BY <1>8, <2>1 DEF Sound
    <2> QED
      BY <1>2, <1>3, <2>2
  <1>9. Sound(q, E, upheld)
    BY <1>2, <1>4, <1>5, <1>6, <1>7, <1>8 DEF Sound
  <1> QED
    BY <1>4, <1>9 DEF q

(* Automatic matching invites nobody who was invited for the version, and  *)
(* so nobody who judged it.                                                *)
LEMMA FillIsSound ==
  ASSUME NEW p, NEW D, NEW upheld, Sound(p, D, upheld), NEW prof
  PROVE  /\ Sound(Fill(p, prof), D, upheld)
         /\ StageTrue(p) => StageTrue(Fill(p, prof))
PROOF
  <1> DEFINE C == Candidates(p, prof)
             chosen == Best(C, prof, Batch(p))
             invited == Invite(p, chosen)
             noticed == [invited EXCEPT !.notice = NoticeAfter(p, C)]
             retired == Retire(p, Pending(p))
  <1>1. \/ Fill(p, prof) = p
        \/ Fill(p, prof) = Refresh(retired)
        \/ Fill(p, prof) = Refresh(noticed)
    BY DEF Fill
  <1>2. /\ chosen \in SUBSET Reviewers /\ Owner \notin chosen
        /\ \A r \in chosen : r \notin p.used
    BY DEF Best, Candidates
  <1> HIDE DEF chosen
  <1>3. Sound(retired, D, upheld)
    BY RetireIsSound
  <1> HIDE DEF retired
  <1>4. Sound(invited, D, upheld)
    <2>1. \A a \in p.rows : a.reviewer \notin chosen
      BY <1>2 DEF Sound
    <2>2. \A r \in chosen : ~Judge(D, p.version, r)
      BY <1>2 DEF Sound
    <2> QED
      BY <1>2, <2>1, <2>2, InviteIsSound
  <1> HIDE DEF invited
  <1>5. NoticeAfter(p, C) \in BOOLEAN
    BY DEF NoticeAfter, Sound, PaperType
  <1> HIDE DEF C
  <1>6. Sound(noticed, D, upheld)
    <2>1. invited \in PaperType
      BY <1>4 DEF Sound
    <2>2. /\ noticed \in PaperType /\ noticed.version = invited.version
          /\ noticed.used = invited.used /\ noticed.rows = invited.rows
      BY <1>5, <2>1 DEF PaperType
    <2> HIDE DEF noticed
    <2> QED
      BY <1>4, <2>2, FewerRows
  <1> HIDE DEF noticed
  <1>7. StageTrue(Refresh(retired)) /\ StageTrue(Refresh(noticed))
    BY <1>3, <1>6, RefreshIsTrue DEF Sound
  <1> QED
    BY <1>1, <1>3, <1>6, <1>7, RefreshIsSound

LEMMA RefillIsSound ==
  ASSUME NEW p, NEW D, NEW upheld, Sound(p, D, upheld), NEW prof
  PROVE  /\ Sound(Fill(Refresh(p), prof), D, upheld)
         /\ StageTrue(Fill(Refresh(p), prof))
PROOF
  <1>1. StageTrue(Refresh(p)) /\ Sound(Refresh(p), D, upheld)
    BY RefreshIsTrue, RefreshIsSound DEF Sound
  <1> QED
    BY <1>1, FillIsSound

(* A change of a column that says nothing of the assignments.              *)
LEMMA StatusIsSound ==
  ASSUME NEW p, NEW D, NEW upheld, Sound(p, D, upheld), NEW status \in Statuses
  PROVE  Sound([p EXCEPT !.status = status], D, upheld)
PROOF
  <1> DEFINE q == [p EXCEPT !.status = status]
  <1>1. p \in PaperType
    BY DEF Sound
  <1>2. q \in PaperType /\ q.version = p.version /\ q.used = p.used /\ q.rows = p.rows
    BY <1>1 DEF PaperType
  <1> HIDE DEF q
  <1>3. Sound(q, D, upheld)
    BY <1>2, FewerRows
  <1> QED
    BY <1>3 DEF q

(* A new round of a paper without assignments, be it the next version, a   *)
(* correction or the version whose appeal was upheld.                      *)
LEMMA ResetIsSound ==
  ASSUME NEW p \in PaperType, p.rows = {}, NEW D, NEW upheld, NEW prof,
         \A r : Judge(D, p.version, r) => r \in p.used
  PROVE  Sound(Reset(p, prof), D, upheld) /\ StageTrue(Reset(p, prof))
PROOF
  <1> DEFINE c == Close(p)
             q == [c EXCEPT !.status = "submitted", !.notice = FALSE]
  <1>1. Reset(p, prof) = Fill(q, prof)
    BY DEF Reset
  <1>2. c \in PaperType /\ c.rows = {} /\ c.version = p.version /\ c.used = p.used
    BY DEF Close, Retire, Current, PaperType
  <1> HIDE DEF c
  <1>3. /\ q \in PaperType /\ q.rows = {} /\ q.version = p.version /\ q.used = p.used
        /\ q.status = "submitted"
    BY <1>2 DEF PaperType, Statuses, Open, Live
  <1> HIDE DEF q
  <1>4. Sound(q, D, upheld)
    BY <1>3, NoRows
  <1>5. StageTrue(q)
    BY <1>3, EmptyStage DEF StageTrue
  <1> QED
    BY <1>1, <1>4, <1>5, FillIsSound

LEMMA MaintainIsSound ==
  ASSUME NEW p, NEW D, NEW upheld, Sound(p, D, upheld), StageTrue(p), NEW prof
  PROVE  Sound(Maintain(p, prof), D, upheld) /\ StageTrue(Maintain(p, prof))
PROOF
  <1> DEFINE lapsed == Lapsed(p, prof)
             remind == DueSoon(p, prof)
             f == [x \in p.rows |-> IF x \in remind THEN [x EXCEPT !.due = "reminded"] ELSE x]
             reminded == {[a EXCEPT !.due = "reminded"] : a \in remind}
             q == [p EXCEPT !.rows = (p.rows \ (lapsed \cup remind)) \cup reminded]
  <1>1. p \in PaperType /\ p.rows \subseteq Assignment
    BY DEF Sound, PaperType
  <1>2. remind \subseteq p.rows
    BY DEF DueSoon, Running, Current
  <1>3. Maintain(p, prof) = IF p.status \in Live THEN Fill(Refresh(q), prof) ELSE p
    BY DEF Maintain
  <1> HIDE DEF lapsed, remind
  <1>4. ASSUME NEW x \in p.rows
        PROVE  f[x] \in Assignment /\ SameVerdict(x, f[x])
    <2>1. x \in Assignment /\ f[x] = IF x \in remind THEN [x EXCEPT !.due = "reminded"] ELSE x
      BY <1>1
    <2> HIDE DEF f
    <2> QED
      BY <2>1 DEF Assignment, SameVerdict
  <1>5. (p.rows \ (lapsed \cup remind)) \cup reminded \subseteq {f[x] : x \in p.rows}
    <2>1. ASSUME NEW b \in reminded PROVE b \in {f[x] : x \in p.rows}
      <3>1. PICK a \in remind : b = [a EXCEPT !.due = "reminded"]
        BY <2>1
      <3>2. a \in p.rows /\ f[a] = b
        BY <1>2, <3>1
      <3> HIDE DEF f
      <3> QED
        BY <3>2
    <2>2. ASSUME NEW b \in p.rows, b \notin remind PROVE b \in {f[x] : x \in p.rows}
      <3>1. f[b] = b
        BY <2>2
      <3> HIDE DEF f
      <3> QED
        BY <2>2, <3>1
    <2> HIDE DEF f, reminded
    <2> QED
      BY <2>1, <2>2
  <1> HIDE DEF f, reminded
  <1>6. (p.rows \ (lapsed \cup remind)) \cup reminded \subseteq Assignment
    BY <1>4, <1>5
  <1>7. /\ q \in PaperType /\ q.version = p.version /\ q.used = p.used
        /\ q.rows = (p.rows \ (lapsed \cup remind)) \cup reminded
    BY <1>1, <1>6 DEF PaperType
  <1> HIDE DEF q
  <1>8. Sound(q, D, upheld)
    BY <1>4, <1>5, <1>7, MapIsSound
  <1> QED
    BY <1>3, <1>8, RefillIsSound

LEMMA UnseatIsSound ==
  ASSUME NEW p, NEW D, NEW upheld, Sound(p, D, upheld), NEW r, NEW prof
  PROVE  Sound(Unseat(p, r, prof), D, upheld) /\ StageTrue(Unseat(p, r, prof))
PROOF
  <1> DEFINE left == Retire(p, {a \in Current(p) : a.reviewer = r})
             q == [left EXCEPT !.status = "submitted"]
  <1>1. Unseat(p, r, prof) = IF p.status \in Open THEN Fill(Refresh(q), prof) ELSE left
    BY DEF Unseat
  <1>2. Sound(left, D, upheld) /\ left.status = p.status
    BY RetireIsSound DEF Retire, Sound, PaperType
  <1> HIDE DEF left
  <1>3. Sound(q, D, upheld)
    BY <1>2, StatusIsSound DEF Statuses, Open, Live
  <1> HIDE DEF q
  <1> QED
    BY <1>1, <1>2, <1>3, RefillIsSound DEF StageTrue

(* A decision leaves no assignment and a status outside the review.        *)
LEMMA DecidedIsSound ==
  ASSUME NEW p, NEW D, NEW upheld, Sound(p, D, upheld), NEW anew, NEW status \in Statuses \ Open
  PROVE  /\ Sound(Close([p EXCEPT !.status = status]), D, anew)
         /\ StageTrue(Close([p EXCEPT !.status = status]))
         /\ Sound([Close(p) EXCEPT !.status = status], D, anew)
         /\ StageTrue([Close(p) EXCEPT !.status = status])
PROOF
  <1> DEFINE q == [p EXCEPT !.status = status]
             c == Close(p)
             d == [c EXCEPT !.status = status]
  <1>1. /\ p \in PaperType /\ \A a \in p.rows : a.version = p.version
        /\ \A r : Judge(D, p.version, r) => r \in p.used
    BY DEF Sound
  <1>2. /\ q \in PaperType /\ q.version = p.version /\ q.used = p.used /\ q.rows = p.rows
        /\ q.status = status
    BY <1>1 DEF PaperType
  <1> HIDE DEF q
  <1>3. ASSUME NEW x \in PaperType, x.rows = p.rows, x.version = p.version
        PROVE  /\ Close(x) \in PaperType /\ Close(x).rows = {} /\ Close(x).version = x.version
               /\ Close(x).used = x.used /\ Close(x).status = x.status
    BY <1>1, <1>3 DEF Close, Retire, Current, PaperType
  <1>4. Sound(Close(q), D, anew) /\ StageTrue(Close(q))
    <2>1. /\ Close(q) \in PaperType /\ Close(q).rows = {} /\ Close(q).version = p.version
          /\ Close(q).used = p.used /\ Close(q).status = status
      BY <1>2, <1>3
    <2> QED
      BY <1>1, <2>1, NoRows DEF StageTrue
  <1>5. c \in PaperType /\ c.rows = {} /\ c.version = p.version /\ c.used = p.used
    BY <1>1, <1>3
  <1> HIDE DEF c
  <1>6. /\ d \in PaperType /\ d.rows = {} /\ d.version = p.version /\ d.used = p.used
        /\ d.status = status
    BY <1>5 DEF PaperType
  <1> HIDE DEF d
  <1>7. Sound(d, D, anew) /\ StageTrue(d)
    BY <1>1, <1>6, NoRows DEF StageTrue
  <1> QED
    BY <1>4, <1>7 DEF q, c, d

-----------------------------------------------------------------------------
(* The steps.                                                              *)

(* What was published stays reviewed: reviews are only added.              *)
LEMMA StillReviewed ==
  ASSUME IInv, PublishedWasReviewed, decided \subseteq decided',
         public'.version = public.version, public'.count = public.count
  PROVE  PublishedWasReviewed'
PROOF
  <1> DEFINE By(D) == {r \in Reviewers \ {Owner} : <<public.version, r, "approve">> \in D}
  <1>1. IsFiniteSet(By(decided')) /\ By(decided) \subseteq By(decided')
    BY ConstantsAssumption, FS_Subset
  <1>2. Cardinality(By(decided)) <= Cardinality(By(decided'))
    BY <1>1, FS_Subset
  <1>3. Cardinality(By(decided)) \in Nat /\ Cardinality(By(decided')) \in Nat
    BY <1>1, FS_Subset, FS_CardinalityType
  <1>4. public.count \in Nat
    BY DEF IInv, TypeOK
  <1>5. public.version # 0 => public.count >= 1 /\ Cardinality(By(decided)) >= public.count
    BY DEF PublishedWasReviewed
  <1>6. public.version # 0 => public.count >= 1 /\ Cardinality(By(decided')) >= public.count
    BY <1>2, <1>3, <1>4, <1>5
  <1> QED
    BY <1>6 DEF PublishedWasReviewed

(* A handler that publishes nothing.                                       *)
LEMMA HandlerStep ==
  ASSUME IInv, SeatInv,
         Sound(paper', decided', Upheld'), StageTrue(paper'),
         publishing' => Endorsed(paper'),
         paper'.version \in Nat, paper'.version >= paper.version,
         decided' = decided \/ \E r, d : decided' = decided \cup {<<paper.version, r, d>>},
         public'.version = public.version, public'.count = public.count
  PROVE  SeatInv'
PROOF
  <1>1. paper.version \in Nat /\ decided \subseteq Versions \X Reviewers \X {"approve", "changes"}
    BY DEF IInv, TypeOK, PaperType, Versions
  <1>2. PublishedWasReviewed'
    BY StillReviewed DEF SeatInv
  <1>3. ASSUME NEW v, NEW r, NEW d, <<v, r, d>> \in decided' PROVE v <= paper'.version
    <2>1. CASE <<v, r, d>> \in decided
      <3>1. v \in Nat /\ v <= paper.version
        BY <1>1, <2>1 DEF SeatInv, Versions
      <3> QED
        BY <1>1, <3>1
    <2>2. CASE v = paper.version
      BY <1>1, <2>2
    <2> QED
      BY <1>3, <2>1, <2>2
  <1> QED
    BY <1>2, <1>3 DEF SeatInv

(* The same for a handler that leaves the version, the cases and the       *)
(* reviews as they are, while nobody publishes.                            *)
LEMMA RoundStep ==
  ASSUME IInv, SeatInv, Quiet, UNCHANGED decided,
         Sound(paper', decided, Upheld), StageTrue(paper'), publishing => Endorsed(paper')
  PROVE  SeatInv'
PROOF
  <1>1. Upheld' = Upheld /\ paper'.version = paper.version /\ UNCHANGED <<public, publishing>>
    BY DEF Upheld, HasCaseAt, Quiet
  <1>2. paper'.version \in Nat /\ paper'.version >= paper.version
    BY <1>1 DEF IInv, TypeOK, PaperType, Versions
  <1> QED
    BY <1>1, <1>2, HandlerStep

LEMMA ReviewerStepSeats == IInv /\ SeatInv /\ ReviewerStep => SeatInv'
PROOF
  <1> SUFFICES ASSUME IInv, SeatInv, ReviewerStep PROVE SeatInv'
    OBVIOUS
  <1>1. /\ Sound(paper, decided, Upheld) /\ GoodPaper(paper) /\ paper \in PaperType
        /\ Current(paper) \subseteq paper.rows /\ paper.rows \subseteq Assignment
    BY IInvParts, SubsetsOfRows DEF SeatInv, GoodPaper
  <1>2. Quiet
    BY ReviewerStepQuiet DEF IInv
  <1>3. PICK r \in Reviewers :
           Accept(r) \/ Decline(r) \/ \E d \in {"approve", "changes"} : Review(r, d)
    BY DEF ReviewerStep
  <1>4. ~publishing
    BY <1>3 DEF Accept, Decline, Review, PaperFree
  <1>5. CASE Accept(r)
    <2>1. PICK a \in Current(paper) :
             /\ a.status = "invited"
             /\ LET seated == Replace(paper, a, [a EXCEPT !.status = "accepted", !.due = "later"])
                    closed == IF LastSeat(paper) THEN Retire(seated, Pending(seated)) ELSE seated
                IN  paper' = Fill(Refresh(closed), profile)
      BY <1>5 DEF Accept
    <2> DEFINE b == [a EXCEPT !.status = "accepted", !.due = "later"]
               seated == Replace(paper, a, b)
               closed == IF LastSeat(paper) THEN Retire(seated, Pending(seated)) ELSE seated
    <2>2. a \in paper.rows /\ a \in Assignment
      BY <1>1
    <2>3. /\ b \in Assignment /\ b.reviewer = a.reviewer /\ b.version = a.version
          /\ b.decision = a.decision /\ b.status = "accepted"
      BY <2>2 DEF Assignment
    <2>4. paper' = Fill(Refresh(closed), profile)
      BY <2>1
    <2> HIDE DEF b
    <2>5. Sound(seated, decided, Upheld)
      BY <1>1, <2>1, <2>2, <2>3, ReplaceIsSound
    <2> HIDE DEF seated
    <2>6. Sound(closed, decided, Upheld)
      BY <2>5, RetireIsSound
    <2> HIDE DEF closed
    <2>7. Sound(paper', decided, Upheld) /\ StageTrue(paper')
      BY <2>4, <2>6, RefillIsSound
    <2> QED
      BY <1>2, <1>4, <1>5, <2>7, RoundStep DEF Accept
  <1>6. CASE Decline(r)
    <2>1. PICK a : paper' = Fill(Refresh(Retire(paper, {a})), profile)
      BY <1>6 DEF Decline
    <2>2. Sound(paper', decided, Upheld) /\ StageTrue(paper')
      BY <1>1, <2>1, RetireIsSound, RefillIsSound
    <2> QED
      BY <1>2, <1>4, <1>6, <2>2, RoundStep DEF Decline
  <1>7. ASSUME NEW d \in {"approve", "changes"}, Review(r, d) PROVE SeatInv'
    <2>1. PICK a \in Current(paper) :
             /\ a.status = "accepted" /\ a.reviewer = r
             /\ LET done == Replace(paper, a, [a EXCEPT !.status = "completed", !.due = "met",
                                                        !.decision = d])
                    judged == IF paper.required = 1 /\ d = "changes"
                                THEN [Retire(paper, {a}) EXCEPT !.status = "changes"]
                                ELSE done
                IN  paper' = Fill(Refresh(judged), profile)
      BY <1>7 DEF Review
    <2> DEFINE b == [a EXCEPT !.status = "completed", !.due = "met", !.decision = d]
               done == Replace(paper, a, b)
               left == Retire(paper, {a})
               sent == [left EXCEPT !.status = "changes"]
               judged == IF paper.required = 1 /\ d = "changes" THEN sent ELSE done
    <2>2. a \in paper.rows /\ a \in Assignment /\ a \in Occupied(paper)
      BY <1>1, <2>1 DEF Occupied
    <2>3. /\ b \in Assignment /\ b.reviewer = a.reviewer /\ b.version = a.version
          /\ b.status = "completed" /\ b.decision = d
      BY <2>2 DEF Assignment
    <2>4. paper' = Fill(Refresh(judged), profile)
      BY <2>1
    <2>5. decided' = decided \cup {<<paper.version, b.reviewer, b.decision>>}
      BY <1>7, <2>1, <2>3 DEF Review
    <2> HIDE DEF b
    <2>6. /\ Sound(done, decided', Upheld)
          /\ \A x : Judge(decided', paper.version, x) => x \in paper.used
      BY <1>1, <2>2, <2>3, <2>5, ReviewIsSound
    <2> HIDE DEF done
    <2>7. ASSUME paper.required = 1 PROVE Sound(sent, decided', Upheld)
      <3>1. paper.rows = {a}
        BY <1>1, <2>2, <2>7, SingleReviewer
      <3>2. /\ left \in PaperType /\ left.rows = {} /\ left.version = paper.version
            /\ left.used = paper.used
        BY <1>1, <3>1 DEF Retire, PaperType
      <3> HIDE DEF left
      <3>3. /\ sent \in PaperType /\ sent.rows = {} /\ sent.version = paper.version
            /\ sent.used = paper.used
        BY <3>2 DEF PaperType, Statuses
      <3> HIDE DEF sent
      <3> QED
        BY <2>6, <3>3, NoRows
    <2> HIDE DEF sent
    <2>8. Sound(judged, decided', Upheld)
      BY <2>6, <2>7
    <2> HIDE DEF judged
    <2>9. Sound(paper', decided', Upheld) /\ StageTrue(paper')
      BY <2>4, <2>8, RefillIsSound
    <2>10. Upheld' = Upheld /\ paper'.version = paper.version /\ UNCHANGED <<public, publishing>>
      BY <1>2 DEF Upheld, HasCaseAt, Quiet
    <2>11. paper'.version \in Nat /\ paper'.version >= paper.version
      BY <1>1, <2>10 DEF PaperType, Versions
    <2> QED
      BY <1>4, <2>5, <2>9, <2>10, <2>11, HandlerStep
  <1> QED
    BY <1>3, <1>5, <1>6, <1>7

(* The steps of an administrator that keep the round.                      *)
LEMMA RoundAdminSeats ==
  ASSUME IInv, SeatInv,
         \/ Match
         \/ \E n \in RequiredChoices, m \in BOOLEAN : Configure(n, m)
         \/ \E u \in Admins, r \in Reviewers : Assign(u, r)
  PROVE  SeatInv'
PROOF
  <1>1. /\ Sound(paper, decided, Upheld) /\ StageTrue(paper) /\ paper \in PaperType
        /\ paper.required \in 1..3
    BY DEF SeatInv, Sound, PaperType
  <1>2. Quiet
    BY AdminStepQuiet DEF IInv
  <1>3. CASE Match
    <2>1. Sound(paper', decided, Upheld) /\ StageTrue(paper')
      BY <1>1, <1>3, FillIsSound DEF Match
    <2> QED
      BY <1>2, <1>3, <2>1, RoundStep DEF Match, PaperFree
  <1>4. ASSUME NEW n \in RequiredChoices, NEW m \in BOOLEAN, Configure(n, m) PROVE SeatInv'
    <2> DEFINE q == [paper EXCEPT !.required = n, !.auto = m]
    <2>1. n \in 1..3
      BY ConstantsAssumption
    <2>2. /\ q \in PaperType /\ q.rows = paper.rows /\ q.version = paper.version
          /\ q.used = paper.used /\ q.required = n /\ q.status = paper.status
      BY <1>1, <2>1 DEF PaperType
    <2>3. paper' = Fill(q, profile) /\ (n # paper.required => Occupied(paper) = {})
      BY <1>4 DEF Configure
    <2> HIDE DEF q
    <2>4. Sound(q, decided, Upheld)
      BY <1>1, <2>2, FewerRows
    <2>5. /\ Occupied(q) = Occupied(paper) /\ Pending(q) = Pending(paper)
          /\ Completed(q) = Completed(paper)
      BY <2>2 DEF Occupied, Pending, Completed, Current
    <2>6. Stage(q) = Stage(paper)
      <3>1. CASE n = paper.required
        BY <2>2, <2>5, <3>1, SameStage
      <3>2. CASE n # paper.required
        <4>1. Completed(paper) = {} /\ Occupied(paper) = {}
          BY <1>1, <2>3, <3>2, SubsetsOfRows
        <4>2. Cardinality(Completed(paper)) = 0
          BY <4>1, FS_EmptySet
        <4> QED
          BY <1>1, <2>1, <2>2, <2>5, <4>1, <4>2 DEF Stage
      <3> QED
        BY <3>1, <3>2
    <2>7. StageTrue(q)
      BY <1>1, <2>2, <2>6 DEF StageTrue
    <2>8. Sound(paper', decided, Upheld) /\ StageTrue(paper')
      BY <2>3, <2>4, <2>7, FillIsSound
    <2> QED
      BY <1>2, <1>4, <2>8, RoundStep DEF Configure, PaperFree
  <1>5. ASSUME NEW u \in Admins, NEW r \in Reviewers, Assign(u, r) PROVE SeatInv'
    <2>1. PICK target \in Targets(paper) :
             /\ ~Assigned(Retire(paper, target), r)
             /\ paper' = Refresh(Invite(Retire(paper, target), {r}))
      BY <1>5 DEF Assign
    <2> DEFINE left == Retire(paper, target)
               invited == Invite(left, {r})
    <2>2. Sound(left, decided, Upheld) /\ left.version = paper.version
      BY <1>1, RetireIsSound DEF Retire, PaperType
    <2> HIDE DEF left
    <2>3. \A a \in left.rows : a.reviewer # r
      BY <2>1, <2>2 DEF Assigned, Current, Sound, left
    <2>4. r # Owner /\ (Upheld => ~Judge(decided, left.version, r))
      BY <1>5, <2>2 DEF Assign, Fresh, Upheld, Decided, Judge
    <2>5. Sound(invited, decided, Upheld)
      BY <2>2, <2>3, <2>4, InviteIsSound
    <2>6. paper' = Refresh(invited)
      BY <2>1 DEF left
    <2> HIDE DEF invited
    <2>7. Sound(paper', decided, Upheld) /\ StageTrue(paper')
      BY <2>5, <2>6, RefreshIsSound, RefreshIsTrue DEF Sound
    <2> QED
      BY <1>2, <1>5, <2>7, RoundStep DEF Assign, PaperFree
  <1> QED
    BY <1>3, <1>4, <1>5

(* A decision that ends the round.                                         *)
LEMMA EndSeats ==
  ASSUME IInv, SeatInv,
         \/ RequestChanges \/ Reject \/ CancelCorrection
         \/ \E u \in Admins \cup {Owner} : Withdraw(u)
  PROVE  SeatInv'
PROOF
  <1>1. /\ Sound(paper, decided, Upheld) /\ Named(paper) /\ paper \in PaperType
        /\ paper.version \in Nat
    BY PaperIsNamed DEF SeatInv, Sound, PaperType, Versions
  <1>2. PICK status \in {"changes", "published", "rejected", "withdrawn"} :
           \/ paper' = Close([paper EXCEPT !.status = status])
           \/ paper' = [Close(paper) EXCEPT !.status = status]
    BY DEF RequestChanges, Reject, CancelCorrection, Withdraw
  <1>3. status \in Statuses \ Open
    BY DEF Statuses, Open, Live, Terminal
  <1> DEFINE c == Close([paper EXCEPT !.status = status])
             d == [Close(paper) EXCEPT !.status = status]
  <1>4. /\ Sound(c, decided, Upheld') /\ StageTrue(c)
        /\ Sound(d, decided, Upheld') /\ StageTrue(d)
    BY <1>1, <1>3, DecidedIsSound
  <1>5. c.version = paper.version /\ d.version = paper.version
    BY <1>1, DecidedKeeps
  <1>6. paper' = c \/ paper' = d
    BY <1>2
  <1> HIDE DEF c, d
  <1>7. Sound(paper', decided, Upheld') /\ StageTrue(paper')
    BY <1>4, <1>6
  <1>8. paper'.version = paper.version
    BY <1>5, <1>6
  <1>9. /\ ~publishing' /\ UNCHANGED decided
        /\ public'.version = public.version /\ public'.count = public.count
    BY DEF RequestChanges, Reject, CancelCorrection, Withdraw, Outside, PaperFree, IInv, TypeOK
  <1>10. paper'.version >= paper.version
    BY <1>1, <1>8
  <1> QED
    BY <1>1, <1>7, <1>8, <1>9, <1>10, HandlerStep

(* Judged by nobody: the version has no review yet.                        *)
LEMMA NextVersionUnjudged ==
  ASSUME IInv, SeatInv
  PROVE  \A r : ~Judge(decided, paper.version + 1, r)
PROOF
  <1>1. paper.version \in Nat
    BY DEF IInv, TypeOK, PaperType, Versions
  <1>2. \A v, r, d : <<v, r, d>> \in decided => v <= paper.version
    BY DEF SeatInv
  <1>3. \A r, d : <<paper.version + 1, r, d>> \notin decided
    <2>1. ~(paper.version + 1 <= paper.version)
      BY <1>1
    <2> QED
      BY <1>2, <2>1
  <1> QED
    BY <1>3 DEF Judge

(* A decision that opens a round, an appeal, and what follows a version.   *)
LEMMA NewRoundSeats ==
  ASSUME IInv, SeatInv,
         \/ Appeal \/ Revise \/ ProposeCorrection
         \/ \E u \in Admins, outcome \in {"upheld", "dismissed"} : DecideAppeal(u, outcome)
  PROVE  SeatInv'
PROOF
  <1>1. /\ Sound(paper, decided, Upheld) /\ StageTrue(paper) /\ paper \in PaperType
        /\ paper.version \in Nat
        /\ \A r : Judge(decided, paper.version, r) => r \in paper.used
    BY DEF SeatInv, Sound, PaperType, Versions
  <1>2. paper.rows = {}
    BY DEF Appeal, Revise, ProposeCorrection, DecideAppeal, IInv, NoStaleAssignment, Open, Live
  <1>3. ~publishing' /\ UNCHANGED <<decided, public>>
    BY DEF Appeal, Revise, ProposeCorrection, DecideAppeal, Outside, PaperFree
  <1>4. CASE UNCHANGED paper
    <2>1. Sound(paper', decided', Upheld') /\ StageTrue(paper')
      BY <1>1, <1>2, <1>3, <1>4, NoRows
    <2>2. paper'.version \in Nat /\ paper'.version >= paper.version
      BY <1>1, <1>4
    <2> QED
      BY <1>3, <2>1, <2>2, HandlerStep
  <1>5. ASSUME NEW q \in PaperType, q.rows = {}, paper' = Reset(q, profile),
               q.version \in {paper.version, paper.version + 1},
               \A r : Judge(decided, q.version, r) => r \in q.used
        PROVE  SeatInv'
    <2>1. Sound(paper', decided', Upheld') /\ StageTrue(paper')
      BY <1>3, <1>5, ResetIsSound
    <2>2. paper'.version = q.version
      BY <1>5, PaperIsNamed, ResetOpens
    <2>3. paper'.version \in Nat /\ paper'.version >= paper.version
      BY <1>1, <1>5, <2>2
    <2> QED
      BY <1>3, <2>1, <2>3, HandlerStep
  <1>6. ASSUME NEW u \in Admins, NEW outcome \in {"upheld", "dismissed"}, DecideAppeal(u, outcome)
        PROVE  SeatInv'
    <2> DEFINE q == [paper EXCEPT !.auto = TRUE]
    <2>1. UNCHANGED paper \/ paper' = Reset(q, profile)
      BY <1>6 DEF DecideAppeal
    <2>2. q \in PaperType /\ q.rows = {} /\ q.version = paper.version /\ q.used = paper.used
      BY <1>1, <1>2 DEF PaperType
    <2> HIDE DEF q
    <2> QED
      BY <1>1, <1>4, <1>5, <2>1, <2>2
  <1>7. paper.version < MaxVersion =>
          /\ NextVersion(paper) \in PaperType /\ NextVersion(paper).rows = paper.rows
          /\ NextVersion(paper).version = paper.version + 1
    <2>1. paper.version < MaxVersion => paper.version + 1 \in Versions
      BY <1>1, ConstantsAssumption DEF Versions
    <2> QED
      BY <1>1, <2>1 DEF NextVersion, PaperType
  <1>8. CASE Revise
    <2>1. paper.version < MaxVersion /\ paper' = Reset(NextVersion(paper), profile)
      BY <1>8 DEF Revise
    <2> QED
      BY <1>2, <1>5, <1>7, <2>1, NextVersionUnjudged
  <1>9. CASE ProposeCorrection
    <2> DEFINE n == NextVersion(paper)
               q == [n EXCEPT !.required = DefaultReviews, !.auto = AutoMatching]
    <2>1. paper.version < MaxVersion /\ paper' = Reset(q, profile)
      BY <1>9 DEF ProposeCorrection
    <2>2. n \in PaperType /\ n.rows = {} /\ n.version = paper.version + 1
      BY <1>2, <1>7, <2>1
    <2> HIDE DEF n
    <2>3. q \in PaperType /\ q.rows = {} /\ q.version = paper.version + 1
      BY <2>2, ConstantsAssumption DEF PaperType
    <2> HIDE DEF q
    <2> QED
      BY <1>5, <2>1, <2>3, NextVersionUnjudged
  <1>10. CASE Appeal
    BY <1>4, <1>10 DEF Appeal
  <1> QED
    BY <1>6, <1>8, <1>9, <1>10

(* The clock may move deadlines while a publication commits: it leaves the *)
(* completed reviews alone.                                                *)
LEMMA AgeSeats == IInv /\ SeatInv /\ Age => SeatInv'
PROOF
  <1> SUFFICES ASSUME IInv, SeatInv, Age PROVE SeatInv'
    OBVIOUS
  <1>1. /\ Sound(paper, decided, Upheld) /\ StageTrue(paper) /\ paper \in PaperType
        /\ Current(paper) \subseteq paper.rows /\ paper.rows \subseteq Assignment
    BY SubsetsOfRows DEF SeatInv, Sound
  <1>2. Quiet
    BY OtherStepQuiet DEF IInv
  <1>3. PICK a \in Running(paper) :
           /\ a.due \notin {"past", "met"}
           /\ paper' = Replace(paper, a, [a EXCEPT !.due = Older(@)])
    BY DEF Age
  <1> DEFINE b == [a EXCEPT !.due = Older(a.due)]
  <1>4. a \in Current(paper) /\ a \in paper.rows /\ a \in Assignment /\ a.status # "completed"
    BY <1>1 DEF Running
  <1>5. Older(a.due) \in {"soon", "past"}
    BY <1>3, <1>4 DEF Assignment, Older
  <1>6. /\ b \in Assignment /\ b.reviewer = a.reviewer /\ b.version = a.version
        /\ b.decision = a.decision /\ b.status = a.status
    BY <1>4, <1>5 DEF Assignment
  <1>7. paper' = Replace(paper, a, b)
    BY <1>3
  <1> HIDE DEF b
  <1>8. Sound(paper', decided, Upheld)
    BY <1>1, <1>4, <1>6, <1>7, ReplaceIsSound
  <1>9. /\ paper'.rows = (paper.rows \ {a}) \cup {b} /\ paper'.version = paper.version
        /\ paper'.required = paper.required /\ paper'.status = paper.status
    BY <1>1, <1>7 DEF Replace, PaperType
  <1>10. Completed(paper') = Completed(paper)
    BY <1>4, <1>6, <1>9 DEF Completed, Current
  <1>11. Occupied(paper') = {} <=> Occupied(paper) = {}
    BY <1>4, <1>6, <1>9 DEF Occupied, Current
  <1>12. Pending(paper') = {} <=> Pending(paper) = {}
    BY <1>4, <1>6, <1>9 DEF Pending, Current
  <1>13. StageTrue(paper')
    <2>1. Stage(paper') = Stage(paper)
      BY <1>9, <1>10, <1>11, <1>12, SameStage
    <2> QED
      BY <1>1, <1>9, <2>1 DEF StageTrue
  <1>14. publishing => Endorsed(paper')
    BY <1>9, <1>10 DEF SeatInv, Endorsed
  <1> QED
    BY <1>2, <1>8, <1>13, <1>14, RoundStep DEF Age

LEMMA SweepSeats == IInv /\ SeatInv /\ Sweep => SeatInv'
PROOF
  <1> SUFFICES ASSUME IInv, SeatInv, Sweep PROVE SeatInv'
    OBVIOUS
  <1>1. Quiet
    BY OtherStepQuiet DEF IInv
  <1>2. Sound(paper', decided, Upheld) /\ StageTrue(paper')
    BY MaintainIsSound DEF SeatInv, Sweep
  <1> QED
    BY <1>1, <1>2, RoundStep DEF Sweep, PaperFree

LEMMA ProfileSeats == IInv /\ SeatInv /\ ProfileStep => SeatInv'
PROOF
  <1> SUFFICES ASSUME IInv, SeatInv, ProfileStep PROVE SeatInv'
    OBVIOUS
  <1>1. Sound(paper, decided, Upheld) /\ StageTrue(paper) /\ (publishing => Endorsed(paper))
    BY DEF SeatInv
  <1>2. Quiet /\ UNCHANGED decided
    BY OtherStepQuiet DEF IInv, ProfileStep, ApplyBegin, ApplyCommit, SetAvailable, Approve,
          RevokeBegin, RevokeCommit, SetEnabled, OtherWork
  <1>3. ASSUME NEW r, RevokeCommit(r)
        PROVE  /\ Sound(paper', decided, Upheld) /\ StageTrue(paper')
               /\ publishing => Endorsed(paper')
    BY <1>1, <1>3, UnseatIsSound DEF RevokeCommit, PaperFree
  <1>4. \/ \E r : RevokeCommit(r)
        \/ UNCHANGED paper
    BY DEF ProfileStep, ApplyBegin, ApplyCommit, SetAvailable, Approve, RevokeBegin,
           SetEnabled, OtherWork
  <1> QED
    BY <1>1, <1>2, <1>3, <1>4, RoundStep

(* What a publication shows: each completed review is that of another      *)
(* reviewer, who is not the author, and approves this version.             *)
LEMMA EndorsementCounts ==
  ASSUME IInv, SeatInv, publishing
  PROVE  /\ Cardinality(Completed(paper)) >= 1
         /\ Cardinality({r \in Reviewers \ {Owner} : <<paper.version, r, "approve">> \in decided})
              >= Cardinality(Completed(paper))
PROOF
  <1> DEFINE S == Completed(paper)
             T == {r \in Reviewers \ {Owner} : <<paper.version, r, "approve">> \in decided}
             f == [a \in S |-> a.reviewer]
  <1>1. /\ Sound(paper, decided, Upheld) /\ Endorsed(paper) /\ paper \in PaperType
        /\ S \subseteq paper.rows /\ paper.rows \subseteq Assignment
        /\ IsFiniteSet(S) /\ Cardinality(S) \in Nat
    BY SubsetsOfRows DEF SeatInv, Sound
  <1>2. \A a \in S : a.status = "completed" /\ a.decision = "approve" /\ a.reviewer \in Reviewers
    BY <1>1 DEF Endorsed, Completed, Assignment
  <1>3. Cardinality(S) >= 1
    <2>1. Cardinality(S) >= paper.required /\ paper.required \in 1..3
      BY <1>1 DEF Endorsed, PaperType
    <2> QED
      BY <1>1, <2>1
  <1> HIDE DEF S
  <1>4. \A a \in S : a.reviewer \in T
    BY <1>1, <1>2 DEF Sound
  <1>5. \A a, b \in S : a.reviewer = b.reviewer => a = b
    BY <1>1 DEF Sound
  <1>6. IsFiniteSet(T)
    BY ConstantsAssumption, FS_Subset
  <1> HIDE DEF T
  <1>7. f \in Injection(S, T)
    BY <1>4, <1>5 DEF Injection, IsInjective
  <1>8. Cardinality(S) <= Cardinality(T)
    BY <1>6, <1>7, FS_Injection
  <1>9. Cardinality(T) \in Nat
    BY <1>6, FS_CardinalityType
  <1> QED
    BY <1>1, <1>3, <1>8, <1>9 DEF S, T

LEMMA PublishSeats ==
  IInv /\ SeatInv /\ (PublishCommit \/ ModeratorHides \/ \E u \in Admins : PublishBegin(u))
    => SeatInv'
PROOF
  <1> SUFFICES ASSUME IInv, SeatInv,
                      PublishCommit \/ ModeratorHides \/ \E u \in Admins : PublishBegin(u)
               PROVE  SeatInv'
    OBVIOUS
  <1>1. /\ Sound(paper, decided, Upheld) /\ StageTrue(paper) /\ Named(paper)
        /\ paper.version \in Nat
    BY PaperIsNamed DEF SeatInv, Sound, PaperType, Versions
  <1>2. ASSUME ModeratorHides \/ \E u \in Admins : PublishBegin(u) PROVE SeatInv'
    <2>1. /\ UNCHANGED <<paper, cases, decided>>
          /\ public'.version = public.version /\ public'.count = public.count
          /\ publishing' => Endorsed(paper)
      BY <1>2 DEF PublishBegin, ModeratorHides, Outside, IInv, TypeOK, SeatInv
    <2>2. Upheld' = Upheld
      BY <2>1 DEF Upheld, HasCaseAt
    <2>3. Sound(paper', decided', Upheld') /\ StageTrue(paper') /\ (publishing' => Endorsed(paper'))
      BY <1>1, <2>1, <2>2
    <2>4. paper'.version \in Nat /\ paper'.version >= paper.version
      BY <1>1, <2>1
    <2> QED
      BY <2>1, <2>3, <2>4, HandlerStep
  <1>3. CASE PublishCommit
    <2>1. /\ publishing /\ ~publishing' /\ UNCHANGED decided
          /\ public'.version = paper.version /\ public'.count = Cardinality(Completed(paper))
          /\ paper' = Close([paper EXCEPT !.status = "published"])
      BY <1>3 DEF PublishCommit
    <2>2. Sound(paper', decided', Upheld') /\ StageTrue(paper') /\ paper'.version = paper.version
      <3>1. "published" \in Statuses \ Open
        BY DEF Statuses, Open, Live, Terminal
      <3> QED
        BY <1>1, <2>1, <3>1, DecidedIsSound, DecidedKeeps
    <2>3. PublishedWasReviewed'
      BY <2>1, EndorsementCounts DEF PublishedWasReviewed
    <2> QED
      BY <2>1, <2>2, <2>3 DEF SeatInv
  <1> QED
    BY <1>2, <1>3

-----------------------------------------------------------------------------
(* The theorems.                                                           *)

LEMMA InitSeats == Init => SeatInv
PROOF
  <1> SUFFICES ASSUME Init PROVE SeatInv
    OBVIOUS
  <1>1. /\ NewPaper \in PaperType /\ NewPaper.rows = {} /\ NewPaper.status = "submitted"
    BY ConstantsAssumption DEF NewPaper, PaperType, Statuses, Open, Live, Versions
  <1>2. decided = {} /\ public.version = 0 /\ ~publishing
    BY DEF Init
  <1>3. Sound(NewPaper, decided, Upheld) /\ StageTrue(NewPaper)
    BY <1>1, <1>2, NoRows, EmptyStage DEF Judge, StageTrue
  <1>4. Sound(paper, decided, Upheld) /\ StageTrue(paper)
    BY <1>3, FillIsSound DEF Init
  <1> QED
    BY <1>2, <1>4 DEF SeatInv, PublishedWasReviewed

LEMMA SeatInductive == IInv /\ SeatInv /\ [Next]_vars => SeatInv'
PROOF
  <1>1. IInv /\ SeatInv /\ UNCHANGED vars => SeatInv'
    <2> SUFFICES ASSUME IInv, SeatInv, UNCHANGED vars PROVE SeatInv'
      OBVIOUS
    <2>1. Quiet /\ UNCHANGED <<paper, decided, public, publishing>>
      BY DEF vars, Quiet
    <2> QED
      BY <2>1, RoundStep DEF SeatInv
  <1>2. IInv /\ SeatInv /\ AdminStep => SeatInv'
    BY RoundAdminSeats, EndSeats, NewRoundSeats, PublishSeats DEF AdminStep
  <1>3. IInv /\ SeatInv /\ AuthorStep => SeatInv'
    BY EndSeats, NewRoundSeats DEF AuthorStep
  <1> QED
    BY <1>1, <1>2, <1>3, ReviewerStepSeats, AgeSeats, SweepSeats, ProfileSeats, PublishSeats
       DEF Next

(* The assignments, the stage and what was published are sound throughout. *)
THEOREM SeatInvariance == Spec => []SeatInv
PROOF
  BY Invariance, InitSeats, SeatInductive, PTL DEF Spec

(* The stored stage of a paper under review is what its assignments say.   *)
THEOREM StagesAreTrue == Spec => []StageIsTrue
PROOF
  <1>1. SeatInv => StageIsTrue
    BY DEF SeatInv, StageTrue, StageIsTrue
  <1> QED
    BY <1>1, SeatInvariance, PTL

(* No reviewer holds two assignments of one version.                       *)
THEOREM AssignmentsAreSingle == Spec => []OneAssignmentEach
PROOF
  <1>1. SeatInv => OneAssignmentEach
    BY DEF SeatInv, Sound, OneAssignmentEach
  <1> QED
    BY <1>1, SeatInvariance, PTL

(* After an upheld appeal nobody judges the same version twice.            *)
THEOREM AppealsGetFreshReviewers == Spec => []AppealHasFreshReviewers
PROOF
  <1>1. SeatInv => AppealHasFreshReviewers
    BY DEF SeatInv, Sound, Upheld, Judge, AppealHasFreshReviewers, Decided, Running, Current
  <1> QED
    BY <1>1, SeatInvariance, PTL

(* Whatever the public page says was approved by that many different       *)
(* reviewers, none of them the author.                                     *)
THEOREM PublicationsWereReviewed == Spec => []PublishedWasReviewed
PROOF
  <1>1. SeatInv => PublishedWasReviewed
    BY DEF SeatInv
  <1> QED
    BY <1>1, SeatInvariance, PTL

(* The manuscript is never open to more reviewers than there are seats,    *)
(* nor to anyone once the paper was decided.                               *)
THEOREM ManuscriptsStayPrivate == Spec => []ManuscriptStaysPrivate
PROOF
  <1>1. IInv => ManuscriptStaysPrivate
    <2> SUFFICES ASSUME IInv PROVE ManuscriptStaysPrivate
      OBVIOUS
    <2>1. GoodPaper(paper) /\ paper \in PaperType
      BY IInvParts DEF GoodPaper
    <2> DEFINE f == [a \in Occupied(paper) |-> a.reviewer]
    <2>2. Readers \subseteq {f[a] : a \in Occupied(paper)}
      <3>1. ASSUME NEW r \in Readers PROVE \E a \in Occupied(paper) : r = f[a]
        <4>1. PICK a \in Current(paper) : a.reviewer = r /\ a.status \in {"completed", "accepted"}
          BY <3>1 DEF Readers
        <4> QED
          BY <4>1 DEF Occupied
      <3> QED
        BY <3>1
    <2> HIDE DEF f
    <2>3. /\ IsFiniteSet(Occupied(paper)) /\ Cardinality(Occupied(paper)) \in Nat
          /\ paper.required \in Nat
      BY <2>1, SubsetsOfRows DEF PaperType
    <2>4. IsFiniteSet(Readers) /\ Cardinality(Readers) <= Cardinality(Occupied(paper))
      BY <2>2, <2>3, ImageBound
    <2>5. Cardinality(Readers) <= paper.required
      <3>1. Cardinality(Readers) \in Nat
        BY <2>4, FS_CardinalityType
      <3> QED
        BY <2>1, <2>3, <2>4, <3>1 DEF GoodPaper, SeatsOK
    <2>6. paper.status \notin Open => Readers = {}
      BY <2>1 DEF GoodPaper, RowsOK, Readers, Current
    <2> QED
      BY <2>5, <2>6 DEF ManuscriptStaysPrivate
  <1> QED
    BY <1>1, Invariance, PTL

-----------------------------------------------------------------------------
(* The sweep, twice in a row.                                              *)

(* The ranking of the matching is a strict order.                          *)
LEMMA BeforeIsOrder ==
  ASSUME NEW prof \in [Reviewers -> Profile]
  PROVE  /\ \A r \in Reviewers : ~Before(prof, r, r)
         /\ \A q, r, s \in Reviewers :
                Before(prof, q, r) /\ Before(prof, r, s) => Before(prof, q, s)
PROOF
  <1>1. \A r \in Reviewers : r \in Int /\ prof[r].load \in Int
    BY ConstantsAssumption DEF Profile
  <1> QED
    BY <1>1 DEF Before

(* Whoever ranks before the first of those left out is chosen: unless all  *)
(* are chosen, as many are chosen as were asked for.                       *)
LEMMA BestIsEnough ==
  ASSUME NEW prof \in [Reviewers -> Profile], NEW C \in SUBSET Reviewers, NEW n \in Nat,
         Best(C, prof, n) # C
  PROVE  Cardinality(Best(C, prof, n)) >= n
PROOF
  <1> DEFINE before(r) == {q \in C : Before(prof, q, r)}
             chosen == Best(C, prof, n)
             left == C \ chosen
             sets == {before(r) : r \in left}
  <1>1. IsFiniteSet(C)
    BY ConstantsAssumption, FS_Subset
  <1>2. chosen = {r \in C : Cardinality(before(r)) < n} /\ left # {}
    BY DEF Best
  <1>3. sets \subseteq SUBSET C /\ sets # {}
    <2>1. PICK r \in left : TRUE
      BY <1>2
    <2>2. before(r) \in sets
      OBVIOUS
    <2>3. \A x \in left : before(x) \subseteq C
      OBVIOUS
    <2> HIDE DEF before, left
    <2> QED
      BY <2>2, <2>3
  <1>4. IsWellFoundedOn(StrictSubsetOrdering(C), SUBSET C)
    BY <1>1, FS_FiniteSubsetsOfFinite, FS_StrictSubsetOrderingWellFounded
  <1> HIDE DEF sets
  <1>5. PICK S \in sets : \A T \in sets : <<T, S>> \notin StrictSubsetOrdering(C)
    BY <1>3, <1>4, WFMin
  <1>6. PICK r \in left : S = before(r)
    BY <1>5 DEF sets
  <1>7. before(r) \subseteq chosen
    <2> SUFFICES ASSUME NEW q \in before(r), q \in left PROVE FALSE
      OBVIOUS
    <2>1. before(q) \subseteq before(r) /\ q \in before(r) /\ q \notin before(q)
      BY BeforeIsOrder
    <2>2. before(q) \in sets /\ before(q) \subseteq C /\ before(r) \subseteq C
      BY DEF sets
    <2> HIDE DEF before, left
    <2>3. <<before(q), before(r)>> \in StrictSubsetOrdering(C)
      BY <2>1, <2>2 DEF StrictSubsetOrdering
    <2> QED
      BY <1>5, <1>6, <2>2, <2>3
  <1>8. IsFiniteSet(chosen) /\ IsFiniteSet(before(r))
    BY <1>1, <1>2, FS_Subset
  <1>9. ~(Cardinality(before(r)) < n)
    BY <1>2, <1>6
  <1> HIDE DEF before, chosen
  <1>10. Cardinality(before(r)) \in Nat /\ Cardinality(chosen) \in Nat
         /\ Cardinality(before(r)) <= Cardinality(chosen)
    BY <1>7, <1>8, FS_Subset, FS_CardinalityType
  <1> QED
    BY <1>9, <1>10 DEF chosen

(* Nothing is left to release and nobody to remind.                        *)
Tidy(p, prof) ==
  \A a \in Running(p) : ReviewerActive(prof, a.reviewer) /\ a.due \notin {"past", "soon"}

LEMMA TidyRows ==
  ASSUME NEW p, NEW q, NEW prof, Tidy(p, prof), q.rows \subseteq p.rows, q.version = p.version
  PROVE  Tidy(q, prof)
PROOF
  <1>1. Running(q) \subseteq Running(p)
    BY DEF Running, Current
  <1> QED
    BY <1>1 DEF Tidy

LEMMA RefreshFields ==
  ASSUME NEW p \in PaperType
  PROVE  /\ Refresh(p) \in PaperType
         /\ Refresh(p).rows = p.rows /\ Refresh(p).version = p.version
         /\ Refresh(p).required = p.required /\ Refresh(p).auto = p.auto
         /\ Refresh(p).used = p.used /\ Refresh(p).notice = p.notice
         /\ p.status \in Live => Refresh(p).status = Stage(p)
PROOF
  <1>1. Stage(p) \in Statuses
    BY StageIsOpen DEF Statuses
  <1> QED
    BY <1>1 DEF Refresh, PaperType, Open

(* Refreshing a paper whose stage is true changes nothing.                 *)
LEMMA TrueStageRests ==
  ASSUME NEW p \in PaperType, StageTrue(p)
  PROVE  Refresh(p) = p
PROOF
  BY DEF Refresh, StageTrue, PaperType

(* A tidy paper under review goes straight to the matching.                *)
LEMMA TidyIsOnlyFilled ==
  ASSUME NEW p \in PaperType, NEW prof, Tidy(p, prof), StageTrue(p), p.status \in Live
  PROVE  Maintain(p, prof) = Fill(p, prof)
PROOF
  <1> DEFINE remind == DueSoon(p, prof)
             swept == [p EXCEPT !.rows = (p.rows \ (Lapsed(p, prof) \cup remind))
                                            \cup {[a EXCEPT !.due = "reminded"] : a \in remind}]
  <1>1. Lapsed(p, prof) = {} /\ remind = {}
    BY DEF Tidy, Lapsed, DueSoon
  <1>2. Maintain(p, prof) = Fill(Refresh(swept), prof)
    BY DEF Maintain
  <1> HIDE DEF remind
  <1>3. swept = p
    BY <1>1 DEF PaperType
  <1> HIDE DEF swept
  <1> QED
    BY <1>2, <1>3, TrueStageRests

(* What the sweep releases, and whom it reminds.                           *)
LEMMA SweptIsTidy ==
  ASSUME NEW p, NEW D, NEW upheld, Sound(p, D, upheld), NEW prof, p.status \in Live
  PROVE  \E q : /\ Maintain(p, prof) = Fill(q, prof) /\ Tidy(q, prof) /\ StageTrue(q)
                /\ Sound(q, D, upheld)
PROOF
  <1> DEFINE lapsed == Lapsed(p, prof)
             remind == DueSoon(p, prof)
             f == [x \in p.rows |-> IF x \in remind THEN [x EXCEPT !.due = "reminded"] ELSE x]
             reminded == {[a EXCEPT !.due = "reminded"] : a \in remind}
             q == [p EXCEPT !.rows = (p.rows \ (lapsed \cup remind)) \cup reminded]
  <1>1. p \in PaperType /\ p.rows \subseteq Assignment
    BY DEF Sound, PaperType
  <1>2. /\ remind \subseteq p.rows
        /\ \A a \in remind : ReviewerActive(prof, a.reviewer)
        /\ \A a \in Running(p) \ (lapsed \cup remind) :
               ReviewerActive(prof, a.reviewer) /\ a.due \notin {"past", "soon"}
    BY DEF DueSoon, Lapsed, Running, Current
  <1>3. Maintain(p, prof) = Fill(Refresh(q), prof)
    BY DEF Maintain
  <1> HIDE DEF lapsed, remind
  <1>4. ASSUME NEW x \in p.rows
        PROVE  /\ f[x] \in Assignment /\ SameVerdict(x, f[x])
               /\ x \in remind => f[x] = [x EXCEPT !.due = "reminded"] /\ f[x].due = "reminded"
               /\ x \notin remind => f[x] = x
    <2>1. x \in Assignment /\ f[x] = IF x \in remind THEN [x EXCEPT !.due = "reminded"] ELSE x
      BY <1>1
    <2> HIDE DEF f
    <2>2. f[x] \in Assignment /\ SameVerdict(x, f[x])
      BY <2>1 DEF Assignment, SameVerdict
    <2>3. [x EXCEPT !.due = "reminded"].due = "reminded"
      BY <2>1 DEF Assignment
    <2> QED
      BY <2>1, <2>2, <2>3
  <1>5. ASSUME NEW b \in (p.rows \ (lapsed \cup remind)) \cup reminded
        PROVE  \E x \in p.rows : b = f[x] /\ (x \in remind \/ x \notin lapsed \cup remind)
    <2>1. CASE b \in reminded
      <3>1. PICK a \in remind : b = [a EXCEPT !.due = "reminded"]
        BY <2>1
      <3>2. a \in p.rows /\ f[a] = b
        BY <1>2, <1>4, <3>1
      <3> HIDE DEF f
      <3> QED
        BY <3>1, <3>2
    <2>2. CASE b \notin reminded
      <3>1. b \in p.rows /\ b \notin lapsed \cup remind
        BY <1>5, <2>2
      <3>2. f[b] = b
        BY <1>4, <3>1
      <3> HIDE DEF f
      <3> QED
        BY <3>1, <3>2
    <2> QED
      BY <2>1, <2>2
  <1> HIDE DEF f, reminded
  <1>6. (p.rows \ (lapsed \cup remind)) \cup reminded \subseteq {f[x] : x \in p.rows}
    BY <1>5
  <1>7. /\ \A x \in p.rows : f[x] \in Assignment
        /\ \A x \in p.rows : SameVerdict(x, f[x])
    BY <1>4
  <1>8. (p.rows \ (lapsed \cup remind)) \cup reminded \subseteq Assignment
    BY <1>6, <1>7
  <1>9. /\ q \in PaperType /\ q.version = p.version /\ q.used = p.used
        /\ q.rows = (p.rows \ (lapsed \cup remind)) \cup reminded
    BY <1>1, <1>8 DEF PaperType
  <1> HIDE DEF q
  <1>10. Sound(q, D, upheld)
    BY <1>6, <1>7, <1>9, MapIsSound
  <1>11. ASSUME NEW b \in Running(q)
         PROVE  ReviewerActive(prof, b.reviewer) /\ b.due \notin {"past", "soon"}
    <2>1. b \in q.rows /\ b.version = q.version /\ b.status \in {"invited", "accepted"}
      BY DEF Running, Current
    <2>2. PICK x \in p.rows : b = f[x] /\ (x \in remind \/ x \notin lapsed \cup remind)
      BY <1>5, <1>9, <2>1
    <2>3. CASE x \in remind
      <3>1. b.due = "reminded" /\ b.reviewer = x.reviewer
        BY <1>4, <2>2, <2>3 DEF SameVerdict
      <3> QED
        BY <1>2, <2>3, <3>1
    <2>4. CASE x \notin remind
      <3>1. b = x /\ x \notin lapsed \cup remind
        BY <1>4, <2>2, <2>4
      <3>2. x \in Running(p)
        BY <1>9, <2>1, <3>1 DEF Running, Current
      <3> QED
        BY <1>2, <3>1, <3>2
    <2> QED
      BY <2>3, <2>4
  <1>12. Tidy(q, prof)
    BY <1>11 DEF Tidy
  <1>13. Tidy(Refresh(q), prof)
    BY <1>9, <1>12, RefreshFields, TidyRows
  <1> QED
    BY <1>3, <1>9, <1>10, <1>13, RefreshIsTrue, RefreshIsSound

(* What one round of the matching invites.                                 *)
Invited(p, chosen) ==
  {[reviewer |-> r, version |-> p.version, status |-> "invited",
    due |-> "later", decision |-> ""] : r \in chosen}

LEMMA NewRows ==
  ASSUME NEW p \in PaperType, NEW chosen \in SUBSET Reviewers
  PROVE  /\ \A a \in Invited(p, chosen) :
                /\ a \in Assignment /\ a.reviewer \in chosen /\ a.version = p.version
                /\ a.status = "invited" /\ a.due = "later"
         /\ IsFiniteSet(Invited(p, chosen))
         /\ Cardinality(Invited(p, chosen)) \in Nat
         /\ Cardinality(chosen) <= Cardinality(Invited(p, chosen))
PROOF
  <1> DEFINE row(r) == [reviewer |-> r, version |-> p.version, status |-> "invited",
                        due |-> "later", decision |-> ""]
             new == {row(r) : r \in chosen}
  <1>1. new = Invited(p, chosen)
    BY DEF Invited
  <1>2. \A r \in chosen : /\ row(r).reviewer = r /\ row(r).version = p.version
                          /\ row(r).status = "invited" /\ row(r).due = "later"
    OBVIOUS
  <1>3. \A r \in chosen : row(r) \in Assignment
    <2>1. p.version \in Versions
      BY DEF PaperType
    <2> QED
      BY <2>1 DEF Assignment
  <1> HIDE DEF row
  <1>4. IsFiniteSet(chosen)
    BY ConstantsAssumption, FS_Subset
  <1>5. IsFiniteSet(new) /\ Cardinality(new) \in Nat
    <2> DEFINE rowOf == [r \in chosen |-> row(r)]
    <2>1. new \in SUBSET {rowOf[r] : r \in chosen}
      OBVIOUS
    <2> HIDE DEF rowOf, new
    <2> QED
      BY <1>4, <2>1, ImageBound, FS_CardinalityType
  <1>6. chosen \subseteq {a.reviewer : a \in new}
    BY <1>2
  <1>7. Cardinality(chosen) <= Cardinality(new)
    <2> DEFINE of == [a \in new |-> a.reviewer]
    <2>1. chosen \in SUBSET {of[a] : a \in new}
      BY <1>6
    <2> HIDE DEF of, new
    <2> QED
      BY <1>5, <2>1, ImageBound
  <1>8. \A a \in new : /\ a \in Assignment /\ a.reviewer \in chosen /\ a.version = p.version
                       /\ a.status = "invited" /\ a.due = "later"
    BY <1>2, <1>3
  <1> HIDE DEF new
  <1> QED
    BY <1>1, <1>5, <1>7, <1>8

(* A matching that had somebody to ask for.                                *)
Round(p, prof) ==
  LET C == Candidates(p, prof) IN
  [Invite(p, Best(C, prof, Batch(p))) EXCEPT !.notice = NoticeAfter(p, C)]

LEMMA FillCases ==
  ASSUME NEW p, NEW prof
  PROVE  \/ Fill(p, prof) = p
         \/ /\ p.auto /\ p.status \in Live /\ Needed(p) <= 0
            /\ Fill(p, prof) = Refresh(Retire(p, Pending(p)))
         \/ /\ p.auto /\ p.status \in Live /\ ~(Needed(p) <= 0) /\ ~(Batch(p) <= 0)
            /\ Fill(p, prof) = Refresh(Round(p, prof))
PROOF
  BY DEF Fill, Round

LEMMA RoundFields ==
  ASSUME NEW p \in PaperType, NEW prof
  PROVE  LET C == Candidates(p, prof)
             chosen == Best(C, prof, Batch(p))
         IN  /\ Round(p, prof) \in PaperType
             /\ Round(p, prof).rows = p.rows \cup Invited(p, chosen)
             /\ Round(p, prof).used = p.used \cup chosen
             /\ Round(p, prof).version = p.version /\ Round(p, prof).status = p.status
             /\ Round(p, prof).required = p.required /\ Round(p, prof).auto = p.auto
             /\ Round(p, prof).notice = NoticeAfter(p, C)
PROOF
  <1> DEFINE C == Candidates(p, prof)
             chosen == Best(C, prof, Batch(p))
             new == Invited(p, chosen)
             notice == NoticeAfter(p, C)
  <1>1. chosen \in SUBSET Reviewers
    BY DEF Best, Candidates
  <1>2. notice \in BOOLEAN
    BY DEF NoticeAfter, PaperType
  <1>3. Round(p, prof) = [[p EXCEPT !.rows = p.rows \cup new, !.used = p.used \cup chosen]
                             EXCEPT !.notice = notice]
    BY DEF Round, Invite, Invited
  <1> HIDE DEF C, chosen
  <1>4. new \subseteq Assignment
    BY <1>1, NewRows
  <1> HIDE DEF new, notice
  <1>5. /\ Round(p, prof) \in PaperType
        /\ Round(p, prof).rows = p.rows \cup new /\ Round(p, prof).used = p.used \cup chosen
        /\ Round(p, prof).version = p.version /\ Round(p, prof).status = p.status
        /\ Round(p, prof).required = p.required /\ Round(p, prof).auto = p.auto
        /\ Round(p, prof).notice = notice
    BY <1>1, <1>2, <1>3, <1>4 DEF PaperType
  <1> QED
    BY <1>5 DEF C, chosen, new, notice

LEMMA FillIsTidy ==
  ASSUME NEW p \in PaperType, NEW prof, Tidy(p, prof)
  PROVE  Tidy(Fill(p, prof), prof)
PROOF
  <1> DEFINE C == Candidates(p, prof)
             chosen == Best(C, prof, Batch(p))
             retired == Retire(p, Pending(p))
  <1>1. /\ retired \in PaperType /\ retired.rows \subseteq p.rows
        /\ retired.version = p.version
    BY DEF Retire, PaperType
  <1> HIDE DEF retired
  <1>2. Tidy(Refresh(retired), prof)
    BY <1>1, RefreshFields, TidyRows
  <1>3. chosen \in SUBSET Reviewers /\ \A r \in chosen : ReviewerActive(prof, r)
    BY DEF Best, Candidates, ReviewerActive
  <1>4. /\ Round(p, prof) \in PaperType /\ Round(p, prof).version = p.version
        /\ Round(p, prof).rows = p.rows \cup Invited(p, chosen)
    BY RoundFields
  <1> HIDE DEF C, chosen
  <1>5. ASSUME NEW a \in Running(Round(p, prof))
        PROVE  ReviewerActive(prof, a.reviewer) /\ a.due \notin {"past", "soon"}
    <2>1. CASE a \in Invited(p, chosen)
      <3>1. a.reviewer \in chosen /\ a.due = "later"
        BY <1>3, <2>1, NewRows
      <3> QED
        BY <1>3, <3>1
    <2>2. CASE a \in p.rows
      <3>1. a \in Running(p)
        BY <1>4, <2>2 DEF Running, Current
      <3> QED
        BY <3>1 DEF Tidy
    <2> QED
      BY <1>4, <2>1, <2>2 DEF Running, Current
  <1>6. Tidy(Round(p, prof), prof)
    BY <1>5 DEF Tidy
  <1>7. Tidy(Refresh(Round(p, prof)), prof)
    BY <1>4, <1>6, RefreshFields, TidyRows
  <1> QED
    BY <1>2, <1>7, FillCases DEF retired

LEMMA PendingFinite ==
  ASSUME NEW p \in PaperType
  PROVE  IsFiniteSet(Pending(p)) /\ Cardinality(Pending(p)) \in Nat
PROOF
  <1>1. Pending(p) \in SUBSET Assignment
    BY SubsetsOfRows
  <1> QED
    BY <1>1, RowsFinite, FS_CardinalityType

(* Matching again after a round changes nothing: either enough were asked, *)
(* or everybody was, and then nobody is left and the notice was given.     *)
LEMMA RoundOnce ==
  ASSUME NEW p, NEW D, NEW upheld, Sound(p, D, upheld), NEW prof \in [Reviewers -> Profile],
         p.auto, p.status \in Live, ~(Needed(p) <= 0), ~(Batch(p) <= 0),
         Refresh(Round(p, prof)).status \in Live
  PROVE  Fill(Refresh(Round(p, prof)), prof) = Refresh(Round(p, prof))
PROOF
  <1> DEFINE C == Candidates(p, prof)
             n == Batch(p)
             chosen == Best(C, prof, n)
             new == Invited(p, chosen)
             once == Refresh(Round(p, prof))
  <1>1. /\ p \in PaperType /\ \A a \in p.rows : a.reviewer \in p.used /\ a.version = p.version
        /\ p.version \in Versions /\ p.required \in 1..3
    BY DEF Sound, PaperType
  <1>2. /\ Round(p, prof) \in PaperType /\ once \in PaperType
        /\ once.rows = p.rows \cup new /\ once.used = p.used \cup chosen
        /\ once.version = p.version /\ once.required = p.required /\ once.auto = p.auto
        /\ once.notice = NoticeAfter(p, C)
    <2> DEFINE round == Round(p, prof)
    <2>1. /\ round \in PaperType
          /\ round.rows = p.rows \cup new /\ round.used = p.used \cup chosen
          /\ round.version = p.version /\ round.required = p.required /\ round.auto = p.auto
          /\ round.notice = NoticeAfter(p, C)
      BY <1>1, RoundFields
    <2> HIDE DEF round, C, chosen, new
    <2>2. /\ Refresh(round) \in PaperType /\ Refresh(round).rows = round.rows
          /\ Refresh(round).used = round.used /\ Refresh(round).version = round.version
          /\ Refresh(round).required = round.required /\ Refresh(round).auto = round.auto
          /\ Refresh(round).notice = round.notice
      BY <2>1, RefreshFields
    <2>3. Round(p, prof) = round
      BY DEF round
    <2> QED
      BY <2>1, <2>2, <2>3
  <1>3. StageTrue(once) /\ Refresh(once) = once
    BY <1>2, RefreshIsTrue, TrueStageRests
  <1>4. C \in SUBSET Reviewers /\ C \cap p.used = {} /\ chosen \subseteq C
    BY DEF Candidates, Best
  <1>5. Candidates(once, prof) = C \ chosen
    <2> HIDE DEF chosen, once
    <2> QED
      BY <1>2 DEF Candidates
  <1>6. n \in Int /\ n > 0
    BY <1>1, SubsetsOfRows, PendingFinite DEF Batch, Needed
  <1> HIDE DEF C, n, chosen, once
  <1>7. /\ \A a \in new : a.reviewer \in chosen /\ a.version = p.version /\ a.status = "invited"
        /\ IsFiniteSet(new) /\ Cardinality(new) \in Nat
        /\ Cardinality(chosen) <= Cardinality(new)
    BY <1>1, <1>4, NewRows
  <1> HIDE DEF new
  <1>8. Occupied(once) = Occupied(p) /\ Pending(once) = Pending(p) \cup new
    BY <1>2, <1>7 DEF Occupied, Pending, Current
  <1>9. Pending(p) \cap new = {}
    BY <1>1, <1>4, <1>7 DEF Pending, Current
  <1>10. Needed(once) = Needed(p)
    BY <1>2, <1>8 DEF Needed
  <1>11. Cardinality(Pending(once)) = Cardinality(Pending(p)) + Cardinality(new)
    <2>1. /\ IsFiniteSet(Pending(p)) /\ IsFiniteSet(new) /\ Cardinality(Pending(p)) \in Nat
          /\ Cardinality(Pending(p) \cap new) = 0
      BY <1>1, <1>7, <1>9, PendingFinite, FS_EmptySet
    <2>2. Cardinality(Pending(p) \cup new)
            = Cardinality(Pending(p)) + Cardinality(new) - Cardinality(Pending(p) \cap new)
      BY <2>1, FS_Union
    <2> QED
      BY <1>7, <1>8, <2>1, <2>2
  <1>12. Batch(once) = n - Cardinality(new)
    BY <1>1, <1>7, <1>10, <1>11, PendingFinite, SubsetsOfRows DEF Batch, n, Needed
  <1>13. CASE Cardinality(new) >= n
    <2>1. Batch(once) <= 0
      BY <1>6, <1>7, <1>12, <1>13
    <2> QED
      BY <1>2, <1>10, <2>1 DEF Fill, once
  <1>14. CASE ~(Cardinality(new) >= n)
    <2>1. Cardinality(chosen) \in Nat
      BY <1>4, ConstantsAssumption, FS_Subset, FS_CardinalityType
    <2>2. chosen = C
      BY <1>4, <1>6, <1>7, <1>14, <2>1, BestIsEnough DEF chosen
    <2>3. Candidates(once, prof) = {} /\ Best({}, prof, Batch(once)) = {}
      BY <1>5, <2>2 DEF Best
    <2>4. Invite(once, {}) = once
      BY <1>2 DEF Invite, PaperType
    <2>5. NoticeAfter(once, {}) = once.notice
      <3>1. CASE Pending(once) = {}
        <4>1. Pending(p) = {} /\ new = {}
          BY <1>8, <3>1
        <4>2. C = {}
          BY <2>2, <4>1 DEF new, Invited
        <4> QED
          BY <1>2, <3>1, <4>1, <4>2 DEF NoticeAfter
      <3>2. CASE Pending(once) # {}
        BY <3>2 DEF NoticeAfter
      <3> QED
        BY <3>1, <3>2
    <2>6. Round(once, prof) = once
      BY <1>2, <2>3, <2>4, <2>5 DEF Round, PaperType
    <2>7. Fill(once, prof) = once
      <3>1. \/ Fill(once, prof) = once
            \/ Needed(once) <= 0
            \/ Fill(once, prof) = Refresh(Round(once, prof))
        BY FillCases
      <3> QED
        BY <1>3, <1>10, <2>6, <3>1
    <2> QED
      BY <2>7 DEF once
  <1> QED
    BY <1>13, <1>14 DEF once

(* Matching twice is matching once.                                        *)
LEMMA FillOnce ==
  ASSUME NEW p, NEW D, NEW upheld, Sound(p, D, upheld), NEW prof \in [Reviewers -> Profile],
         Fill(p, prof).status \in Live
  PROVE  Fill(Fill(p, prof), prof) = Fill(p, prof)
PROOF
  <1>1. p \in PaperType
    BY DEF Sound
  <1>2. CASE Fill(p, prof) = p
    BY <1>2
  <1>3. CASE /\ p.auto /\ p.status \in Live /\ Needed(p) <= 0
             /\ Fill(p, prof) = Refresh(Retire(p, Pending(p)))
    <2> DEFINE left == Retire(p, Pending(p))
               once == Refresh(left)
    <2>1. /\ left \in PaperType /\ left.rows = p.rows \ Pending(p) /\ left.version = p.version
          /\ left.required = p.required /\ left.auto = p.auto
      BY <1>1 DEF Retire, PaperType
    <2> HIDE DEF left
    <2>2. /\ once \in PaperType /\ once.rows = left.rows /\ once.version = p.version
          /\ once.required = p.required /\ once.auto = p.auto
      BY <2>1, RefreshFields
    <2>3. StageTrue(once) /\ Refresh(once) = once
      BY <2>1, <2>2, RefreshIsTrue, TrueStageRests
    <2>4. Fill(p, prof) = once
      BY <1>3 DEF left
    <2> HIDE DEF once
    <2>5. Occupied(once) = Occupied(p) /\ Pending(once) = {}
      BY <2>1, <2>2 DEF Occupied, Pending, Current
    <2>6. Needed(once) = Needed(p)
      BY <2>2, <2>5 DEF Needed
    <2>7. Retire(once, Pending(once)) = once
      BY <2>2, <2>5 DEF Retire, PaperType
    <2>8. Fill(once, prof) = once
      BY <1>3, <2>2, <2>3, <2>4, <2>6, <2>7 DEF Fill
    <2> QED
      BY <2>4, <2>8
  <1>4. CASE /\ p.auto /\ p.status \in Live /\ ~(Needed(p) <= 0) /\ ~(Batch(p) <= 0)
             /\ Fill(p, prof) = Refresh(Round(p, prof))
    BY <1>4, RoundOnce
  <1> QED
    BY <1>2, <1>3, <1>4, FillCases

(* Run twice in a row, the sweep changes nothing the second time: whatever *)
(* was overdue, ineligible or due for a reminder, and however the matching *)
(* had to choose, for any number of reviewers and any settings.            *)
THEOREM SweepsAreIdempotent == Spec => []SweepIsIdempotent
PROOF
  <1>1. IInv /\ SeatInv => SweepIsIdempotent
    <2> SUFFICES ASSUME IInv, SeatInv PROVE SweepIsIdempotent
      OBVIOUS
    <2> DEFINE once == Maintain(paper, profile)
    <2>1. /\ Sound(paper, decided, Upheld) /\ StageTrue(paper)
          /\ profile \in [Reviewers -> Profile]
      BY DEF IInv, SeatInv, TypeOK
    <2>2. /\ Sound(once, decided, Upheld) /\ StageTrue(once)
      BY <2>1, MaintainIsSound
    <2>3. once \in PaperType
      BY <2>2 DEF Sound
    <2>4. CASE once.status \notin Live
      BY <2>4 DEF SweepIsIdempotent, Maintain
    <2>5. CASE once.status \in Live /\ paper.status \notin Live
      BY <2>5 DEF Maintain
    <2>6. CASE once.status \in Live /\ paper.status \in Live
      <3>1. PICK q : /\ once = Fill(q, profile) /\ Tidy(q, profile) /\ StageTrue(q)
                     /\ Sound(q, decided, Upheld)
        BY <2>1, <2>6, SweptIsTidy
      <3>2. Tidy(once, profile)
        BY <3>1, FillIsTidy DEF Sound
      <3> HIDE DEF once
      <3>3. Maintain(once, profile) = Fill(once, profile)
        BY <2>2, <2>3, <2>6, <3>2, TidyIsOnlyFilled
      <3>4. Fill(once, profile) = once
        BY <2>1, <2>6, <3>1, FillOnce
      <3> QED
        BY <3>3, <3>4 DEF SweepIsIdempotent, once
    <2> QED
      BY <2>4, <2>5, <2>6
  <1> QED
    BY <1>1, Invariance, SeatInvariance, PTL
=============================================================================
