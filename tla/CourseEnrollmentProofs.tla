----------------------- MODULE CourseEnrollmentProofs ------------------------
(***************************************************************************)
(* Access to a course for any number of learners, batches and handlers:    *)
(* whoever holds a live subscription is enrolled, a request grants once,   *)
(* free terms stack only by overlap, a locked placement finds a seat.      *)
(***************************************************************************)
EXTENDS CourseEnrollment, FiniteSetTheorems, WellFoundedInduction, TLAPS

(* What a handler between two steps relies on for a learner it acts for.   *)
StepFits(step, l) ==
    /\ step \in {"check", "grant"} => Active(l)
    /\ step \in {"grant", "expire"} => Live(l) = {}
    /\ step \in {"approve", "reject"} => Pending(l)

GrantsFit(l) ==
    request[l] # NoRow => grants[l] = (IF request[l].status = "APPROVED" THEN 1 ELSE 0)

(* One handler at a time acts for the learner and finds what it relies on. *)
Good(l) ==
    /\ Live(l) # {} => Active(l)
    /\ GrantsFit(l)
    /\ \A t \in Handlers : l \in work[t].who => StepFits(work[t].step, l)
    /\ \A t, u \in Handlers : l \in work[t].who /\ l \in work[u].who => t = u

JobFits(job) ==
    /\ job.step \in {"check", "grant", "approve", "reject"} => \E l \in Learners : job.who = {l}
    /\ job.step = "move" => \A l \in job.who : enrollment[l] # NoRow

IInv ==
    /\ AccessTypeOK
    /\ \A t \in Handlers : JobFits(work[t])
    /\ \A l \in Alone : Good(l)

-----------------------------------------------------------------------------
(* Subscriptions and rows.                                                 *)

(* Of finitely long subscriptions one is the longest.                      *)
LEMMA LongestIsThere ==
    ASSUME NEW S \in SUBSET Subscription, S # {} PROVE Longest(S) \in S
<1> DEFINE Spent == {MaxLeft - s.left : s \in S}
           R == OpToRel(<, Nat)
<1>1. \A s \in S : s.left \in Nat /\ MaxLeft - s.left \in Nat
  BY EnrollmentAssumption DEF Subscription
<1>2. Spent \subseteq Nat /\ Spent # {} BY <1>1
<1>3. PICK x \in Spent : \A y \in Spent : ~(<<y, x>> \in R)
  <2> HIDE DEF Spent, R
  <2>1. IsWellFoundedOn(R, Nat) BY NatLessThanWellFounded DEF R
  <2> QED BY <1>2, <2>1, WFMin
<1>4. \A y \in Spent : ~(y < x)
  <2>1. \A a, b \in Nat : a < b => <<a, b>> \in R BY DEF OpToRel
  <2> QED BY <1>2, <1>3, <2>1
<1>5. PICK s \in S : x = MaxLeft - s.left OBVIOUS
<1>6. \A r \in S : r.left <= s.left
  <2>1. ASSUME NEW r \in S PROVE r.left <= s.left
    <3>1. MaxLeft - r.left \in Spent OBVIOUS
    <3>2. ~(MaxLeft - r.left < MaxLeft - s.left) BY <1>4, <1>5, <3>1
    <3> QED BY <1>1, <3>2, EnrollmentAssumption
  <2> QED BY <2>1
<1> QED BY <1>6 DEF Longest

LEMMA NewIsTyped == New \in Subscription
BY EnrollmentAssumption DEF New, Subscription

LEMMA ExtendIsTyped ==
    ASSUME AccessTypeOK, NEW l \in Learners PROVE CreateOrExtend(l) \in SUBSET Subscription
<1>1. subs[l] \in SUBSET Subscription BY DEF AccessTypeOK
<1>2. CASE Live(l) = {} BY <1>1, <1>2, NewIsTyped DEF CreateOrExtend
<1>3. CASE Live(l) # {}
  <2> DEFINE s == Longest(Live(l))
  <2>1. Live(l) \in SUBSET Subscription BY <1>1 DEF Live
  <2>2. s \in Live(l) BY <1>3, <2>1, LongestIsThere
  <2>3. s \in Subscription BY <2>1, <2>2
  <2>4. CreateOrExtend(l) = (subs[l] \ {s}) \cup {Longer(s)} BY <1>3 DEF CreateOrExtend
  <2> HIDE DEF s
  <2>5. Longer(s) \in Subscription
    BY <2>3, EnrollmentAssumption DEF Longer, Subscription
  <2> QED BY <1>1, <2>4, <2>5
<1> QED BY <1>2, <1>3

LEMMA RowsAreTyped ==
    ASSUME AccessTypeOK, NEW l \in Learners, NEW b \in Choice
    PROVE  /\ Enrolled(l, b) \in Enrollment /\ Enrolled(l, b).status = "ACTIVE"
           /\ Reassigned(l, b) \in Enrollment /\ Reassigned(l, b).status = "ACTIVE"
           /\ Decided("APPROVED") \in Request /\ Decided("REJECTED") \in Request
<1>1. enrollment[l] \in Enrollment \cup {NoRow} BY DEF AccessTypeOK
<1>2. enrollment[l] # NoRow => enrollment[l].batch \in Choice BY <1>1 DEF Enrollment
<1> QED BY <1>2 DEF Enrolled, Reassigned, Decided, Enrollment, Request, Choice

LEMMA WithStatus ==
    ASSUME NEW e \in Enrollment, NEW status \in {"ACTIVE", "REVOKED"}
    PROVE  \E f \in Enrollment :
              f = [e EXCEPT !.status = status] /\ f # NoRow /\ f.status = status
<1>1. [e EXCEPT !.status = status] \in Enrollment BY DEF Enrollment
<1>2. [e EXCEPT !.status = status].status = status BY DEF Enrollment
<1> QED BY <1>1, <1>2, NoRowIsNone

-----------------------------------------------------------------------------
(* What a step leaves alone.                                               *)

Same(l) == /\ enrollment'[l] = enrollment[l] /\ subs'[l] = subs[l]
           /\ request'[l] = request[l] /\ grants'[l] = grants[l]

RowsStay == \A l \in Learners : enrollment[l] # NoRow => enrollment'[l] # NoRow

LEMMA Unaffected ==
    ASSUME NEW l \in Learners, Good(l), Same(l),
           \A t \in Handlers : l \in work'[t].who => work'[t] = work[t]
    PROVE  Good(l)'
<1>1. /\ Live(l)' = Live(l)
      /\ Active(l)' <=> Active(l)
      /\ Pending(l)' <=> Pending(l)
      /\ GrantsFit(l)' <=> GrantsFit(l)
  BY DEF Same, Live, Active, Pending, GrantsFit
<1>2. (Live(l)' # {} => Active(l)') /\ GrantsFit(l)' BY <1>1 DEF Good
<1>3. ASSUME NEW t \in Handlers, l \in work'[t].who PROVE StepFits(work[t].step, l)'
  BY <1>1, <1>3 DEF Good, StepFits
<1> QED BY <1>2, <1>3 DEF Good

(* A learner with no handler, or with a new one only.                      *)
LEMMA Refreshed ==
    ASSUME NEW l \in Learners, (Live(l) # {} => Active(l))', GrantsFit(l)',
           NEW t \in Handlers, \A u \in Handlers \ {t} : l \notin work'[u].who,
           l \in work'[t].who => StepFits(work[t].step, l)'
    PROVE  Good(l)'
BY DEF Good

LEMMA NowQuiet ==
    ASSUME NEW l \in Learners, (Live(l) # {} => Active(l))', GrantsFit(l)',
           \A u \in Handlers : l \notin work'[u].who
    PROVE  Good(l)'
BY DEF Good

LEMMA Untouched ==
    ASSUME IInv, NEW who, Touch(who), NEW l \in Alone'
    PROVE  /\ l \in Learners /\ Good(l)
           /\ l \in who => \A t \in Handlers : l \notin work[t].who
BY DEF IInv, Alone, Touch, Busy

LEMMA StillAlone ==
    ASSUME IInv, UNCHANGED overlapped, NEW l \in Alone' PROVE l \in Learners /\ Good(l)
BY DEF IInv, Alone

LEMMA JobsStay ==
    ASSUME IInv, RowsStay, \A t \in Handlers : work'[t] = work[t] \/ JobFits(work[t])'
    PROVE  \A t \in Handlers : JobFits(work[t])'
<1>1. ASSUME NEW t \in Handlers, work'[t] = work[t] PROVE JobFits(work[t])'
  <2>1. JobFits(work[t]) /\ work[t].who \subseteq Learners
    BY DEF IInv, AccessTypeOK, Work, AtRest
  <2> QED BY <1>1, <2>1 DEF JobFits, RowsStay
<1> QED BY <1>1

-----------------------------------------------------------------------------
(* Steps that concern one learner.                                         *)

(* What the learner's own rows must fulfil after the step.                 *)
RowsFit(l) == (Live(l) # {} => Active(l)) /\ GrantsFit(l)

LEMMA OneChanges ==
    ASSUME IInv, AccessTypeOK', RowsStay, UNCHANGED work, NEW l \in Learners, Touch({l}),
           \A x \in Learners \ {l} : Same(x), Good(l) => RowsFit(l)'
    PROVE  IInv'
<1>1. \A t \in Handlers : JobFits(work[t])' BY JobsStay
<1>2. ASSUME NEW x \in Alone' PROVE Good(x)'
  <2>1. x \in Learners /\ Good(x) /\ (x = l => \A t \in Handlers : l \notin work[t].who)
    BY Untouched
  <2>2. CASE x = l BY <2>1, <2>2, NowQuiet DEF RowsFit
  <2>3. CASE x # l BY <2>1, <2>3, Unaffected
  <2> QED BY <2>2, <2>3
<1> QED BY <1>1, <1>2 DEF IInv

LEMMA OneStarts ==
    ASSUME IInv, AccessTypeOK', RowsStay, NEW t \in Handlers, NEW l \in Learners, NEW job,
           job.who = {l}, work' = [work EXCEPT ![t] = job], JobFits(job)', Touch({l}),
           \A x \in Learners \ {l} : Same(x),
           Good(l) => RowsFit(l)' /\ StepFits(job.step, l)'
    PROVE  IInv'
<1>1. work'[t] = job /\ \A u \in Handlers \ {t} : work'[u] = work[u]
  BY DEF IInv, AccessTypeOK
<1>2. \A u \in Handlers : JobFits(work[u])' BY <1>1, JobsStay
<1>3. ASSUME NEW x \in Alone' PROVE Good(x)'
  <2>1. x \in Learners /\ Good(x) /\ (x = l => \A u \in Handlers : l \notin work[u].who)
    BY Untouched
  <2>2. CASE x = l BY <1>1, <2>1, <2>2, Refreshed DEF RowsFit
  <2>3. CASE x # l BY <1>1, <2>1, <2>3, Unaffected
  <2> QED BY <2>2, <2>3
<1> QED BY <1>2, <1>3 DEF IInv

LEMMA OneProceeds ==
    ASSUME IInv, AccessTypeOK', RowsStay, UNCHANGED overlapped, NEW t \in Handlers,
           NEW l \in Learners, work[t].who = {l}, NEW job, job.who \subseteq {l},
           work' = [work EXCEPT ![t] = job], JobFits(job)', \A x \in Learners \ {l} : Same(x),
           Good(l) => RowsFit(l)' /\ (l \in job.who => StepFits(job.step, l)')
    PROVE  IInv'
<1>1. work'[t] = job /\ \A u \in Handlers \ {t} : work'[u] = work[u]
  BY DEF IInv, AccessTypeOK
<1>2. \A u \in Handlers : JobFits(work[u])' BY <1>1, JobsStay
<1>3. ASSUME NEW x \in Alone' PROVE Good(x)'
  <2>1. x \in Learners /\ Good(x) BY StillAlone
  <2>2. CASE x = l
    <3>1. \A u \in Handlers \ {t} : l \notin work[u].who BY <2>1, <2>2 DEF Good
    <3> QED BY <1>1, <2>1, <2>2, <3>1, Refreshed DEF RowsFit
  <2>3. CASE x # l BY <1>1, <2>1, <2>3, Unaffected
  <2> QED BY <2>2, <2>3
<1> QED BY <1>2, <1>3 DEF IInv

LEMMA RestFits == /\ AtRest \in Work \cup {AtRest} /\ AtRest.who = {}
                  /\ AtRest.step = "idle" /\ JobFits(AtRest)'
BY DEF AtRest, JobFits

(* A step that writes the row, the subscriptions or the request of one     *)
(* learner leaves the others' alone.                                       *)
LEMMA OneRow ==
    ASSUME IInv, NEW l \in Learners, NEW e \in Enrollment \cup {NoRow},
           NEW s \in SUBSET Subscription, NEW r \in Request \cup {NoRow}, NEW g \in 0..2,
           enrollment' = [enrollment EXCEPT ![l] = e], subs' = [subs EXCEPT ![l] = s],
           request' = [request EXCEPT ![l] = r], grants' = [grants EXCEPT ![l] = g],
           enrollment[l] # NoRow => e # NoRow
    PROVE  /\ \A x \in Learners \ {l} : Same(x)
           /\ enrollment'[l] = e /\ subs'[l] = s /\ request'[l] = r /\ grants'[l] = g
           /\ RowsStay
           /\ enrollment' \in [Learners -> Enrollment \cup {NoRow}]
           /\ subs' \in [Learners -> SUBSET Subscription]
           /\ request' \in [Learners -> Request \cup {NoRow}] /\ grants' \in [Learners -> 0..2]
BY DEF IInv, AccessTypeOK, Same, RowsStay

LEMMA Unwritten ==
    ASSUME IInv, NEW l \in Learners
    PROVE  /\ enrollment = [enrollment EXCEPT ![l] = enrollment[l]]
           /\ subs = [subs EXCEPT ![l] = subs[l]] /\ request = [request EXCEPT ![l] = request[l]]
           /\ grants = [grants EXCEPT ![l] = grants[l]]
           /\ enrollment[l] \in Enrollment \cup {NoRow} /\ subs[l] \in SUBSET Subscription
           /\ request[l] \in Request \cup {NoRow} /\ grants[l] \in 0..2
BY DEF IInv, AccessTypeOK

LEMMA TouchTyped == ASSUME IInv, NEW who \in SUBSET Learners, Touch(who)
                    PROVE  overlapped' \subseteq Learners
BY DEF IInv, AccessTypeOK, Touch

-----------------------------------------------------------------------------

LEMMA FreeEnrollKeeps ==
    ASSUME IInv, NEW t \in Handlers, NEW l \in Learners, FreeEnroll(t, l) PROVE IInv'
<1>1. PICK b \in Choice : enrollment' = [enrollment EXCEPT ![l] = Enrolled(l, b)]
  BY DEF FreeEnroll
<1> DEFINE job == [step |-> "check", who |-> {l}, batch |-> NoRow]
<1>2. /\ work' = [work EXCEPT ![t] = job] /\ Touch({l}) /\ UNCHANGED <<subs, request, grants>>
  BY DEF FreeEnroll, Start
<1>3. job \in Work /\ job.who = {l} /\ job.step = "check" /\ JobFits(job)'
  BY DEF Work, Choice, JobFits
<1> HIDE DEF job
<1>4. Enrolled(l, b) \in Enrollment /\ Enrolled(l, b).status = "ACTIVE" BY RowsAreTyped DEF IInv
<1> DEFINE e == Enrolled(l, b)
<1> HIDE DEF e
<1>5. /\ e \in Enrollment /\ e # NoRow /\ e.status = "ACTIVE"
      /\ enrollment' = [enrollment EXCEPT ![l] = e]
  BY <1>1, <1>4, NoRowIsNone DEF e
<1>6. /\ \A x \in Learners \ {l} : Same(x)
      /\ enrollment'[l] = e /\ subs'[l] = subs[l] /\ request'[l] = request[l]
      /\ grants'[l] = grants[l] /\ RowsStay
      /\ enrollment' \in [Learners -> Enrollment \cup {NoRow}]
  BY <1>2, <1>5 DEF IInv, AccessTypeOK, Same, RowsStay
<1>7. AccessTypeOK' BY <1>2, <1>3, <1>6, TouchTyped DEF IInv, AccessTypeOK
<1>8. Good(l) => RowsFit(l)' /\ StepFits(job.step, l)'
  BY <1>3, <1>5, <1>6 DEF RowsFit, StepFits, Active, Good, GrantsFit
<1> QED BY <1>2, <1>3, <1>6, <1>7, <1>8, OneStarts

LEMMA ReviewKeeps ==
    ASSUME IInv, NEW t \in Handlers, NEW l \in Learners, ReviewRequest(t, l) PROVE IInv'
<1>1. Pending(l) /\ Touch({l}) /\ UNCHANGED <<enrollment, subs, request, grants>>
  BY DEF ReviewRequest
<1>2. request[l].batch \in Choice BY <1>1 DEF IInv, AccessTypeOK, Pending, Request
<1>3. PICK step \in {"approve", "reject"}, b \in Choice : Start(t, step, {l}, b)
  BY <1>2 DEF ReviewRequest, Choice
<1> DEFINE job == [step |-> step, who |-> {l}, batch |-> b]
<1>4. work' = [work EXCEPT ![t] = job] BY <1>3 DEF Start
<1>5. job \in Work /\ job.who = {l} /\ job.step = step /\ JobFits(job)'
  BY DEF Work, JobFits
<1> HIDE DEF job
<1>6. \A x \in Learners : Same(x) BY <1>1 DEF Same
<1>7. AccessTypeOK' BY <1>1, <1>4, <1>5, TouchTyped DEF IInv, AccessTypeOK
<1>8. Good(l) => RowsFit(l)' /\ StepFits(job.step, l)'
  BY <1>1, <1>5, <1>6 DEF RowsFit, StepFits, Active, Live, Good, GrantsFit, Pending, Same
<1>9. RowsStay BY <1>1 DEF RowsStay
<1> QED BY <1>1, <1>4, <1>5, <1>6, <1>7, <1>8, <1>9, OneStarts

LEMMA CheckKeeps == ASSUME IInv, NEW t \in Handlers, CheckSubscription(t) PROVE IInv'
<1>0. PICK l \in Learners : work[t].who = {l} BY DEF IInv, JobFits, CheckSubscription
<1>1. work[t] \in Work /\ work[t].step = "check" BY DEF IInv, AccessTypeOK, AtRest, CheckSubscription
<1>2. UNCHANGED <<enrollment, subs, request, grants, overlapped>> BY DEF CheckSubscription
<1>3. RowsStay /\ \A x \in Learners : Same(x) BY <1>2 DEF RowsStay, Same
<1>4. Live(l)' = Live(l) /\ (Active(l)' <=> Active(l)) /\ (GrantsFit(l)' <=> GrantsFit(l))
  BY <1>2 DEF Live, Active, GrantsFit
<1>5. CASE Live(l) = {}
  <2>0. [work[t] EXCEPT !.step = "grant"] \in Work BY <1>1 DEF Work
  <2>a. PICK job \in Work : job = [work[t] EXCEPT !.step = "grant"] BY <2>0
  <2>1. work' = [work EXCEPT ![t] = job] BY <1>0, <1>5, <2>a DEF CheckSubscription
  <2>2. job \in Work /\ job.who = {l} /\ job.step = "grant" BY <1>0, <1>1, <2>a DEF Work
  <2>3. AccessTypeOK' BY <1>2, <2>1, <2>2 DEF IInv, AccessTypeOK
  <2>4. JobFits(job)' BY <2>2 DEF JobFits
  <2>5. Good(l) => RowsFit(l)' /\ StepFits(job.step, l)'
    BY <1>0, <1>1, <1>4, <1>5, <2>2 DEF Good, RowsFit, StepFits
  <2> QED BY <1>0, <1>2, <1>3, <2>1, <2>2, <2>3, <2>4, <2>5, OneProceeds
<1>6. CASE Live(l) # {}
  <2>1. work' = [work EXCEPT ![t] = AtRest] BY <1>0, <1>6 DEF CheckSubscription, Finish
  <2>2. AccessTypeOK' BY <1>2, <2>1 DEF IInv, AccessTypeOK
  <2>3. Good(l) => RowsFit(l)' BY <1>4 DEF Good, RowsFit
  <2> QED BY <1>0, <1>2, <1>3, <2>1, <2>2, <2>3, RestFits, OneProceeds
<1> QED BY <1>5, <1>6

LEMMA GrantKeeps == ASSUME IInv, NEW t \in Handlers, GrantFree(t) PROVE IInv'
<1>0. PICK l \in Learners : work[t].who = {l} BY DEF IInv, JobFits, GrantFree
<1>1. /\ subs' = [subs EXCEPT ![l] = CreateOrExtend(l)] /\ work' = [work EXCEPT ![t] = AtRest]
      /\ UNCHANGED <<enrollment, request, grants, overlapped>>
  BY <1>0 DEF GrantFree, Finish
<1>2. CreateOrExtend(l) \in SUBSET Subscription BY ExtendIsTyped DEF IInv
<1>3. /\ \A x \in Learners \ {l} : Same(x)
      /\ enrollment'[l] = enrollment[l] /\ request'[l] = request[l] /\ grants'[l] = grants[l]
      /\ RowsStay /\ subs' \in [Learners -> SUBSET Subscription]
  BY <1>1, <1>2 DEF IInv, AccessTypeOK, Same, RowsStay
<1>4. AccessTypeOK' BY <1>1, <1>3 DEF IInv, AccessTypeOK
<1>5. Good(l) => RowsFit(l)'
  BY <1>0, <1>3 DEF Good, RowsFit, StepFits, Active, GrantsFit, GrantFree
<1> QED BY <1>0, <1>1, <1>3, <1>4, <1>5, RestFits, OneProceeds

LEMMA ApproveKeeps == ASSUME IInv, NEW t \in Handlers, ApproveRequest(t) PROVE IInv'
<1>0. PICK l \in Learners : work[t].who = {l} BY DEF IInv, JobFits, ApproveRequest
<1>1. work[t] \in Work /\ work[t].step = "approve" BY DEF IInv, AccessTypeOK, AtRest, ApproveRequest
<1>2. work' = [work EXCEPT ![t] = AtRest] /\ UNCHANGED overlapped BY DEF ApproveRequest, Finish
<1> DEFINE b == work[t].batch
           e == Reassigned(l, b)
           g == IF grants[l] = 2 THEN 2 ELSE grants[l] + 1
           fits == FitsOnApproval(l, b)
<1>3. CASE fits
  <2>1. /\ enrollment' = [enrollment EXCEPT ![l] = e]
        /\ subs' = [subs EXCEPT ![l] = CreateOrExtend(l)]
        /\ request' = [request EXCEPT ![l] = Decided("APPROVED")]
        /\ grants' = [grants EXCEPT ![l] = g]
    BY <1>0, <1>3 DEF ApproveRequest
  <2>2. b \in Choice BY <1>1 DEF Work
  <2>3. /\ e \in Enrollment /\ e # NoRow /\ e.status = "ACTIVE"
        /\ Decided("APPROVED") \in Request /\ Decided("APPROVED").status = "APPROVED"
    BY <2>2, RowsAreTyped, NoRowIsNone DEF IInv, Decided
  <2>4. grants[l] \in 0..2 /\ g \in 0..2 BY Unwritten
  <2>5. CreateOrExtend(l) \in SUBSET Subscription BY ExtendIsTyped DEF IInv
  <2> HIDE DEF b, e, g
  <2>6. /\ \A x \in Learners \ {l} : Same(x)
        /\ enrollment'[l] = e /\ request'[l] = Decided("APPROVED") /\ grants'[l] = g /\ RowsStay
        /\ enrollment' \in [Learners -> Enrollment \cup {NoRow}]
        /\ subs' \in [Learners -> SUBSET Subscription]
        /\ request' \in [Learners -> Request \cup {NoRow}] /\ grants' \in [Learners -> 0..2]
    BY <2>1, <2>3, <2>4, <2>5, OneRow
  <2>7. AccessTypeOK' BY <1>2, <2>6 DEF IInv, AccessTypeOK
  <2>8. Good(l) => RowsFit(l)'
    <3>1. Good(l) => Pending(l) BY <1>0, <1>1 DEF Good, StepFits
    <3>2. Good(l) => grants[l] = 0 BY <3>1 DEF Good, GrantsFit, Pending
    <3>3. Active(l)' BY <2>3, <2>6 DEF Active
    <3>4. Good(l) => GrantsFit(l)' BY <2>3, <2>6, <3>2 DEF GrantsFit, g
    <3> QED BY <3>3, <3>4 DEF RowsFit
  <2> QED BY <1>0, <1>2, <2>6, <2>7, <2>8, RestFits, OneProceeds
<1>4. CASE ~fits
  <2>1. UNCHANGED <<enrollment, subs, request, grants>> BY <1>0, <1>4 DEF ApproveRequest
  <2>2. RowsStay /\ \A x \in Learners : Same(x) BY <2>1 DEF RowsStay, Same
  <2>3. AccessTypeOK' BY <1>2, <2>1 DEF IInv, AccessTypeOK
  <2>4. Good(l) => RowsFit(l)' BY <2>1 DEF Good, RowsFit, Live, Active, GrantsFit
  <2> HIDE DEF fits
  <2> QED BY <1>0, <1>2, <2>2, <2>3, <2>4, RestFits, OneProceeds
<1> QED BY <1>3, <1>4

LEMMA RejectKeeps == ASSUME IInv, NEW t \in Handlers, RejectRequest(t) PROVE IInv'
<1>0. PICK l \in Learners : work[t].who = {l} BY DEF IInv, JobFits, RejectRequest
<1>1. /\ request' = [request EXCEPT ![l] = Decided("REJECTED")]
      /\ work' = [work EXCEPT ![t] = AtRest] /\ work[t].step = "reject"
      /\ UNCHANGED <<enrollment, subs, grants, overlapped>>
  BY <1>0 DEF RejectRequest, Finish
<1>2. Decided("REJECTED") \in Request /\ Decided("REJECTED").status = "REJECTED"
  BY DEF Decided, Request, Choice
<1>3. /\ \A x \in Learners \ {l} : Same(x)
      /\ enrollment'[l] = enrollment[l] /\ subs'[l] = subs[l]
      /\ request'[l] = Decided("REJECTED") /\ grants'[l] = grants[l]
      /\ RowsStay /\ request' \in [Learners -> Request \cup {NoRow}]
  BY <1>1, <1>2 DEF IInv, AccessTypeOK, Same, RowsStay
<1>4. AccessTypeOK' BY <1>1, <1>3 DEF IInv, AccessTypeOK
<1>5. Good(l) => RowsFit(l)'
  <2>1. Good(l) => Pending(l) BY <1>0, <1>1 DEF Good, StepFits
  <2>2. Live(l)' = Live(l) /\ (Active(l)' <=> Active(l)) BY <1>3 DEF Live, Active
  <2> QED BY <1>2, <1>3, <2>1, <2>2 DEF Good, RowsFit, GrantsFit, Pending
<1> QED BY <1>0, <1>1, <1>3, <1>4, <1>5, RestFits, OneProceeds

LEMMA SelectKeeps == ASSUME IInv, NEW l \in Learners, SelectBatch(l) PROVE IInv'
<1>1. PICK b \in Batches : /\ Active(l) /\ Touch({l}) /\ UNCHANGED <<subs, request, grants, work>>
                           /\ enrollment' = [enrollment EXCEPT ![l].batch = b]
  BY DEF SelectBatch
<1>2. enrollment[l] \in Enrollment /\ enrollment[l].status = "ACTIVE"
  BY <1>1 DEF IInv, AccessTypeOK, Active
<1>3. PICK e \in Enrollment : e = [enrollment[l] EXCEPT !.batch = b] BY <1>2 DEF Enrollment, Choice
<1>4. e.status = "ACTIVE" /\ e # NoRow BY <1>2, <1>3, NoRowIsNone DEF Enrollment
<1>5. enrollment' = [enrollment EXCEPT ![l] = e] BY <1>1, <1>3
<1>6. /\ \A x \in Learners \ {l} : Same(x)
      /\ enrollment'[l] = e /\ subs'[l] = subs[l] /\ request'[l] = request[l]
      /\ grants'[l] = grants[l] /\ RowsStay
      /\ enrollment' \in [Learners -> Enrollment \cup {NoRow}]
  BY <1>1, <1>4, <1>5 DEF IInv, AccessTypeOK, Same, RowsStay
<1>7. AccessTypeOK' BY <1>1, <1>6, TouchTyped DEF IInv, AccessTypeOK
<1>8. Good(l) => RowsFit(l)' BY <1>4, <1>6 DEF RowsFit, Active, Good, GrantsFit
<1> QED BY <1>1, <1>6, <1>7, <1>8, OneChanges

LEMMA RequestKeeps == ASSUME IInv, NEW l \in Learners, RequestEnrollment(l) PROVE IInv'
<1>1. PICK r \in Request :
        /\ r.status = "PENDING" /\ request' = [request EXCEPT ![l] = r]
        /\ grants' = [grants EXCEPT ![l] = 0] /\ Touch({l}) /\ UNCHANGED <<enrollment, subs, work>>
  <2>1. PICK b \in Choice : /\ request' = [request EXCEPT ![l] = [status |-> "PENDING", batch |-> b]]
                            /\ grants' = [grants EXCEPT ![l] = 0] /\ Touch({l})
                            /\ UNCHANGED <<enrollment, subs, work>>
    BY DEF RequestEnrollment
  <2>2. [status |-> "PENDING", batch |-> b] \in Request BY DEF Request
  <2> QED BY <2>1, <2>2
<1>2. /\ \A x \in Learners \ {l} : Same(x)
      /\ enrollment'[l] = enrollment[l] /\ subs'[l] = subs[l] /\ request'[l] = r
      /\ grants'[l] = 0 /\ RowsStay
      /\ request' \in [Learners -> Request \cup {NoRow}] /\ grants' \in [Learners -> 0..2]
  BY <1>1 DEF IInv, AccessTypeOK, Same, RowsStay
<1>3. AccessTypeOK' BY <1>1, <1>2, TouchTyped DEF IInv, AccessTypeOK
<1>4. Good(l) => RowsFit(l)'
  <2>1. Live(l)' = Live(l) /\ (Active(l)' <=> Active(l)) BY <1>2 DEF Live, Active
  <2> QED BY <1>1, <1>2, <2>1 DEF RowsFit, Good, GrantsFit
<1> QED BY <1>1, <1>2, <1>3, <1>4, OneChanges

LEMMA AdminKeeps == ASSUME IInv, NEW l \in Learners, AdminEnroll(l) PROVE IInv'
<1>1. PICK b \in Choice : /\ enrollment' = [enrollment EXCEPT ![l] = Enrolled(l, b)]
                          /\ subs' = [subs EXCEPT ![l] = CreateOrExtend(l)]
                          /\ Touch({l}) /\ UNCHANGED <<request, grants, work>>
  BY DEF AdminEnroll
<1>2. PICK e \in Enrollment : e = Enrolled(l, b) /\ e.status = "ACTIVE" /\ e # NoRow
  BY RowsAreTyped, NoRowIsNone DEF IInv
<1>3. CreateOrExtend(l) \in SUBSET Subscription BY ExtendIsTyped DEF IInv
<1>4. /\ \A x \in Learners \ {l} : Same(x)
      /\ enrollment'[l] = e /\ request'[l] = request[l] /\ grants'[l] = grants[l] /\ RowsStay
      /\ enrollment' \in [Learners -> Enrollment \cup {NoRow}]
      /\ subs' \in [Learners -> SUBSET Subscription]
  BY <1>1, <1>2, <1>3 DEF IInv, AccessTypeOK, Same, RowsStay
<1>5. AccessTypeOK' BY <1>1, <1>4, TouchTyped DEF IInv, AccessTypeOK
<1>6. Good(l) => RowsFit(l)' BY <1>2, <1>4 DEF RowsFit, Active, Good, GrantsFit
<1> QED BY <1>1, <1>4, <1>5, <1>6, OneChanges

LEMMA RevokeKeeps == ASSUME IInv, NEW l \in Learners, Revoke(l) PROVE IInv'
<1>1. /\ enrollment[l] # NoRow /\ enrollment' = [enrollment EXCEPT ![l].status = "REVOKED"]
      /\ subs' = [subs EXCEPT ![l] = Cancelled(@)] /\ Touch({l})
      /\ UNCHANGED <<request, grants, work>>
  BY DEF Revoke
<1>2. enrollment[l] \in Enrollment /\ subs[l] \in SUBSET Subscription
  BY <1>1 DEF IInv, AccessTypeOK
<1>3. PICK e \in Enrollment : e = [enrollment[l] EXCEPT !.status = "REVOKED"] /\ e # NoRow
  BY <1>2, WithStatus
<1>4. /\ Cancelled(subs[l]) \in SUBSET Subscription
      /\ \A s \in Cancelled(subs[l]) : s.status # "ACTIVE"
  BY <1>2 DEF Cancelled, Subscription
<1>5. enrollment' = [enrollment EXCEPT ![l] = e] BY <1>1, <1>3
<1>6. /\ \A x \in Learners \ {l} : Same(x)
      /\ subs'[l] = Cancelled(subs[l]) /\ request'[l] = request[l]
      /\ grants'[l] = grants[l] /\ RowsStay
      /\ enrollment' \in [Learners -> Enrollment \cup {NoRow}]
      /\ subs' \in [Learners -> SUBSET Subscription]
  BY <1>1, <1>3, <1>4, <1>5 DEF IInv, AccessTypeOK, Same, RowsStay
<1>7. AccessTypeOK' BY <1>1, <1>6, TouchTyped DEF IInv, AccessTypeOK
<1>8. Good(l) => RowsFit(l)' BY <1>4, <1>6 DEF RowsFit, Live, Good, GrantsFit
<1> QED BY <1>1, <1>6, <1>7, <1>8, OneChanges

LEMMA ReactivateKeeps == ASSUME IInv, NEW l \in Learners, Reactivate(l) PROVE IInv'
<1> DEFINE again == {[s EXCEPT !.status = "ACTIVE"] : s \in subs[l]}
<1>1. /\ enrollment[l] # NoRow /\ enrollment' = [enrollment EXCEPT ![l].status = "ACTIVE"]
      /\ subs' = [subs EXCEPT ![l] = again] /\ Touch({l})
      /\ UNCHANGED <<request, grants, work>>
  BY DEF Reactivate
<1>2. enrollment[l] \in Enrollment /\ subs[l] \in SUBSET Subscription
  BY <1>1 DEF IInv, AccessTypeOK
<1>3. PICK e \in Enrollment : /\ e = [enrollment[l] EXCEPT !.status = "ACTIVE"] /\ e # NoRow
                              /\ e.status = "ACTIVE"
  BY <1>2, WithStatus
<1>4. again \in SUBSET Subscription BY <1>2 DEF Subscription
<1>5. enrollment' = [enrollment EXCEPT ![l] = e] BY <1>1, <1>3
<1> HIDE DEF again
<1>6. /\ \A x \in Learners \ {l} : Same(x)
      /\ enrollment'[l] = e /\ request'[l] = request[l] /\ grants'[l] = grants[l] /\ RowsStay
      /\ enrollment' \in [Learners -> Enrollment \cup {NoRow}]
      /\ subs' \in [Learners -> SUBSET Subscription]
  BY <1>1, <1>3, <1>4, <1>5 DEF IInv, AccessTypeOK, Same, RowsStay
<1>7. AccessTypeOK' BY <1>1, <1>6, TouchTyped DEF IInv, AccessTypeOK
<1>8. Good(l) => RowsFit(l)' BY <1>3, <1>6 DEF RowsFit, Active, Good, GrantsFit
<1> QED BY <1>1, <1>6, <1>7, <1>8, OneChanges

-----------------------------------------------------------------------------
(* Steps that concern several learners.                                    *)

(* A learner whose subscriptions at most run out.                          *)
Fades(l) == /\ UNCHANGED <<enrollment[l], request[l], grants[l]>>
            /\ Live(l) = {} => Live(l)' = {}

LEMMA FadedStays ==
    ASSUME NEW l \in Learners, Good(l), Fades(l),
           \A t \in Handlers : l \in work'[t].who => work'[t] = work[t]
    PROVE  Good(l)'
<1>1. /\ Active(l)' <=> Active(l)
      /\ Pending(l)' <=> Pending(l)
      /\ GrantsFit(l)' <=> GrantsFit(l)
  BY DEF Fades, Active, Pending, GrantsFit
<1>2. (Live(l)' # {} => Active(l)') /\ GrantsFit(l)' BY <1>1 DEF Good, Fades
<1>3. ASSUME NEW t \in Handlers, l \in work'[t].who PROVE StepFits(work[t].step, l)'
  BY <1>1, <1>3 DEF Good, StepFits, Fades
<1> QED BY <1>2, <1>3 DEF Good

LEMMA DetachKeeps == ASSUME IInv, NEW who \in SUBSET Learners, Detach(who) PROVE IInv'
<1>1. /\ \A l \in who : enrollment[l] # NoRow /\ enrollment[l] \in Enrollment
      /\ enrollment' = [l \in Learners |->
            IF l \in who THEN [enrollment[l] EXCEPT !.batch = NoRow] ELSE enrollment[l]]
      /\ Touch(who) /\ UNCHANGED <<subs, request, grants, work>>
  BY DEF Detach, IInv, AccessTypeOK
<1>2. \A l \in who : /\ enrollment'[l] \in Enrollment
                     /\ enrollment'[l].status = enrollment[l].status
  BY <1>1 DEF Enrollment, Choice
<1>3. \A l \in Learners \ who : enrollment'[l] = enrollment[l] BY <1>1
<1>4. RowsStay BY <1>1, <1>2, <1>3, NoRowIsNone DEF RowsStay
<1>5. enrollment' \in [Learners -> Enrollment \cup {NoRow}]
  <2>1. \A l \in Learners : enrollment'[l] \in Enrollment \cup {NoRow}
    BY <1>2, <1>3 DEF IInv, AccessTypeOK
  <2> QED BY <1>1, <2>1
<1>6. AccessTypeOK' BY <1>1, <1>5, TouchTyped DEF IInv, AccessTypeOK
<1>7. \A t \in Handlers : JobFits(work[t])' BY <1>1, <1>4, JobsStay
<1>8. ASSUME NEW l \in Alone' PROVE Good(l)'
  <2>1. l \in Learners /\ Good(l) /\ (l \in who => \A t \in Handlers : l \notin work[t].who)
    BY <1>1, Untouched
  <2>2. CASE l \in who
    <3>1. Live(l)' = Live(l) /\ (Active(l)' <=> Active(l)) /\ (GrantsFit(l)' <=> GrantsFit(l))
      BY <1>1, <1>2, <2>2, NoRowIsNone DEF Live, Active, GrantsFit
    <3> QED BY <1>1, <2>1, <2>2, <3>1, NowQuiet DEF Good
  <2>3. CASE l \notin who
    <3>1. Fades(l) BY <1>1, <1>3, <2>1, <2>3 DEF Fades, Live
    <3> QED BY <1>1, <2>1, <3>1, FadedStays
  <2> QED BY <2>2, <2>3
<1> QED BY <1>6, <1>7, <1>8 DEF IInv

(* A handler begins with a selection; no row is written yet.               *)
LEMMA ManyStart ==
    ASSUME IInv, NEW t \in Handlers, NEW who \in SUBSET Learners, Touch(who),
           NEW job \in Work, job.who = who, work' = [work EXCEPT ![t] = job], JobFits(job)',
           UNCHANGED <<enrollment, subs, request, grants>>,
           \A l \in who : StepFits(job.step, l)
    PROVE  IInv'
<1>1. work'[t] = job /\ \A u \in Handlers \ {t} : work'[u] = work[u]
  BY DEF IInv, AccessTypeOK
<1>2. \A u \in Handlers : JobFits(work[u])' BY <1>1, JobsStay DEF RowsStay
<1>3. AccessTypeOK' BY TouchTyped DEF IInv, AccessTypeOK
<1>4. ASSUME NEW l \in Alone' PROVE Good(l)'
  <2>1. l \in Learners /\ Good(l) /\ (l \in who => \A u \in Handlers : l \notin work[u].who)
    BY Untouched
  <2>2. /\ Live(l)' = Live(l) /\ (Active(l)' <=> Active(l)) /\ (Pending(l)' <=> Pending(l))
        /\ GrantsFit(l)' <=> GrantsFit(l)
    BY DEF Live, Active, Pending, GrantsFit
  <2>3. CASE l \in who
    <3>1. StepFits(work[t].step, l)' BY <1>1, <2>2, <2>3 DEF StepFits
    <3> QED BY <1>1, <2>1, <2>2, <2>3, <3>1, Refreshed DEF Good
  <2>4. CASE l \notin who BY <1>1, <2>1, <2>2, <2>4, FadedStays DEF Fades
  <2> QED BY <2>3, <2>4
<1> QED BY <1>2, <1>3, <1>4 DEF IInv

LEMMA MoveKeeps ==
    ASSUME IInv, NEW t \in Handlers, NEW who \in SUBSET Learners, MoveToBatch(t, who) PROVE IInv'
<1>1. PICK b \in Batches : /\ \A l \in who : enrollment[l] # NoRow
                           /\ Start(t, "move", who, b) /\ Touch(who)
                           /\ UNCHANGED <<enrollment, subs, request, grants>>
  BY DEF MoveToBatch
<1>2. [step |-> "move", who |-> who, batch |-> b] \in Work BY DEF Work, Choice
<1>3. PICK job \in Work : job = [step |-> "move", who |-> who, batch |-> b] BY <1>2
<1>4. job.who = who /\ job.step = "move" /\ work' = [work EXCEPT ![t] = job]
  BY <1>1, <1>3 DEF Start
<1>5. JobFits(job)' BY <1>1, <1>4 DEF JobFits
<1>6. \A l \in who : StepFits(job.step, l) BY <1>4 DEF StepFits
<1> QED BY <1>1, <1>4, <1>5, <1>6, ManyStart

LEMMA ExpireKeeps == ASSUME IInv, NEW t \in Handlers, ExpireSubscriptions(t) PROVE IInv'
<1>1. PICK who \in SUBSET Learners : who = ToRevoke BY DEF ToRevoke
<1>2. /\ Start(t, "expire", who, NoRow) /\ Touch(who)
      /\ UNCHANGED <<enrollment, subs, request, grants>>
  BY <1>1 DEF ExpireSubscriptions
<1>3. [step |-> "expire", who |-> who, batch |-> NoRow] \in Work BY DEF Work, Choice
<1>4. PICK job \in Work : job = [step |-> "expire", who |-> who, batch |-> NoRow] BY <1>3
<1>5. job.who = who /\ job.step = "expire" /\ work' = [work EXCEPT ![t] = job]
  BY <1>2, <1>4 DEF Start
<1>6. JobFits(job)' BY <1>5 DEF JobFits
<1>7. \A l \in who : StepFits(job.step, l) BY <1>1, <1>5 DEF StepFits, ToRevoke
<1> QED BY <1>2, <1>5, <1>6, <1>7, ManyStart

(* A handler that is done or dead acts for nobody.                         *)
LEMMA Rested ==
    ASSUME IInv, NEW t \in Handlers, Finish(t)
    PROVE  /\ work' \in [Handlers -> Work \cup {AtRest}]
           /\ \A u \in Handlers : work'[u] = work[u] \/ JobFits(work[u])'
           /\ \A u \in Handlers : work'[u].who # {} => u # t /\ work'[u] = work[u]
BY RestFits DEF IInv, AccessTypeOK, Finish

LEMMA FinishMoveKeeps == ASSUME IInv, NEW t \in Handlers, FinishMove(t) PROVE IInv'
<1> DEFINE who == work[t].who
           b == work[t].batch
<1>1. /\ work[t].step = "move" /\ Finish(t) /\ UNCHANGED <<subs, request, grants, overlapped>>
      /\ enrollment' = [l \in Learners |->
            IF l \in who THEN [enrollment[l] EXCEPT !.batch = b] ELSE enrollment[l]]
  BY DEF FinishMove
<1>2. b \in Choice /\ who \subseteq Learners BY <1>1 DEF IInv, AccessTypeOK, Work, AtRest
<1>3. \A l \in who : enrollment[l] # NoRow /\ enrollment[l] \in Enrollment
  BY <1>1, <1>2 DEF IInv, AccessTypeOK, JobFits
<1>4. \A l \in who : /\ enrollment'[l] \in Enrollment
                     /\ enrollment'[l].status = enrollment[l].status
  BY <1>1, <1>2, <1>3 DEF Enrollment
<1>5. \A l \in Learners \ who : enrollment'[l] = enrollment[l] BY <1>1
<1> HIDE DEF who, b
<1>6. RowsStay BY <1>2, <1>4, <1>5, NoRowIsNone DEF RowsStay
<1>7. enrollment' \in [Learners -> Enrollment \cup {NoRow}]
  <2>1. \A l \in Learners : enrollment'[l] \in Enrollment \cup {NoRow}
    BY <1>4, <1>5 DEF IInv, AccessTypeOK
  <2> QED BY <1>1, <2>1
<1>8. AccessTypeOK' BY <1>1, <1>7, Rested DEF IInv, AccessTypeOK
<1>9. \A u \in Handlers : JobFits(work[u])' BY <1>1, <1>6, Rested, JobsStay
<1>10. ASSUME NEW l \in Alone' PROVE Good(l)'
  <2>1. l \in Learners /\ Good(l) BY <1>1, StillAlone
  <2>2. /\ Live(l)' = Live(l) /\ (Active(l)' <=> Active(l)) /\ (GrantsFit(l)' <=> GrantsFit(l))
        /\ Pending(l)' <=> Pending(l)
    BY <1>1, <1>3, <1>4, <1>5, <2>1, NoRowIsNone DEF Live, Active, GrantsFit, Pending
  <2>3. \A u \in Handlers : l \in work'[u].who => work'[u] = work[u] BY <1>1, Rested
  <2>4. ASSUME NEW u \in Handlers, l \in work'[u].who PROVE StepFits(work[u].step, l)'
    BY <2>1, <2>2, <2>3, <2>4 DEF Good, StepFits
  <2> QED BY <2>1, <2>2, <2>3, <2>4 DEF Good
<1> QED BY <1>8, <1>9, <1>10 DEF IInv

LEMMA FinishExpiryKeeps == ASSUME IInv, NEW t \in Handlers, FinishExpiry(t) PROVE IInv'
<1> DEFINE who == work[t].who
<1>1. /\ work[t].step = "expire" /\ Finish(t) /\ UNCHANGED <<request, grants, overlapped>>
      /\ subs' = [l \in Learners |-> subs[l] \ Lapsed(l)]
      /\ enrollment' = [l \in Learners |->
            IF l \in who /\ Active(l) THEN [enrollment[l] EXCEPT !.status = "REVOKED"]
            ELSE enrollment[l]]
  BY DEF FinishExpiry
<1>2. \A l \in Learners : Active(l) => enrollment[l] \in Enrollment
  BY DEF IInv, AccessTypeOK, Active
<1>3. \A l \in Learners : Active(l) => [enrollment[l] EXCEPT !.status = "REVOKED"] \in Enrollment
  BY <1>2 DEF Enrollment
<1>4. \A l \in Learners : /\ enrollment'[l] \in Enrollment \/ enrollment'[l] = enrollment[l]
                          /\ l \notin who => enrollment'[l] = enrollment[l]
                          /\ subs'[l] = subs[l] \ Lapsed(l)
  BY <1>1, <1>3
<1> HIDE DEF who
<1>5. RowsStay BY <1>4, NoRowIsNone DEF RowsStay
<1>6. /\ enrollment' \in [Learners -> Enrollment \cup {NoRow}]
      /\ subs' \in [Learners -> SUBSET Subscription]
  <2>1. \A l \in Learners : enrollment'[l] \in Enrollment \cup {NoRow}
    BY <1>4 DEF IInv, AccessTypeOK
  <2>2. \A l \in Learners : subs'[l] \in SUBSET Subscription BY <1>4 DEF IInv, AccessTypeOK
  <2> QED BY <1>1, <2>1, <2>2
<1>7. AccessTypeOK' BY <1>1, <1>6, Rested DEF IInv, AccessTypeOK
<1>8. \A u \in Handlers : JobFits(work[u])' BY <1>1, <1>5, Rested, JobsStay
<1>9. ASSUME NEW l \in Alone' PROVE Good(l)'
  <2>1. l \in Learners /\ Good(l) BY <1>1, StillAlone
  <2>2. Live(l)' = Live(l) BY <1>4, <2>1 DEF Live, Lapsed
  <2>3. GrantsFit(l)' <=> GrantsFit(l) BY <1>1 DEF GrantsFit
  <2>4. \A u \in Handlers : l \in work'[u].who => u # t /\ work'[u] = work[u] BY <1>1, Rested
  <2>5. CASE l \in who
    <3>1. Live(l) = {} BY <1>1, <2>1, <2>5 DEF Good, StepFits, who
    <3>2. \A u \in Handlers : l \notin work'[u].who BY <2>1, <2>4, <2>5 DEF Good, who
    <3> QED BY <2>1, <2>2, <2>3, <3>1, <3>2, NowQuiet DEF Good
  <2>6. CASE l \notin who
    <3>1. Fades(l) BY <1>1, <1>4, <2>1, <2>2, <2>6 DEF Fades
    <3> QED BY <2>1, <2>4, <3>1, FadedStays
  <2> QED BY <2>5, <2>6
<1> QED BY <1>7, <1>8, <1>9 DEF IInv

LEMMA DayKeeps == ASSUME IInv, DayPasses PROVE IInv'
<1>1. /\ subs' = [l \in Learners |-> Aged(subs[l]) \cup Lapsed(l)]
      /\ UNCHANGED <<enrollment, request, grants, work, overlapped>>
  BY DEF DayPasses
<1>2. ASSUME NEW l \in Learners PROVE subs'[l] \in SUBSET Subscription /\ Fades(l)
  <2>1. subs[l] \in SUBSET Subscription /\ subs'[l] = Aged(subs[l]) \cup Lapsed(l)
    BY <1>1 DEF IInv, AccessTypeOK
  <2>2. ASSUME NEW a \in Aged(subs[l])
        PROVE  a \in Subscription /\ (Live(l) = {} => a.status # "ACTIVE")
    <3>1. PICK s \in subs[l] : a = [s EXCEPT !.left = s.left - 1] /\ s.left > 0 BY DEF Aged
    <3>2. s \in Subscription BY <2>1
    <3>3. a \in Subscription /\ a.status = s.status
      BY <3>1, <3>2, EnrollmentAssumption DEF Subscription
    <3> QED BY <3>1, <3>3 DEF Live
  <2>3. Live(l) = {} => Live(l)' = {} BY <2>1, <2>2 DEF Live, Lapsed
  <2> QED BY <1>1, <2>1, <2>2, <2>3 DEF Fades, Lapsed
<1>3. AccessTypeOK' BY <1>1, <1>2 DEF IInv, AccessTypeOK
<1>4. \A t \in Handlers : JobFits(work[t])' BY <1>1, JobsStay DEF RowsStay
<1>5. ASSUME NEW l \in Alone' PROVE Good(l)'
  <2>1. l \in Learners /\ Good(l) BY <1>1, StillAlone
  <2> QED BY <1>1, <1>2, <2>1, FadedStays
<1> QED BY <1>3, <1>4, <1>5 DEF IInv

LEMMA DeathKeeps == ASSUME IInv, NEW t \in Handlers, HandlerDies(t) PROVE IInv'
<1>1. Finish(t) /\ UNCHANGED <<enrollment, subs, request, grants, overlapped>> BY DEF HandlerDies
<1>2. AccessTypeOK' BY <1>1, Rested DEF IInv, AccessTypeOK
<1>3. \A u \in Handlers : JobFits(work[u])' BY <1>1, Rested, JobsStay DEF RowsStay
<1>4. ASSUME NEW l \in Alone' PROVE Good(l)'
  <2>1. l \in Learners /\ Good(l) BY <1>1, StillAlone
  <2>2. Fades(l) BY <1>1 DEF Fades, Live
  <2>3. \A u \in Handlers : l \in work'[u].who => work'[u] = work[u] BY <1>1, Rested
  <2> QED BY <2>1, <2>2, <2>3, FadedStays
<1> QED BY <1>2, <1>3, <1>4 DEF IInv

LEMMA AccessInitFits == AccessInit => IInv
<1> SUFFICES ASSUME AccessInit PROVE IInv OBVIOUS
<1>1. AccessTypeOK BY DEF AccessInit, AccessTypeOK
<1>2. \A t \in Handlers : JobFits(work[t]) BY DEF AccessInit, JobFits, AtRest
<1>3. \A l \in Alone : Good(l)
  BY DEF AccessInit, Alone, Good, Live, GrantsFit, AtRest
<1> QED BY <1>1, <1>2, <1>3 DEF IInv

LEMMA StutterKeeps == IInv /\ UNCHANGED accessVars => IInv'
<1> SUFFICES ASSUME IInv, UNCHANGED accessVars PROVE IInv' OBVIOUS
<1>1. AccessTypeOK' BY DEF IInv, accessVars, AccessTypeOK
<1>2. \A t \in Handlers : JobFits(work[t])' BY DEF IInv, accessVars, JobFits
<1>3. ASSUME NEW l \in Alone' PROVE Good(l)'
  <2>1. l \in Learners /\ Good(l) BY StillAlone DEF accessVars
  <2> QED BY <2>1, FadedStays DEF accessVars, Fades, Live
<1> QED BY <1>1, <1>2, <1>3 DEF IInv

-----------------------------------------------------------------------------

(* The access invariant holds throughout, however many learners, batches   *)
(* and handlers there are.                                                 *)
THEOREM AccessInvariance == AccessSpec => []IInv
<1>1. ASSUME IInv, NEW t \in Handlers, Undertake(t) PROVE IInv'
  BY <1>1, FreeEnrollKeeps, ReviewKeeps, MoveKeeps, ExpireKeeps DEF Undertake
<1>2. ASSUME IInv, NEW t \in Handlers, Proceed(t) PROVE IInv'
  BY <1>2, CheckKeeps, GrantKeeps, ApproveKeeps, RejectKeeps, FinishMoveKeeps,
     FinishExpiryKeeps DEF Proceed
<1>3. IInv /\ AccessNext => IInv'
  BY <1>1, <1>2, DeathKeeps, SelectKeeps, RequestKeeps, AdminKeeps, RevokeKeeps,
     ReactivateKeeps, DetachKeeps, DayKeeps DEF AccessNext
<1> QED BY <1>3, AccessInitFits, StutterKeeps, PTL DEF AccessSpec

(* Whoever holds a live subscription is enrolled, and a decided request    *)
(* granted one term or none.                                               *)
THEOREM AccessIsSafe == AccessSpec => []AccessInv
<1>1. IInv => AccessInv
  BY DEF IInv, AccessInv, AccessAgrees, RequestGrantsOnce, Good, GrantsFit
<1> QED BY <1>1, AccessInvariance, PTL

-----------------------------------------------------------------------------
(* Terms and seats.                                                        *)

(* A handler that holds a grant ends by granting or by dying.              *)
LEMMA GrantOrDie ==
    ASSUME IInv, AccessNext, NEW t \in Handlers, work[t].step = "grant", work'[t] = AtRest
    PROVE  GrantFree(t) \/ UNCHANGED subs
<1>1. work[t] # AtRest BY DEF AtRest
<1>2. \A u \in Handlers : Finish(u) => u = t BY <1>1 DEF Finish, IInv, AccessTypeOK
<1>3. ASSUME NEW u \in Handlers, Undertake(u) PROVE UNCHANGED subs
  BY <1>3 DEF Undertake, FreeEnroll, ReviewRequest, MoveToBatch, ExpireSubscriptions
<1>4. ASSUME NEW u \in Handlers, Proceed(u) PROVE GrantFree(t) \/ UNCHANGED subs
  <2>1. CASE CheckSubscription(u) BY <2>1 DEF CheckSubscription
  <2>2. CASE GrantFree(u) BY <1>2, <2>2 DEF GrantFree
  <2>3. ApproveRequest(u) \/ RejectRequest(u) \/ FinishMove(u) \/ FinishExpiry(u)
          => Finish(u) /\ work[u].step # "grant"
    BY DEF ApproveRequest, RejectRequest, FinishMove, FinishExpiry
  <2> QED BY <1>2, <1>4, <2>1, <2>2, <2>3 DEF Proceed
<1>5. ASSUME NEW u \in Handlers, HandlerDies(u) PROVE UNCHANGED subs BY <1>5 DEF HandlerDies
<1>6. work' # work BY <1>1
<1>7. ASSUME NEW l \in Learners,
             SelectBatch(l) \/ RequestEnrollment(l) \/ AdminEnroll(l) \/ Revoke(l) \/ Reactivate(l)
      PROVE  FALSE
  BY <1>6, <1>7 DEF SelectBatch, RequestEnrollment, AdminEnroll, Revoke, Reactivate
<1>8. ~DayPasses /\ \A who : ~Detach(who) BY <1>6 DEF DayPasses, Detach
<1> QED BY <1>3, <1>4, <1>5, <1>7, <1>8 DEF AccessNext

(* A free grant is added to a running subscription only of a learner two   *)
(* of whose handlers overlapped (payment_views.py, FreeEnrollView).        *)
THEOREM FreeTermsStackOnlyByOverlap == AccessSpec => StacksOnlyByOverlap
<1> DEFINE Step == subs' # subs =>
             \A t \in Handlers :
               GrantsFreely(t) => \A l \in work[t].who \cap Alone :
                 \A s \in subs'[l] \ subs[l] : s.left <= Term
<1>1. IInv /\ AccessNext => Step
  <2> SUFFICES ASSUME IInv, AccessNext, subs' # subs, NEW t \in Handlers,
                      GrantsFreely(t),
                      NEW l \in work[t].who \cap Alone, NEW s \in subs'[l] \ subs[l]
               PROVE  s.left <= Term
    OBVIOUS
  <2>0. work[t].step = "grant" /\ work'[t] = AtRest BY DEF GrantsFreely
  <2>1. GrantFree(t) BY <2>0, GrantOrDie
  <2>2. Live(l) = {} BY <2>0 DEF IInv, Good, StepFits, Alone
  <2>3. PICK m \in Learners : work[t].who = {m} BY <2>0 DEF IInv, JobFits
  <2>4. m = l /\ subs' = [subs EXCEPT ![l] = CreateOrExtend(l)] BY <2>1, <2>3 DEF GrantFree
  <2>5. subs'[l] = subs[l] \cup {New} BY <2>2, <2>4 DEF IInv, AccessTypeOK, CreateOrExtend
  <2>6. s = New BY <2>5
  <2> QED BY <2>6, EnrollmentAssumption DEF New
<1>2. UNCHANGED accessVars => Step BY DEF accessVars
<1> QED BY <1>1, <1>2, AccessInvariance, PTL DEF AccessSpec, StacksOnlyByOverlap

(* One learner more takes at most one seat more.                           *)
LEMMA OneSeat ==
    ASSUME NEW l \in Learners, NEW b \in Batches, ~IsFull(b),
           \A x \in Learners \ {l} : enrollment'[x] = enrollment[x]
    PROVE  Capacity[b] = NoRow \/ SeatsTaken(b)' <= Capacity[b]
<1> DEFINE S == {x \in Learners : Active(x) /\ InBatch(x, b)}
           T == {x \in Learners : Active(x)' /\ InBatch(x, b)'}
<1>1. SeatsTaken(b) = Cardinality(S) /\ SeatsTaken(b)' = Cardinality(T) BY DEF SeatsTaken
<1>2. T \subseteq S \cup {l} BY DEF Active, InBatch
<1>3. IsFiniteSet(S) /\ Cardinality(S) \in Nat
  BY EnrollmentAssumption, FS_Subset, FS_CardinalityType
<1> HIDE DEF S, T
<1>4. IsFiniteSet(S \cup {l}) /\ Cardinality(S \cup {l}) \in Nat
      /\ Cardinality(S \cup {l}) <= Cardinality(S) + 1
  BY <1>3, FS_AddElement
<1>5. IsFiniteSet(T) /\ Cardinality(T) \in Nat /\ Cardinality(T) <= Cardinality(S \cup {l})
  BY <1>2, <1>4, FS_Subset, FS_CardinalityType
<1>6. Capacity[b] # NoRow => Capacity[b] \in Nat /\ Cardinality(S) < Capacity[b]
  BY <1>1, <1>3, EnrollmentAssumption DEF IsFull
<1> QED BY <1>1, <1>3, <1>4, <1>5, <1>6

(* Whoever enters a batch without being moved has found it not full.       *)
LEMMA EntersWithRoom ==
    ASSUME IInv, AccessNext, ~Moving, NEW l \in Learners, NEW b \in Batches,
           ~InBatch(l, b), InBatch(l, b)'
    PROVE  ~IsFull(b) /\ \A x \in Learners \ {l} : enrollment'[x] = enrollment[x]
<1> DEFINE Found == ~IsFull(b) /\ \A x \in Learners \ {l} : enrollment'[x] = enrollment[x]
<1>1. b # NoRow /\ enrollment \in [Learners -> Enrollment \cup {NoRow}]
  BY EnrollmentAssumption DEF IInv, AccessTypeOK
<1>2. enrollment'[l] # NoRow /\ enrollment'[l].batch = b /\ enrollment'[l] # enrollment[l]
  BY DEF InBatch
<1>3. ASSUME NEW m \in Learners, NEW c \in Choice, ValidChoice(c),
             enrollment' = [enrollment EXCEPT ![m] = Enrolled(m, c)]
      PROVE  Found
  <2>1. m = l BY <1>1, <1>2, <1>3
  <2>2. enrollment'[l] = Enrolled(l, c) BY <1>1, <1>3, <2>1
  <2>3. c = b BY <1>1, <1>2, <2>2 DEF Enrolled, InBatch
  <2> QED BY <1>1, <1>3, <2>1, <2>3 DEF ValidChoice
<1>4. ASSUME NEW m \in Learners, SelectBatch(m) PROVE Found
  <2>1. PICK c \in Batches : /\ ValidChoice(c) /\ Active(m)
                             /\ enrollment' = [enrollment EXCEPT ![m].batch = c]
    BY <1>4 DEF SelectBatch
  <2>2. m = l BY <1>1, <1>2, <2>1
  <2>3. enrollment[l] \in Enrollment BY <1>1, <2>1, <2>2 DEF Active
  <2>4. c = b BY <1>1, <1>2, <2>1, <2>2, <2>3 DEF Enrollment
  <2> QED BY <1>1, <2>1, <2>2, <2>4 DEF ValidChoice
<1>5. ASSUME NEW t \in Handlers, ApproveRequest(t) PROVE Found
  <2>1. PICK m \in Learners : work[t].who = {m} BY <1>5 DEF IInv, JobFits, ApproveRequest
  <2> DEFINE c == work[t].batch
  <2>2. FitsOnApproval(m, c) /\ enrollment' = [enrollment EXCEPT ![m] = Reassigned(m, c)]
    BY <1>2, <1>5, <2>1 DEF ApproveRequest
  <2>3. m = l BY <1>1, <1>2, <2>2
  <2>4. enrollment'[l] = Reassigned(l, c) BY <1>1, <2>2, <2>3
  <2> HIDE DEF c
  <2>5. c = b BY <1>1, <1>2, <2>4 DEF Reassigned, InBatch
  <2>6. ~IsFull(b) BY <1>1, <2>2, <2>3, <2>5 DEF FitsOnApproval
  <2> QED BY <1>1, <2>2, <2>3, <2>6
<1>6. ASSUME NEW t \in Handlers, FinishMove(t) PROVE FALSE
  BY <1>6 DEF FinishMove, Finish, Moving, IInv, AccessTypeOK
<1>7. ASSUME NEW t \in Handlers, FinishExpiry(t) PROVE FALSE
  <2>1. Active(l) /\ enrollment'[l] = [enrollment[l] EXCEPT !.status = "REVOKED"]
    BY <1>2, <1>7 DEF FinishExpiry
  <2>2. enrollment[l] \in Enrollment BY <1>1, <2>1 DEF Active
  <2> QED BY <1>2, <2>1, <2>2 DEF Enrollment, InBatch, Active
<1>8. ASSUME NEW m \in Learners, Revoke(m) \/ Reactivate(m) PROVE FALSE
  <2>1. PICK status \in {"ACTIVE", "REVOKED"} :
          enrollment[m] # NoRow /\ enrollment' = [enrollment EXCEPT ![m].status = status]
    BY <1>8 DEF Revoke, Reactivate
  <2>2. m = l BY <1>1, <1>2, <2>1
  <2>3. enrollment[l] \in Enrollment BY <1>1, <2>1, <2>2
  <2> QED BY <1>1, <1>2, <2>1, <2>2, <2>3 DEF Enrollment, InBatch
<1>9. ASSUME NEW who, Detach(who) PROVE FALSE
  <2>1. l \in who /\ enrollment'[l] = [enrollment[l] EXCEPT !.batch = NoRow]
        /\ enrollment[l] # NoRow
    BY <1>2, <1>9 DEF Detach
  <2>2. enrollment[l] \in Enrollment BY <1>1, <2>1
  <2> QED BY <1>1, <1>2, <2>1, <2>2 DEF Enrollment
<1>10. ASSUME NEW t \in Handlers, Undertake(t) PROVE Found
  <2>1. CASE \E m \in Learners : FreeEnroll(t, m) BY <1>3, <2>1 DEF FreeEnroll
  <2>2. CASE UNCHANGED enrollment BY <1>2, <2>2
  <2> QED BY <1>10, <2>1, <2>2 DEF Undertake, ReviewRequest, MoveToBatch, ExpireSubscriptions
<1>11. ASSUME NEW t \in Handlers, Proceed(t) PROVE Found
  <2>1. CASE UNCHANGED enrollment BY <1>2, <2>1
  <2> QED BY <1>5, <1>6, <1>7, <1>11, <2>1 DEF Proceed, CheckSubscription, GrantFree, RejectRequest
<1>12. ASSUME NEW m \in Learners, AdminEnroll(m) PROVE Found BY <1>3, <1>12 DEF AdminEnroll
<1>13. ASSUME UNCHANGED enrollment PROVE FALSE BY <1>2, <1>13
<1> HIDE DEF Found
<1>14. Found
  BY <1>4, <1>8, <1>9, <1>10, <1>11, <1>12, <1>13
  DEF AccessNext, HandlerDies, RequestEnrollment, DayPasses
<1> QED BY <1>14 DEF Found

(* Whoever enters a batch by enrolling, choosing or being approved finds a *)
(* seat, however many batches and learners there are.                      *)
THEOREM LockedPlacementsHaveSeats == AccessSpec => LockedPlacementsFit
<1> DEFINE Step == enrollment' # enrollment /\ ~Moving =>
             \A l \in Learners, b \in Batches :
               ~InBatch(l, b) /\ InBatch(l, b)'
                 => Capacity[b] = NoRow \/ SeatsTaken(b)' <= Capacity[b]
<1>1. IInv /\ AccessNext => Step BY EntersWithRoom, OneSeat
<1>2. UNCHANGED accessVars => Step BY DEF accessVars
<1> QED BY <1>1, <1>2, AccessInvariance, PTL DEF AccessSpec, LockedPlacementsFit
=============================================================================
