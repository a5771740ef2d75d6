-------------------------- MODULE CourseEnrollment --------------------------
(***************************************************************************)
(* Access to one course (enrollments/): the enrollment of each learner     *)
(* with its batch, the subscriptions that open the content, the requests   *)
(* an administrator decides, and the nightly expiry.                       *)
(*                                                                         *)
(* What runs in one transaction behind the lock of the batch is one        *)
(* action.  Five handlers are cut where they are not protected: free       *)
(* enrollment grants the subscription after its transaction; the decision  *)
(* of a request checks the status of a copy; moving one or many learners   *)
(* counts the seats without the lock; the nightly expiry looks for another *)
(* subscription in one statement and revokes in the next.                  *)
(*                                                                         *)
(* Abstractions.  A subscription is its status and the days it has left;   *)
(* rows that can never open anything again (expired, or cancelled and run  *)
(* out) are left out, and equal rows count as one.  Batches stay active    *)
(* and keep their capacity.  The payment mode may change at any time, so   *)
(* requests and free enrollment coexist.                                   *)
(***************************************************************************)
EXTENDS Integers, FiniteSets

CONSTANTS
    Learners,     \* learner profiles
    Batches,      \* batches of the course
    NoRow,        \* no batch, no row
    Capacity,     \* capacity of each batch, NoRow for unlimited
    Term,         \* subscription_duration_days
    MaxLeft,      \* bound on the days a subscription has left
    Handlers      \* bound on the handlers under way between two steps

ASSUME EnrollmentAssumption ==
    /\ IsFiniteSet(Learners) /\ NoRow \notin Batches /\ NoRow \notin Nat
    /\ Capacity \in [Batches -> Nat \cup {NoRow}]
    /\ Term \in Nat \ {0} /\ MaxLeft \in Nat /\ MaxLeft >= Term

VARIABLES
    enrollment,   \* Enrollment row of each learner
    subs,         \* Subscription rows of each learner
    request,      \* latest EnrollmentRequest of each learner
    grants,       \* subscriptions granted for that request
    work,         \* what each handler under way still has to do
    overlapped    \* learners two of whose handlers have overlapped

accessVars == <<enrollment, subs, request, grants, work, overlapped>>

Choice == Batches \cup {NoRow}
Enrollment == [status : {"ACTIVE", "REVOKED"}, batch : Choice]
Subscription == [status : {"ACTIVE", "CANCELLED"}, left : 0..MaxLeft]
Request == [status : {"PENDING", "APPROVED", "REJECTED"}, batch : Choice]
AtRest == [step |-> "idle", who |-> {}, batch |-> NoRow]
Work == [step : {"check", "grant", "approve", "reject", "move", "expire"},
         who : SUBSET Learners, batch : Choice]

ASSUME NoRowIsNone == NoRow \notin Enrollment /\ NoRow \notin Request

AccessTypeOK ==
    /\ enrollment \in [Learners -> Enrollment \cup {NoRow}]
    /\ subs \in [Learners -> SUBSET Subscription]
    /\ request \in [Learners -> Request \cup {NoRow}]
    /\ grants \in [Learners -> 0..2]
    /\ work \in [Handlers -> Work \cup {AtRest}]
    /\ overlapped \subseteq Learners

AccessInit ==
    /\ enrollment = [l \in Learners |-> NoRow]
    /\ subs = [l \in Learners |-> {}]
    /\ request = [l \in Learners |-> NoRow]
    /\ grants = [l \in Learners |-> 0]
    /\ work = [t \in Handlers |-> AtRest]
    /\ overlapped = {}

-----------------------------------------------------------------------------
(* Seats, enrollments and subscriptions.                                   *)

Active(l) == enrollment[l] # NoRow /\ enrollment[l].status = "ACTIVE"
InBatch(l, b) == enrollment[l] # NoRow /\ enrollment[l].batch = b
SeatsTaken(b) == Cardinality({l \in Learners : Active(l) /\ InBatch(l, b)})
(* faulty: the last seat is given away twice. *)
IsFullTooLate(b) == Capacity[b] # NoRow /\ SeatsTaken(b) > Capacity[b]
IsFull(b) == Capacity[b] # NoRow /\ SeatsTaken(b) >= Capacity[b]

(* What a learner or an administrator may choose at enrollment.            *)
ValidChoice(b) == IF b = NoRow THEN TRUE ELSE ~IsFull(b)

(* faulty: get_or_create finds the revoked row and its defaults are lost. *)
EnrolledKeepsStatus(l, b) ==
    IF enrollment[l] = NoRow THEN [status |-> "ACTIVE", batch |-> b]
    ELSE IF enrollment[l].batch = NoRow THEN [enrollment[l] EXCEPT !.batch = b]
    ELSE enrollment[l]

(* The row after an enrollment with the choice b: an old row is restored,  *)
(* and takes the choice only while it has no batch.                        *)
Enrolled(l, b) ==
    [status |-> "ACTIVE",
     batch |-> IF enrollment[l] = NoRow \/ enrollment[l].batch = NoRow
               THEN b ELSE enrollment[l].batch]

(* An approval puts the learner into the chosen batch whatever the row had. *)
Reassigned(l, b) ==
    [status |-> "ACTIVE",
     batch |-> IF b # NoRow THEN b
               ELSE IF enrollment[l] = NoRow THEN NoRow ELSE enrollment[l].batch]

Pending(l) == request[l] # NoRow /\ request[l].status = "PENDING"

Live(l) == {s \in subs[l] : s.status = "ACTIVE" /\ s.left > 0}
Lapsed(l) == {s \in subs[l] : s.status = "ACTIVE" /\ s.left = 0}
Longest(S) == CHOOSE s \in S : \A r \in S : r.left <= s.left
New == [status |-> "ACTIVE", left |-> Term]
Longer(s) == [s EXCEPT !.left = IF @ + Term > MaxLeft THEN MaxLeft ELSE @ + Term]

(* The live subscription is extended, or a new one starts.                 *)
CreateOrExtend(l) ==
    IF Live(l) = {} THEN subs[l] \cup {New}
    ELSE LET s == Longest(Live(l)) IN (subs[l] \ {s}) \cup {Longer(s)}

Busy(l) == \E t \in Handlers : l \in work[t].who
Touch(who) == overlapped' = overlapped \cup {l \in who : Busy(l)}

Start(t, step, who, b) ==
    /\ work[t] = AtRest
    /\ work' = [work EXCEPT ![t] = [step |-> step, who |-> who, batch |-> b]]
Finish(t) == work' = [work EXCEPT ![t] = AtRest]

-----------------------------------------------------------------------------
(* The learner.                                                            *)

FreeEnroll(t, l) ==
    \E b \in Choice :
        /\ ValidChoice(b)
        /\ enrollment' = [enrollment EXCEPT ![l] = Enrolled(l, b)]
        /\ Start(t, "check", {l}, NoRow)
        /\ Touch({l})
        /\ UNCHANGED <<subs, request, grants>>

(* faulty: every call extends the subscription. *)
CheckNothing(t) ==
    /\ work[t].step = "check"
    /\ work' = [work EXCEPT ![t].step = "grant"]
    /\ UNCHANGED <<enrollment, subs, request, grants, overlapped>>

(* A repeated call finds the subscription and leaves it alone.             *)
CheckSubscription(t) ==
    /\ work[t].step = "check"
    /\ \A l \in work[t].who :
        IF Live(l) = {}
        THEN work' = [work EXCEPT ![t].step = "grant"]
        ELSE Finish(t)
    /\ UNCHANGED <<enrollment, subs, request, grants, overlapped>>

GrantFree(t) ==
    /\ work[t].step = "grant"
    /\ \A l \in work[t].who : subs' = [subs EXCEPT ![l] = CreateOrExtend(l)]
    /\ Finish(t)
    /\ UNCHANGED <<enrollment, request, grants, overlapped>>

SelectBatch(l) ==
    \E b \in Batches :
        /\ Active(l) /\ InBatch(l, NoRow)
        /\ ValidChoice(b)
        /\ enrollment' = [enrollment EXCEPT ![l].batch = b]
        /\ Touch({l})
        /\ UNCHANGED <<subs, request, grants, work>>

RequestEnrollment(l) ==
    \E b \in Choice :
        /\ ~Pending(l)
        /\ ValidChoice(b)
        /\ request' = [request EXCEPT ![l] = [status |-> "PENDING", batch |-> b]]
        /\ grants' = [grants EXCEPT ![l] = 0]
        /\ Touch({l})
        /\ UNCHANGED <<enrollment, subs, work>>

-----------------------------------------------------------------------------
(* The administrator decides a request: the status of the copy is checked  *)
(* before the transaction that writes it.                                  *)

(* faulty: the status of the request is not looked at. *)
ReviewAgain(t, l) ==
    /\ request[l] # NoRow
    /\ \/ Start(t, "reject", {l}, NoRow)
       \/ \E b \in Batches \cup {request[l].batch} : Start(t, "approve", {l}, b)
    /\ Touch({l})
    /\ UNCHANGED <<enrollment, subs, request, grants>>

ReviewRequest(t, l) ==
    /\ Pending(l)
    /\ \/ Start(t, "reject", {l}, NoRow)
       \/ \E b \in Batches \cup {request[l].batch} : Start(t, "approve", {l}, b)
    /\ Touch({l})
    /\ UNCHANGED <<enrollment, subs, request, grants>>

(* The choice of a decided request is not read again.                      *)
Decided(status) == [status |-> status, batch |-> NoRow]

(* A learner already in the batch is let through.                          *)
FitsOnApproval(l, b) == IF b = NoRow THEN TRUE ELSE InBatch(l, b) \/ ~IsFull(b)

ApproveRequest(t) ==
    /\ work[t].step = "approve"
    /\ \A l \in work[t].who :
        IF FitsOnApproval(l, work[t].batch)
        THEN /\ enrollment' = [enrollment EXCEPT ![l] = Reassigned(l, work[t].batch)]
             /\ subs' = [subs EXCEPT ![l] = CreateOrExtend(l)]
             /\ request' = [request EXCEPT ![l] = Decided("APPROVED")]
             /\ grants' = [grants EXCEPT ![l] = IF @ = 2 THEN 2 ELSE @ + 1]
        ELSE UNCHANGED <<enrollment, subs, request, grants>>
    /\ Finish(t)
    /\ UNCHANGED overlapped

RejectRequest(t) ==
    /\ work[t].step = "reject"
    /\ \A l \in work[t].who :
        request' = [request EXCEPT ![l] = Decided("REJECTED")]
    /\ Finish(t)
    /\ UNCHANGED <<enrollment, subs, grants, overlapped>>

-----------------------------------------------------------------------------
(* The administrator acts on enrollments.                                  *)

AdminEnroll(l) ==
    \E b \in Choice :
        /\ ValidChoice(b)
        /\ enrollment' = [enrollment EXCEPT ![l] = Enrolled(l, b)]
        /\ subs' = [subs EXCEPT ![l] = CreateOrExtend(l)]
        /\ Touch({l})
        /\ UNCHANGED <<request, grants, work>>

(* Neither action looks at the status it changes.                          *)
Cancelled(S) ==
    {IF s.status = "ACTIVE" THEN [s EXCEPT !.status = "CANCELLED"] ELSE s :
        s \in {r \in S : r.left > 0}}

Revoke(l) ==
    /\ enrollment[l] # NoRow
    /\ enrollment' = [enrollment EXCEPT ![l].status = "REVOKED"]
    /\ subs' = [subs EXCEPT ![l] = Cancelled(@)]
    /\ Touch({l})
    /\ UNCHANGED <<request, grants, work>>

Reactivate(l) ==
    /\ enrollment[l] # NoRow
    /\ enrollment' = [enrollment EXCEPT ![l].status = "ACTIVE"]
    /\ subs' = [subs EXCEPT ![l] = {[s EXCEPT !.status = "ACTIVE"] : s \in @}]
    /\ Touch({l})
    /\ UNCHANGED <<request, grants, work>>

(* faulty: the word the client sent for "no batch" is stored. *)
DetachRaw(who) ==
    /\ \A l \in who : enrollment[l] # NoRow
    /\ enrollment' = [l \in Learners |->
          IF l \in who THEN [enrollment[l] EXCEPT !.batch = "null"]
          ELSE enrollment[l]]
    /\ Touch(who)
    /\ UNCHANGED <<subs, request, grants, work>>

Detach(who) ==
    /\ \A l \in who : enrollment[l] # NoRow
    /\ enrollment' = [l \in Learners |->
          IF l \in who THEN [enrollment[l] EXCEPT !.batch = NoRow]
          ELSE enrollment[l]]
    /\ Touch(who)
    /\ UNCHANGED <<subs, request, grants, work>>

(* Moving one learner is moving a selection of one: in both, everybody who *)
(* is not yet in the batch needs a free seat, counted without a lock.      *)
HasRoomFor(b, who) ==
    IF Capacity[b] = NoRow THEN TRUE
    ELSE SeatsTaken(b) + Cardinality(who) <= Capacity[b]

MoveToBatch(t, who) ==
    \E b \in Batches :
        /\ \A l \in who : enrollment[l] # NoRow /\ ~InBatch(l, b)
        /\ HasRoomFor(b, who)
        /\ Start(t, "move", who, b)
        /\ Touch(who)
        /\ UNCHANGED <<enrollment, subs, request, grants>>

FinishMove(t) ==
    /\ work[t].step = "move"
    /\ enrollment' = [l \in Learners |->
          IF l \in work[t].who
          THEN [enrollment[l] EXCEPT !.batch = work[t].batch]
          ELSE enrollment[l]]
    /\ Finish(t)
    /\ UNCHANGED <<subs, request, grants, overlapped>>

-----------------------------------------------------------------------------
(* The nightly expiry, one transaction: it lists the learners with lapsed  *)
(* subscriptions, finds those without another live one, and revokes them.  *)

Expiring == \E t \in Handlers : work[t].step = "expire"
ToRevoke == {l \in Learners : Lapsed(l) # {} /\ Live(l) = {}}

ExpireSubscriptions(t) ==
    /\ ~Expiring
    /\ \E l \in Learners : Lapsed(l) # {}
    /\ Start(t, "expire", ToRevoke, NoRow)
    /\ Touch(ToRevoke)
    /\ UNCHANGED <<enrollment, subs, request, grants>>

FinishExpiry(t) ==
    /\ work[t].step = "expire"
    /\ subs' = [l \in Learners |-> subs[l] \ Lapsed(l)]
    /\ enrollment' = [l \in Learners |->
          IF l \in work[t].who /\ Active(l)
          THEN [enrollment[l] EXCEPT !.status = "REVOKED"]
          ELSE enrollment[l]]
    /\ Finish(t)
    /\ UNCHANGED <<request, grants, overlapped>>

-----------------------------------------------------------------------------
(* A day passes (the expiry takes no time); a process dies, and what its   *)
(* transaction had not committed is undone.                                *)

Aged(S) ==
    {[s EXCEPT !.left = @ - 1] : s \in {r \in S : r.left > 0
                                 /\ (r.status = "CANCELLED" => r.left > 1)}}
DayPasses ==
    /\ ~Expiring
    /\ \E l \in Learners : \E s \in subs[l] : s.left > 0
    /\ subs' = [l \in Learners |-> Aged(subs[l]) \cup Lapsed(l)]
    /\ UNCHANGED <<enrollment, request, grants, work, overlapped>>

HandlerDies(t) ==
    /\ work[t] # AtRest
    /\ Finish(t)
    /\ UNCHANGED <<enrollment, subs, request, grants, overlapped>>

Undertake(t) ==
    \/ \E l \in Learners : FreeEnroll(t, l) \/ ReviewRequest(t, l)
    \/ \E who \in SUBSET Learners \ {{}} : MoveToBatch(t, who)
    \/ ExpireSubscriptions(t)

Proceed(t) ==
    \/ CheckSubscription(t) \/ GrantFree(t) \/ ApproveRequest(t)
    \/ RejectRequest(t) \/ FinishMove(t) \/ FinishExpiry(t)

AccessNext ==
    \/ \E t \in Handlers : Undertake(t) \/ Proceed(t) \/ HandlerDies(t)
    \/ \E l \in Learners :
        \/ SelectBatch(l) \/ RequestEnrollment(l)
        \/ AdminEnroll(l) \/ Revoke(l) \/ Reactivate(l)
    \/ \E who \in SUBSET Learners \ {{}} : Detach(who)
    \/ DayPasses

AccessSpec == AccessInit /\ [][AccessNext]_accessVars

-----------------------------------------------------------------------------
(* Properties.  `Alone' learners are those whose own handlers never        *)
(* overlapped; the handlers of different learners interleave freely.       *)

Alone == Learners \ overlapped

(* Whoever holds a live subscription is enrolled ("so enrolled means the   *)
(* same thing to every feature", tasks.py): through grants, revocations,   *)
(* reactivations, expiry and dying processes in any order.                 *)
AccessAgrees == \A l \in Alone : Live(l) # {} => Active(l)

(* A request is decided once: an approved one granted one subscription     *)
(* term, a rejected or pending one none.                                   *)
RequestGrantsOnce ==
    \A l \in Alone :
        request[l] # NoRow =>
            grants[l] = (IF request[l].status = "APPROVED" THEN 1 ELSE 0)

(* "Idempotent: a student can call this endpoint repeatedly" (retry or      *)
(* double-click, payment_views.py): a free grant is never added to a       *)
(* subscription that still runs.  It fails of two calls that overlap.      *)
GrantsFreely(t) == work[t].step = "grant" /\ work'[t] = AtRest
FreeNeverStacks ==
    [][subs' # subs =>
         \A t \in Handlers :
           GrantsFreely(t) => \A l \in work[t].who :
             \A s \in subs'[l] \ subs[l] : s.left <= Term]_accessVars

(* What is left of that claim in the code: repeated one after the other,   *)
(* with any handlers of other learners, days and crashes in between, calls *)
(* of free enrollment add a term only when none is running.  A free term   *)
(* is stacked only for a learner two of whose handlers overlapped.         *)
StacksOnlyByOverlap ==
    [][subs' # subs =>
         \A t \in Handlers :
           GrantsFreely(t) => \A l \in work[t].who \cap Alone :
             \A s \in subs'[l] \ subs[l] : s.left <= Term]_accessVars

(* Whoever enters a batch by enrolling, choosing or being approved finds a *)
(* seat, however many try at once: the batch lock covers count and write.  *)
Moving == \E t \in Handlers : work[t].step = "move" /\ work'[t] = AtRest
LockedPlacementsFit ==
    [][enrollment' # enrollment /\ ~Moving =>
         \A l \in Learners, b \in Batches :
           ~InBatch(l, b) /\ InBatch(l, b)'
             => Capacity[b] = NoRow \/ SeatsTaken(b)' <= Capacity[b]]_accessVars

(* The state invariant: rows are well typed, whoever holds a live          *)
(* subscription is enrolled, and a request was granted once or not at all. *)
AccessInv == AccessTypeOK /\ AccessAgrees /\ RequestGrantsOnce
=============================================================================
