---------------------------- MODULE SkillBooking ----------------------------
(***************************************************************************)
(* Booking one expert of the skill marketplace.                            *)
(*                                                                         *)
(* The sessions are rows; the weekly grid is one JSON value of the expert  *)
(* ({open, booked}), read, changed and written back whole.  Booking and    *)
(* accepting a new time lock the expert for that; every other handler      *)
(* writes back the copy it has loaded.  A handler that ends a session      *)
(* saves the status first and releases the slot afterwards.                *)
(*                                                                         *)
(* Abstractions.  One listed expert; prices, notes, reviews, listings,     *)
(* payments and bells are left out.  A slot inside a blackout is one that  *)
(* is not open.  Time is two facts of a row: whether its scheduled time is *)
(* past, and whether the request is older than 24 hours.                   *)
(***************************************************************************)
EXTENDS Integers, FiniteSets, Functions

CONSTANTS
    Bookings,     \* ids of sessions
    GridSlots,        \* slot keys of the weekly grid
    Offers,       \* the sets of slots the expert may declare open
    Clerks,       \* HTTP handlers that may be under way
    Overlapping,  \* the operations that may run beside one another
    NoShowFrom,   \* statuses in which the expert reports a no-show
    MaxCrashes,   \* bound on handlers that die half-way
    Nil          \* an empty slot_key, status or copy

Releasing == {"decline", "cancel", "complete", "mark", "noshow"}
Ops == Releasing \cup {"book", "confirm", "propose", "accept", "refuse", "join", "open",
                       "autodecline", "lapse"}

ASSUME SkillBookingAssumption ==
    /\ IsFiniteSet(Bookings) /\ IsFiniteSet(GridSlots)
    /\ Offers # {} /\ Offers \subseteq SUBSET GridSlots
    /\ Overlapping \subseteq Ops
    /\ NoShowFrom \subseteq {"confirmed", "completed"}
    /\ MaxCrashes \in Nat
    /\ Nil \notin GridSlots /\ Nil \notin STRING /\ Nil \notin Bookings

VARIABLES
    bookings,  \* the SkillSession rows, Nil before the row exists
    grid,      \* ExpertProfile.availability_slots
    taught,    \* ExpertProfile.sessions_count
    clerk,     \* what each handler still has to do
    beat,      \* the sweep that is running
    crashes    \* handlers that died so far

bookingVars == <<bookings, grid, taught, clerk, beat, crashes>>

BookingStatuses == {"requested", "confirmed", "needs_reconfirmation", "completed", "cancelled",
             "declined", "auto_declined", "lapsed"}
Standing == {"requested", "confirmed", "needs_reconfirmation"}
SlotOrNone == GridSlots \cup {Nil}

BookingRow == [status: BookingStatuses, slot: SlotOrNone, proposed: SlotOrNone,
               before: {"requested", "confirmed", Nil}, started: BOOLEAN,
               stale: BOOLEAN, scheduled: {"none", "ahead", "past"}]
Grid == [open: SUBSET GridSlots, booked: SUBSET GridSlots]

ClerkIdle == [op |-> Nil]
ClerkJob == [op: Ops, id: Bookings \cup {Nil}, row: BookingRow \cup {Nil},
        slot: SlotOrNone \cup Offers, copy: Grid \cup {Nil}, done: {"read", "saved", "loaded"}]
NoSweep == [op |-> Nil, todo |-> {}, slots |-> <<>>, copy |-> Nil, releases |-> Nil]

ASSUME NilIsApart == Nil \notin BookingRow /\ Nil \notin Ops /\ Nil \notin BookingStatuses

BookingTypeOK ==
    /\ bookings \in [Bookings -> BookingRow \cup {Nil}]
    /\ grid \in Grid
    /\ taught \in 0..Cardinality(Bookings)
    /\ clerk \in [Clerks -> ClerkJob \cup {ClerkIdle}]
    /\ beat.op \in {"autodecline", "lapse", Nil}
    /\ beat.todo \subseteq Bookings /\ beat.releases \in SlotOrNone
    /\ beat.copy \in Grid \cup {Nil}
    /\ crashes \in 0..MaxCrashes

BookingInit ==
    /\ bookings = [b \in Bookings |-> Nil]
    /\ \E offer \in Offers : grid = [open |-> offer, booked |-> {}]
    /\ taught = 0
    /\ clerk = [c \in Clerks |-> ClerkIdle]
    /\ beat = NoSweep
    /\ crashes = 0

-----------------------------------------------------------------------------
(* The rows and the grid.                                                  *)

Exists(b) == bookings[b] # Nil
Running == {clerk[c].op : c \in Clerks} \cup {beat.op}
Quiet == Running = {Nil}

\* An operation that may not overlap starts when no other is under way, and
\* nothing starts beside it.
MayStart(op) == Quiet \/ (op \in Overlapping /\ Running \subseteq Overlapping \cup {Nil})

slot_is_open(g, s) == s \in g.open \ g.booked
mark_slot_booked(g, s) == [g EXCEPT !.booked = @ \cup {s}]
free_slot(g, s) == [g EXCEPT !.booked = @ \ {s}]

CompletedRows == {b \in Bookings : Exists(b) /\ bookings[b].status = "completed"}

NewRow(slot, scheduled) ==
    [status |-> "requested", slot |-> slot, proposed |-> Nil, before |-> Nil,
     started |-> FALSE, stale |-> FALSE, scheduled |-> scheduled]

\* BookingStatuses in which a handler accepts the session.
AcceptedIn(op) ==
    CASE op = "confirm" -> {"requested"}
      [] op \in {"decline", "propose"} -> {"requested", "confirmed"}
      [] op = "cancel" -> {"requested"}
      [] op \in {"complete", "mark", "join"} -> {"confirmed"}
      [] op = "noshow" -> NoShowFrom
      [] op \in {"accept", "refuse"} -> {"needs_reconfirmation"}

Accepts(op, row) ==
    /\ row.status \in AcceptedIn(op)
    /\ op \in {"decline", "propose"} => ~(row.status = "confirmed" /\ row.started)
    /\ op = "noshow" => row.scheduled # "ahead"
    /\ op = "join" => ~row.started

(* faulty: the word of the request, which is no status.                    *)
EndStatusOfRequest(op, row) == op

\* The status a handler that ends the session writes.
EndStatus(op, row) ==
    CASE op = "decline" -> IF row.status = "requested" THEN "declined" ELSE "cancelled"
      [] op = "cancel" -> "cancelled"
      [] op \in {"complete", "mark", "noshow"} -> "completed"

-----------------------------------------------------------------------------
(* Handlers: read, check, and later write.                                 *)

NewJob(op, b, slot, copy) ==
    [op |-> op, id |-> b, row |-> IF b # Nil /\ Exists(b) THEN bookings[b] ELSE Nil,
     slot |-> slot, copy |-> copy, done |-> "read"]

BeginHandler(c, job) ==
    /\ clerk[c] = ClerkIdle /\ MayStart(job.op)
    /\ clerk' = [clerk EXCEPT ![c] = job]
    /\ UNCHANGED <<bookings, grid, taught, beat, crashes>>

Finished(c) == clerk' = [clerk EXCEPT ![c] = ClerkIdle]

\* A request without a slot.
SessionRequest(b) ==
    /\ ~Exists(b) /\ MayStart("book") /\ \A c \in Clerks : clerk[c].op = "book" => clerk[c].id # b
    /\ \E when \in {"none", "ahead"} :
           bookings' = [bookings EXCEPT ![b] = NewRow(Nil, when)]
    /\ UNCHANGED <<grid, taught, clerk, beat, crashes>>

\* CreateOrderView up to the transaction: the slot is looked at unlocked.
BeginBook(c, b, s) ==
    /\ ~Exists(b) /\ \A d \in Clerks : clerk[d].op = "book" => clerk[d].id # b
    /\ slot_is_open(grid, s)
    /\ BeginHandler(c, NewJob("book", b, s, Nil))

(* faulty: the early look is trusted.                                      *)
BookUnchecked(c) ==
    /\ clerk[c].op = "book"
    /\ bookings' = [bookings EXCEPT ![clerk[c].id] = NewRow(clerk[c].slot, "ahead")]
    /\ grid' = mark_slot_booked(grid, clerk[c].slot)
    /\ Finished(c)
    /\ UNCHANGED <<taught, beat, crashes>>

\* The transaction: the slot is looked at again under the lock.
Book(c) ==
    /\ clerk[c].op = "book"
    /\ IF slot_is_open(grid, clerk[c].slot)
       THEN /\ bookings' = [bookings EXCEPT ![clerk[c].id] = NewRow(clerk[c].slot, "ahead")]
            /\ grid' = mark_slot_booked(grid, clerk[c].slot)
       ELSE UNCHANGED <<bookings, grid>>
    /\ Finished(c)
    /\ UNCHANGED <<taught, beat, crashes>>

\* Every handler of an existing session.  Decline and mark-complete load the
\* expert, and with it the grid, before they read the session.
BeginOn(c, op, b) ==
    /\ Exists(b) /\ Accepts(op, bookings[b])
    /\ BeginHandler(c, NewJob(op, b, Nil, IF op \in {"decline", "mark"} THEN grid ELSE Nil))

\* The expert proposes a slot that is open now; nothing reserves it.
BeginPropose(c, b, s) ==
    /\ Exists(b) /\ Accepts("propose", bookings[b]) /\ slot_is_open(grid, s)
    /\ BeginHandler(c, NewJob("propose", b, s, Nil))

SaveSkill(c, row) ==
    /\ bookings' = [bookings EXCEPT ![clerk[c].id] = row]
    /\ UNCHANGED <<taught, beat, crashes>>

Confirm(c) ==
    /\ clerk[c].op = "confirm"
    /\ \E when \in {clerk[c].row.scheduled, "ahead"} :
           SaveSkill(c, [bookings[clerk[c].id] EXCEPT !.status = "confirmed", !.scheduled = when])
    /\ Finished(c) /\ UNCHANGED grid

Propose(c) ==
    /\ clerk[c].op = "propose"
    /\ SaveSkill(c, [bookings[clerk[c].id] EXCEPT !.status = "needs_reconfirmation",
                   !.proposed = clerk[c].slot, !.before = clerk[c].row.status])
    /\ Finished(c) /\ UNCHANGED grid

\* The original time was never given up: the session goes back to what it was.
Back(c) == IF clerk[c].row.before = Nil THEN "confirmed" ELSE clerk[c].row.before

(* faulty: the original slot is released, as a decline would.              *)
RefuseReleasing(c) ==
    /\ clerk[c].op = "refuse"
    /\ SaveSkill(c, [bookings[clerk[c].id] EXCEPT !.status = Back(c), !.proposed = Nil, !.before = Nil])
    /\ Finished(c) /\ grid' = free_slot(grid, clerk[c].row.slot)

(* faulty: the proposal is not cleared.                                    *)
RefuseKeepingProposal(c) ==
    /\ clerk[c].op = "refuse"
    /\ SaveSkill(c, [bookings[clerk[c].id] EXCEPT !.status = Back(c), !.before = Nil])
    /\ Finished(c) /\ UNCHANGED grid

Refuse(c) ==
    /\ clerk[c].op = "refuse"
    /\ SaveSkill(c, [bookings[clerk[c].id] EXCEPT !.status = Back(c), !.proposed = Nil, !.before = Nil])
    /\ Finished(c) /\ UNCHANGED grid

JoinRoom(c) ==
    /\ clerk[c].op = "join"
    /\ SaveSkill(c, [bookings[clerk[c].id] EXCEPT !.started = TRUE])
    /\ Finished(c) /\ UNCHANGED grid

\* StudentConfirmRescheduleView: the grid first, in a transaction of its own,
\* with the slots the session had when it was read ...
Reslotted(g, old, new) == mark_slot_booked(IF old = new THEN g ELSE free_slot(g, old), new)

AcceptGrid(c) ==
    /\ clerk[c].op = "accept" /\ clerk[c].done = "read"
    /\ LET old == clerk[c].row.slot  new == clerk[c].row.proposed
       IN  IF new = Nil
           THEN /\ grid' = free_slot(grid, old)
                /\ clerk' = [clerk EXCEPT ![c].done = "saved"]
           ELSE IF slot_is_open(grid, new) \/ new = old
           THEN /\ grid' = Reslotted(grid, old, new)
                /\ clerk' = [clerk EXCEPT ![c].done = "saved"]
           ELSE Finished(c) /\ UNCHANGED grid
    /\ UNCHANGED <<bookings, taught, beat, crashes>>

\* ... then the session.  The time it names may have come by now.
AcceptSave(c) ==
    /\ clerk[c].op = "accept" /\ clerk[c].done = "saved"
    /\ \E when \in {"ahead", "past"} :
           SaveSkill(c, [bookings[clerk[c].id] EXCEPT !.status = "confirmed", !.slot = clerk[c].row.proposed,
                      !.scheduled = when, !.proposed = Nil, !.before = Nil])
    /\ Finished(c) /\ UNCHANGED grid

\* The handlers that end a session: the status ...
EndBooking(c) ==
    /\ clerk[c].op \in Releasing /\ clerk[c].done = "read"
    /\ SaveSkill(c, [bookings[clerk[c].id] EXCEPT !.status = EndStatus(clerk[c].op, clerk[c].row)])
    /\ clerk' = [clerk EXCEPT ![c].done = "saved"]
    /\ UNCHANGED grid

(* faulty: a no-show is not counted.                                       *)
CountingNoShowsNot(op) == op \in {"complete", "mark"}

\* The handlers that write sessions_count.
Counting(op) == op \in {"complete", "mark", "noshow"}

\* ... the expert, loaded now unless it was before, and its count ...
LoadExpert(c) ==
    /\ clerk[c].op \in Releasing /\ clerk[c].done = "saved"
    /\ clerk' = [clerk EXCEPT ![c].done = "loaded",
                              ![c].copy = IF @ = Nil THEN grid ELSE @]
    /\ taught' = IF Counting(clerk[c].op) THEN Cardinality(CompletedRows) ELSE taught
    /\ UNCHANGED <<bookings, grid, beat, crashes>>

(* faulty: a cancellation keeps the slot.                                  *)
ReleaseUnlessCancelled(c) ==
    /\ clerk[c].op \in Releasing /\ clerk[c].done = "loaded"
    /\ grid' = IF clerk[c].row.slot = Nil \/ clerk[c].op = "cancel" THEN grid
               ELSE free_slot(clerk[c].copy, clerk[c].row.slot)
    /\ Finished(c)
    /\ UNCHANGED <<bookings, taught, beat, crashes>>

\* ... and the slot the session had when it was read.
Release(c) ==
    /\ clerk[c].op \in Releasing /\ clerk[c].done = "loaded"
    /\ grid' = IF clerk[c].row.slot = Nil THEN grid ELSE free_slot(clerk[c].copy, clerk[c].row.slot)
    /\ Finished(c)
    /\ UNCHANGED <<bookings, taught, beat, crashes>>

\* TeacherAvailabilityView.patch.
BeginOpen(c, offer) == BeginHandler(c, NewJob("open", Nil, offer, grid))

SetOpen(c) ==
    /\ clerk[c].op = "open"
    /\ grid' = [clerk[c].copy EXCEPT !.open = clerk[c].slot]
    /\ Finished(c)
    /\ UNCHANGED <<bookings, taught, beat, crashes>>

\* The worker dies: what was saved stays, the rest is never done.
Crash(c) ==
    /\ clerk[c] # ClerkIdle /\ crashes < MaxCrashes
    /\ crashes' = crashes + 1
    /\ Finished(c)
    /\ UNCHANGED <<bookings, grid, taught, beat>>

-----------------------------------------------------------------------------
(* The sweeps read all their rows first; each row comes with a copy of its *)
(* own of the expert.                                                      *)

SweepEnds(b) == beat.todo = {b} /\ beat.releases = Nil

(* faulty: requests without a slot are left alone.                         *)
StaleSlotted ==
    {b \in Bookings : /\ Exists(b) /\ bookings[b].status = "requested" /\ bookings[b].stale
                      /\ bookings[b].slot # Nil}

StaleRequests == {b \in Bookings : Exists(b) /\ bookings[b].status = "requested" /\ bookings[b].stale}

StartAutoDecline ==
    /\ beat = NoSweep /\ MayStart("autodecline") /\ StaleRequests # {}
    /\ beat' = [op |-> "autodecline", todo |-> StaleRequests,
                slots |-> [b \in StaleRequests |-> bookings[b].slot],
                copy |-> grid, releases |-> Nil]
    /\ UNCHANGED <<bookings, grid, taught, clerk, crashes>>

AutoDecline(b) ==
    /\ beat.op = "autodecline" /\ beat.releases = Nil /\ b \in beat.todo
    /\ bookings' = [bookings EXCEPT ![b].status = "auto_declined"]
    /\ beat' = IF beat.slots[b] = Nil /\ SweepEnds(b) THEN NoSweep
               ELSE [beat EXCEPT !.todo = @ \ {b}, !.releases = beat.slots[b]]
    /\ UNCHANGED <<grid, taught, clerk, crashes>>

AutoRelease ==
    /\ beat.op = "autodecline" /\ beat.releases # Nil
    /\ grid' = free_slot(beat.copy, beat.releases)
    /\ beat' = IF beat.todo = {} THEN NoSweep ELSE [beat EXCEPT !.releases = Nil]
    /\ UNCHANGED <<bookings, taught, clerk, crashes>>

Unheld == {b \in Bookings : Exists(b) /\ bookings[b].status = "confirmed" /\ bookings[b].scheduled = "past"}

StartLapse ==
    /\ beat = NoSweep /\ MayStart("lapse") /\ Unheld # {}
    /\ beat' = [NoSweep EXCEPT !.op = "lapse", !.todo = Unheld]
    /\ UNCHANGED <<bookings, grid, taught, clerk, crashes>>

Lapse(b) ==
    /\ beat.op = "lapse" /\ b \in beat.todo
    /\ bookings' = [bookings EXCEPT ![b].status = "lapsed"]
    /\ beat' = IF SweepEnds(b) THEN NoSweep ELSE [beat EXCEPT !.todo = @ \ {b}]
    /\ UNCHANGED <<grid, taught, clerk, crashes>>

-----------------------------------------------------------------------------
(* Time.                                                                   *)

GrowStale(b) ==
    /\ Exists(b) /\ ~bookings[b].stale /\ bookings[b].status \in {"requested", "needs_reconfirmation"}
    /\ bookings' = [bookings EXCEPT ![b].stale = TRUE]
    /\ UNCHANGED <<grid, taught, clerk, beat, crashes>>

ComeDue(b) ==
    /\ Exists(b) /\ bookings[b].scheduled = "ahead" /\ bookings[b].status \in Standing
    /\ bookings' = [bookings EXCEPT ![b].scheduled = "past"]
    /\ UNCHANGED <<grid, taught, clerk, beat, crashes>>

SessionOps == Releasing \cup {"confirm", "accept", "refuse", "join"}

ClerkGoesOn(c) ==
    \/ Book(c) \/ Confirm(c) \/ Propose(c) \/ Refuse(c) \/ JoinRoom(c)
    \/ AcceptGrid(c) \/ AcceptSave(c)
    \/ EndBooking(c) \/ LoadExpert(c) \/ Release(c) \/ SetOpen(c)

BookingNext ==
    \/ \E b \in Bookings : SessionRequest(b) \/ GrowStale(b) \/ ComeDue(b)
    \/ \E c \in Clerks, b \in Bookings :
           \/ \E s \in GridSlots : BeginBook(c, b, s) \/ BeginPropose(c, b, s)
           \/ \E op \in SessionOps : BeginOn(c, op, b)
    \/ \E c \in Clerks :
           \/ ClerkGoesOn(c) \/ Crash(c)
           \/ \E offer \in Offers : BeginOpen(c, offer)
    \/ StartAutoDecline \/ AutoRelease \/ StartLapse
    \/ \E b \in Bookings : AutoDecline(b) \/ Lapse(b)

\* The beat runs its sweeps and each sweep runs to its end; a handler under
\* way finishes or dies.  A sweep that may not overlap needs a quiet moment,
\* of which there is always another.
BookingFairness ==
    /\ SF_bookingVars(StartAutoDecline) /\ WF_bookingVars(AutoRelease)
    /\ WF_bookingVars(\E b \in Bookings : AutoDecline(b) \/ Lapse(b))
    /\ \A c \in Clerks : WF_bookingVars(ClerkGoesOn(c))

BookingSpec == BookingInit /\ [][BookingNext]_bookingVars
FairBookingSpec == BookingSpec /\ BookingFairness
-----------------------------------------------------------------------------
(* Properties.                                                             *)

\* Between the two writes of accepting a new time the row names the old slot.
Reslotting(b) == \E c \in Clerks : /\ clerk[c].op = "accept" /\ clerk[c].id = b
                                   /\ clerk[c].done = "saved"
Holds(b) == Exists(b) /\ bookings[b].status \in Standing /\ bookings[b].slot # Nil /\ ~Reslotting(b)

\* Two learners never hold the same slot: the look under the lock refuses the
\* second of two that found the slot free (views.py:346, reschedule_views.py:83).
NoDoubleBooking ==
    \A a, b \in Bookings : a # b /\ Holds(a) /\ Holds(b) => bookings[a].slot # bookings[b].slot

\* A slot held by a session that still stands is greyed out for every other
\* learner: no end, sweep or reschedule of another session frees it.
HeldIsBooked == \A b \in Bookings : Holds(b) => bookings[b].slot \in grid.booked

\* The slot of a session that was declined, cancelled or completed is offered
\* again once the handler is through, unless another session holds it.
FreedWhenEnded ==
    Quiet => \A s \in grid.booked :
        \E b \in Bookings : /\ Exists(b) /\ bookings[b].slot = s
                            /\ bookings[b].status \in Standing \cup {"lapsed", "auto_declined"}

\* A proposed time stands exactly while the learner is asked about it, and the
\* session remembers what to go back to.
ProposalIffAsked ==
    Quiet => \A b \in Bookings : Exists(b) =>
        ((bookings[b].proposed # Nil) <=> (bookings[b].status = "needs_reconfirmation"))
        /\ ((bookings[b].before # Nil) <=> (bookings[b].status = "needs_reconfirmation"))

\* The expert's counter agrees with the completed sessions between handlers.
TaughtAgrees == Quiet => taught = Cardinality(CompletedRows)

\* A request nobody answers within 24 hours does not stay a request, though
\* handlers die, refusals restore it and every write lands on a newer row.
WaitsStale(b) == Exists(b) /\ bookings[b].status = "requested" /\ bookings[b].stale
StaleRequestEnds == \A b \in Bookings : WaitsStale(b) ~> ~WaitsStale(b)

\* The state invariant: rows, the expert's grid and the expert's counter agree
\* however bookings, acceptances and refusals overlap.
BookingInv ==
    /\ BookingTypeOK /\ NoDoubleBooking /\ HeldIsBooked
    /\ FreedWhenEnded /\ ProposalIffAsked /\ TaughtAgrees
=============================================================================
