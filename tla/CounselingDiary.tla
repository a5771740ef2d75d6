--------------------------- MODULE CounselingDiary ---------------------------
(***************************************************************************)
(* The appointments of one counsellor (counseling/views.py, models.py):    *)
(* booking behind a lock on the counsellor's row, approval, cancellation,  *)
(* completion, moving, reviews with the rating recomputed from them, the   *)
(* report, and the profile that its owner and the administrators save      *)
(* whole.  Only a booking takes the lock; every other handler reads first  *)
(* and writes later, and whatever it read may have changed.                *)
(***************************************************************************)
EXTENDS Integers, FiniteSets

CONSTANTS
    Appts,        \* appointments
    Times,        \* the times one may ask for
    Lengths,      \* session durations the counsellor may set
    Opening,      \* weekly windows: [from, to]
    Lookback,     \* how far back a conflict is looked for (six hours)
    Stars,        \* ratings a review may give
    MaxReports,   \* bound on the appointments with a report
    Callers,      \* bound on the requests under way
    Colliding,    \* columns that two requests may be about to write at once
    Approvals,    \* whether the platform asks for the counsellor's approval
    Unbooked      \* no appointment yet

ASSUME CounselingAssumption ==
    /\ Times \subseteq Nat /\ Lengths \subseteq Nat \ {0} /\ Approvals \subseteq BOOLEAN
    /\ Opening \subseteq [from: Nat, to: Nat] /\ Lookback \in Nat /\ Stars \subseteq Nat \ {0}

VARIABLES
    diary,        \* the appointment rows, each with the stars of its review
    counselor,    \* the profile row
    windows,      \* active availability
    published,    \* appointments whose report is published
    told,         \* appointments whose student was told of the report
    calls         \* what each request has read and still has to do

diaryVars == <<diary, counselor, windows, published, told, calls>>

Held == {"pending", "confirmed", "rejected", "completed", "cancelled", "no_show"}
Appointment == [status: Held, at: Times, length: Lengths, stars: {0} \cup Stars,
                sold: BOOLEAN]   \* confirmed by its booking, and untouched since
ASSUME UnbookedIsNoRow == Unbooked \notin Appointment

Row == [status: {"pending", "approved", "rejected", "suspended"}, listed: BOOLEAN,
        length: Lengths, rating: SUBSET (Appts \X Stars)]
Silent == [op |-> "none"]
Verdicts == {"approve", "decline", "cancel", "complete", "miss"}

DiaryTypeOK ==
    /\ diary \in [Appts -> Appointment \cup {Unbooked}]
    /\ counselor \in Row /\ windows \subseteq Opening
    /\ published \subseteq Appts /\ told \subseteq Appts

DiaryInit ==
    /\ diary = [a \in Appts |-> Unbooked]
    /\ counselor \in [status: {"pending"}, listed: {TRUE}, length: Lengths, rating: {{}}]
    /\ windows = {} /\ published = {} /\ told = {}
    /\ calls = [t \in Callers |-> Silent]

-----------------------------------------------------------------------------
(* The diary.                                                              *)

Booked(a) == diary[a] # Unbooked
Stands(a) == Booked(a) /\ diary[a].status = "confirmed"
Clash(from, length, a) ==
    from < diary[a].at + diary[a].length /\ diary[a].at < from + length

(* The same, of sessions that start less than the look-back apart.         *)
NearClash(from, length, a) ==
    /\ diary[a].at - Lookback < from /\ from - Lookback < diary[a].at
    /\ Clash(from, length, a)

(* faulty: only a session that starts at the very time is in the way. *)
SameStartTaken(at, length, own) == \E a \in Appts \ {own} : Stands(a) /\ diary[a].at = at

\* booking_conflict: confirmed sessions that began within the look-back.
Taken(at, length, own) ==
    \E a \in Appts \ {own} :
        Stands(a) /\ diary[a].at > at - Lookback /\ Clash(at, length, a)

InsideAvailability(at, length) == \E w \in windows : w.from <= at /\ at + length <= w.to

Reviews == {<<a, diary[a].stars>> : a \in {b \in Appts : Booked(b) /\ diary[b].stars > 0}}

-----------------------------------------------------------------------------
(* Requests.                                                               *)

(* The columns a request is about to write.                                *)
Columns(job) ==
    CASE job.op \in Verdicts -> {<<"status", job.appt>>}
      [] job.op = "move" -> {<<"time", job.appt>>}
      [] job.op \in {"review", "tally", "rate"} -> {<<"review", job.appt>>, <<"profile">>}
      [] job.op = "save" -> {<<"profile">>}
      [] job.op \in {"report", "publish"} -> {<<"report", job.appt>>}
      [] OTHER -> {}

(* Nothing in the code keeps two requests from the same columns; what      *)
(* happens when they meet there is Colliding's to say.                     *)
Calls(t, job) ==
    /\ calls[t] = Silent
    /\ \A u \in Callers, c \in Columns(job) : c \in Columns(calls[u]) => c[1] \in Colliding
    /\ calls' = [calls EXCEPT ![t] = job]
GoesOn(t, job) == calls' = [calls EXCEPT ![t] = job]
HangsUp(t) == GoesOn(t, Silent)

(* faulty: the booking does not take the lock. *)
DiaryAlwaysOpen == TRUE

(* The counsellor's row is locked by the booking that looks at the diary.  *)
DiaryOpen == \A t \in Callers : calls[t].op # "place"

Approved == counselor.status = "approved"
Bookable == Approved /\ counselor.listed

-----------------------------------------------------------------------------
(* The student books.  That the counsellor may be booked, and the length   *)
(* of the session, are read before the lock and not again.                 *)

AskForBooking(t, a) ==
    /\ ~Booked(a) /\ \A u \in Callers : calls[u].op \in {"check", "place"} => calls[u].appt # a
    /\ Bookable
    /\ \E at \in Times :
         Calls(t, [op |-> "check", appt |-> a, at |-> at, length |-> counselor.length])
    /\ UNCHANGED <<diary, counselor, windows, published, told>>

CheckBooking(t) ==
    /\ calls[t].op = "check" /\ DiaryOpen
    /\ LET job == calls[t] IN
         IF InsideAvailability(job.at, job.length) /\ ~Taken(job.at, job.length, job.appt)
         THEN GoesOn(t, [job EXCEPT !.op = "place"])
         ELSE HangsUp(t)
    /\ UNCHANGED <<diary, counselor, windows, published, told>>

PlaceBooking(t) ==
    /\ calls[t].op = "place"
    /\ \E waits \in Approvals :
         diary' = [diary EXCEPT ![calls[t].appt] =
                     [status |-> IF waits THEN "pending" ELSE "confirmed",
                      at |-> calls[t].at, length |-> calls[t].length,
                      stars |-> 0, sold |-> ~waits]]
    /\ HangsUp(t)
    /\ UNCHANGED <<counselor, windows, published, told>>

-----------------------------------------------------------------------------
(* Decisions: the status is read, and the column written later.            *)

Reads(verdict) == IF verdict \in {"approve", "decline"} THEN "pending" ELSE "confirmed"
Writes(verdict) ==
    CASE verdict = "approve" -> "confirmed" [] verdict = "decline" -> "rejected"
      [] verdict = "cancel" -> "cancelled" [] verdict = "complete" -> "completed"
      [] verdict = "miss" -> "no_show"

(* Only cancelling is open to the student too.  Approval looks for another *)
(* session at the time, without the lock.                                  *)
Decide(t, a) ==
    /\ Booked(a)
    /\ \E verdict \in Verdicts :
         /\ diary[a].status = Reads(verdict)
         /\ verdict # "cancel" => Approved
         /\ verdict = "approve" => ~Taken(diary[a].at, diary[a].length, a)
         /\ Calls(t, [op |-> verdict, appt |-> a])
    /\ UNCHANGED <<diary, counselor, windows, published, told>>

SaveDecision(t) ==
    /\ calls[t].op \in Verdicts
    /\ diary' = [diary EXCEPT ![calls[t].appt].status = Writes(calls[t].op),
                              ![calls[t].appt].sold = FALSE]
    /\ HangsUp(t)
    /\ UNCHANGED <<counselor, windows, published, told>>

(* Moving looks for an appointment at the very same time, of any status    *)
(* but cancelled; neither for an overlap nor at the availability.          *)
Reschedule(t, a) ==
    /\ Stands(a)
    /\ \E at \in Times \ {diary[a].at} :
         /\ ~\E b \in Appts \ {a} :
              Booked(b) /\ diary[b].at = at /\ diary[b].status # "cancelled"
         /\ Calls(t, [op |-> "move", appt |-> a, at |-> at])
    /\ UNCHANGED <<diary, counselor, windows, published, told>>

SaveMove(t) ==
    /\ calls[t].op = "move"
    /\ diary' = [diary EXCEPT ![calls[t].appt].at = calls[t].at,
                              ![calls[t].appt].sold = FALSE]
    /\ HangsUp(t)
    /\ UNCHANGED <<counselor, windows, published, told>>

-----------------------------------------------------------------------------
(* Reviews.  Saving or deleting one recomputes the rating: the aggregate   *)
(* is one query, the update of the profile another.                        *)

(* faulty: a review does not wait for the session. *)
RateEarly(t, a) ==
    /\ Booked(a)
    /\ \E stars \in Stars :
         Calls(t, [op |-> "review", appt |-> a, stars |-> stars, first |-> diary[a].stars = 0])
    /\ UNCHANGED <<diary, counselor, windows, published, told>>

GiveStars(t, a) ==
    /\ Booked(a)
    /\ \E stars \in {0} \cup Stars :
         /\ IF stars = 0 THEN diary[a].stars > 0 ELSE diary[a].status = "completed"
         /\ Calls(t, [op |-> "review", appt |-> a, stars |-> stars,
                      first |-> diary[a].stars = 0])
    /\ UNCHANGED <<diary, counselor, windows, published, told>>

(* A second first review breaks the one-to-one constraint.                 *)
SaveStars(t) ==
    /\ calls[t].op = "review"
    /\ LET job == calls[t] IN
         IF job.first /\ diary[job.appt].stars > 0
         THEN UNCHANGED diary /\ HangsUp(t)
         ELSE /\ diary' = [diary EXCEPT ![job.appt].stars = job.stars]
              /\ GoesOn(t, [op |-> "tally", appt |-> job.appt])
    /\ UNCHANGED <<counselor, windows, published, told>>

(* faulty: a review that is taken back is not counted anew. *)
TallyUnlessDeleted(t) ==
    /\ calls[t].op = "tally"
    /\ IF diary[calls[t].appt].stars = 0 THEN HangsUp(t)
       ELSE GoesOn(t, [op |-> "rate", appt |-> calls[t].appt, seen |-> Reviews])
    /\ UNCHANGED <<diary, counselor, windows, published, told>>

Tally(t) ==
    /\ calls[t].op = "tally"
    /\ GoesOn(t, [op |-> "rate", appt |-> calls[t].appt, seen |-> Reviews])
    /\ UNCHANGED <<diary, counselor, windows, published, told>>

Rate(t) ==
    /\ calls[t].op = "rate" /\ DiaryOpen
    /\ counselor' = [counselor EXCEPT !.rating = calls[t].seen]
    /\ HangsUp(t)
    /\ UNCHANGED <<diary, windows, published, told>>

-----------------------------------------------------------------------------
(* The profile: its owner edits it, an administrator rules on it, and each *)
(* saves the whole row as it was read.                                     *)

OwnerEdits(row) == {[row EXCEPT !.length = n] : n \in Lengths \ {row.length}}

AdminRules(row) ==
    {[row EXCEPT !.status = "approved", !.listed = TRUE],   \* approve, relist
     [row EXCEPT !.status = "rejected"],
     [row EXCEPT !.status = "suspended", !.listed = FALSE]} \ {row}

OpenProfile(t) ==
    /\ \E row \in OwnerEdits(counselor) \cup AdminRules(counselor) :
         Calls(t, [op |-> "save", row |-> row])
    /\ UNCHANGED <<diary, counselor, windows, published, told>>

SaveProfile(t) ==
    /\ calls[t].op = "save" /\ DiaryOpen
    /\ counselor' = calls[t].row
    /\ HangsUp(t)
    /\ UNCHANGED <<diary, windows, published, told>>

ChangeAvailability ==
    /\ Approved
    /\ \E w \in Opening :
         windows' = IF w \in windows THEN windows \ {w} ELSE windows \cup {w}
    /\ UNCHANGED <<diary, counselor, published, told, calls>>

-----------------------------------------------------------------------------
(* The report: the whole row is saved with the flag as it was read, then   *)
(* the flag alone is set and the student told.                             *)

Reported == {calls[t].appt : t \in {u \in Callers : calls[u].op \in {"report", "publish"}}}

OpenReport(t, a) ==
    /\ Booked(a) /\ Approved /\ Cardinality(published \cup told \cup Reported \cup {a}) <= MaxReports
    /\ \E publish \in BOOLEAN :
         Calls(t, [op |-> "report", appt |-> a, publish |-> publish, out |-> a \in published])
    /\ UNCHANGED <<diary, counselor, windows, published, told>>

(* faulty: an edited report is a draft again. *)
SaveReportAsDraft(t) ==
    /\ calls[t].op = "report"
    /\ LET job == calls[t] IN
         /\ published' = published \ {job.appt}
         /\ IF job.publish THEN GoesOn(t, [op |-> "publish", appt |-> job.appt])
            ELSE HangsUp(t)
    /\ UNCHANGED <<diary, counselor, windows, told>>

SaveReport(t) ==
    /\ calls[t].op = "report"
    /\ LET job == calls[t] IN
         /\ published' = IF job.out THEN published \cup {job.appt}
                         ELSE published \ {job.appt}
         /\ IF job.publish /\ ~job.out THEN GoesOn(t, [op |-> "publish", appt |-> job.appt])
            ELSE HangsUp(t)
    /\ UNCHANGED <<diary, counselor, windows, told>>

PublishReport(t) ==
    /\ calls[t].op = "publish"
    /\ published' = published \cup {calls[t].appt}
    /\ told' = told \cup {calls[t].appt}
    /\ HangsUp(t)
    /\ UNCHANGED <<diary, counselor, windows>>

-----------------------------------------------------------------------------

DiaryNext ==
    \/ \E t \in Callers :
        \/ \E a \in Appts : \/ AskForBooking(t, a) \/ Decide(t, a) \/ Reschedule(t, a)
                            \/ GiveStars(t, a) \/ OpenReport(t, a)
        \/ OpenProfile(t)
        \/ CheckBooking(t) \/ PlaceBooking(t) \/ SaveDecision(t) \/ SaveMove(t)
        \/ SaveStars(t) \/ Tally(t) \/ Rate(t) \/ SaveProfile(t)
        \/ SaveReport(t) \/ PublishReport(t)
    \/ ChangeAvailability

DiarySpec == DiaryInit /\ [][DiaryNext]_diaryVars

-----------------------------------------------------------------------------
(* Properties.                                                             *)

(* Sessions confirmed by booking, and not moved since, never overlap when  *)
(* they start less than the look-back apart, however requests interleave:  *)
(* the lock covers the look and the insert.  A session has no longest      *)
(* duration (models.py): one that is longer than the look-back is not seen *)
(* by a booking that starts later than that.                               *)
NearBookingsNeverOverlap ==
    \A a, b \in Appts :
        a # b /\ Stands(a) /\ Stands(b) /\ diary[a].sold /\ diary[b].sold
          => ~NearClash(diary[a].at, diary[a].length, b)

(* As long as no two requests write one column at once: an appointment is  *)
(* reviewed only when it was held, a student told of a report finds it     *)
(* published, and the rating is that of the reviews whenever nobody is     *)
(* about to write the profile.                                             *)
ReviewedWasHeld == \A a \in Appts : Booked(a) /\ diary[a].stars > 0 => diary[a].status = "completed"
ToldFindsReport == told \subseteq published
RatingIsHonest ==
    (\A t \in Callers : <<"profile">> \notin Columns(calls[t])) => counselor.rating = Reviews

DiaryInv ==
    /\ DiaryTypeOK /\ NearBookingsNeverOverlap
    /\ ReviewedWasHeld /\ ToldFindsReport /\ RatingIsHonest
=============================================================================
