------------------------- MODULE FacultyApplication -------------------------
(***************************************************************************)
(* One teacher account on its way to the Academy and the Skill track       *)
(* (accounts/views.py, identity_views.py, agreement_views.py, models.py,   *)
(* signup_serializer.py, serializers.py, skills/views.py): tracks, role,   *)
(* documents, and the agreement the account is bound to.  The letter has a *)
(* row lock; the account has none: each handler reads the profile, and     *)
(* later writes some of its columns, or all of them.                       *)
(***************************************************************************)
EXTENDS Integers

CONSTANTS
    Offices,      \* bound on the requests under way
    Crossing,     \* kinds of requests that may be under way together
    MaxUploads,   \* bound on the sets of documents uploaded
    MaxVersions   \* bound on the published versions of the letter

ASSUME FacultyAssumption ==
    MaxUploads \in Nat /\ MaxVersions \in Nat /\ Crossing \subseteq {"tracks", "row"}

VARIABLES
    profile,      \* the teacher's profile row
    role,         \* the TEACHER role is active
    letter,       \* the published versions and the draft
    uploads,      \* the sets of documents uploaded so far
    vetted,       \* those on file at an approval for the Academy
    reformed,     \* those the form has put there
    first,        \* the version first bound
    crossed,      \* two requests on the account were under way together
    errands       \* what each request has read and still has to do

facultyVars == <<profile, role, letter, uploads, vetted, reformed, first, crossed, errands>>

TrackStatus == {"locked", "pending", "approved", "rejected"}
Tracks == {"academy", "skill"}
Profile == [academy: TrackStatus, skill: TrackStatus, approved: BOOLEAN,
            docs: 0..MaxUploads, bound: 0..MaxVersions]   \* 0: none
AllColumns == {"academy", "skill", "approved", "docs", "bound"}
Done == [op |-> "none"]

FacultyTypeOK ==
    /\ profile \in Profile /\ role \in BOOLEAN
    /\ letter \in [live: 0..MaxVersions, draft: BOOLEAN]
    /\ uploads \in 0..MaxUploads /\ first \in 0..MaxVersions /\ crossed \in BOOLEAN
    /\ vetted \subseteq 0..MaxUploads /\ reformed \subseteq 0..MaxUploads

-----------------------------------------------------------------------------
(* Rows.                                                                   *)

ApprovedTracks(row) == {k \in Tracks : row[k] = "approved"}
HoldsTrack(row, track) == row[track] \in {"pending", "approved"}

(* The legacy flag follows the tracks.                                     *)
Synced(row) == [row EXCEPT !.approved = ApprovedTracks(row) # {}]

(* Skill is approved on applying for it, Academy waits for a review.       *)
Applied(row, track) ==
    Synced([row EXCEPT ![track] = IF track = "skill" THEN "approved" ELSE "pending"])

(* faulty: the flag is left as it was. *)
ByRoleUnsynced(row) == IF row.academy = "pending" THEN [row EXCEPT !.academy = "approved"] ELSE row

(* UserRole.approve takes a pending Academy application along.             *)
ByRole(row) ==
    Synced(IF row.academy = "pending" THEN [row EXCEPT !.academy = "approved"] ELSE row)

(* faulty: a new signed copy is bound anew. *)
BoundAnew(row) == [row EXCEPT !.bound = letter.live]

(* A signed copy binds once, to the version that is live then.             *)
Bound(row) == IF row.bound # 0 THEN row ELSE [row EXCEPT !.bound = letter.live]

(* The account has just applied for its first track, for the Academy       *)
(* perhaps with documents; nothing is published yet that it could sign.    *)
FacultyInit ==
    /\ uploads \in 0..MaxUploads /\ uploads <= 1
    /\ \E track \in (IF uploads = 0 THEN Tracks ELSE {"academy"}) :
         profile = Applied([academy |-> "locked", skill |-> "locked", approved |-> FALSE,
                            docs |-> uploads, bound |-> 0], track)
    /\ role = profile.approved
    /\ letter = [live |-> 0, draft |-> FALSE]
    /\ vetted = {} /\ reformed = {} /\ first = 0 /\ crossed = FALSE
    /\ errands = [t \in Offices |-> Done]

-----------------------------------------------------------------------------
(* Requests: nothing keeps two of them from one account; Crossing says     *)
(* which are let in together.                                              *)

Kind(op) == IF op \in {"patch", "form"} THEN "row" ELSE "tracks"
UnderWay == {t \in Offices : errands[t] # Done}
Admitted(op) == \A u \in UnderWay : Kind(errands[u].op) = Kind(op) /\ Kind(op) \in Crossing

Starts(t, job) ==
    /\ errands[t] = Done /\ Admitted(job.op)
    /\ errands' = [errands EXCEPT ![t] = job]
    /\ crossed' = (crossed \/ UnderWay # {})
    /\ UNCHANGED <<profile, role, letter, vetted, reformed, first>>

Proceeds(t, job) == errands' = [errands EXCEPT ![t] = job] /\ UNCHANGED crossed
Retires(t) == Proceeds(t, Done)

(* The columns named are saved as the request computed them.               *)
Saves(columns, row) ==
    /\ profile' = [c \in AllColumns |-> IF c \in columns THEN row[c] ELSE profile[c]]
    /\ vetted' = IF profile'.academy = "approved" /\ profile.academy # "approved"
                 THEN vetted \cup {profile'.docs} ELSE vetted
    /\ first' = IF first = 0 THEN profile'.bound ELSE first

(* A request of the teacher's, without new documents or with some, among   *)
(* them perhaps the signed letter.                                         *)
Brings(t, op, row, mayUpload) ==
    \/ /\ Starts(t, [op |-> op, row |-> row, files |-> {}])
       /\ UNCHANGED uploads
    \/ /\ mayUpload /\ uploads < MaxUploads
       /\ \E files \in {{"docs"}, {"docs", "bound"}} :   \* columns they go to
            Starts(t, [op |-> op, row |-> [row EXCEPT !.docs = uploads + 1], files |-> files])
       /\ uploads' = uploads + 1

(* faulty: the version is recorded and the file is not. *)
OnlyRecorded(job) ==
    IF "bound" \in job.files THEN [Bound(job.row) EXCEPT !.docs = profile.docs] ELSE job.row

\* provisioning, and both editors, through record_agreement_signature.
Brought(job) == IF "bound" \in job.files THEN Bound(job.row) ELSE job.row

-----------------------------------------------------------------------------
(* Applying for a further track, and again after a rejection.              *)

AddTrack(t) ==
    \E track \in Tracks :
        /\ ~HoldsTrack(profile, track)
        /\ Brings(t, "add", Applied(profile, track), track = "academy")

(* One transaction: the tracks and the flag, the role, and what came with  *)
(* the application.                                                        *)
SaveTrack(t) ==
    /\ errands[t].op = "add"
    /\ LET row == Brought(errands[t]) IN
         /\ Saves({"academy", "skill", "approved"} \cup errands[t].files, row)
         /\ role' = (role \/ ApprovedTracks(row) # {})
    /\ Retires(t)
    /\ UNCHANGED <<letter, uploads, reformed>>

ReapplyAcademy(t) ==
    /\ profile.academy = "rejected"
    /\ Starts(t, [op |-> "reapply"])
    /\ UNCHANGED uploads

SaveReapplied(t) ==
    /\ errands[t].op = "reapply"
    /\ Saves({"academy"}, [profile EXCEPT !.academy = "pending"])
    /\ Retires(t)
    /\ UNCHANGED <<role, letter, uploads, reformed>>

-----------------------------------------------------------------------------
(* The review: the tracks are one statement, the role another.             *)

ReviewAcademy(t) ==
    /\ profile.academy = "pending"
    /\ \E verdict \in {"approved", "rejected"} :
         Starts(t, [op |-> "review", row |-> Synced([profile EXCEPT !.academy = verdict])])
    /\ UNCHANGED uploads

RecordReview(t) ==
    /\ errands[t].op = "review"
    /\ Saves({"academy", "approved"}, errands[t].row)
    /\ Proceeds(t, [errands[t] EXCEPT !.op = "settle"])
    /\ UNCHANGED <<role, letter, uploads, reformed>>

(* faulty: a rejection always takes the role. *)
RoleOfAcademy(row) == row.academy = "approved"

(* A rejected applicant keeps the role as long as a track survives.        *)
RoleAfter(row) == row.academy = "approved" \/ (role /\ ApprovedTracks(row) # {})

SettleRole(t) ==
    /\ errands[t].op = "settle"
    /\ role' = RoleAfter(errands[t].row)
    /\ Retires(t)
    /\ UNCHANGED <<profile, letter, uploads, vetted, reformed, first>>

-----------------------------------------------------------------------------
(* Two more ways to an active role, both by UserRole.approve.              *)

ApproveTeacherRole(t) ==
    /\ ~role
    /\ Starts(t, [op |-> "grant"])
    /\ UNCHANGED uploads

SaveRole(t) ==
    /\ errands[t].op = "grant"
    /\ role' = TRUE
    /\ Proceeds(t, [op |-> "look"])
    /\ UNCHANGED <<profile, letter, uploads, vetted, reformed, first>>

ReadProfile(t) ==
    /\ errands[t].op = "look"
    /\ Proceeds(t, [op |-> "sync", row |-> ByRole(profile)])
    /\ UNCHANGED <<profile, role, letter, uploads, vetted, reformed, first>>

SyncTracks(t) ==
    /\ errands[t].op = "sync"
    /\ Saves({"academy", "approved"}, errands[t].row)
    /\ Retires(t)
    /\ UNCHANGED <<role, letter, uploads, reformed>>

(* An administrator lists the teacher as an expert: one transaction, whose *)
(* first statement locks the row.                                          *)
ListExpert ==
    /\ Admitted("list")
    /\ LET listed == [profile EXCEPT !.skill = "approved", !.approved = TRUE] IN
         Saves({"academy", "skill", "approved"}, IF role THEN listed ELSE ByRole(listed))
    /\ role' = TRUE
    /\ UNCHANGED <<letter, uploads, reformed, crossed, errands>>

-----------------------------------------------------------------------------
(* The teacher's two editors save the whole row as they read it, changed.  *)

(* faulty: the documents of whoever sells skills are locked. *)
LockedForExperts(row) == row.skill = "approved"

(* The profile editor refuses documents once the Academy has approved.     *)
DocumentsLocked(row) == row.academy = "approved"

PatchProfile(t) ==
    /\ role
    /\ Brings(t, "patch", profile, ~DocumentsLocked(profile))

(* The form is open to every applicant, and does not ask.                  *)
FillForm(t) == Brings(t, "form", profile, TRUE)

SaveRow(t) ==
    /\ errands[t].op \in {"patch", "form"}
    /\ LET row == Brought(errands[t]) IN
         /\ Saves(AllColumns, row)
         /\ reformed' = IF errands[t].op = "form" THEN reformed \cup {row.docs} ELSE reformed
    /\ Retires(t)
    /\ UNCHANGED <<role, letter, uploads>>

-----------------------------------------------------------------------------
(* The letter: every writer holds its row.                                 *)

LetterOnly == UNCHANGED <<profile, role, uploads, vetted, reformed, first, crossed, errands>>

(* Typed anew, or an old version loaded into it.                           *)
SaveDraft == letter' = [letter EXCEPT !.draft = TRUE] /\ LetterOnly
DiscardDraft == letter.draft /\ letter' = [letter EXCEPT !.draft = FALSE] /\ LetterOnly

PublishDraft ==
    /\ letter.draft /\ letter.live < MaxVersions
    /\ letter' = [live |-> letter.live + 1, draft |-> FALSE] /\ LetterOnly

-----------------------------------------------------------------------------

FacultyNext ==
    \/ \E t \in Offices :
        \/ AddTrack(t) \/ SaveTrack(t) \/ ReapplyAcademy(t) \/ SaveReapplied(t)
        \/ ReviewAcademy(t) \/ RecordReview(t) \/ SettleRole(t)
        \/ ApproveTeacherRole(t) \/ SaveRole(t) \/ ReadProfile(t) \/ SyncTracks(t)
        \/ PatchProfile(t) \/ FillForm(t) \/ SaveRow(t)
    \/ ListExpert
    \/ SaveDraft \/ DiscardDraft \/ PublishDraft

FacultySpec == FacultyInit /\ [][FacultyNext]_facultyVars

-----------------------------------------------------------------------------
(* Properties.                                                             *)

(* The legacy flag says whether some track is approved, whatever order of  *)
(* applications, reviews, listings and whole-row saves led there.          *)
FlagFollowsTracks == profile.approved <=> ApprovedTracks(profile) # {}

(* Whoever has an approved track can enter it, unless the review is        *)
(* between its two statements.                                             *)
ApprovedMayEnter ==
    (\A t \in UnderWay : errands[t].op # "settle") => (profile.approved => role)

(* An approved faculty's documents are those on file at an approval; only  *)
(* the form has put others there.                                          *)
FilesAsVetted == profile.academy = "approved" => profile.docs \in vetted \cup reformed

(* Whoever is bound to a version has documents on file, and as long as no  *)
(* two requests crossed, is bound to the first one for good.               *)
BindingStands ==
    /\ profile.bound # 0 => profile.docs # 0
    /\ crossed \/ profile.bound = first

FacultyInv ==
    FacultyTypeOK /\ FlagFollowsTracks /\ ApprovedMayEnter /\ FilesAsVetted /\ BindingStands
=============================================================================
