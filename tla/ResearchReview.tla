--------------------------- MODULE ResearchReview ---------------------------
(***************************************************************************)
(* One paper of the Research Hub (documents/research_*.py): matching of    *)
(* reviewers, invitations, reviews, the editorial decision, appeals,       *)
(* corrections and the public document, with the deadline sweep, the       *)
(* moderators and the reviewer profiles that change next to it.            *)
(*                                                                         *)
(* Every mutation of a paper runs in one transaction that holds the row    *)
(* lock of the paper, so each is one action here.  Three operations are    *)
(* cut in two because what they read is not protected by that lock:        *)
(* publishing (it reads the Document row), a new expertise application     *)
(* and the revocation of a reviewer (they read the assignments).           *)
(*                                                                         *)
(* Abstractions.  A retired assignment (declined, expired, revoked,        *)
(* reassigned, filled, superseded, closed) leaves `rows': of such a row    *)
(* the code only reads who was invited for the version (`used') and which  *)
(* decisions were submitted (`decided').  A deadline is one of four ages,  *)
(* and each ages on its own.  A reviewer is named by the primary key of    *)
(* the profile, the last ranking criterion of the matching.                *)
(***************************************************************************)
EXTENDS Integers, FiniteSets

CONSTANTS
    Reviewers,       \* profiles, by primary key
    Topical,         \* those whose topics contain the topic of the paper
    Owner,           \* the author (may hold a profile)
    Admins,          \* research administrators (may hold profiles)
    DefaultReviews,  \* settings.RESEARCH_DEFAULT_REVIEWS
    AutoMatching,    \* settings.RESEARCH_AUTO_MATCHING
    Capacity,        \* settings.RESEARCH_REVIEWER_CAPACITY
    FirstProfiles,   \* what the profiles may be when the paper is submitted
    Restless,        \* profiles that change while the paper lives
    RequiredChoices, \* the review counts an administrator configures (1 to 3)
    MaxVersion       \* bound on current_version

Profile == [approved : BOOLEAN, available : BOOLEAN, enabled : BOOLEAN,
            expert : BOOLEAN, load : Nat]

ASSUME ConstantsAssumption ==
    /\ Reviewers \subseteq Nat /\ IsFiniteSet(Reviewers)
    /\ DefaultReviews \in 1..3 /\ AutoMatching \in BOOLEAN /\ Capacity \in Nat
    /\ FirstProfiles \subseteq [Reviewers -> Profile] /\ Restless \subseteq Reviewers
    /\ RequiredChoices \subseteq 1..3 /\ MaxVersion \in Nat \ {0}

VARIABLES
    paper,       \* the ResearchSubmission row, its active assignments and who was invited
    cases,       \* ResearchCase rows
    decided,     \* <<version, reviewer, decision>> of every submitted review
    public,      \* the Document of the paper and what the paper says of it
    profile,     \* ResearchReviewer rows, is_active of the user, work on other papers
    edit,        \* the profile change in progress for each reviewer
    publishing   \* a publish transaction holds the paper lock

vars == <<paper, cases, decided, public, profile, edit, publishing>>

Live == {"submitted", "invited", "reviewing"}
Open == Live \cup {"approval"}
Terminal == {"published", "withdrawn", "rejected"}
Statuses == Open \cup Terminal \cup {"changes"}
Versions == 1..MaxVersion

Assignment == [reviewer : Reviewers, version : Versions,
               status : {"invited", "accepted", "completed"},
               due : {"later", "soon", "reminded", "past", "met"},
               decision : {"", "approve", "changes"}]
Case == [kind : {"appeal", "correction"}, version : Versions,
         status : {"open", "upheld", "dismissed", "published", "rejected",
                   "cancelled", "closed"}]

-----------------------------------------------------------------------------
(* The assignments of the paper.                                           *)

Current(p) == {a \in p.rows : a.version = p.version}
Pending(p) == {a \in Current(p) : a.status = "invited"}
Occupied(p) == {a \in Current(p) : a.status \in {"accepted", "completed"}}
Completed(p) == {a \in Current(p) : a.status = "completed"}
Running(p) == {a \in Current(p) : a.status \in {"invited", "accepted"}}

Retire(p, gone) == [p EXCEPT !.rows = @ \ gone]
CloseInvited(p) == Retire(p, Pending(p))  \* faulty: accepted reviewers keep access
Close(p) == Retire(p, Current(p))
Replace(p, a, b) == [p EXCEPT !.rows = (@ \ {a}) \cup {b}]

Stage(p) ==
    CASE Cardinality(Completed(p)) >= p.required -> "approval"
      [] Cardinality(Completed(p)) < p.required /\ Occupied(p) # {} -> "reviewing"
      [] Occupied(p) = {} /\ Pending(p) # {} -> "invited"
      [] OTHER -> "submitted"

RefreshLive(p) ==  \* faulty: approval is never reopened
    IF p.status \in Live THEN [p EXCEPT !.status = Stage(p)] ELSE p
Refresh(p) == IF p.status \in Open THEN [p EXCEPT !.status = Stage(p)] ELSE p

Invite(p, chosen) ==
    [p EXCEPT !.rows = @ \cup
                 {[reviewer |-> r, version |-> p.version, status |-> "invited",
                   due |-> "later", decision |-> ""] : r \in chosen},
              !.used = @ \cup chosen]

-----------------------------------------------------------------------------
(* Matching.  prof stands for the profiles the transaction sees.           *)

ReviewerActive(prof, r) == prof[r].enabled /\ prof[r].approved

Candidates(p, prof) ==
    {r \in Reviewers : /\ prof[r].approved /\ prof[r].available
                       /\ prof[r].enabled /\ prof[r].expert
                       /\ prof[r].load < Capacity
                       /\ r # Owner /\ r \notin p.used}

Before(prof, q, r) ==
    \/ q \in Topical /\ r \notin Topical
    \/ /\ q \in Topical <=> r \in Topical
       /\ \/ prof[q].load < prof[r].load
          \/ prof[q].load = prof[r].load /\ q < r

Best(C, prof, n) == {r \in C : Cardinality({q \in C : Before(prof, q, r)}) < n}

Needed(p) == p.required - Cardinality(Occupied(p))
Batch(p) ==
    (IF Needed(p) + 1 < 4 THEN Needed(p) + 1 ELSE 4) - Cardinality(Pending(p))

NoticeAfter(p, C) ==
    IF C # {} THEN FALSE ELSE (IF Pending(p) = {} THEN TRUE ELSE p.notice)

Fill(p, prof) ==
    LET C == Candidates(p, prof) IN
    IF ~p.auto \/ p.status \notin Live THEN p
    ELSE IF Needed(p) <= 0 THEN Refresh(Retire(p, Pending(p)))
    ELSE IF Batch(p) <= 0 THEN p
    ELSE Refresh([Invite(p, Best(C, prof, Batch(p))) EXCEPT !.notice = NoticeAfter(p, C)])

Reset(p, prof) ==
    Fill([Close(p) EXCEPT !.status = "submitted", !.notice = FALSE], prof)

SameVersion(p) == [p EXCEPT !.used = {}]  \* faulty: the version is not raised
NextVersion(p) == [p EXCEPT !.version = @ + 1, !.used = {}]

(* The deadline sweep of one paper: release, remind, refresh, refill.      *)
LapsedIneligible(p, prof) ==  \* faulty: deadlines are not read
    {a \in Running(p) : ~ReviewerActive(prof, a.reviewer)}
LapsedOverdue(p, prof) == {a \in Running(p) : a.due = "past"}  \* faulty: eligibility is not read
Lapsed(p, prof) ==
    {a \in Running(p) : ~ReviewerActive(prof, a.reviewer) \/ a.due = "past"}
DueSoon(p, prof) == {a \in Running(p) \ Lapsed(p, prof) : a.due = "soon"}

MaintainFillFirst(p, prof) ==  \* faulty: refills before it releases
    LET filled == Fill(p, prof) IN
    IF p.status \in Live THEN Refresh(Retire(filled, Lapsed(filled, prof))) ELSE p
MaintainNoFill(p, prof) ==  \* faulty: the sweep never matches
    IF p.status \in Live THEN Refresh(Retire(p, Lapsed(p, prof))) ELSE p
Maintain(p, prof) ==
    LET remind == DueSoon(p, prof)
        swept == [p EXCEPT !.rows = (@ \ (Lapsed(p, prof) \cup remind))
                                      \cup {[a EXCEPT !.due = "reminded"] : a \in remind}]
    IN  IF p.status \in Live THEN Fill(Refresh(swept), prof) ELSE p

-----------------------------------------------------------------------------
HasCase(kind, status) == \E c \in cases : c.kind = kind /\ c.status = status
HasCaseAt(kind, status, v) == [kind |-> kind, version |-> v, status |-> status] \in cases
Opened(kind, v) == cases \cup {[kind |-> kind, version |-> v, status |-> "open"]}
SettledNever(kinds, outcome) == cases  \* faulty: the decision is not saved
Settled(kinds, outcome) ==
    {IF c.status = "open" /\ c.kind \in kinds THEN [c EXCEPT !.status = outcome] ELSE c
       : c \in cases}
MovedTooFar(v) ==  \* faulty: the case is moved after the version was raised again
    {IF c.status = "open" /\ c.kind = "correction" THEN [c EXCEPT !.version = v + 1] ELSE c
       : c \in cases}
MovedNever(v) == cases  \* faulty: a further revision forgets the open correction
Moved(v) ==
    {IF c.status = "open" /\ c.kind = "correction" THEN [c EXCEPT !.version = v] ELSE c
       : c \in cases}

NewPaper == [status |-> "submitted", version |-> 1, required |-> DefaultReviews,
             auto |-> AutoMatching, notice |-> FALSE, rows |-> {}, used |-> {}]

Init ==
    /\ profile \in FirstProfiles
    /\ paper = Fill(NewPaper, profile)
    /\ cases = {}
    /\ decided = {}
    /\ public = [doc |-> "none", version |-> 0, count |-> 1]
    /\ edit = [r \in Reviewers |-> "none"]
    /\ publishing = FALSE

PaperFree == ~publishing
Outside == <<profile, edit, publishing>>

-----------------------------------------------------------------------------
(* Reviewers.                                                              *)

LastSeatLate(p) == Cardinality(Occupied(p)) >= p.required  \* faulty: off by one
LastSeat(p) == Cardinality(Occupied(p)) + 1 >= p.required

Accept(r) ==
    /\ PaperFree
    /\ \E a \in Current(paper) :
         /\ a.reviewer = r /\ ReviewerActive(profile, r)
         /\ a.due # "past"
         /\ a.status = "invited" /\ paper.status \in Live
         /\ Cardinality(Occupied(paper)) < paper.required
         /\ LET seated == Replace(paper, a, [a EXCEPT !.status = "accepted", !.due = "later"])
                closed == IF LastSeat(paper) THEN Retire(seated, Pending(seated)) ELSE seated
            IN  paper' = Fill(Refresh(closed), profile)
    /\ UNCHANGED <<cases, decided, public, Outside>>

Decline(r) ==
    /\ PaperFree
    /\ \E a \in Current(paper) :
         /\ a.reviewer = r /\ ReviewerActive(profile, r)
         /\ a.due # "past"
         /\ a.status = "invited" /\ paper.status \in Live
         /\ paper' = Fill(Refresh(Retire(paper, {a})), profile)
    /\ UNCHANGED <<cases, decided, public, Outside>>

Review(r, decision) ==
    /\ PaperFree
    /\ \E a \in Current(paper) :
         /\ a.reviewer = r /\ ReviewerActive(profile, r)
         /\ a.due # "past"
         /\ a.status = "accepted" /\ paper.status \in Live
         /\ LET done == Replace(paper, a, [a EXCEPT !.status = "completed", !.due = "met",
                                                    !.decision = decision])
                judged == IF paper.required = 1 /\ decision = "changes"
                            THEN [Retire(paper, {a}) EXCEPT !.status = "changes"]
                            ELSE done
            IN  paper' = Fill(Refresh(judged), profile)
    /\ decided' = decided \cup {<<paper.version, r, decision>>}
    /\ UNCHANGED <<cases, public, Outside>>

-----------------------------------------------------------------------------
(* Administrators.                                                         *)

(* The assignment an administrator replaces: the one named in the request, *)
(* none, or, where one review is required, always one.                     *)
Targets(p) ==
    {{a} : a \in Current(p)}
      \cup (IF p.required = 1 /\ Current(p) # {} THEN {} ELSE {{}})

AssignedBusy(p, r) == \E a \in Occupied(p) : a.reviewer = r  \* faulty: ignores invitations
Assigned(p, r) == \E a \in Current(p) : a.reviewer = r

(* After an upheld appeal, a reviewer who has not judged this version.     *)
Decided(v, r) == \E d \in {"approve", "changes"} : <<v, r, d>> \in decided
FreshAlways(r) == TRUE  \* faulty: the appeal is forgotten
Fresh(r) == HasCaseAt("appeal", "upheld", paper.version) => ~Decided(paper.version, r)

Assign(u, r) ==
    /\ PaperFree
    /\ paper.status \in Open
    /\ profile[r].approved /\ profile[r].available /\ profile[r].enabled /\ profile[r].expert
    /\ r \notin {Owner, u}
    /\ Fresh(r)
    /\ \E target \in Targets(paper) :
         LET left == Retire(paper, target) IN
         /\ Cardinality(Occupied(left)) < left.required
         /\ ~Assigned(left, r)
         /\ paper' = Refresh(Invite(left, {r}))
    /\ UNCHANGED <<cases, decided, public, Outside>>

RequestChanges ==
    /\ PaperFree
    /\ paper.status \notin Terminal
    /\ paper' = Close([paper EXCEPT !.status = "changes"])
    /\ UNCHANGED <<cases, decided, public, Outside>>

Reject ==
    /\ PaperFree
    /\ paper.status \notin Terminal
    /\ LET correcting == HasCase("correction", "open") IN
         /\ paper' = Close([paper EXCEPT !.status =
                              IF correcting THEN "published" ELSE "rejected"])
         /\ cases' = Settled({"correction"}, "rejected")
    /\ UNCHANGED <<decided, public, Outside>>

EndorsedByCount(p) == Cardinality(Completed(p)) >= p.required  \* faulty: decisions are not read
Endorsed(p) ==
    /\ Cardinality(Completed(p)) >= p.required
    /\ Cardinality({a.reviewer : a \in Completed(p)}) >= p.required
    /\ \A a \in Completed(p) : a.decision = "approve"

(* publish: the checks, against the Document row read with the paper lock. *)
PublishBegin(u) ==
    /\ PaperFree
    /\ u # Owner
    /\ paper.status = "approval"
    /\ Endorsed(paper)
    /\ \A a \in Completed(paper) : ReviewerActive(profile, a.reviewer) /\ a.reviewer # u
    /\ public.doc # "hidden"
    /\ publishing' = TRUE
    /\ UNCHANGED <<paper, cases, decided, public, profile, edit>>

(* publish: the Document row is written whole and the transaction commits. *)
PublishCommit ==
    /\ publishing
    /\ public' = [doc |-> "shown", version |-> paper.version,
                  count |-> Cardinality(Completed(paper))]
    /\ cases' = Settled({"correction"}, "published")
    /\ paper' = Close([paper EXCEPT !.status = "published"])
    /\ publishing' = FALSE
    /\ UNCHANGED <<decided, profile, edit>>

Match ==
    /\ PaperFree
    /\ paper.status \in Live
    /\ paper' = Fill(paper, profile)
    /\ UNCHANGED <<cases, decided, public, Outside>>

Configure(required, auto) ==
    /\ PaperFree
    /\ paper.status \in Live
    /\ required # paper.required => Occupied(paper) = {}
    /\ paper' = Fill([paper EXCEPT !.required = required, !.auto = auto], profile)
    /\ UNCHANGED <<cases, decided, public, Outside>>

DecideAppeal(u, outcome) ==
    /\ PaperFree
    /\ u # Owner
    /\ HasCaseAt("appeal", "open", paper.version)
    /\ paper.status = "rejected"
    /\ cases' = Settled({"appeal"}, outcome)
    /\ paper' = IF outcome = "upheld" THEN Reset([paper EXCEPT !.auto = TRUE], profile)
                                      ELSE paper
    /\ UNCHANGED <<decided, public, Outside>>

-----------------------------------------------------------------------------
(* The author, or an administrator in the author's place.                  *)

Appeal ==
    /\ PaperFree
    /\ paper.status = "rejected"
    /\ \A c \in cases : ~(c.kind = "appeal" /\ c.version = paper.version)
    /\ cases' = Opened("appeal", paper.version)
    /\ UNCHANGED <<paper, decided, public, Outside>>

CancelCorrection ==
    /\ PaperFree
    /\ HasCase("correction", "open")
    /\ cases' = Settled({"correction"}, "cancelled")
    /\ paper' = [Close(paper) EXCEPT !.status = "published"]
    /\ UNCHANGED <<decided, public, Outside>>

WithdrawKeepsDocument(u) ==  \* faulty: the public copy stays
    /\ PaperFree
    /\ u \in Admins \/ (u = Owner /\ public.doc = "none")
    /\ paper.status \notin {"withdrawn", "rejected"}
    /\ paper' = Close([paper EXCEPT !.status = "withdrawn"])
    /\ cases' = Settled({"appeal", "correction"}, "closed")
    /\ UNCHANGED <<public, decided, Outside>>

Withdraw(u) ==
    /\ PaperFree
    /\ u \in Admins \/ (u = Owner /\ public.doc = "none")
    /\ paper.status \notin {"withdrawn", "rejected"}
    /\ public' = [public EXCEPT !.doc = IF @ = "none" THEN @ ELSE "hidden"]
    /\ paper' = Close([paper EXCEPT !.status = "withdrawn"])
    /\ cases' = Settled({"appeal", "correction"}, "closed")
    /\ UNCHANGED <<decided, Outside>>


Revise ==
    /\ PaperFree
    /\ paper.version < MaxVersion
    /\ paper.status = "changes"
    /\ cases' = Moved(paper.version + 1)
    /\ paper' = Reset(NextVersion(paper), profile)
    /\ UNCHANGED <<decided, public, Outside>>

ProposeCorrection ==
    /\ PaperFree
    /\ paper.version < MaxVersion
    /\ paper.status = "published" /\ public.doc = "shown"
    /\ cases' = Opened("correction", paper.version + 1)
    /\ paper' = Reset([NextVersion(paper) EXCEPT !.required = DefaultReviews,
                                                 !.auto = AutoMatching], profile)
    /\ UNCHANGED <<decided, public, Outside>>

-----------------------------------------------------------------------------
(* The clock, the beat task and the moderators of the public library.      *)

Older(due) == CASE due = "later" -> "soon" [] due \in {"soon", "reminded"} -> "past"

Age ==
    /\ \E a \in Running(paper) :
         /\ a.due \notin {"past", "met"}
         /\ paper' = Replace(paper, a, [a EXCEPT !.due = Older(@)])
    /\ UNCHANGED <<cases, decided, public, Outside>>

Sweep ==
    /\ PaperFree
    /\ paper.status \in Live
    /\ paper' = Maintain(paper, profile)
    /\ UNCHANGED <<cases, decided, public, Outside>>

ModeratorHides ==
    /\ public.doc = "shown"
    /\ public' = [public EXCEPT !.doc = "hidden"]
    /\ UNCHANGED <<paper, cases, decided, Outside>>

-----------------------------------------------------------------------------
(* Reviewer profiles, changed without the lock of the paper.               *)

SetProfile(r, p) == profile' = [profile EXCEPT ![r] = p]

(* A new application of expertise: the check, then the update commits.     *)
ApplyBegin(r) ==
    /\ edit[r] = "none"
    /\ \A a \in paper.rows : a.reviewer = r => a.status = "invited"
    /\ edit' = [edit EXCEPT ![r] = "apply"]
    /\ UNCHANGED <<paper, cases, decided, public, profile, publishing>>

ApplyCommit(r, expert) ==
    /\ edit[r] = "apply"
    /\ SetProfile(r, [profile[r] EXCEPT !.approved = FALSE, !.expert = expert])
    /\ edit' = [edit EXCEPT ![r] = "none"]
    /\ UNCHANGED <<paper, cases, decided, public, publishing>>

SetAvailable(r, available) ==
    /\ edit[r] = "none"
    /\ profile[r].available # available
    /\ SetProfile(r, [profile[r] EXCEPT !.available = available])
    /\ UNCHANGED <<paper, cases, decided, public, edit, publishing>>

Approve(u, r) ==
    /\ edit[r] = "none"
    /\ r # u /\ ~profile[r].approved
    /\ SetProfile(r, [profile[r] EXCEPT !.approved = TRUE])
    /\ UNCHANGED <<paper, cases, decided, public, edit, publishing>>

(* Revocation: the profile is saved and the papers to visit are read, then *)
(* each is locked and released from the reviewer, and the whole commits.   *)
RevokeBegin(u, r) ==
    /\ edit[r] = "none"
    /\ r # u
    /\ edit' = [edit EXCEPT ![r] = IF \E a \in paper.rows : a.reviewer = r
                                     THEN "revoke_here" ELSE "revoke"]
    /\ UNCHANGED <<paper, cases, decided, public, profile, publishing>>

Unseat(p, r, prof) ==
    LET left == Retire(p, {a \in Current(p) : a.reviewer = r}) IN
    IF p.status \in Open THEN Fill(Refresh([left EXCEPT !.status = "submitted"]), prof)
                         ELSE left

RevokeCommit(r) ==
    /\ edit[r] \in {"revoke", "revoke_here"}
    /\ edit[r] = "revoke_here" => PaperFree
    /\ SetProfile(r, [profile[r] EXCEPT !.approved = FALSE])
    /\ paper' = IF edit[r] = "revoke_here" THEN Unseat(paper, r, profile') ELSE paper
    /\ edit' = [edit EXCEPT ![r] = "none"]
    /\ UNCHANGED <<cases, decided, public, publishing>>

(* The account of the reviewer is disabled or enabled, and other papers    *)
(* give or take work: neither touches this paper.                          *)
SetEnabled(r, enabled) ==
    /\ profile[r].enabled # enabled
    /\ SetProfile(r, [profile[r] EXCEPT !.enabled = enabled])
    /\ UNCHANGED <<paper, cases, decided, public, edit, publishing>>

OtherWork(r, load) ==
    /\ profile[r].load # load
    /\ SetProfile(r, [profile[r] EXCEPT !.load = load])
    /\ UNCHANGED <<paper, cases, decided, public, edit, publishing>>

(* ResearchFileView: the reviewers who may open the manuscript.            *)
ReadersAny ==  \* faulty: an invitation opens the manuscript
    {r \in Reviewers : profile[r].approved /\ Assigned(paper, r)}
Readers ==
    {r \in Reviewers : profile[r].approved /\ \E a \in Current(paper) :
        a.reviewer = r /\ (a.status = "completed" \/ (a.status = "accepted" /\ a.due # "past"))}

-----------------------------------------------------------------------------
ReviewerStep ==
    \E r \in Reviewers :
        \/ Accept(r)
        \/ Decline(r)
        \/ \E d \in {"approve", "changes"} : Review(r, d)

AdminStep ==
    \/ RequestChanges
    \/ Reject
    \/ Match
    \/ \E n \in RequiredChoices, m \in BOOLEAN : Configure(n, m)
    \/ \E u \in Admins :
        \/ \E r \in Reviewers : Assign(u, r)
        \/ PublishBegin(u)
        \/ \E outcome \in {"upheld", "dismissed"} : DecideAppeal(u, outcome)

AuthorStep ==
    \/ Appeal
    \/ CancelCorrection
    \/ \E u \in Admins \cup {Owner} : Withdraw(u)
    \/ Revise
    \/ ProposeCorrection

ProfileStep ==
    \E r \in Restless :
        \/ ApplyBegin(r)
        \/ \E expert \in BOOLEAN : ApplyCommit(r, expert)
        \/ \E available \in BOOLEAN : SetAvailable(r, available)
        \/ \E u \in Admins : Approve(u, r) \/ RevokeBegin(u, r)
        \/ RevokeCommit(r)
        \/ \E enabled \in BOOLEAN : SetEnabled(r, enabled)
        \/ \E load \in {0, Capacity} : OtherWork(r, load)

Next ==
    \/ ReviewerStep
    \/ AdminStep
    \/ PublishCommit
    \/ AuthorStep
    \/ Age
    \/ Sweep
    \/ ModeratorHides
    \/ ProfileStep

Spec == Init /\ [][Next]_vars

(* Celery beat starts the sweep every 300 seconds, and a transaction that  *)
(* publishes ends; nobody else is obliged to act.  SweepFairness is        *)
(* WF_vars(Sweep) with ENABLED <<Sweep>>_vars written out.                 *)
SweepDue == PaperFree /\ paper.status \in Live /\ Maintain(paper, profile) # paper
SweepFairness == []<>~SweepDue \/ []<><<Sweep>>_vars
FairSpec == Spec /\ SweepFairness /\ WF_vars(PublishCommit)
-----------------------------------------------------------------------------
(* What must hold.                                                         *)

PaperType == [status : Statuses, version : Versions, required : 1..3, auto : BOOLEAN,
              notice : BOOLEAN, rows : SUBSET Assignment, used : SUBSET Reviewers]

(* The fields keep to their columns and choices (documents/models.py).     *)
TypeOK ==
    /\ paper \in PaperType
    /\ cases \subseteq Case
    /\ decided \subseteq Versions \X Reviewers \X {"approve", "changes"}
    /\ public \in [doc : {"none", "shown", "hidden"}, version : 0..MaxVersion, count : Nat]
    /\ profile \in [Reviewers -> Profile]
    /\ edit \in [Reviewers -> {"none", "apply", "revoke", "revoke_here"}]
    /\ publishing \in BOOLEAN

(* An assignment that grants anything belongs to the current version, and  *)
(* a paper that left the review has none: no old reviewer keeps the        *)
(* manuscript.  close_assignments only reaches the current version, and a  *)
(* revision raises the version before it closes, so this rests on every    *)
(* earlier handler having closed.                                          *)
NoStaleAssignment ==
    \A a \in paper.rows : a.version = paper.version /\ paper.status \in Open

(* The constraint research_unique_active_reviewer is never hit.            *)
OneAssignmentEach ==
    \A a, b \in paper.rows :
        a.reviewer = b.reviewer /\ a.version = b.version => a = b

(* "The first required number to accept occupy the seats": never more      *)
(* reviews than required, and no open invitation once they are taken.      *)
SeatsRespected ==
    /\ Cardinality(Occupied(paper)) <= paper.required
    /\ Cardinality(Occupied(paper)) = paper.required => Pending(paper) = {}

(* The stored stage of a paper under review is the one its assignments     *)
(* say, although every handler updates the two apart.                      *)
StageIsTrue == paper.status \in Open => paper.status = Stage(paper)

(* A correction case is open, at the current version, exactly while a      *)
(* paper with a public document is under review again: the constraints on  *)
(* ResearchCase are never hit and no case is left behind.                  *)
CorrectionTracksPaper ==
    /\ \A c \in cases : c.kind = "correction" /\ c.status = "open" => c.version = paper.version
    /\ \A c, d \in cases : c.kind = d.kind /\ c.version = d.version => c = d
    /\ HasCase("correction", "open")
         <=> public.doc # "none" /\ paper.status \notin {"published", "withdrawn"}

(* An open appeal is the appeal of the current, rejected version.          *)
AppealTracksPaper ==
    \A c \in cases : c.kind = "appeal" /\ c.status = "open" =>
        c.version = paper.version /\ paper.status = "rejected"

(* What the public page says of a publication is true: that many different *)
(* reviewers, none of them the author, approved that version.              *)
PublishedWasReviewed ==
    public.version # 0 =>
        /\ public.count >= 1
        /\ Cardinality({r \in Reviewers \ {Owner} : <<public.version, r, "approve">> \in decided})
             >= public.count

(* After an upheld appeal nobody who judged the version judges it again.   *)
AppealHasFreshReviewers ==
    HasCaseAt("appeal", "upheld", paper.version) =>
        \A a \in Running(paper) : ~Decided(paper.version, a.reviewer)

(* The manuscript is open to no more reviewers than there are seats, and   *)
(* to none once the paper was decided.                                     *)
ManuscriptStaysPrivate ==
    /\ Cardinality(Readers) <= paper.required
    /\ paper.status \notin Open => Readers = {}

(* A withdrawn paper has no public copy and no case left open.             *)
WithdrawnIsClosed ==
    paper.status = "withdrawn" => public.doc # "shown" /\ \A c \in cases : c.status # "open"

(* "Idempotent deadline sweep": run twice in a row, it changes nothing the *)
(* second time, no reminder, no invitation, no notice.                     *)
SweepIsIdempotent ==
    LET once == Maintain(paper, profile) IN Maintain(once, profile) = once

(* Every publication shows a newer version than the one before, and no     *)
(* handler brings a withdrawn paper back.                                  *)
PublicationAdvances == [][PublishCommit => public'.version > public.version]_vars
WithdrawnIsFinal == [][paper.status = "withdrawn" => paper'.status = "withdrawn"]_vars

(* An expired invitation or review is released: nobody waits for ever on   *)
(* a reviewer who does not answer.                                         *)
Overdue(r) == \E a \in Running(paper) : a.reviewer = r /\ a.due = "past"
OverdueIsReleased == \A r \in Reviewers : Overdue(r) ~> ~Overdue(r)

(* A reviewer who lost the approval or the account loses the seat, also    *)
(* when the change raced with the invitation or the acceptance.            *)
Ineligible(r) == ~ReviewerActive(profile, r) /\ \E a \in Running(paper) : a.reviewer = r
IneligibleIsReleased == \A r \in Reviewers : Ineligible(r) ~> ~Ineligible(r)

(* So no seat stays with a reviewer who cannot or does not use it.         *)
SeatsComeFree == OverdueIsReleased /\ IneligibleIsReleased

(* A paper that waits for a reviewer gets one when one can be matched.     *)
Unserved ==
    /\ paper.auto /\ paper.status \in Live
    /\ Needed(paper) > 0 /\ Pending(paper) = {}
MatchableIsMatched ==
    Unserved /\ Candidates(paper, profile) # {}
      ~> (~Unserved \/ Candidates(paper, profile) = {})
=============================================================================
