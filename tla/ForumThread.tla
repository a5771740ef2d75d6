----------------------------- MODULE ForumThread -----------------------------
(***************************************************************************)
(* One thread of the forum (forum/views.py, moderation_views.py,           *)
(* models.py): replies, the accepted answer, one reader's reports, and     *)
(* the moderators.  No handler holds a lock: it reads, and saves the       *)
(* columns it means to change later.                                       *)
(***************************************************************************)
EXTENDS Integers

CONSTANTS
    Replies,      \* answers
    Desks,        \* bound on the requests under way
    Apart,        \* sets of operations that are never under way together
    MaxFiled,     \* bound on the open reports of an answer
    NoReply       \* no accepted answer

Operations == {"post", "accept", "remove", "report"}

ASSUME ForumAssumption ==
    MaxFiled \in Nat \ {0} /\ Apart \subseteq SUBSET Operations /\ NoReply \notin Replies

VARIABLES
    thread,       \* the columns of the thread
    replies,      \* what became of each answer
    reports,      \* the open reports the reader filed on each
    moderated,    \* answers on which there is a report, open or resolved
    visits        \* what each request has read and still has to do

forumVars == <<thread, replies, reports, moderated, visits>>

Home == [op |-> "none"]
Existing == {r \in Replies : replies[r] \in {"shown", "hidden"}}

ForumTypeOK ==
    /\ thread \in [accepted: Replies \cup {NoReply}, solved: BOOLEAN, locked: BOOLEAN]
    /\ replies \in [Replies -> {"none", "shown", "hidden", "deleted"}]
    /\ reports \in [Replies -> 0..MaxFiled] /\ moderated \subseteq Replies

ForumInit ==
    /\ thread = [accepted |-> NoReply, solved |-> FALSE, locked |-> FALSE]
    /\ replies = [r \in Replies |-> "none"]
    /\ reports = [r \in Replies |-> 0] /\ moderated = {}
    /\ visits = [d \in Desks |-> Home]

-----------------------------------------------------------------------------
(* Requests.                                                               *)

Enters(d, job) ==
    /\ visits[d] = Home
    /\ \A e \in Desks : {visits[e].op, job.op} \notin Apart
    /\ visits' = [visits EXCEPT ![d] = job]
    /\ UNCHANGED <<thread, replies, reports, moderated>>

At(d, op, step) == visits[d].op = op /\ visits[d].step = step
Exits(d) == visits' = [visits EXCEPT ![d] = Home]
Continues(d, step) == visits' = [visits EXCEPT ![d].step = step]

-----------------------------------------------------------------------------
(* Answering.  The lock is looked at before the answer is scanned and      *)
(* stored; restoring a held-back answer does not look at it.               *)

AskToReply(d, r) ==
    /\ replies[r] = "none" /\ ~thread.locked
    /\ Enters(d, [op |-> "post", step |-> "create", reply |-> r])

CreateReply(d) ==
    /\ At(d, "post", "create")
    /\ replies[visits[d].reply] = "none"
    /\ replies' = [replies EXCEPT ![visits[d].reply] = "shown"]
    /\ Exits(d)
    /\ UNCHANGED <<thread, reports, moderated>>

HeldBack(d) ==
    /\ At(d, "post", "create")
    /\ Exits(d)
    /\ UNCHANGED <<thread, replies, reports, moderated>>

RestoreSubmission(r) ==
    /\ replies[r] = "none" /\ \A d \in Desks : visits[d].op = "post" => visits[d].reply # r
    /\ replies' = [replies EXCEPT ![r] = "shown"]
    /\ UNCHANGED <<thread, reports, moderated, visits>>

(* faulty: the answer is deleted where it is accepted, too. *)
DeleteDangling(r) ==
    /\ r \in Existing
    /\ replies' = [replies EXCEPT ![r] = "deleted"]
    /\ UNCHANGED <<thread, reports, moderated, visits>>

(* Its author, or staff, deletes an answer for good.  The foreign key of   *)
(* the thread is set to null, and nothing else of the thread changes.      *)
DeleteReply(r) ==
    /\ r \in Existing
    /\ replies' = [replies EXCEPT ![r] = "deleted"]
    /\ thread' = [thread EXCEPT !.accepted = IF @ = r THEN NoReply ELSE @]
    /\ UNCHANGED <<reports, moderated, visits>>

-----------------------------------------------------------------------------
(* Accepting, and taking it back.                                          *)

(* faulty: a removed answer can be accepted. *)
AcceptAny(r) == r \in Existing

Acceptable(r) == replies[r] = "shown"

AcceptAnswer(d, r) ==
    /\ Acceptable(r)
    /\ Enters(d, [op |-> "accept", step |-> "save", reply |-> r,
                  drops |-> thread.accepted = r])

(* Accepting an answer that was deleted since breaks the foreign key.      *)
SaveAccepted(d) ==
    /\ At(d, "accept", "save")
    /\ LET r == visits[d].reply IN
         thread' = IF visits[d].drops
                   THEN [thread EXCEPT !.accepted = NoReply, !.solved = FALSE]
                   ELSE IF r \in Existing
                   THEN [thread EXCEPT !.accepted = r, !.solved = TRUE] ELSE thread
    /\ Exits(d)
    /\ UNCHANGED <<replies, reports, moderated>>

-----------------------------------------------------------------------------
(* Reports, and the moderators who go through them.                        *)

(* faulty: a second report is filed next to an open one. *)
ReportAgain(r) == reports[r] < MaxFiled

MayReport(r) == reports[r] = 0

Report(d, r) ==
    /\ r \in Existing /\ MayReport(r)
    /\ Enters(d, [op |-> "report", step |-> "create", reply |-> r])

CreateReport(d) ==
    /\ At(d, "report", "create")
    /\ LET r == visits[d].reply IN
         /\ reports[r] < MaxFiled
         /\ reports' = [reports EXCEPT ![r] = @ + 1]
         /\ moderated' = moderated \cup {r}
    /\ Exits(d)
    /\ UNCHANGED <<thread, replies>>

(* Dismiss; and warn, ban or suspend the author.                           *)
ResolveReport(r) ==
    /\ reports[r] > 0
    /\ reports' = [reports EXCEPT ![r] = @ - 1]
    /\ UNCHANGED <<thread, replies, moderated, visits>>

(* Delete: any report will do, a resolved one as well.                     *)
RemoveReported(d, r) ==
    /\ r \in moderated
    /\ Enters(d, [op |-> "remove", reply |-> r,
                  step |-> IF r \in Existing THEN "hide" ELSE "resolve"])

(* The answer is hidden; one that was deleted since fails the request.     *)
HideReply(d) ==
    /\ At(d, "remove", "hide")
    /\ LET r == visits[d].reply IN
         IF r \in Existing
         THEN replies' = [replies EXCEPT ![r] = "hidden"] /\ Continues(d, "look")
         ELSE UNCHANGED replies /\ Exits(d)
    /\ UNCHANGED <<thread, reports, moderated>>

LookAtThread(d) ==
    /\ At(d, "remove", "look")
    /\ Continues(d, IF thread.accepted = visits[d].reply THEN "clear" ELSE "resolve")
    /\ UNCHANGED <<thread, replies, reports, moderated>>

(* faulty: the answer goes and the thread stays solved. *)
ClearAnswerOnly(d) ==
    /\ At(d, "remove", "clear")
    /\ thread' = [thread EXCEPT !.accepted = NoReply]
    /\ Continues(d, "resolve")
    /\ UNCHANGED <<replies, reports, moderated>>

ClearAccepted(d) ==
    /\ At(d, "remove", "clear")
    /\ thread' = [thread EXCEPT !.accepted = NoReply, !.solved = FALSE]
    /\ Continues(d, "resolve")
    /\ UNCHANGED <<replies, reports, moderated>>

ResolveAll(d) ==
    /\ At(d, "remove", "resolve")
    /\ reports' = [reports EXCEPT ![visits[d].reply] = 0]
    /\ Exits(d)
    /\ UNCHANGED <<thread, replies, moderated>>

LockThread ==
    /\ thread' = [thread EXCEPT !.locked = ~@]
    /\ UNCHANGED <<replies, reports, moderated, visits>>

-----------------------------------------------------------------------------

ForumNext ==
    \/ \E r \in Replies :
        \/ RestoreSubmission(r) \/ DeleteReply(r) \/ ResolveReport(r)
        \/ \E d \in Desks : \/ AskToReply(d, r) \/ AcceptAnswer(d, r)
                            \/ Report(d, r) \/ RemoveReported(d, r)
    \/ \E d \in Desks :
        \/ CreateReply(d) \/ HeldBack(d) \/ SaveAccepted(d) \/ CreateReport(d)
        \/ HideReply(d) \/ LookAtThread(d) \/ ClearAccepted(d) \/ ResolveAll(d)
    \/ LockThread

ForumSpec == ForumInit /\ [][ForumNext]_forumVars

-----------------------------------------------------------------------------
(* Properties.                                                             *)

(* However handlers interleave: a thread with an accepted answer is        *)
(* solved, and one that is solved has its answer, unless its author        *)
(* deleted it.                                                             *)
SolvedHasAnswer ==
    /\ thread.accepted # NoReply => thread.solved
    /\ thread.solved /\ thread.accepted = NoReply => \E r \in Replies : replies[r] = "deleted"

(* An accepted answer is never a deleted one, and as long as accepting and *)
(* removing are kept apart, no hidden one either once the removal is done. *)
AcceptedIsShown ==
    /\ thread.accepted # NoReply => thread.accepted \in Existing
    /\ \/ {"accept", "remove"} \notin Apart
       \/ \E d \in Desks : visits[d].op = "remove"
       \/ thread.accepted # NoReply => replies[thread.accepted] = "shown"

(* A reader who reports one thing at a time has one open report of it.     *)
OneOpenReport == {"report"} \in Apart => \A r \in Replies : reports[r] <= 1

ForumInv == ForumTypeOK /\ SolvedHasAnswer /\ AcceptedIsShown /\ OneOpenReport
=============================================================================
