# Shiksha backend: TLA+ models, checks and proofs

The repository is a Django backend of an education platform: about a hundred
thousand lines in twenty-three apps, served by several worker processes (HTTP
and websockets over ASGI), a Celery worker with a beat schedule, PostgreSQL,
Redis and LiveKit. Most requests are a check and a write. What is hard is what
happens between them: handlers that interleave on one row, some behind a row
lock and many not; timers in the memory of one worker; beat jobs; webhooks that
come late or never; processes that die between two statements. The models follow
that, and leave formatting, validation of fields, mails and texts out.

All source paths below are relative to `src/`.

## 1. Inventory

State, operations, interactions, what is hard, and what makes each part correct.

| Part | State it keeps | Operations | Hard behaviour | What makes it correct | Modelled |
|---|---|---|---|---|---|
| **Research Hub** (`documents/research_*.py`, `documents/tasks.py`) | a paper, its versions, assignments, cases, the public document, reviewer profiles | submit, match, accept, decline, review, assign, decide, publish, appeal, correct, withdraw, revise; apply, approve, revoke; the deadline sweep | all but three operations hold the paper's lock; profiles and the public document change without it; deadlines; a round must leave nothing to the next | seats and stage agree with the assignments; only the current version grants anything; what is published was reviewed; cases and paper end together; overdue reviewers lose the seat | yes |
| **Private sessions** (`sessions_app/views.py`, `consumers.py`, the cleanup command) | the session row, its reschedule history, invitations, chat, a connection count, timers per worker | request, answer, reschedule, start, end, chat, join; connect, disconnect, expire, clean up | no lock and no transaction: every handler saves the whole row it read; the count is several statements; timers die with the worker | the life cycle never goes back; rows stay coherent; the count never exceeds the sockets; an empty room ends | mostly |
| **Enrollment and subscriptions** (`enrollments/`, `Batch` of `courses/`) | enrollments, subscriptions, requests, batch capacity | free enrollment, request and review, administrators' enroll, revoke, reactivate, move; daily expiry | some placements lock the batch and some do not; a grant follows its transaction; expiry is three statements | access and enrollment agree; one request grants once; a repeated free enrollment adds nothing; a locked placement finds a seat | mostly |
| **Live classes** (`livestream/`) | stored status, absence of the teacher, times, attendance intervals, the LiveKit room | join, pause, extend, end, cancel, reschedule; three beat jobs; webhooks | the stored status is written by requests, jobs and webhooks from copies; webhooks late, reordered or lost; clean-up after the end | an overdue or abandoned class ends; attendance is repaired | partly |
| Document library, moderation | documents, votes, removal | upload, vote, remove, restore | publication of a paper writes the same row | a removal survives | only as the moderator of ResearchReview |
| **Group sessions, instant rooms** (`group_session_*.py`, the cleanup command) | the room row, invitations, cutoff tasks, sockets | invite, answer, edit, start, join, extend, end, cancel; connect, disconnect; cutoff with retries; cleanup | only the start looks twice; an edit saves what it read before the start; a departure is several statements; the broker may lose a task; two nets with two notions of the deadline | nothing over comes back; a live room has a task that ends it; overdue, deserted and missed rooms end | partly |
| **Quizzes** (`quizzes/`) | attempts, answers, scores | start, resume, check, submit, assign | start locks the profile, submit the attempt, check nothing | one open attempt, the quota is kept, what was submitted stands | partly |
| **Skill marketplace** (`skills/`) | sessions, the expert's grid in one JSON value, the expert's counter | book, answer, propose, accept, refuse, cancel, complete, no-show; auto-decline, lapse | two writers of the grid lock the expert and the others write back a copy | a slot has one session and a session its slot; a stale request ends | partly |
| **Chat** (`chat/`) | messages, the outbox, notifications, muting | send, send again, relay | resent messages; relays that overlap, fail and die | a message is stored once and told to everyone or given up after repeated failures | partly |
| **Scholarship exam** (`scholarship/`) | eligibility record, exam, award | reserve, start, answer, submit, redeem, void, review; two sweeps | no lock anywhere: submission against sweep, voiding against both | one attempt counts, a spent award stays spent, an overdue exam is scored | partly |
| **Counseling** (`counseling/`) | appointments, reviews and rating, reports, availability, the profile | book, decide, move, review, report, edit, approve and suspend | one lock, taken by booking alone; the profile is saved whole | booked hours that start near each other never overlap; only held sessions are reviewed; the rating is that of the reviews | partly |
| **Forum** (`forum/`) | threads, answers, accepted answer, reports | answer, delete, accept, report; remove, dismiss, lock, restore | no lock; the answer, the thread and the reports are saved one after the other | an accepted answer is there and marks its thread solved; one open report of a reader | partly |
| **Teacher applications and agreements** (`accounts/`, listing in `skills/`) | two tracks, a legacy flag, the role, documents, the bound version of the letter | apply, review, apply again, list as an expert, edit the profile, fill the form; draft and publish the letter | four writers of the tracks, two editors that save the whole row; the role is a row of its own | flag and role follow the tracks; approved documents stand; a signature is bound once | partly |
| Accounts, sign-in, profiles (`accounts/`) | users, profiles, tokens | register, sign in, switch, remove | libraries; removal against a purchase | no access is stranded | no |
| Payments (`payments/`) | orders, payments | order, webhook | order creation is switched off | an order is paid once | no |
| Courses, recordings, assignments, materials, content studio, dashboard, notifications, activity, news, settings | catalogue rows, files, feeds | create, edit, list, deliver | little that survives one request | | no |
| Configuration (`config/`, `docker-compose.yml`) | beat schedule, workers | | it justifies the fairness and the interleaving of the models | | as assumptions |

How they interact: enrollment opens the batch whose classes, quizzes and
recordings a learner sees; a live class reports to attendance through LiveKit's
webhooks; publication of a paper writes the document library's row, and
moderation hides it; every part sends notifications, whose failure none of them
waits for. Parts share rows, not messages, with three exceptions: LiveKit's
webhooks, the websocket groups and Celery tasks with an eta.

## 2. Modules

| Module | Models | State and actions |
|---|---|---|
| `ResearchReview` | one paper from submission to publication or withdrawal, the reviewer profiles around it | `paper` holds the row, the active assignments and who was invited; one action per handler of `research_views.py`; `Fill`, `Maintain`, `Refresh`, `Reset` are `fill_review_slots`, `maintain_paper`, `refresh_stage`, `reset_round`. Every action runs them where the handler calls them. Publishing, applying and revoking are two steps, because what they check is outside the paper's lock. |
| `ResearchReviewProofs` | theorems about it: rows and seats, then cases, then assignments and stages | section 6 |
| `PrivateSession` | one session row and its handlers | each handler is a task: `Begin` reads and checks, later steps record, save, purge the chat, close the call, post. Tasks interleave and may die between steps. |
| `SessionLifecycle` | the promise of the model's docstring: request, approval, live, completed | abstract specification; `PrivateSession` instantiates it with `phase <- Phase` |
| `PrivateRoom` | sockets, connection count, timers of each worker, cron | EXTENDS `PrivateSession` (the count is a column of the row its handlers save whole); each database statement of `connect` and `disconnect` is a step |
| `PrivateRoomProofs` | theorems about the two | section 6 |
| `CourseEnrollment` | one course, its batches and learners | what runs behind the batch lock is one action; free enrollment, review, move and expiry are cut where they are not protected |
| `LiveClass` | one class, its attendance, room and webhooks | a request or job is a list of steps (`save` of named columns, `close`, `room`, `token`, `reconcile`) from the row it read; webhooks are a set handled in any order |
| `SkillBooking` | one expert's sessions and weekly grid | a handler is a clerk that read a row, saves it, loads the expert, and writes the whole grid back; booking and accepting a new time do it in one step under the lock; the sweeps go through the rows one query found |
| `QuizAttempt` | one learner's attempts of one quiz in several tabs | `StartAttempt`, `StartLook`, `StartSweep`, `StartCommit` under the profile's lock, `Submit` and `SubmitCommit` under the attempt's, `Check` and `CheckCommit` under none |
| `ChatOutbox` | sends under a client_id, the outbox, overlapping relays | look, insert and commit are steps; a relay picks, claims a row, tells one after the other, and commits, counts the failure or dies |
| `AtLeastOnce` | what the outbox's docstrings promise | abstract specification; `ChatOutbox` instantiates it with `state <- EventState` |
| `GroupRoom` | one group or instant room with its tasks | handlers, the edit among them, read and save later; `StartRoom` alone looks again; each database call of `disconnect` (decrement, read-back, clamp, mark) is a step; `Queue` may lose its Celery task; `Cleanup` is the command |
| `ScholarshipExam` | one pupil's record, exam and award, several accounts | every handler that decides on what it read is two steps; the sweep submits one exam after the other in one task |
| `CounselingDiary` | one counsellor's appointments, availability, rating, reports and profile row | a request reads and decides, and saves later; booking looks and inserts under the lock on the counsellor's row |
| `ForumThread` | one thread, its answers, one reader's reports, the moderators | posting, accepting, reporting and removing check first and save later; removing is four steps (hide, look, clear, resolve) |
| `FacultyApplication` | one teacher account on its way to the two tracks, and the letter | a request reads the profile row and later saves the columns it changed, or all of them; the review and the superuser's approval write profile and role in separate steps |
| `CourseEnrollmentProofs`, `ChatOutboxProofs`, `QuizAttemptProofs`, `GroupRoomProofs`, `LiveClassProofs` | theorems about access, the outbox, the attempts, the room and the live class | section 6 |
| `DesksProofs` | theorems about `ForumThread`, `FacultyApplication`, `CounselingDiary`, `SkillBooking`, about these four side by side as `MCDesks` has them, and about `ScholarshipExam` | section 6 |
| `MCOccupancy`, `MCDesks`, `MCDeadlines` | parts side by side | section 3 |
| `MCCourseEnrollment` | one learner who only calls free enrollment, in two handlers | some of the behaviours of `CourseEnrollment`, for `stacked_terms` |
| `MC*` | constants for the checker | values, symmetry, one constraint each, explained there |

Definitions keep the source's names where they name code. The definitions marked
`faulty:` are not part of a model: each is a plausible bug of the definition that
follows it, kept to show that the properties can fail (section 5). `PROJECT.json`
gives for each definition the lines it stands for.

What each model abstracts:

* `ResearchReview`: retired assignments leave the set, as the code reads of them
  only who was invited for the version (`used`) and what was decided (`decided`).
  A deadline is later, soon, reminded or past, and each ages on its own. Other
  papers are a load per reviewer that changes at will.
* `PrivateSession`: a date and a time are one slot; the chat is whether rows exist.
* `PrivateRoom`: a person has one socket; `all_left_at` is its age up to the grace.
* `CourseEnrollment`: a subscription is its status and the days left, a batch
  keeps its capacity and stays active.
* `SkillBooking`: one listed expert; time is whether a row's scheduled time is past
  and whether its request is older than 24 hours; a blackout is a slot not open.
* `QuizAttempt`: a question has a right and a wrong choice and is worth one mark. A
  submitted list may name a question more than once, as the serializer does not object:
  rows that say the same are told apart by a number, and `MaxItems` bounds the list and
  the rows that say the same.
* `ChatOutbox`: one conversation, one sender; gates on posting are left out.
* `GroupRoom`: time counts from the start of the room. A person has one socket, from its
  counting on, and no socket server dies (`PrivateRoom` lets them). `agreed` and `raised`
  only record what happened: the latest end the room has had since a task was last
  queued, and how many late edits have moved it beyond what that task knows. Whom an edit
  invites besides is invited from the start.
* `FacultyApplication`: the verification documents are one set, numbered by upload.
  `vetted`, `reformed`, `first` and `crossed` only record what happened.
* `ForumThread`: answers alone; `reports` counts the open ones of one reader.
* `ScholarshipExam`: a paper is one question, so a score is 0 or 1 and 1 earns the
  award.
* `LiveClass`: ticks stand for minutes; the room's two limits (reconnect, abandon)
  and the grace keep their order and not their length. A webhook handler is one
  step: joined and left lock the row; finished does not, which hides a lost update
  of its own.

## 3. Runs

Three runs put parts *side by side*: a variable `part` is chosen in the initial
state, a behaviour moves that part alone, and the others stay as they began. Their
state spaces add up and do not multiply; the properties of a part are checked
over its behaviours as if it had a run of its own. Parts that really share rows are
composed instead (`PrivateRoom` extends `PrivateSession`, as its count is a column
of the row the handlers save whole).

| Run | Instance | Bounds and why they are enough | What it shows |
|---|---|---|---|
| `workflow` | 3 reviewers, 1 or 2 seats, one version; and one approved reviewer among the three, 1 seat, three versions | with three reviewers two can take the seats and one is left to replace, refuse or judge an appeal; with one the versions are the published one, a correction, and a revision of the correction | seats, stage, one assignment for each, nothing stale, appeals, fresh reviewers, publication only of what was approved; cases follow the paper, publication advances, withdrawal is final and closes everything |
| `profiles_and_progress` | 2 reviewers, one of them changing, 1 version | one profile is enough for every race of profile and paper, the other competes | the manuscript stays private; the sweep is idempotent; overdue and ineligible reviewers are released and a paper is matched |
| `occupancy` | room: 2 people, 2 workers, 2 timers, grace 2; course: 2 learners, one batch with 1 seat, 2 handlers under way, term 1 of at most 2 days | two sockets give every crossing of arrival and departure, two workers timers that the other cannot cancel; two learners for one seat, a term extended once | the count is covered, an empty room is noticed, the map names sleeping timers; access agrees with enrollment, a request grants once, a free term is stacked only by overlapping calls, locked placements fit |
| `live_class` | teacher and one student, one request in flight, 3 actions of people, horizon 3, 1 failure | start, end, extension, abandonment and hard end all fall inside the horizon | overdue and abandoned classes end, missed departures are repaired |
| `desks` | session: 2 requests, 2 slots, 1 death; skill: 2 bookings, 2 slots, 2 clerks; quiz: 3 tabs, 3 attempts, four kinds of quiz, lists of at most 2 answers; exam: 2 browsers and the sweep, 2 records; counselling: 2 appointments, 3 times, 1 length, longer than the look-back, 2 callers, 1 report; forum: 2 answers, 2 requests, at most 2 open reports; teacher: 2 requests, 2 sets of documents, 2 versions of the letter | two handlers are the smallest overlap and a third only overwrites once more; in the quiz a start, a check and a submit together need three tabs; two answers to the one question say the same or not; three times make two sessions start within the look-back, at its edge, or at once; a second set of documents and a second version are what may wrongly replace the first | coherent rows, recorded proposals, the books of skills, quizzes, exams, counsellors, forum threads and teacher accounts, what was submitted or spent stays so |
| `deadlines` | room: 2 people, 1 worker, 1 timer and cron, 1 death; skill: 1 booking, 1 clerk and the sweeps, 1 crash; chat: 3 sends, two of one client_id, 2 relays, batch 1, 2 faults, 2 attempts; exam: 1 browser, 1 record | the one worker's death is the case cron exists for; two faults reach `MaxAttempts`, and two relays with a batch of one compete for the backlog | empty rooms, unanswered requests and overdue exams end; the outbox keeps its promise and stores a message once |
| `group_room` | host and one guest, a scheduled or an instant room; two handlers, one for joins and extensions and one for edits, ends and cancellations (`Serves`), beside the worker and the command; lengths 1 and 2, edits that lengthen, shorten or move the start; 1 extension, 1 decline, 1 lost task, 1 retry, horizon 2 | an edit, an end or a cancellation crosses the start and the extension; the early task, its retry and its loss all fall inside the horizon; two sockets cross in an instant room, in a scheduled one the host's crosses the start (`Callers`) | nothing over comes back; a task stands for a live room; an empty room neither looks occupied nor stays unmarked; overdue, deserted and missed rooms end |
| `overwritten_status` | 2 requests, 2 slots | | **violated**: finding 1 |
| `reopened_class` | as `live_class` | | **violated**: finding 2 |
| `extension_cut` | scheduled rooms, 1 handler of any kind, 1 extension | | **violated**: finding 3 |
| `poisoned_exam` | 1 browser, 2 records, an admin voids | | **violated**: finding 4 |
| `stacked_terms` | 1 learner, 2 handlers, only calls of free enrollment, term 1 of at most 2 days | | **violated**: finding 5 |

Every instance stops by its bounds, and the programs themselves may rest (a
decided paper, a finished session), so deadlock is not checked.

Restrictions are part of what a run claims, and section 5 names what happens
outside them:

* `workflow`: a paper is revised only where one reviewer is approved (`LongForOne`);
  with three, the run stays with the first version.
* `occupancy`: the properties of the course speak of learners none of whose own
  handlers overlapped (`Alone`), and exploration stops once two did (`NoOverlap`);
  overlapping handlers of *different* learners are all there. `stacked_terms` shows what
  two handlers of one learner do, and section 5 lists the rest. In the room,
  exploration stops when the session is over (`NotOver`, also in `deadlines`).
* `desks`: of the skill handlers only booking, accepting a new time and refusing it
  overlap (`Overlapping`), and an expert reports a no-show from "confirmed" only
  (`NoShowFrom`); no deadline of a quiz passes while its submit runs
  (`Punctual`); no admin voids an exam under way or reviews (`VoidsSitting`,
  `Reviewing`); no two counselling requests are about to write one column of one row,
  the time apart (`Colliding`); an answer is not accepted while one is removed, nor
  does the reader report twice at once (`KeptApart`); of the requests on a teacher
  account two overlap only if both are saves of the whole row (`Crossing`).
* `deadlines` lifts those of skills (`Overlapping` is everything) and of exams, with
  one clerk and one record.

## 4. Fairness

| Assumed | Because |
|---|---|
| the research sweep runs again and again while it has something to do | the beat starts it every 300 s (`config/settings_base.py:476`, `documents/tasks.py`) |
| a publication that began ends | it is one transaction |
| in the room: started database steps go on, clocks run, a sleeping timer fires, cron runs | event loop and thread pool; `AUTO_EXPIRE_DELAY`; `config/celery.py:89` runs the cleanup every three minutes |
| in a class: the beat jobs begin or go on, requests go on, webhooks are handled | `config/celery.py`: sync and sample each minute, auto-complete every five; a lost webhook is the action `Lose`, bounded by `MaxFailures` |
| skills: the auto-decline starts again and again, strongly fair as the other sweep or a handler may be in the way, and what started goes on | `config/celery.py:69`, every 15 minutes |
| chat: a relay starts, picks, tells and commits, unless a fault comes first | `config/celery.py:81`, every ten seconds; faults are bounded by `MaxFaults` |
| group rooms: the cleanup command runs, a handler that read and a socket that leaves go on, the grace of an empty room runs out; **not** the delivery of cutoff tasks, nor that the room's own clock reaches its end | `config/celery.py:89`; started handlers run to their end unless their process dies, which is not modelled here; the broker may lose a task |
| exams: the sweep runs and takes each exam, requests go on | `config/celery.py:73`, every minute |

Nobody is made to accept, review, connect, leave, answer or press a button, and in
`LiveClass` not even the clock has to tick: its property is that *if* the class
stays overdue it settles in a terminal status. `SweepFairness` writes ENABLED of
the sweep out, since it is the same formula and much cheaper to check.
`MCDeadlines` repeats the fairness of its parts, each conjoined with the part it
belongs to: the fairness of a part that does not move asks nothing.

## 5. Properties and their mutants

A run may name an invariant that is a conjunction of named parts:

| Invariant | Parts |
|---|---|
| `SeatsComeFree` | `OverdueIsReleased`, `IneligibleIsReleased` |
| `EmptyRoomEnds` | `DesertedRoomEnds` (nothing died), `MarkedRoomEnds` (whatever died) |
| `ClassEnds` | `OverdueClassEnds`, `AbandonedClassEnds` |
| `AccessInv` | the type, `AccessAgrees`, `RequestGrantsOnce` |
| `DeskBooksInv` | `BookingInv`, `DiaryInv`, `ForumInv`, `FacultyInv` |
| `ForumInv` | the type, `SolvedHasAnswer`, `AcceptedIsShown`, `OneOpenReport` |
| `FacultyInv` | the type, `FlagFollowsTracks`, `ApprovedMayEnter`, `FilesAsVetted`, `BindingStands` |
| `DiaryInv` | the type, `NearBookingsNeverOverlap`, `ReviewedWasHeld`, `ToldFindsReport`, `RatingIsHonest` |
| `BookingInv` | the type, `NoDoubleBooking`, `HeldIsBooked`, `FreedWhenEnded`, `ProposalIffAsked`, `TaughtAgrees` |
| `AttemptInv` | the type, `OneAttemptOpen`, `NumbersRunOn`, `QuotaKept`, `ScoreIsOfTheAnswers` |
| `ExamInv` | the type, `OneAttemptCounts`, `ResultUsesAttempt` |
| `OutboxInv` | the type, `OneMessagePerClientId`, `ProcessedWasTold` |
| `GroupInv` | the type, `CutoffStands`, `CountIsCovered`, `EmptyGroupIsNoticed` |
| `GroupRoomsEnd` | `OverstayedRoomEnds` (overdue or never opened), `DesertedGroupEnds` |

Each property of a passing run is paired in `PROJECT.json` with mutated
definitions that break it: a dropped guard, an off-by-one, a forgotten reset, a
swapped order. They are the definitions marked `faulty:` in the modules. A
conjunction has a mutant for most of its parts. The properties that go deepest,
with what they rest on:

* `NoStaleAssignment`: `close_assignments` only touches the current version, and a
  revision raises the version *before* it closes. So nothing stale survives only
  because every earlier handler closed; with `required = 1` it also rests on
  `SeatsRespected`, since asking for changes then ends the round without closing.
* `StageIsTrue`: the stage is stored, and written apart from the assignments by a
  dozen handlers.
* `EmptyRoomIsNoticed`, `CountIsCovered`: over all interleavings of increments,
  read-backs, clamps and resets, on two workers.
* `AccessAgrees`: over expiry, revocation, free grants outside the transaction and
  processes that die between two steps.
* `OverdueClassEnds`: although late webhooks and stale saves move a class off its
  terminal status, the jobs bring it back, because the hard end outranks the rest.
* `HeldIsBooked`: the grid is one JSON value that three handlers write; it rests on
  the second look that booking and accepting take under the expert's lock, and on
  refusing releasing the proposed slot in the same order.
* `NearBookingsNeverOverlap`: booking reads the length and whether the counsellor is
  bookable before the lock, looks at the diary behind it and commits with it, while
  decisions and moves go on without; it speaks of sessions that stand as booked and start
  less than six hours apart, of any length.
* `StacksOnlyByOverlap`: whether a subscription runs is read after the transaction, and
  the grant reads again: expiry, administrators, days and deaths may come between, and
  the learner's own other handler is all that makes it stack (finding 5).
* `SolvedHasAnswer`: two acceptances, a removal between its look and its clearing and
  a deletion that nulls the foreign key all write the two columns.
* `FlagFollowsTracks`, `ApprovedMayEnter`: five handlers write the tracks and three the
  role, two of them through `UserRole.approve`; the flag must come out right after
  every sequence of them.
* `FilesAsVetted`, `BindingStands`: two editors save whole rows, with uploads of their
  own, while the Academy approves and the letter gets a new version.
* `OneAttemptOpen`, `QuotaKept`: start reads, closes or deletes an expired attempt
  and creates the next, while a submit holds the very row it read under another lock.
* `CutoffStands`: an early task retries, an extension queues a second one, an edit that
  began before the start shortens or lengthens the room and queues none, and the worker
  reads the deadline that moved. What stands is a task by the end last agreed, as long as
  no more late edits lengthened the room than a task has retries.
* `EmptyGroupIsNoticed`: the last to leave marks the room, whoever that turns out to be:
  over all crossings of decrements, read-backs, clamps, marks and arrivals, with
  sockets opened before the start, whose departures take the count below zero.
* `KeepsPromise`: relays overlap, a claimed event may have been processed or given
  up since it was picked, a crash is not counted and a failure is.
* `OverdueExamIsScored`: the sweep is one loop without a `try`, so an exam that
  cannot be scored stops those behind it. Finding 4 is where it fails.

### Findings

1. **A decided private session comes back** (`overwritten_status`). Every handler
   checks the row it read and later saves all of it (`sessions_app/views.py:691`),
   so an acceptance that read "pending" overwrites a cancellation. The comment and
   the tests say only pending requests can be accepted.
2. **A completed class is live again** (`reopened_class`). The webhook handlers
   set LIVE or RECONNECTING for the teacher without looking at the status
   (`livestream/views.py:1262`, `1380`), where the model says terminal states are
   never moved off of.
3. **The time a host has added is cut** (`extension_cut`). The cleanup command
   counts from the original duration (`cleanup_expired_sessions.py:92`) and ends an
   extended room under its participants.
4. **A voided exam stops the sweep** (`poisoned_exam`). Scoring an exam whose record
   was voided and replaced breaks a unique constraint (`scholarship/services.py:371`),
   and the sweep has no `try`: neither that exam nor one behind it is ever scored.
5. **Free terms stack on a double-click** (`stacked_terms`). The check for a running
   subscription (`enrollments/payment_views.py:212`) and the grant come after the
   transaction, behind no common lock, so of two calls that overlap the second extends
   what the first has granted. The comment at 203 calls the endpoint idempotent for
   "retry, double-click, or a scripted loop".

### Known disagreements and races without a run

What the code does against a reader's expectation, found while modelling. The
models contain those marked †; the restrictions of section 3 say where a run
leaves them aside, and no property claims their absence.

Research

* † Publishing checks that a paper's document is not hidden (`research_views.py:129`)
  and writes it visible at 144: a removal in between is undone.
* † An application of expertise checks for running reviews (469) before it writes
  (473): an acceptance in between leaves a review under an unapproved profile.
* Two papers may both pass the workload cap (`research_workflow.py:101`) or the
  duplicate check (`research_views.py:198`).

Private and group sessions

* † `_mark_all_left` (`consumers.py:195`) resets a connection counted since the last
  departure, so an occupied room can be ended.
* † Of two starts of one session that overlap, the later save (`sessions_app/views.py:820`)
  wipes out `all_left_at` and the count: an empty room is then never ended (`OneRequest`).
* † A message created after the end of a private session is not purged
  (`sessions_app/views.py:1031`).
* † In a group room, too, a connection counted between the read-back of the last one and
  `_mark_all_left` (`consumers.py:460`, 478) is overwritten: "all left" is noted with
  somebody in it, and the cleanup command ends the room.
* † A socket opened before its group room is live is not counted, but its departure is:
  the count drops below zero and is clamped, over whoever is in by then.
* † A PATCH that read a group session before its start and saves after it
  (`group_session_views.py:956`, 989) moves the end of the open room and queues no task.
  A shortened room is then cut off at its old end, unless somebody joins or the cleanup
  command comes first; a lengthened one uses up the retries of the task
  (`group_session_tasks.py:55`), and after more than `max_retries` such PATCHes only
  the cleanup command is left.
* † A host's cancellation, and the pass for unattended sessions, may overwrite a
  group room that was started since they read it.
* The capacity of a group room is checked under a lock over a count that lags
  (`group_session_views.py:1185`); deny overwrites admit (1994); the pass for idle
  rooms ignores guests without an account; the chat of a scheduled group stays when
  the host ends it.

Enrollment

* † A capped batch is overfilled by one handler after another: revoking keeps the
  batch on the row and frees the seat; reactivating
  (`enrollments/admin_enrollment_views.py:106`) and approving a request
  (`serializers.py:353`) take it back without counting. The bulk move counts without
  the lock (297).
* † Two reviews of one request that overlap both find it pending (`serializers.py:332`)
  and grant two terms.
* † An expiry that has looked for another subscription (`tasks.py:62`) revokes the
  enrollment although the learner has renewed since: a live subscription without one.
* Selecting a batch locks enrollment then batch (`payment_views.py:272`), free
  enrollment the other way round (168): the database ends one of them.
* The payment webhook takes a row lock outside a transaction
  (`payments/webhooks.py:35`).

Live classes

* † A class that ends on the clock is not cleaned up: the status job of each minute
  completes it first, and the clean-up job selects only classes that are not
  completed (`livestream/tasks.py:211`).
* † A class rescheduled to later keeps an old `extended_until` (`views.py:562`,
  `models.py:189`), so it may be past its hard end before it begins.
* The sample of who is in the room is taken before the open intervals are read
  (`tasks.py:152`): who joins in between is closed at once.
* An ended class's attendance can be opened after its clean-up
  (`livestream/views.py:1249`), and one event delivered twice at once is handled
  twice (1192).

Skills

* † A no-show reported from "completed" frees the slot a second time, by then another
  learner's (`livekit_views.py:276`; `NoShowFrom`). So does the auto-decline, which
  also saves DECLINED over a confirmation made since (`tasks.py:30`).
* † A session that lapses never frees its slot; one to be reconfirmed never expires.
* † With other handlers overlapping (`Overlapping`), the grid is written back from a
  copy and a new booking's mark is lost (`teacher_views.py:87`); a process that dies
  between the grid and the row leaves two slots held.

Quizzes

* † The first answer of a practice is final says `views.py:1857`; two tabs that check
  at once store both, and submit deletes and rewrites what was checked
  (`serializers.py:557`).
* † A timed practice that runs out is closed with a score of 0, whatever was right.
* † If the deadline passes while a submit runs (`Punctual`), a start deletes or
  closes the attempt and the submission counts for nothing.
* † A question that a submission repeats is stored and scored as often as it is there
  (`serializers.py:475`, 559-605), so a score may exceed the paper's marks; the
  properties speak of the sum over the rows stored.
* The public attempt's submit takes no lock.

Chat

* The unread counter is raised with HINCRBY; after a flush of Redis it counts from
  zero (`redis_utils.py:15`).

Scholarship

* † Two scorings of one exam may overlap; the later decides (`services.py:335`).
* † A review that clears a session saves the status it has read, so an exam submitted
  since is open again; and a submission of a voided one scores it and mints an award
  (`Reviewing`, `VoidsSitting`).
* † A redemption that found the award open overwrites its voiding (`services.py:407`).
* † A session opened when the question bank is short stays without a paper and is
  scored 0.

Counseling

* † Approving and moving look for a clash without the lock (`counseling/views.py:1267`,
  1202): two of them, or one and a booking, may confirm overlapping sessions.
* † Approving, cancelling and completing read the status and write it later
  (`Colliding`): the last writer wins, and a reviewed session may turn out cancelled.
* † The profile is saved whole by its owner (`serializers.py:116`) and by
  administrators (`views.py:1046`): a save from an older copy undoes a suspension or
  brings back an older rating; so do two reviews counted in one order and written in
  the other (`models.py:545`).
* † Two saves of one report may unpublish what the student was told of
  (`views.py:942`), where the docstring says that it cannot be unpublished.
* † A booking that saw the counsellor listed goes through after the suspension.
* † Moving refuses only another appointment's very start (`counseling/views.py:1202`): an
  hour outside the availability passes, and so does one that overlaps a session. The
  docstring (1167) says that the target is validated as at booking.
* † A session longer than six hours, which nothing forbids (`models.py:103`), is not seen
  by the booking of one that starts six hours after it or later (`services.py:189`).
* Answers may be saved after the assessment was submitted (`views.py:627`).

Forum

* † An answer accepted while a moderator removes it stays accepted, hidden
  (`forum/moderation_views.py:126`, `KeptApart`); two reports sent at once are both
  filed (`views.py:1070`).
* † Deleting an accepted answer clears the pointer and leaves the thread "solved".
* Restoring a held-back answer asks neither whether it was restored before, so it is
  posted twice, nor (†) whether the thread is locked (`moderation_views.py:367`).
* The thread's page lists removed answers, too (`views.py:383`), where the model says
  that moderation hides a reply (`models.py:194`).

Teachers

* † Listing a pending applicant as a skill expert, or approving the role, approves the
  Academy application without its review (`skills/views.py:567`,
  `accounts/models.py:476`), where `is_academy_faculty` is "True iff a human admin
  reviewed this teacher for school teaching" (`models.py:1149`).
* † The form takes new documents after the approval (`accounts/serializers.py:529`),
  where the profile editor refuses them so that "approved credentials cannot be
  silently swapped" (`accounts/views.py:623`); `FilesAsVetted` excepts what the form
  has put on file.
* Both editors save the whole row (`views.py:789`, `serializers.py:546`), so one that
  read it before a review undoes the review (`Crossing`).
* † Of two signed copies that arrive at once the later save binds anew
  (`BindingStands` speaks of accounts without such a crossing); and what is bound is the
  version live at the upload, not the one that was downloaded (`models.py:1250`).

## 6. Proofs

The theorems hold for any value of the constants that satisfies the assumptions:
any finite set of reviewers, people, learners or batches, any number of handlers,
workers, timers, sends, relays and eligibility records, any settings and any bound on
versions, ages and deaths.

| Module | Theorem | Statement, and the property that a run checks |
|---|---|---|
| `ResearchReviewProofs` | `Invariance` | `IInv`: `TypeOK`, `NoStaleAssignment` and `SeatsRespected` together |
| | `TypeCorrect`, `AssignmentsAreCurrent`, `SeatsAreRespected` | its three parts |
| | `CaseInvariance` | `CaseInv`, inductive beside `IInv` |
| | `CorrectionsTrackThePaper`, `AppealsTrackThePaper`, `WithdrawalCloses` | `CorrectionTracksPaper`, `AppealTracksPaper`, `WithdrawnIsClosed` |
| | `PublicationsAdvance`, `WithdrawalIsFinal` | the action properties `PublicationAdvances`, `WithdrawnIsFinal` |
| | `SeatInvariance` | `SeatInv`, inductive beside `IInv` |
| | `StagesAreTrue`, `AssignmentsAreSingle`, `AppealsGetFreshReviewers`, `PublicationsWereReviewed` | `StageIsTrue`, `OneAssignmentEach`, `AppealHasFreshReviewers`, `PublishedWasReviewed` |
| | `ManuscriptsStayPrivate` | `ManuscriptStaysPrivate`, from `IInv` |
| | `SweepsAreIdempotent` | `SweepIsIdempotent`, from `IInv` and `SeatInv` |
| `PrivateRoomProofs` | `SessionInvariance` | `SessionInv` |
| | `SessionTypeCorrect`, `RowsAreCoherent`, `ProposalsAreRecorded` | the type invariant of the session, `RowIsCoherent`, `ProposalIsRecorded` |
| | `RoomInvariance` | `IInv` of that module |
| | `RoomTypeCorrect`, `PendingTimersSleep` | the type invariant of the room, `PendingSleeps` |
| | `CountsAreCovered` | `failures = 0 => CountIsCovered` |
| | `EmptyRoomsAreNoticed` | `failures = 0 => EmptyRoomIsNoticed`, if `OneRequest` |
| `CourseEnrollmentProofs` | `AccessInvariance` | `IInv` of that module |
| | `AccessIsSafe` | `AccessInv` |
| | `FreeTermsStackOnlyByOverlap`, `LockedPlacementsHaveSeats` | the action properties `StacksOnlyByOverlap`, `LockedPlacementsFit` |
| `ChatOutboxProofs` | `Invariance` | `IInv` of that module |
| | `OutboxIsSafe` | `OutboxInv` |
| | `OutboxImplementsPromise` | initial states and steps of the outbox are those of `AtLeastOnce`, or stutters |
| `QuizAttemptProofs` | `AttemptInvariance` | `IInv` of that module |
| | `AttemptsAreSafe` | `AttemptInv` |
| | `SubmittedAttemptsStand` | the action property `SubmittedStands`, if `Punctual` |
| `GroupRoomProofs` | `GroupInvariance` | `IInv` of that module |
| | `CutoffsStand` | `CutoffStands`, with no hypothesis |
| | `GroupRoomIsSafe` | `GroupInv`, with no hypothesis |
| | `OverIsFinal` | the action property `NeverReopened` |
| `DesksProofs` | `ForumIsConsistent` | `ForumInv` |
| | `FacultyIsConsistent` | `FacultyInv`, if no requests on the tracks cross |
| | `BookingsNeverOverlap` | `NearBookingsNeverOverlap`, with no hypothesis |
| | `DiaryIsConsistent` | `DiaryInv`, if `OnlyTimesCollide` |
| | `BookingIsConsistent` | `BookingInv`, if `Careful` |
| | `DesksAreConsistent` | `DeskBooksInv`, under the three hypotheses above |
| | `ExamInvariance` | `ExamIInv` |
| | `ExamIsSafe` | `ExamInv` |
| | `SpentAwardsStaySpent` | the action property `SpentAwardStaysSpent` |
| `LiveClassProofs` | `ClassInvariance` | `IInv` of that module |
| | `ClassTypeCorrect` | the type invariant of the class |

A hypothesis of a theorem is a restriction that the run of its property has too
(section 3), stated of the constants; outside of it the property fails, for the reasons
that section 5 lists. None of them empties a theorem: the runs show states
and steps of every kind under it.

Assumptions, each evaluated by the runs of its module: `ConstantsAssumption`
(reviewers are a finite set of numbers, settings are in the range that the settings
module and the serializer admit), `PrivateSessionAssumption` (hosts are not
invitees, finitely many people, a null is neither a slot nor a number),
`PrivateRoomAssumption` and `NoneIsNoTimer` (timers and cron are the background
tasks of the session model, there is a worker, a null is none of these),
`ChatOutboxAssumption` and `NoEventIsNoRow` (finitely many participants and relays,
positive bounds, an absent event is neither a send nor a row), `EnrollmentAssumption`
and `NoRowIsNone` (finitely many learners, capacities are numbers or unlimited, a term
is at least a day, an absent row is no row), `ScholarshipAssumption` (the bounds are
numbers), `NoAttemptIsNoRow` (an absent attempt is no row), `ForumAssumption` (no answer
is not an answer), `LiveClassAssumption` (the teacher is not a learner, durations are
numbers, the start times have a latest one), `UnbookedIsNoRow` (likewise for appointments, and stars are positive),
`NilIsApart` (a null is no booking row, no status and no operation; a model value is
none of these for the checker, and the prover has to be told).

### Research: `IInv`

None of its three parts is inductive alone. Seats: accepting counts the occupied
seats, which bounds them only if all rows are well typed. Stale rows: asking for
changes with one required review leaves the round with only its own row retired,
so nothing else may be occupied (`SeatsRespected`) and accepting the last seat
must have closed the other invitations. Each operator on papers has a lemma that
it keeps `GoodPaper` (`RetireIsGood`, `RefreshIsGood`, `InviteIsGood`,
`FillIsGood`, `MaintainIsGood`, `UnseatIsGood`, ...); each group of actions has a
lemma that it keeps `IInv`. `ImageBound` and `SubsetsOfRows` supply what is needed
of cardinalities.

### Research: `CaseInv`

It adds to the three case properties what they rest on: no case belongs to a
later version (so a new case cannot meet an old one), a rejected paper has no
public document (so it has no open correction), the public document shows an older
version unless the paper is published or withdrawn, and a publication in progress
keeps the paper at "approval". Most steps are `Quiet`: they keep the version, the
cases and the document, and move the stage only under the paper's lock
(`QuietOrDecision`). Each of the other steps gets a lemma in terms of `Fits`, which
speaks of a status, a version, a document and a set of cases.

### Research: `SeatInv`

`Sound` says of a paper and the submitted reviews: an assignment belongs to
somebody invited for this version who is not the author, one each; a completed
one stands for a submitted review; who reviewed was invited; after an upheld appeal
nobody who judged still has to. The matching excludes the invited and so the judges,
which is why the code needs no such test there; an administrator's assignment
needs its own (`Fresh`). `SeatInv` adds that the stage is true and that
what a publication checked still holds when it commits: only the clock and a
revocation that found no assignment can move in between, and neither touches a
completed review. `EndorsementCounts` then maps completed reviews one to one into the
reviewers who approved the version.

### Research: the sweep

`SweepsAreIdempotent` compares two runs of the sweep, each of which may release, remind
and choose. After the first nothing is left to release or to remind (`Tidy`), and the new
invitations are as tidy as the candidates are eligible, so the second only matches
(`TidyIsOnlyFilled`). It then finds that enough were asked or that nobody is left to ask
(`RoundOnce`): `BestIsEnough` says that unless all candidates are chosen, as many are
as the batch asks for, because those who rank before the first one left out are all
chosen; the ranking is a strict order (`BeforeIsOrder`), and a first one exists because
strict inclusion is well-founded on the finite sets of those ranked before. That the
new invitations add to the pending ones is `Sound`: who is pending was used.

### Private sessions

A handler saves the row it read long ago, so the stored row is only as good as
all the rows that tasks still hold: the invariant says of each of them that it is
coherent and that its proposal is in the history, or will be before it is saved. The
history only grows, and a pending or approved row has no proposal. This is the part of
the promise that survives overlapping handlers; the life cycle does not (finding 1).
`SessionInv` is that invariant, and the room's `IInv` contains it.

In the room, the count is bounded by the sockets that hold one (`Holders`: counted, in
the room, about to be uncounted). What makes this inductive is that no task
can write a positive count into an ongoing row: starting resets the count and
nothing else saves an ongoing row whole. It holds while nothing died, as the counts of
a dead worker's sockets stay; cron is the code's answer to that and
`MarkedRoomEnds` the property.

`NoticeOK` is inductive beside `IInv` and gives `EmptyRoomIsNoticed`. A socket leaves
without marking the room only if it read a positive count, and then `CountIsCovered`
names another socket that still counts (`LeavingIsNoticed`); whoever arrives takes the
mark off but is in the room itself. What else could take it off is a start: `StartsOK`
says that a start is saved before anybody has been in the room, which is what
`OneRequest` is for.

### Enrollment: `IInv`

The two claims about learners, `AccessAgrees` and `RequestGrantsOnce`, hold of a learner
whose own handlers never overlapped. What makes them inductive is what such a learner's
one handler may rely on between its steps (`StepFits`): who waits for a grant or its
check is enrolled and, for the grant, has no live subscription; whose expiry is listed
has none either; whose review is under way has a pending request. `Good` adds that there
is only one such handler, so nobody else's step can change it. `OneChanges`, `OneStarts`,
`OneProceeds` and `ManyStart` carry this from what a step does to the learners it is
about to all learners. Seats need no such restriction: `EntersWithRoom` shows that whoever
enters a batch without being moved was tested against `IsFull` in the same step, and
`OneSeat` counts.

### Chat: `IInv`

`OneMessagePerClientId` is not inductive: two inserts of one client_id must not both
be open. The unique constraint gives `OneIsPlaced`: of two twins at most one is
between its insert and its commit or past it. `ProcessedWasTold` rests on the relays:
the event in a relay's hand is there, not processed, in no other hand (the row lock),
and whoever the relay is done with has been told or can mute (`InHand`).
`OutboxImplementsPromise` then maps a commit to `Post`, an event that is processed or
fails to `Serve`, and everything else to a stutter. That an event once settled is never
due again is part of it, since `Serve` has no such outcome.

### Scholarship: `ExamIInv`

A result or an award belongs to a used-up record. The unique constraint keeps one
active record, and a record's status never returns to "reserved", so what a request
read about its record stays true enough until it writes: its record exists, and one that
is to make an award was consumed (`ExamJobFits`). This holds for the settings with and
without reviews and voiding.

### Quizzes: `IInv`

`AttemptInv` says nothing of the tabs. What it rests on is `InOrder`, of any list of
rows: numbers are one to one with the rows that are there, and only the last may be
open, so that deleting the last or appending one leaves no gap; `JobFits`: a start that is
past its look is about the last attempt, or finds none open, and a submit is about the
open one; and `Clash`: what the two locks exclude. A start may still close or delete the
attempt whose submit waits, and then the submit writes nothing that counts: the invariant
holds either way, and only `SubmittedStands` needs `Punctual`.

### Group rooms: `IInv`

`CutoffStands` speaks of a task due *by* the end last agreed and is not inductive: the task
might come early, and after its last retry. `TaskStands` says which one to count on: it
comes early only after an edit it does not know of, and has been retried less often than
there were such edits (`Knows`); or the worker holds the room and will end it. An
extension queues a task in the step that moves the deadline, an early task is put back
with the deadline there is then, and only late edits move it without a word.

`EmptyGroupIsNoticed` is not inductive either, as a socket that is still leaving may be the
one that marks the room: `MarkIsComing` lets it. It rests on `CountIsCovered`: who reads a
positive count and goes without marking leaves somebody behind who is in. Sockets
that connected before the start hold no count, so the count may be lower than the sockets,
never higher. `Unopened` says that nobody has left a live room before there is one.

### Live classes: `IInv`

The type invariant says of every save under way that it would leave a row of its type,
and that is not inductive: other handlers write the row before the save does.
`WriteFits` therefore speaks of the columns that are written and not of the row: each has its
type, and start and end are written together, one length apart. Every row a save meets has
them one length apart too (`Planned`), so what is written fits whatever is there by then
(`WrittenIsPlanned`). That also bounds extensions: the cap is taken from the end that was
planned, which is at most one length after the latest start, so no extension reaches
further than the cap beyond that, however many overlap. (It may well lie beyond the cap
of the row it is saved to, if the class was moved to an earlier start meanwhile.) A save of the whole row that comes
after an extension takes the extension back, and still fits.

### Forum

Solved and accepted are written apart from the answers, so the invariant says
of requests under way what they still rely on: an answer that is being accepted is shown
or was deleted, and nobody removes one meanwhile (`AcceptanceStands`); a hidden answer
that is still accepted has its own removal before it (`HiddenIsCleared`); a report about
to be filed is the only one (`ReporterIsAlone`). The parts that need requests kept apart say
so themselves, so the theorem holds for every `Apart`.

### Teachers

Every request under way holds a row: `InStep` says, for each of the nine, how that row
compares with the account's, the tracks above all. `OnesTurn` gives requests on the tracks the
account to themselves, which is the hypothesis, while saves of the whole row still
overlap one another; `BindingAsRead` says that an account without crossings is saved with the
binding it has. `SavedColumns` carries a save over to the columns it names.

### Counselling

`NearBookingsNeverOverlap` holds with every collision there is, and for any lengths. It rests on two facts: one booking at a
time is behind the lock, and no session that was sold and stands is in the way, as
far as booking looks, of the one about to be placed (`Clear`). Everything that runs beside the lock can only end a
session or unmark it as sold. The other parts rest on `Turns`, who may
write what at once, and on `Fits`: what a request read of the columns it is going to
write is what they hold.

### Skills: `BookingIInv`

`HeldIsBooked` is a one-way promise: a slot a session holds is greyed out. The
invariant proves the converse, too (`SlotsAccounted`: a booked slot is a session's, or an
acceptance has just taken it, or who ended its session is about to free it), and relates
each handler's copy to the row and the grid (`JobsFit`). Two handlers that both have read
one request to move a session are what makes it hard: `RequestsApart` says that they read
the same slots and that only one of them takes the new one, and `JobsFit` that the other
then finds it greyed out; a refusal frees the slot only if no other session
has it. `SweepFits` says the same of the auto-decline's long loop. `Careful` is the hypothesis:
outside it the grid is written back from a stale copy, and the property fails. It leaves
any number of bookings, acceptances and refusals free to interleave.

### Side by side

`DesksAreConsistent` states the run's `DeskBooksInv` for the composed specification: a step
moves one desk and is a stutter of the other three, so the conjunction of the four
inductive invariants is inductive.

### Only model-checked

* Liveness (`SeatsComeFree`, `MatchableIsMatched`, `EmptyRoomEnds`, `ClassEnds`,
  `MissedLeaveIsRepaired`, `StaleRequestEnds`, `OverdueExamIsScored`, `GroupRoomsEnd`, and
  the fairness of `KeepsPromise`) and ENABLED are beyond the prover, and so is
  induction over data.
* Of `LiveClass` the rest: what is claimed of it beyond its types are the liveness
  properties above, and `CompletedIsFinal`, which does not hold of the code.
* `LifecycleKept` is a refinement that does not hold of the code, so there is nothing to
  prove of it.

## 7. What is not modelled, and why

`PROJECT.json` lists every component with its status. Left out of the modelled
ones:

* Research, private sessions: upload and metadata checks, wording, mails and
  notifications (no state of theirs is read back), listings and search, files and
  remote control.
* Enrollment: legacy rows without a profile, self-heal commands, paid orders.
* Live classes: moderation, chat, notes, recording, recurrence, substitutes.
* Group sessions: chat, attendance rows, guests without an account and their waiting
  room, capacity, notes.
* Quizzes: building, import, manual grading, insights, public links.
* Skills: prices, payment marks, earnings, reviews, listings, blackouts.
* Chat: conversations and requests to talk, blocks, reactions, receipts, attachments,
  moderation, the counters in Redis.
* Counseling: assessments, notes, meeting links, intake and matching, career guides,
  and the clock: every time asked for lies ahead.
* Forum: bans, votes, spaces, tags, whole threads removed, comments.
* Teachers: the letter's text, personal data, course applications, the expert's
  listing itself.
* Scholarship: verification of the guardian, the question bank, cheat signals.

Payments are switched off in the code. Of sign-in and profiles, what is hard is in libraries.
Courses, recordings, assignments, materials, the content studio, dashboards, feeds,
notifications and settings are rows edited by one request each, or read-only
aggregation, with no step between two requests for a model to interleave; they are
a large part of the repository.

## 8. Plan

In order of what can go wrong.

1. `GroupRoom` with the waiting room of guests: admission against denial, capacity
   over a count that lags.
2. `CounselingDiary` extended: the assessments and the matching.
3. `LiveClass` extended: recurrence, moderation, the finished webhook in steps.
4. `PrivateSession` against `SessionLifecycle` when requests do not overlap, as a
   property that holds beside the one that fails.
5. Chat: the unread counters in Redis, with the flush that loses them.
