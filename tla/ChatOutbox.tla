----------------------------- MODULE ChatOutbox -----------------------------
(***************************************************************************)
(* A message of the chat and the notifications it owes to who is away.     *)
(*                                                                         *)
(* A client that gets no answer sends again under the same client_id.  The *)
(* message, its OutboxEvent and nothing else commit together; relays drain *)
(* the events later.  A relay holds the row it serves locked, in one       *)
(* transaction, and several relays may run at once.                        *)
(*                                                                         *)
(* Abstractions.  One conversation and one sender.  Gates on posting       *)
(* (suspension, policy, moderation, blocks) are left out.  Events are      *)
(* ordered by their commit.  A relay that dies and one whose query fails   *)
(* do the same: the transaction is rolled back and the batch is over.      *)
(***************************************************************************)
EXTENDS Integers, FiniteSets, Sequences

CONSTANTS
    Sends,        \* requests to post
    ClientIds,
    ClientOf,     \* the client_id each request carries
    Audience,     \* the other participants
    CanMute,      \* those of them who mute the thread now and then
    Relays,       \* runs of drain_once under way
    Batch,        \* batch_size
    MaxAttempts,  \* OutboxEvent.MAX_ATTEMPTS
    MaxFaults,    \* bound on failures
    NoEvent

ASSUME ChatOutboxAssumption ==
    /\ ClientOf \in [Sends -> ClientIds]
    /\ IsFiniteSet(Audience) /\ CanMute \subseteq Audience /\ IsFiniteSet(Relays)
    /\ Batch \in Nat \ {0} /\ MaxAttempts \in Nat \ {0} /\ MaxFaults \in Nat
    /\ NoEvent \notin Sends

VARIABLES
    send,    \* how far each request is
    event,   \* the OutboxEvent of each request's message, if it was saved
    queue,   \* the events in the order they were created
    notice,  \* who has a Notification row for the message
    muted,   \* who has muted the thread
    relay,   \* batch, event in hand and whom it told, of each relay
    faults

outboxVars == <<send, event, queue, notice, muted, relay, faults>>

RelayIdle == [todo |-> {}, hand |-> NoEvent, left |-> {}, told |-> {}]
EventRow == [processed : BOOLEAN, attempts : Nat]

ASSUME NoEventIsNoRow == NoEvent \notin EventRow

OutboxTypeOK ==
    /\ send \in [Sends -> {"new", "looked", "open", "saved", "acked", "refused"}]
    /\ event \in [Sends -> EventRow \cup {NoEvent}]
    /\ queue \in Seq(Sends)
    /\ notice \in [Sends -> SUBSET Audience]
    /\ muted \subseteq CanMute
    /\ relay \in [Relays -> [todo : SUBSET Sends, hand : Sends \cup {NoEvent},
                            left : SUBSET Audience, told : SUBSET Audience]]
    /\ faults \in 0..MaxFaults

OutboxInit ==
    /\ send = [s \in Sends |-> "new"]
    /\ event = [s \in Sends |-> NoEvent]
    /\ queue = <<>>
    /\ notice = [s \in Sends |-> {}]
    /\ muted = {}
    /\ relay = [r \in Relays |-> RelayIdle]
    /\ faults = 0

-----------------------------------------------------------------------------
(* post_message: look for the client_id, insert, commit.                   *)

Twins(s) == {x \in Sends \ {s} : ClientOf[x] = ClientOf[s]}
SendGoes(s, step) == send' = [send EXCEPT ![s] = step]
RelaysRest == UNCHANGED <<event, queue, notice, muted, relay>>

(* faulty: an answer the client does not know.                             *)
LookAnsweringKnown(s) ==
    /\ send[s] = "new"
    /\ SendGoes(s, IF \E x \in Twins(s) : send[x] = "saved" THEN "known" ELSE "looked")
    /\ RelaysRest /\ UNCHANGED faults

\* A message that is there already is sent to the thread again, no more.
Look(s) ==
    /\ send[s] = "new"
    /\ SendGoes(s, IF \E x \in Twins(s) : send[x] = "saved" THEN "acked" ELSE "looked")
    /\ RelaysRest /\ UNCHANGED faults

(* faulty: no unique constraint on the client_id.                          *)
InsertUnchecked(s) ==
    /\ send[s] = "looked"
    /\ SendGoes(s, "open")
    /\ RelaysRest /\ UNCHANGED faults

\* The unique constraint: an insert waits for one under way and is refused by
\* one that was committed.
Insert(s) ==
    /\ send[s] = "looked" /\ \A x \in Twins(s) : send[x] # "open"
    /\ SendGoes(s, IF \E x \in Twins(s) : send[x] = "saved" THEN "refused" ELSE "open")
    /\ RelaysRest /\ UNCHANGED faults

CommitMessage(s) ==
    /\ send[s] = "open"
    /\ SendGoes(s, "saved")
    /\ event' = [event EXCEPT ![s] = [processed |-> FALSE, attempts |-> 0]]
    /\ queue' = Append(queue, s)
    /\ UNCHANGED <<notice, muted, relay, faults>>

\* The process dies, or the commit fails; the client may send again.
RollBack(s) ==
    /\ send[s] = "open" /\ faults < MaxFaults
    /\ SendGoes(s, "new")
    /\ faults' = faults + 1
    /\ RelaysRest

-----------------------------------------------------------------------------
(* drain_once.                                                             *)

SendsRest == UNCHANGED <<send, queue>>

(* faulty: what failed once is not tried again.                            *)
DueUntried(e) == event[e] # NoEvent /\ ~event[e].processed /\ event[e].attempts = 0

Due(e) == event[e] # NoEvent /\ ~event[e].processed /\ event[e].attempts < MaxAttempts

Before(d, e) == \E i, j \in DOMAIN queue : i < j /\ queue[i] = d /\ queue[j] = e
Preceding(e) == {d \in Sends : Due(d) /\ Before(d, e)}

\* The oldest due events, not more than a batch.
StartRelay(r) ==
    /\ relay[r] = RelayIdle
    /\ \E e \in Sends : Due(e)
    /\ relay' = [relay EXCEPT ![r].todo =
                    {e \in Sends : Due(e) /\ Cardinality(Preceding(e)) < Batch}]
    /\ SendsRest /\ UNCHANGED <<event, notice, muted, faults>>

Locked(e) == \E r \in Relays : relay[r].hand = e

\* Wait for the row, oldest first; one that was processed meanwhile is skipped.
\* The number of attempts is not looked at again.
Claim(r) ==
    /\ relay[r].hand = NoEvent
    /\ \E e \in relay[r].todo :
           /\ \A d \in relay[r].todo \ {e} : Before(e, d)
           /\ ~Locked(e)
           /\ relay' = [relay EXCEPT ![r] =
                  [todo |-> @.todo \ {e}, hand |-> IF event[e].processed THEN NoEvent ELSE e,
                   left |-> IF event[e].processed THEN {} ELSE Audience, told |-> {}]]
    /\ SendsRest /\ UNCHANGED <<event, notice, muted, faults>>

Tell(r, p) ==
    /\ relay[r].hand # NoEvent /\ p \in relay[r].left
    /\ relay' = [relay EXCEPT ![r].left = @ \ {p},
                              ![r].told = IF p \in muted THEN @ ELSE @ \cup {p}]
    /\ SendsRest /\ UNCHANGED <<event, notice, muted, faults>>

LetGo(r) == relay' = [relay EXCEPT ![r].hand = NoEvent, ![r].left = {}, ![r].told = {}]
WrittenBy(r) == notice' = [notice EXCEPT ![relay[r].hand] = @ \cup relay[r].told]

(* faulty: processed as soon as someone was told.                          *)
SomeoneTold(r) == relay[r].told # {}

Served(r) == relay[r].left = {}

Processed(r) ==
    /\ relay[r].hand # NoEvent /\ Served(r)
    /\ event' = [event EXCEPT ![relay[r].hand].processed = TRUE]
    /\ WrittenBy(r) /\ LetGo(r)
    /\ SendsRest /\ UNCHANGED <<muted, faults>>

CountedFailure(e) == [event EXCEPT ![e].attempts = @ + 1]

\* The handler raises: the failure is counted, and what was written before is
\* committed with it.
HandlerFails(r) ==
    /\ relay[r].hand # NoEvent /\ faults < MaxFaults
    /\ faults' = faults + 1
    /\ event' = CountedFailure(relay[r].hand)
    /\ WrittenBy(r) /\ LetGo(r)
    /\ SendsRest /\ UNCHANGED muted

\* The database refuses a statement, or the worker dies: the transaction is
\* undone, the failure is not counted, and the batch ends.
RelayDies(r) ==
    /\ relay[r].hand # NoEvent /\ faults < MaxFaults
    /\ faults' = faults + 1
    /\ relay' = [relay EXCEPT ![r] = RelayIdle]
    /\ SendsRest /\ UNCHANGED <<event, notice, muted>>

Mute(p) ==
    /\ muted' = IF p \in muted THEN muted \ {p} ELSE muted \cup {p}
    /\ SendsRest /\ UNCHANGED <<event, notice, relay, faults>>

RelayStep(r) == StartRelay(r) \/ Claim(r) \/ (\E p \in Audience : Tell(r, p)) \/ Processed(r)

OutboxNext ==
    \/ \E s \in Sends : Look(s) \/ Insert(s) \/ CommitMessage(s) \/ RollBack(s)
    \/ \E r \in Relays : RelayStep(r) \/ HandlerFails(r) \/ RelayDies(r)
    \/ \E p \in CanMute : Mute(p)

\* The beat starts a relay every ten seconds, and one that lives goes on.
OutboxFairness == \A r \in Relays : WF_outboxVars(RelayStep(r))

OutboxSpec == OutboxInit /\ [][OutboxNext]_outboxVars
FairOutboxSpec == OutboxSpec /\ OutboxFairness

-----------------------------------------------------------------------------
(* Properties.                                                             *)

\* A message is saved once however often the client sends it (models.py:402).
OneMessagePerClientId ==
    \A s \in Sends : send[s] = "saved" => \A x \in Twins(s) : send[x] # "saved"

\* An event that is processed has a notification for everyone who never muted
\* the thread, whatever failed and was repeated before (models.py:506).
ProcessedWasTold ==
    \A s \in Sends : event[s] # NoEvent /\ event[s].processed => Audience \ CanMute \subseteq notice[s]

\* The outbox keeps its promise: every event is served until it is done or given
\* up after MAX_ATTEMPTS failures, though relays overlap, fail and die.
EventState(s) ==
    IF event[s] = NoEvent THEN "absent"
    ELSE IF event[s].processed THEN "done"
    ELSE IF event[s].attempts >= MaxAttempts THEN "dead" ELSE "due"

Promised == INSTANCE AtLeastOnce WITH
        Events <- Sends, Listeners <- Audience \ CanMute,
        state <- [s \in Sends |-> EventState(s)], told <- notice

KeepsPromise == Promised!Promise

\* The state invariant: a message is saved once, and told before it is done.
OutboxInv == OutboxTypeOK /\ OneMessagePerClientId /\ ProcessedWasTold
=============================================================================
