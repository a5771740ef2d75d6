--------------------------- MODULE ChatOutboxProofs --------------------------
(***************************************************************************)
(* The chat's outbox for any number of sends, participants and relays, any *)
(* batch and any number of failures: a message is stored once, an event    *)
(* that is processed was told to everyone who listens, and every step is a *)
(* step of AtLeastOnce or none at all.                                     *)
(***************************************************************************)
EXTENDS ChatOutbox, TLAPS

(* At most one of two sends with the same client_id is between its insert  *)
(* and its commit or past it.                                              *)
Placed(s) == send[s] \in {"open", "saved"}
OneIsPlaced == \A s \in Sends : Placed(s) => \A x \in Twins(s) : ~Placed(x)

(* A relay's event is there and not processed, nobody else has it, and it  *)
(* told everyone it is done with, but for who may have muted the thread.   *)
InHand(r) ==
    relay[r].hand # NoEvent =>
        /\ event[relay[r].hand] # NoEvent
        /\ ~event[relay[r].hand].processed
        /\ (Audience \ relay[r].left) \ CanMute \subseteq relay[r].told
HandsDiffer ==
    \A r, q \in Relays : r # q /\ relay[r].hand # NoEvent => relay[r].hand # relay[q].hand

EventsAreSaved == \A s \in Sends : event[s] # NoEvent <=> send[s] = "saved"
PickedAreThere == \A r \in Relays : \A e \in relay[r].todo : event[e] # NoEvent

RelayInv == HandsDiffer /\ PickedAreThere /\ (\A r \in Relays : InHand(r))
IInv == OutboxTypeOK /\ OneIsPlaced /\ EventsAreSaved /\ RelayInv /\ ProcessedWasTold

LEMMA InitIsGood == OutboxInit => IInv
BY ChatOutboxAssumption DEF OutboxInit, IInv, OutboxTypeOK, OneIsPlaced, Placed, EventsAreSaved,
    RelayInv, HandsDiffer, PickedAreThere, InHand, ProcessedWasTold, RelayIdle

-----------------------------------------------------------------------------
(* Sends.                                                                  *)

LEMMA LookKeeps == ASSUME IInv, NEW s \in Sends, Look(s) PROVE IInv'
<1>1. OutboxTypeOK' BY DEF IInv, OutboxTypeOK, Look, SendGoes, RelaysRest, EventRow
<1>2. OneIsPlaced' BY DEF IInv, OutboxTypeOK, OneIsPlaced, Placed, Twins, Look, SendGoes
<1>3. EventsAreSaved' BY DEF IInv, OutboxTypeOK, EventsAreSaved, Look, SendGoes, RelaysRest
<1>4. RelayInv' BY DEF IInv, RelayInv, HandsDiffer, PickedAreThere, InHand, Look, RelaysRest
<1>5. ProcessedWasTold' BY DEF IInv, ProcessedWasTold, Look, RelaysRest
<1> QED BY <1>1, <1>2, <1>3, <1>4, <1>5 DEF IInv

LEMMA InsertKeeps == ASSUME IInv, NEW s \in Sends, Insert(s) PROVE IInv'
<1>1. OutboxTypeOK' BY DEF IInv, OutboxTypeOK, Insert, SendGoes, RelaysRest, EventRow
<1>2. OneIsPlaced'
  <2>1. CASE \E x \in Twins(s) : send[x] = "saved"
    BY <2>1 DEF IInv, OutboxTypeOK, OneIsPlaced, Placed, Twins, Insert, SendGoes
  <2>2. CASE ~ \E x \in Twins(s) : send[x] = "saved"
    <3>1. \A x \in Twins(s) : ~Placed(x) BY <2>2 DEF Placed, Insert
    <3>2. \A x \in Sends : x # s => (Placed(x)' <=> Placed(x))
      BY DEF IInv, OutboxTypeOK, Placed, Insert, SendGoes
    <3>3. \A x \in Sends : x \in Twins(s) <=> s \in Twins(x) BY DEF Twins
    <3> QED BY <3>1, <3>2, <3>3 DEF IInv, OneIsPlaced, Twins
  <2> QED BY <2>1, <2>2
<1>3. EventsAreSaved' BY DEF IInv, OutboxTypeOK, EventsAreSaved, Insert, SendGoes, RelaysRest
<1>4. RelayInv' BY DEF IInv, RelayInv, HandsDiffer, PickedAreThere, InHand, Insert, RelaysRest
<1>5. ProcessedWasTold' BY DEF IInv, ProcessedWasTold, Insert, RelaysRest
<1> QED BY <1>1, <1>2, <1>3, <1>4, <1>5 DEF IInv

LEMMA RollBackKeeps == ASSUME IInv, NEW s \in Sends, RollBack(s) PROVE IInv'
<1>1. OutboxTypeOK'
  <2>1. faults' \in 0..MaxFaults BY ChatOutboxAssumption DEF IInv, OutboxTypeOK, RollBack
  <2> QED BY <2>1 DEF IInv, OutboxTypeOK, RollBack, SendGoes, RelaysRest, EventRow
<1>2. OneIsPlaced' BY DEF IInv, OutboxTypeOK, OneIsPlaced, Placed, Twins, RollBack, SendGoes
<1>3. EventsAreSaved' BY DEF IInv, OutboxTypeOK, EventsAreSaved, RollBack, SendGoes, RelaysRest
<1>4. RelayInv' BY DEF IInv, RelayInv, HandsDiffer, PickedAreThere, InHand, RollBack, RelaysRest
<1>5. ProcessedWasTold' BY DEF IInv, ProcessedWasTold, RollBack, RelaysRest
<1> QED BY <1>1, <1>2, <1>3, <1>4, <1>5 DEF IInv

(* The new event is in nobody's hand and not processed.                    *)
LEMMA CommitKeeps == ASSUME IInv, NEW s \in Sends, CommitMessage(s) PROVE IInv'
<1> DEFINE row == [processed |-> FALSE, attempts |-> 0]
<1>1. row \in EventRow /\ row # NoEvent /\ ~row.processed
  <2>1. row \in EventRow BY DEF EventRow
  <2>2. ~row.processed OBVIOUS
  <2> QED BY <2>1, <2>2, NoEventIsNoRow
<1>2. event' = [event EXCEPT ![s] = row] /\ send' = [send EXCEPT ![s] = "saved"]
      /\ queue' = Append(queue, s) /\ UNCHANGED <<notice, muted, relay, faults>>
  BY DEF CommitMessage, SendGoes
<1>3. send[s] = "open" /\ event[s] = NoEvent
  BY DEF CommitMessage, IInv, EventsAreSaved
<1>4. /\ event \in [Sends -> EventRow \cup {NoEvent}] /\ queue \in Seq(Sends)
      /\ send \in [Sends -> {"new", "looked", "open", "saved", "acked", "refused"}]
  BY DEF IInv, OutboxTypeOK
<1> HIDE DEF row
<1>5. event' \in [Sends -> EventRow \cup {NoEvent}] /\ queue' \in Seq(Sends)
  BY <1>1, <1>2, <1>4
<1>6. /\ event'[s] = row /\ send'[s] = "saved"
      /\ \A x \in Sends : x # s => event'[x] = event[x] /\ send'[x] = send[x]
  BY <1>2, <1>4
<1>7. OutboxTypeOK' BY <1>2, <1>5 DEF IInv, OutboxTypeOK
<1>8. OneIsPlaced' BY <1>3, <1>6 DEF IInv, OneIsPlaced, Placed, Twins
<1>9. EventsAreSaved' BY <1>1, <1>6 DEF IInv, EventsAreSaved
<1>10. RelayInv'
  <2>1. HandsDiffer' BY <1>2 DEF IInv, RelayInv, HandsDiffer
  <2>2. PickedAreThere'
    BY <1>1, <1>2, <1>6 DEF IInv, OutboxTypeOK, RelayInv, PickedAreThere
  <2>3. ASSUME NEW r \in Relays PROVE InHand(r)'
    <3>1. InHand(r) /\ relay'[r] = relay[r] BY <1>2 DEF IInv, RelayInv
    <3>2. relay[r].hand \in Sends \cup {NoEvent} BY DEF IInv, OutboxTypeOK
    <3>3. relay[r].hand # NoEvent => event'[relay[r].hand] = event[relay[r].hand]
      BY <1>3, <1>6, <3>1, <3>2 DEF InHand
    <3> QED BY <3>1, <3>3 DEF InHand
  <2> QED BY <2>1, <2>2, <2>3 DEF RelayInv
<1>11. ProcessedWasTold' BY <1>1, <1>2, <1>6 DEF IInv, ProcessedWasTold
<1> QED BY <1>7, <1>8, <1>9, <1>10, <1>11 DEF IInv

LEMMA SendsKeep ==
    ASSUME IInv, NEW s \in Sends, Look(s) \/ Insert(s) \/ CommitMessage(s) \/ RollBack(s)
    PROVE  IInv'
BY LookKeeps, InsertKeeps, RollBackKeeps, CommitKeeps

-----------------------------------------------------------------------------
(* Relays.                                                                 *)

(* What no step of a relay touches.                                        *)
LEMMA SendsStay ==
    ASSUME IInv, SendsRest, \A s \in Sends : event'[s] # NoEvent <=> event[s] # NoEvent
    PROVE  OneIsPlaced' /\ EventsAreSaved'
BY DEF IInv, SendsRest, OneIsPlaced, Placed, EventsAreSaved

RelayRow == [todo : SUBSET Sends, hand : Sends \cup {NoEvent},
             left : SUBSET Audience, told : SUBSET Audience]

LEMMA RelayTyped == IInv => relay \in [Relays -> RelayRow]
BY DEF IInv, OutboxTypeOK, RelayRow

LEMMA StartKeeps == ASSUME IInv, NEW r \in Relays, StartRelay(r) PROVE IInv'
<1> DEFINE picked == {e \in Sends : Due(e) /\ Cardinality(Preceding(e)) < Batch}
<1>1. /\ relay[r] = RelayIdle /\ relay' = [relay EXCEPT ![r].todo = picked]
      /\ SendsRest /\ UNCHANGED <<event, notice, muted, faults>>
  BY DEF StartRelay
<1>2. picked \subseteq Sends /\ \A e \in picked : event[e] # NoEvent BY DEF Due
<1> HIDE DEF picked
<1>3. relay \in [Relays -> RelayRow] BY RelayTyped
<1>4. /\ \A q \in Relays : q # r => relay'[q] = relay[q]
      /\ relay'[r].todo = picked /\ relay'[r].hand = relay[r].hand
      /\ relay'[r].left = relay[r].left /\ relay'[r].told = relay[r].told
  BY <1>1, <1>3 DEF RelayRow
<1>5. OutboxTypeOK' BY <1>1, <1>2, <1>3 DEF IInv, OutboxTypeOK, RelayRow, SendsRest
<1>6. RelayInv'
  <2>1. HandsDiffer' BY <1>4 DEF IInv, RelayInv, HandsDiffer
  <2>2. PickedAreThere' BY <1>1, <1>2, <1>4 DEF IInv, RelayInv, PickedAreThere
  <2>3. ASSUME NEW q \in Relays PROVE InHand(q)'
    BY <1>1, <1>4 DEF IInv, RelayInv, InHand
  <2> QED BY <2>1, <2>2, <2>3 DEF RelayInv
<1>7. ProcessedWasTold' BY <1>1 DEF IInv, ProcessedWasTold
<1> QED BY <1>1, <1>5, <1>6, <1>7, SendsStay DEF IInv

LEMMA ClaimKeeps == ASSUME IInv, NEW r \in Relays, Claim(r) PROVE IInv'
<1>1. PICK e \in relay[r].todo :
        /\ ~Locked(e)
        /\ relay' = [relay EXCEPT ![r] =
               [todo |-> relay[r].todo \ {e}, hand |-> IF event[e].processed THEN NoEvent ELSE e,
                left |-> IF event[e].processed THEN {} ELSE Audience, told |-> {}]]
  BY DEF Claim
<1>2. SendsRest /\ UNCHANGED <<event, notice, muted, faults>> BY DEF Claim
<1>3. relay \in [Relays -> RelayRow] BY RelayTyped
<1>4. e \in Sends /\ event[e] # NoEvent BY <1>3 DEF RelayRow, IInv, RelayInv, PickedAreThere
<1>5. /\ \A q \in Relays : q # r => relay'[q] = relay[q]
      /\ relay'[r].todo = relay[r].todo \ {e} /\ relay'[r].told = {}
      /\ event[e].processed => relay'[r].hand = NoEvent /\ relay'[r].left = {}
      /\ ~event[e].processed => relay'[r].hand = e /\ relay'[r].left = Audience
  BY <1>1, <1>3
<1>6. OutboxTypeOK'
  <2>1. relay'[r] \in RelayRow
    BY <1>1, <1>3, <1>4 DEF RelayRow
  <2>2. relay' \in [Relays -> RelayRow] BY <1>1, <1>3, <2>1
  <2> QED BY <1>2, <2>2 DEF IInv, OutboxTypeOK, RelayRow, SendsRest
<1>7. RelayInv'
  <2>1. HandsDiffer' BY <1>1, <1>5 DEF IInv, RelayInv, HandsDiffer, Locked
  <2>2. PickedAreThere' BY <1>2, <1>5 DEF IInv, RelayInv, PickedAreThere
  <2>3. ASSUME NEW q \in Relays PROVE InHand(q)'
    <3>1. CASE q = r BY <1>2, <1>4, <1>5, <3>1 DEF InHand
    <3>2. CASE q # r BY <1>2, <1>5, <3>2 DEF IInv, RelayInv, InHand
    <3> QED BY <3>1, <3>2
  <2> QED BY <2>1, <2>2, <2>3 DEF RelayInv
<1>8. ProcessedWasTold' BY <1>2 DEF IInv, ProcessedWasTold
<1> QED BY <1>2, <1>6, <1>7, <1>8, SendsStay DEF IInv

LEMMA TellKeeps == ASSUME IInv, NEW r \in Relays, NEW p \in Audience, Tell(r, p) PROVE IInv'
<1>1. /\ relay' = [relay EXCEPT ![r].left = @ \ {p}, ![r].told = IF p \in muted THEN @ ELSE @ \cup {p}]
      /\ SendsRest /\ UNCHANGED <<event, notice, muted, faults>>
  BY DEF Tell
<1>2. relay \in [Relays -> RelayRow] BY RelayTyped
<1>3. /\ \A q \in Relays : q # r => relay'[q] = relay[q]
      /\ relay'[r].todo = relay[r].todo /\ relay'[r].hand = relay[r].hand
      /\ relay'[r].left = relay[r].left \ {p}
      /\ relay'[r].told = IF p \in muted THEN relay[r].told ELSE relay[r].told \cup {p}
  BY <1>1, <1>2 DEF RelayRow
<1>4. OutboxTypeOK'
  <2>1. relay'[r] \in RelayRow BY <1>1, <1>2 DEF RelayRow
  <2>2. relay' \in [Relays -> RelayRow] BY <1>1, <1>2, <2>1
  <2> QED BY <1>1, <2>2 DEF IInv, OutboxTypeOK, RelayRow, SendsRest
<1>5. RelayInv'
  <2>1. HandsDiffer' BY <1>3 DEF IInv, RelayInv, HandsDiffer
  <2>2. PickedAreThere' BY <1>1, <1>3 DEF IInv, RelayInv, PickedAreThere
  <2>3. ASSUME NEW q \in Relays PROVE InHand(q)'
    <3>1. CASE q = r
      <4>1. p \in muted => p \in CanMute BY DEF IInv, OutboxTypeOK
      <4>2. InHand(r) BY DEF IInv, RelayInv
      <4>3. (Audience \ relay[r].left) \ CanMute \subseteq relay[r].told =>
              (Audience \ relay'[r].left) \ CanMute \subseteq relay'[r].told
        BY <1>3, <4>1
      <4> QED BY <1>1, <1>3, <3>1, <4>2, <4>3 DEF InHand
    <3>2. CASE q # r BY <1>1, <1>3, <3>2 DEF IInv, RelayInv, InHand
    <3> QED BY <3>1, <3>2
  <2> QED BY <2>1, <2>2, <2>3 DEF RelayInv
<1>6. ProcessedWasTold' BY <1>1 DEF IInv, ProcessedWasTold
<1> QED BY <1>1, <1>4, <1>5, <1>6, SendsStay DEF IInv

(* A relay lets go of its event.                                           *)
LetGoRow(r) ==
    /\ relay' \in [Relays -> RelayRow]
    /\ \A q \in Relays : q # r => relay'[q] = relay[q]
    /\ relay'[r].hand = NoEvent /\ relay'[r].todo = relay[r].todo

LEMMA LettingGo ==
    ASSUME NEW r \in Relays, relay \in [Relays -> RelayRow],
           relay' = [relay EXCEPT ![r].hand = NoEvent, ![r].left = {}, ![r].told = {}]
    PROVE  LetGoRow(r)
<1>1. /\ \A q \in Relays : q # r => relay'[q] = relay[q]
      /\ relay'[r].hand = NoEvent /\ relay'[r].todo = relay[r].todo
  BY DEF RelayRow
<1>2. relay'[r] \in RelayRow BY DEF RelayRow
<1>3. relay' \in [Relays -> RelayRow] BY <1>1, <1>2
<1> QED BY <1>1, <1>3 DEF LetGoRow

(* The others' events are not the one that was let go of.                  *)
LEMMA OthersKeep ==
    ASSUME IInv, NEW r \in Relays, LetGoRow(r), relay[r].hand \in Sends,
           relay[r].hand # NoEvent, event'[relay[r].hand] # NoEvent,
           \A s \in Sends : s # relay[r].hand => event'[s] = event[s]
    PROVE  RelayInv'
<1>1. HandsDiffer' BY DEF IInv, RelayInv, HandsDiffer, LetGoRow
<1>2. PickedAreThere'
  <2>1. relay \in [Relays -> RelayRow] BY RelayTyped
  <2>2. \A q \in Relays : relay'[q].todo = relay[q].todo /\ relay[q].todo \subseteq Sends
    BY <2>1 DEF LetGoRow, RelayRow
  <2> QED BY <2>2 DEF IInv, RelayInv, PickedAreThere
<1>3. ASSUME NEW q \in Relays PROVE InHand(q)'
  <2>1. CASE q = r BY <2>1 DEF LetGoRow, InHand
  <2>2. CASE q # r
    <3>1. relay'[q] = relay[q] /\ InHand(q) BY <2>2 DEF LetGoRow, IInv, RelayInv
    <3>2. relay[q].hand # NoEvent => relay[q].hand # relay[r].hand /\ relay[q].hand \in Sends
      BY <2>2 DEF IInv, OutboxTypeOK, RelayInv, HandsDiffer
    <3> QED BY <3>1, <3>2 DEF InHand
  <2> QED BY <2>1, <2>2
<1> QED BY <1>1, <1>2, <1>3 DEF RelayInv

LEMMA ProcessedKeeps == ASSUME IInv, NEW r \in Relays, Processed(r) PROVE IInv'
<1> DEFINE e == relay[r].hand
<1>1. /\ e # NoEvent /\ relay[r].left = {}
      /\ event' = [event EXCEPT ![e].processed = TRUE]
      /\ notice' = [notice EXCEPT ![e] = @ \cup relay[r].told]
      /\ relay' = [relay EXCEPT ![r].hand = NoEvent, ![r].left = {}, ![r].told = {}]
      /\ SendsRest /\ UNCHANGED <<muted, faults>>
  BY DEF Processed, Served, WrittenBy, LetGo
<1>2. relay \in [Relays -> RelayRow] BY RelayTyped
<1>3. /\ e \in Sends /\ event[e] # NoEvent
      /\ Audience \ CanMute \subseteq relay[r].told /\ relay[r].told \subseteq Audience
  BY <1>1, <1>2 DEF RelayRow, IInv, RelayInv, InHand
<1> HIDE DEF e
<1>4. /\ event \in [Sends -> EventRow \cup {NoEvent}] /\ notice \in [Sends -> SUBSET Audience]
  BY DEF IInv, OutboxTypeOK
<1>5. event[e] \in EventRow BY <1>3, <1>4
<1>6. /\ event'[e] = [event[e] EXCEPT !.processed = TRUE]
      /\ \A s \in Sends : s # e => event'[s] = event[s] /\ notice'[s] = notice[s]
      /\ notice'[e] = notice[e] \cup relay[r].told
  BY <1>1, <1>3, <1>4
<1>7. event'[e] \in EventRow BY <1>5, <1>6 DEF EventRow
<1>8. event'[e] # NoEvent BY <1>7, NoEventIsNoRow
<1>9. event' \in [Sends -> EventRow \cup {NoEvent}]
  <2> DEFINE row == [event[e] EXCEPT !.processed = TRUE]
  <2>1. event' = [event EXCEPT ![e] = row] BY <1>1
  <2>2. row \in EventRow BY <1>6, <1>7
  <2> HIDE DEF row
  <2> QED BY <1>4, <2>1, <2>2
<1>10. notice' \in [Sends -> SUBSET Audience] BY <1>1, <1>3, <1>4
<1>11. LetGoRow(r) BY <1>1, <1>2, LettingGo
<1>12. OutboxTypeOK' BY <1>1, <1>9, <1>10, <1>11 DEF IInv, OutboxTypeOK, RelayRow, SendsRest, LetGoRow
<1>13. RelayInv' BY <1>1, <1>3, <1>6, <1>8, <1>11, OthersKeep DEF e
<1>14. ProcessedWasTold' BY <1>3, <1>6 DEF IInv, ProcessedWasTold
<1>15. OneIsPlaced' /\ EventsAreSaved' BY <1>1, <1>3, <1>6, <1>8, SendsStay
<1> QED BY <1>12, <1>13, <1>14, <1>15 DEF IInv

LEMMA HandlerFailsKeeps == ASSUME IInv, NEW r \in Relays, HandlerFails(r) PROVE IInv'
<1> DEFINE e == relay[r].hand
<1>1. /\ e # NoEvent /\ faults < MaxFaults /\ faults' = faults + 1
      /\ event' = [event EXCEPT ![e].attempts = @ + 1]
      /\ notice' = [notice EXCEPT ![e] = @ \cup relay[r].told]
      /\ relay' = [relay EXCEPT ![r].hand = NoEvent, ![r].left = {}, ![r].told = {}]
      /\ SendsRest /\ UNCHANGED muted
  BY DEF HandlerFails, CountedFailure, WrittenBy, LetGo
<1>2. relay \in [Relays -> RelayRow] BY RelayTyped
<1>3. /\ e \in Sends /\ event[e] # NoEvent /\ ~event[e].processed
      /\ relay[r].told \subseteq Audience
  BY <1>1, <1>2 DEF RelayRow, IInv, RelayInv, InHand
<1> HIDE DEF e
<1>4. /\ event \in [Sends -> EventRow \cup {NoEvent}] /\ notice \in [Sends -> SUBSET Audience]
  BY DEF IInv, OutboxTypeOK
<1>5. event[e] \in EventRow BY <1>3, <1>4
<1>6. /\ event'[e] = [event[e] EXCEPT !.attempts = @ + 1]
      /\ \A s \in Sends : s # e => event'[s] = event[s] /\ notice'[s] = notice[s]
      /\ notice'[e] = notice[e] \cup relay[r].told
  BY <1>1, <1>3, <1>4
<1>7. event'[e] \in EventRow /\ ~event'[e].processed BY <1>3, <1>5, <1>6 DEF EventRow
<1>8. event'[e] # NoEvent BY <1>7, NoEventIsNoRow
<1>9. event' \in [Sends -> EventRow \cup {NoEvent}]
  <2> DEFINE row == [event[e] EXCEPT !.attempts = @ + 1]
  <2>1. event' = [event EXCEPT ![e] = row] BY <1>1
  <2>2. row \in EventRow BY <1>6, <1>7
  <2> HIDE DEF row
  <2> QED BY <1>4, <2>1, <2>2
<1>10. notice' \in [Sends -> SUBSET Audience] BY <1>1, <1>3, <1>4
<1>11. LetGoRow(r) BY <1>1, <1>2, LettingGo
<1>12. faults' \in 0..MaxFaults BY <1>1, ChatOutboxAssumption DEF IInv, OutboxTypeOK
<1>13. OutboxTypeOK'
  BY <1>1, <1>9, <1>10, <1>11, <1>12 DEF IInv, OutboxTypeOK, RelayRow, SendsRest, LetGoRow
<1>14. RelayInv' BY <1>1, <1>3, <1>6, <1>8, <1>11, OthersKeep DEF e
<1>15. ProcessedWasTold' BY <1>3, <1>6, <1>7 DEF IInv, ProcessedWasTold
<1>16. OneIsPlaced' /\ EventsAreSaved' BY <1>1, <1>3, <1>6, <1>8, SendsStay
<1> QED BY <1>13, <1>14, <1>15, <1>16 DEF IInv

LEMMA RelayDiesKeeps == ASSUME IInv, NEW r \in Relays, RelayDies(r) PROVE IInv'
<1>1. /\ faults < MaxFaults /\ faults' = faults + 1 /\ relay' = [relay EXCEPT ![r] = RelayIdle]
      /\ SendsRest /\ UNCHANGED <<event, notice, muted>>
  BY DEF RelayDies
<1>2. relay \in [Relays -> RelayRow] BY RelayTyped
<1>3. /\ \A q \in Relays : q # r => relay'[q] = relay[q]
      /\ relay'[r].hand = NoEvent /\ relay'[r].todo = {}
  BY <1>1, <1>2 DEF RelayIdle
<1>4. RelayIdle \in RelayRow BY DEF RelayIdle, RelayRow
<1>5. relay' \in [Relays -> RelayRow] BY <1>1, <1>2, <1>4
<1>6. faults' \in 0..MaxFaults BY <1>1, ChatOutboxAssumption DEF IInv, OutboxTypeOK
<1>7. OutboxTypeOK' BY <1>1, <1>5, <1>6 DEF IInv, OutboxTypeOK, RelayRow, SendsRest
<1>8. RelayInv'
  <2>1. HandsDiffer' BY <1>3 DEF IInv, RelayInv, HandsDiffer
  <2>2. PickedAreThere' BY <1>1, <1>3 DEF IInv, RelayInv, PickedAreThere
  <2>3. ASSUME NEW q \in Relays PROVE InHand(q)'
    BY <1>1, <1>3 DEF IInv, RelayInv, InHand
  <2> QED BY <2>1, <2>2, <2>3 DEF RelayInv
<1>9. ProcessedWasTold' BY <1>1 DEF IInv, ProcessedWasTold
<1> QED BY <1>1, <1>7, <1>8, <1>9, SendsStay DEF IInv

LEMMA MuteKeeps == ASSUME IInv, NEW p \in CanMute, Mute(p) PROVE IInv'
<1>1. OutboxTypeOK' BY DEF IInv, OutboxTypeOK, Mute, SendsRest, EventRow
<1>2. RelayInv' BY DEF IInv, RelayInv, HandsDiffer, PickedAreThere, InHand, Mute
<1>3. ProcessedWasTold' BY DEF IInv, ProcessedWasTold, Mute
<1>4. OneIsPlaced' /\ EventsAreSaved' BY SendsStay DEF Mute
<1> QED BY <1>1, <1>2, <1>3, <1>4 DEF IInv

LEMMA StutterKeeps == ASSUME IInv, UNCHANGED outboxVars PROVE IInv'
BY DEF IInv, OutboxTypeOK, OneIsPlaced, Placed, EventsAreSaved, RelayInv, HandsDiffer,
    PickedAreThere, InHand, ProcessedWasTold, outboxVars, EventRow

-----------------------------------------------------------------------------

(* The invariant holds in every state of every behaviour.                  *)
THEOREM Invariance == OutboxSpec => []IInv
<1>1. ASSUME IInv, [OutboxNext]_outboxVars PROVE IInv'
  <2>1. ASSUME NEW s \in Sends, Look(s) \/ Insert(s) \/ CommitMessage(s) \/ RollBack(s)
        PROVE  IInv'
    BY <1>1, <2>1, SendsKeep
  <2>2. ASSUME NEW r \in Relays, RelayStep(r) PROVE IInv'
    BY <1>1, <2>2, StartKeeps, ClaimKeeps, TellKeeps, ProcessedKeeps DEF RelayStep
  <2>3. ASSUME NEW r \in Relays, HandlerFails(r) \/ RelayDies(r) PROVE IInv'
    BY <1>1, <2>3, HandlerFailsKeeps, RelayDiesKeeps
  <2>4. ASSUME NEW p \in CanMute, Mute(p) PROVE IInv'
    BY <1>1, <2>4, MuteKeeps
  <2>5. CASE UNCHANGED outboxVars BY <1>1, <2>5, StutterKeeps
  <2> QED BY <1>1, <2>1, <2>2, <2>3, <2>4, <2>5 DEF OutboxNext
<1> QED BY <1>1, InitIsGood, PTL DEF OutboxSpec

(* A message is saved once however often it is sent, and an event is       *)
(* processed only when everyone who never mutes the thread has a           *)
(* notification, for any number of relays, failures and participants.      *)
THEOREM OutboxIsSafe == OutboxSpec => []OutboxInv
<1>1. IInv => OutboxInv
  BY DEF IInv, OutboxInv, OneIsPlaced, Placed, OneMessagePerClientId, Twins
<1> QED BY <1>1, Invariance, PTL

-----------------------------------------------------------------------------
(* The refinement.                                                         *)

(* What a step does to the states of the events, seen from the promise.    *)
States == [s \in Sends |-> EventState(s)]

LEMMA OneMoves ==
    ASSUME NEW e \in Sends, \A s \in Sends : s # e => event'[s] = event[s]
    PROVE  States' = [States EXCEPT ![e] = EventState(e)']
<1>1. \A s \in Sends : s # e => EventState(s)' = EventState(s) BY DEF EventState
<1> QED BY <1>1 DEF States

LEMMA NoneMoves ==
    ASSUME UNCHANGED <<event, notice>> PROVE UNCHANGED <<States, notice>>
BY DEF States, EventState

LEMMA CommitPosts ==
    ASSUME IInv, NEW s \in Sends, CommitMessage(s) PROVE Promised!Post(s)
<1>1. event[s] = NoEvent /\ event \in [Sends -> EventRow \cup {NoEvent}]
  BY DEF CommitMessage, IInv, EventsAreSaved, OutboxTypeOK
<1>2. /\ event'[s] = [processed |-> FALSE, attempts |-> 0] /\ notice' = notice
      /\ \A x \in Sends : x # s => event'[x] = event[x]
  BY <1>1 DEF CommitMessage
<1>3. event'[s] \in EventRow BY <1>2 DEF EventRow
<1>4. EventState(s) = "absent" BY <1>1 DEF EventState
<1>5. EventState(s)' = "due"
  <2>1. event'[s] # NoEvent BY <1>3, NoEventIsNoRow
  <2>2. ~event'[s].processed /\ ~(event'[s].attempts >= MaxAttempts)
    BY <1>2, ChatOutboxAssumption
  <2> QED BY <2>1, <2>2 DEF EventState
<1>6. States' = [States EXCEPT ![s] = "due"] BY <1>2, <1>5, OneMoves
<1>7. States[s] = "absent" BY <1>4 DEF States
<1> QED BY <1>2, <1>6, <1>7 DEF Promised!Post, States

LEMMA HandedServes ==
    ASSUME IInv, NEW e \in Sends, event[e] # NoEvent, ~event[e].processed,
           \A s \in Sends : s # e => event'[s] = event[s],
           EventState(e)' \in {EventState(e), "done", "dead"},
           NEW more \in SUBSET Audience, notice' = [notice EXCEPT ![e] = @ \cup more],
           EventState(e)' = "done" => Audience \ CanMute \subseteq notice'[e]
    PROVE  Promised!Serve(e)
<1>1. EventState(e) \in {"due", "dead"} BY DEF EventState
<1>2. States' = [States EXCEPT ![e] = EventState(e)'] BY OneMoves
<1>3. States[e] = EventState(e) BY DEF States
<1> QED BY <1>1, <1>2, <1>3 DEF Promised!Serve, States

LEMMA ProcessedServes ==
    ASSUME IInv, NEW r \in Relays, Processed(r) PROVE Promised!Serve(relay[r].hand)
<1>0. PICK e \in Sends : e = relay[r].hand
  BY DEF Processed, HandlerFails, IInv, OutboxTypeOK
<1>1. /\ e # NoEvent /\ relay[r].left = {}
      /\ event' = [event EXCEPT ![e].processed = TRUE]
      /\ notice' = [notice EXCEPT ![e] = @ \cup relay[r].told]
  BY <1>0 DEF Processed, Served, WrittenBy
<1>2. relay \in [Relays -> RelayRow] BY RelayTyped
<1>3. /\ e \in Sends /\ event[e] # NoEvent /\ ~event[e].processed
      /\ Audience \ CanMute \subseteq relay[r].told /\ relay[r].told \in SUBSET Audience
  BY <1>0, <1>1, <1>2 DEF RelayRow, IInv, RelayInv, InHand
<1>4. /\ event \in [Sends -> EventRow \cup {NoEvent}] /\ notice \in [Sends -> SUBSET Audience]
  BY DEF IInv, OutboxTypeOK
<1>5. event[e] \in EventRow BY <1>3, <1>4
<1>6. /\ event'[e] = [event[e] EXCEPT !.processed = TRUE]
      /\ \A s \in Sends : s # e => event'[s] = event[s]
      /\ notice'[e] = notice[e] \cup relay[r].told
  BY <1>1, <1>3, <1>4
<1>7. event'[e] \in EventRow /\ event'[e].processed BY <1>5, <1>6 DEF EventRow
<1>8. EventState(e)' = "done"
  <2>1. event'[e] # NoEvent BY <1>7, NoEventIsNoRow
  <2> QED BY <1>7, <2>1 DEF EventState
<1>9. Promised!Serve(e) BY <1>1, <1>3, <1>6, <1>8, HandedServes
<1> QED BY <1>0, <1>9

LEMMA HandlerFailsServes ==
    ASSUME IInv, NEW r \in Relays, HandlerFails(r) PROVE Promised!Serve(relay[r].hand)
<1>0. PICK e \in Sends : e = relay[r].hand
  BY DEF Processed, HandlerFails, IInv, OutboxTypeOK
<1>1. /\ e # NoEvent
      /\ event' = [event EXCEPT ![e].attempts = @ + 1]
      /\ notice' = [notice EXCEPT ![e] = @ \cup relay[r].told]
  BY <1>0 DEF HandlerFails, CountedFailure, WrittenBy
<1>2. relay \in [Relays -> RelayRow] BY RelayTyped
<1>3. /\ e \in Sends /\ event[e] # NoEvent /\ ~event[e].processed
      /\ relay[r].told \in SUBSET Audience
  BY <1>0, <1>1, <1>2 DEF RelayRow, IInv, RelayInv, InHand
<1>4. event \in [Sends -> EventRow \cup {NoEvent}] BY DEF IInv, OutboxTypeOK
<1>5. event[e] \in EventRow BY <1>3, <1>4
<1>6. /\ event'[e] = [event[e] EXCEPT !.attempts = @ + 1]
      /\ \A s \in Sends : s # e => event'[s] = event[s]
  BY <1>1, <1>3, <1>4
<1>7. /\ event'[e] \in EventRow /\ ~event'[e].processed
      /\ event'[e].attempts = event[e].attempts + 1 /\ event[e].attempts \in Nat
  BY <1>3, <1>5, <1>6 DEF EventRow
<1>8. event'[e] # NoEvent BY <1>7, NoEventIsNoRow
<1>9. EventState(e) = IF event[e].attempts >= MaxAttempts THEN "dead" ELSE "due"
  BY <1>3 DEF EventState
<1>10. EventState(e)' = IF event'[e].attempts >= MaxAttempts THEN "dead" ELSE "due"
  BY <1>7, <1>8 DEF EventState
<1>11. EventState(e)' \in {EventState(e), "dead"}
  BY <1>7, <1>9, <1>10, ChatOutboxAssumption
<1>12. EventState(e)' # "done" BY <1>10
<1>13. Promised!Serve(e) BY <1>1, <1>3, <1>6, <1>11, <1>12, HandedServes
<1> QED BY <1>0, <1>13

(* Every step of the outbox is a step of what it promises or none: an      *)
(* event is posted once, told to everyone who listens before it is done,   *)
(* and never due again.                                                    *)
THEOREM OutboxImplementsPromise ==
    OutboxSpec => Promised!PromiseInit /\ [][Promised!PromiseNext]_(Promised!promiseVars)
<1>1. OutboxInit => Promised!PromiseInit
  BY DEF OutboxInit, Promised!PromiseInit, EventState
<1>2. ASSUME IInv, [OutboxNext]_outboxVars
      PROVE  [Promised!PromiseNext]_(Promised!promiseVars)
  <2>1. ASSUME UNCHANGED <<event, notice>> PROVE UNCHANGED Promised!promiseVars
    BY <2>1, NoneMoves DEF Promised!promiseVars, States
  <2>2. ASSUME NEW s \in Sends, CommitMessage(s) PROVE Promised!PromiseNext
    BY <1>2, <2>2, CommitPosts DEF Promised!PromiseNext
  <2>3. ASSUME NEW r \in Relays, Processed(r) \/ HandlerFails(r)
        PROVE  Promised!PromiseNext
    <3>1. relay[r].hand \in Sends
      BY <1>2, <2>3 DEF IInv, OutboxTypeOK, Processed, HandlerFails
    <3>2. Promised!Serve(relay[r].hand) BY <1>2, <2>3, ProcessedServes, HandlerFailsServes
    <3> QED BY <3>1, <3>2 DEF Promised!PromiseNext
  <2>4. ASSUME NEW s \in Sends, Look(s) \/ Insert(s) \/ RollBack(s)
        PROVE  UNCHANGED <<event, notice>>
    BY <2>4 DEF Look, Insert, RollBack, RelaysRest
  <2>5. ASSUME NEW r \in Relays, StartRelay(r) \/ Claim(r) \/ RelayDies(r)
        PROVE  UNCHANGED <<event, notice>>
    BY <2>5 DEF StartRelay, Claim, RelayDies
  <2>6. ASSUME NEW r \in Relays, NEW p \in Audience, Tell(r, p)
        PROVE  UNCHANGED <<event, notice>>
    BY <2>6 DEF Tell
  <2>7. ASSUME NEW p \in CanMute, Mute(p) PROVE UNCHANGED <<event, notice>>
    BY <2>7 DEF Mute
  <2>8. ASSUME UNCHANGED outboxVars PROVE UNCHANGED <<event, notice>>
    BY <2>8 DEF outboxVars
  <2> QED
    BY <1>2, <2>1, <2>2, <2>3, <2>4, <2>5, <2>6, <2>7, <2>8 DEF OutboxNext, RelayStep
<1> QED BY <1>1, <1>2, Invariance, PTL DEF OutboxSpec
=============================================================================
