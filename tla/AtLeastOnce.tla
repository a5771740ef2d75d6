---------------------------- MODULE AtLeastOnce -----------------------------
(***************************************************************************)
(* What the outbox of the chat promises of an event: once it is there it   *)
(* is served until it is done, when everyone who listens has been told at  *)
(* least once, or given up after repeated failures, and nothing else.      *)
(***************************************************************************)
CONSTANTS Events, Listeners, Audience

VARIABLES state, told

promiseVars == <<state, told>>

PromiseInit ==
    /\ state = [e \in Events |-> "absent"]
    /\ told = [e \in Events |-> {}]

Post(e) ==
    /\ state[e] = "absent"
    /\ state' = [state EXCEPT ![e] = "due"]
    /\ UNCHANGED told

\* Serving tells some, perhaps again, and may settle the event.  An event
\* given up may still be done by a relay that had picked it before.
Serve(e) ==
    /\ state[e] \in {"due", "dead"}
    /\ \E more \in SUBSET Audience : told' = [told EXCEPT ![e] = @ \cup more]
    /\ \E outcome \in {state[e], "done", "dead"} :
           /\ outcome = "done" => Listeners \subseteq told'[e]
           /\ state' = [state EXCEPT ![e] = outcome]

Settle(e) == state[e] = "due" /\ Serve(e) /\ state'[e] # "due"

PromiseNext == \E e \in Events : Post(e) \/ Serve(e)

Promise ==
    /\ PromiseInit /\ [][PromiseNext]_promiseVars
    /\ \A e \in Events : WF_promiseVars(Settle(e))
=============================================================================
