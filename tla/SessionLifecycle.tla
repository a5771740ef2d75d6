-------------------------- MODULE SessionLifecycle --------------------------
(***************************************************************************)
(* What a private session promises (PrivateSession model: "request ->      *)
(* approval -> live -> completed"): it is negotiated, may be called off    *)
(* until it starts, starts once, ends once, and never comes back; its chat *)
(* is written only while it is live, and cleared once it is over.          *)
(***************************************************************************)
VARIABLES
    phase,   \* "asked", "live" or "over"
    chat     \* messages exist

Init == phase = "asked" /\ chat = FALSE

Start == phase = "asked" /\ phase' = "live" /\ UNCHANGED chat
CallOff == phase = "asked" /\ phase' = "over" /\ UNCHANGED chat
Finish == phase = "live" /\ phase' = "over" /\ UNCHANGED chat
Write == phase = "live" /\ chat' = TRUE /\ UNCHANGED phase
Clear == phase = "over" /\ chat' = FALSE /\ UNCHANGED phase

Next == Start \/ CallOff \/ Finish \/ Write \/ Clear

Spec == Init /\ [][Next]_<<phase, chat>>
=============================================================================
