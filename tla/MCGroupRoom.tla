---------------------------- MODULE MCGroupRoom -----------------------------
(* Constants of the model-checking instances of GroupRoom.                 *)
EXTENDS GroupRoom

CONSTANTS host, ann, h1, h2

\* Edits, ends and cancellations cross a start or an extension.
CrossingDesks == [h \in Desks |-> IF h = h1 THEN {"join", "extend"}
                                  ELSE {"update", "end", "cancel"}]
AnyOperation == [h \in Desks |-> HandlerOps]

\* Two sockets cross in an instant room; in a scheduled one the host's crosses the start.
CrossingCallers == [kind \in Kinds |-> IF kind = "instant" THEN {host, ann} ELSE {host}]

SomeEdits == {<<1, FALSE>>, <<2, FALSE>>, <<Kept, TRUE>>}
NewStart == {<<Kept, TRUE>>}
=============================================================================
