-------------------------- MODULE MCResearchReview --------------------------
(* Constants of the model-checking instances of ResearchReview.            *)
EXTENDS ResearchReview

Ready == [approved |-> TRUE, available |-> TRUE, enabled |-> TRUE,
          expert |-> TRUE, load |-> 0]

AllReady == [r \in Reviewers |-> Ready]
OnlyTopical == [r \in Reviewers |-> [Ready EXCEPT !.approved = r \in Topical]]

(* A full board, or a single reviewer: with one the versions of a paper    *)
(* and its corrections are explored further.                               *)
Boards == {AllReady, OnlyTopical}
LongForOne == paper.version = 1 \/ \A r \in Reviewers \ Topical : ~profile[r].approved

(* One profile has paused invitations when the paper arrives, so that a    *)
(* later change of it makes a candidate.                                   *)
OneAway == {[r \in Reviewers |->
              IF r \in Restless THEN [Ready EXCEPT !.available = FALSE] ELSE Ready]}
=============================================================================
