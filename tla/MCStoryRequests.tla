--------------------------- MODULE MCStoryRequests ---------------------------
(***************************************************************************)
(* Model values for checking StoryRequests with TLC.                       *)
(***************************************************************************)
EXTENDS StoryRequests, TLC

CONSTANTS ada, a, b, c, x, y

Alone == {ada}
ThreeRequests == {a, b, c}
TwoCallers == {x, y}
\* A family with the larger quota is looked at for one month.
MCSpec == Init /\ [][Next /\ (quota = 2 => month' = 1)]_vars

RequestSymmetry == Permutations(ThreeRequests) \cup Permutations(TwoCallers)
=============================================================================
