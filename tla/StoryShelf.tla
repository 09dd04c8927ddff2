----------------------------- MODULE StoryShelf -----------------------------
(***************************************************************************)
(* What mandatory approval promises a family about one story, with no      *)
(* states, screenings or edits in sight (ADR-005): the story is put on the *)
(* shelf by an admin, taken off it, and never changed while it is there.   *)
(***************************************************************************)
CONSTANTS
  Text,      \* what a story can say
  Admin,     \* who may approve
  NoOne,     \* the approver of a story never approved
  Nothing    \* what is on the shelf when the story is not

VARIABLES
  shelf,     \* what a reader of the story is given
  approver   \* who approved it last

vars == <<shelf, approver>>

Init == shelf = Nothing /\ approver = NoOne

Release ==
  /\ shelf = Nothing
  /\ shelf' \in Text
  /\ approver' \in Admin

Withdraw == shelf /= Nothing /\ shelf' = Nothing /\ UNCHANGED approver

Next == Release \/ Withdraw

Spec == Init /\ [][Next]_vars
=============================================================================
