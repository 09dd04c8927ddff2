-------------------------- MODULE ReadingProgress --------------------------
(***************************************************************************)
(* What saving a reading position promises, with no devices, queues or     *)
(* network in sight (docs/planning/tech-spec.md, "Multi-device sync        *)
(* rules"): the canonical place in the story only ever moves on along the  *)
(* choices that led to it, and each save counts once.                      *)
(***************************************************************************)
EXTENDS Naturals, Sequences, SequencesExt

CONSTANT Event    \* identifiers of saves

VARIABLES
  place,      \* the choices that lead to the canonical place
  revision,   \* how many saves it took
  applied     \* the saves it took

vars == <<place, revision, applied>>

Init == place = <<>> /\ revision = 0 /\ applied = {}

\* A save that was not applied before moves the place on, or confirms it.
Save ==
  /\ place' \in Seq(Nat) /\ IsPrefix(place, place')
  /\ revision' = revision + 1
  /\ \E e \in Event \ applied : applied' = applied \cup {e}

Next == Save

Spec == Init /\ [][Next]_vars
=============================================================================
