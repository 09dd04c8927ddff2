-------------------------- MODULE MCStoryLifecycle --------------------------
(***************************************************************************)
(* Model values and symmetry for checking StoryLifecycle with TLC.         *)
(***************************************************************************)
EXTENDS StoryLifecycle, TLC

CONSTANTS cave, river, ada, bob

TwoNodes == {cave, river}
TwoAdmins == {ada, bob}
OneAdmin == {ada}
Symmetric == Permutations(Node) \cup Permutations(Admin)
=============================================================================
