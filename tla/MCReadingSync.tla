--------------------------- MODULE MCReadingSync ---------------------------
(***************************************************************************)
(* Model values and symmetry for checking ReadingSync with TLC.            *)
(***************************************************************************)
EXTENDS ReadingSync, TLC

CONSTANTS tablet, phone

Both == {tablet, phone}
One == {tablet}
DeviceSymmetry == Permutations(Device)
=============================================================================
