------------------------------ MODULE MCConsent ------------------------------
(***************************************************************************)
(* Model values for checking Consent with TLC.                             *)
(***************************************************************************)
EXTENDS Consent, TLC

CONSTANTS ann, bob, x, y

Parents == {ann, bob}
TwoCalls == {x, y}
ConsentSymmetry == Permutations(Parents) \cup Permutations(TwoCalls)
=============================================================================
