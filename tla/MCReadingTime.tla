---------------------------- MODULE MCReadingTime ----------------------------
(***************************************************************************)
(* Model values for checking ReadingTime with TLC.                         *)
(***************************************************************************)
EXTENDS ReadingTime

CONSTANTS tablet, timer, leave

OneDevice == {tablet}
TwoFlushers == {timer, leave}
=============================================================================
