--------------------------- MODULE MCOrchestrator ---------------------------
(***************************************************************************)
(* Model values for checking Orchestrator with TLC.                        *)
(***************************************************************************)
EXTENDS Orchestrator

CONSTANTS skeleton, echo, good, other, thin, broken, worse

Documents == {skeleton, echo, good, other, thin, broken, worse}
Broken == {broken, worse}
=============================================================================
