-------------------------- MODULE MCGenerationJobs --------------------------
(***************************************************************************)
(* Model values for checking GenerationJobs with TLC.                      *)
(***************************************************************************)
EXTENDS GenerationJobs

CONSTANTS book, blue, green

OneJob == {book}
TwoWorkers == {blue, green}
=============================================================================
