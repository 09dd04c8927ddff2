------------------------- MODULE ReadingStateServer -------------------------
(***************************************************************************)
(* The server side of a saved reading state: what PUT                      *)
(* /v1/reading-state/{profile}/{story} does to the one row it locks        *)
(* (api/reading.py put_reading_state).  The row is canonical; a device     *)
(* sends the revision it started from and the save is applied only when    *)
(* that revision is the row's.                                             *)
(*                                                                         *)
(* A reading position is the sequence of choices that led to it (a `path`  *)
(* of choice identifiers, every choice ever made having its own), which is *)
(* all that tells one saved content from another.  Revision 0 is "no row": *)
(* a row that exists has revision 1 or more.                               *)
(***************************************************************************)
EXTENDS Naturals

CONSTANTS
  Device,     \* the devices the child reads on
  NoDevice    \* "no device": the writer of a row that does not exist

NoEvent == 0  \* event identifiers are positive

NoRow == [revision |-> 0, path |-> <<>>, event |-> NoEvent, device |-> NoDevice]

Exists(row) == row.revision > 0

\* body: a save as a device sends it: [event, base, path, device]
ApplyBody(body) ==
  [revision |-> body.base + 1, path |-> body.path,
   event |-> body.event, device |-> body.device]

\* An event the row already carries: the save was applied, its answer was lost.
AlreadyApplied(row, body) == Exists(row) /\ row.event = body.event

\* Fault: the last writer wins, whatever revision it started from.
CurrentUnchecked(row, body) == TRUE

\* The save starts from the row as it is.  Without a row, from revision 0.
Current(row, body) == body.base = row.revision

(***************************************************************************)
(* The answer to a save.  A repeated event gets the row back unchanged, a  *)
(* save from another revision gets 409 and the row, a first save that does *)
(* not start at revision 0 gets 422, and any other save is applied.        *)
(***************************************************************************)
PutStatus(row, body) ==
  CASE AlreadyApplied(row, body)               -> "saved"
    [] ~Exists(row) /\ ~Current(row, body)     -> "refused"
    [] Exists(row) /\ ~AlreadyApplied(row, body) /\ ~Current(row, body) -> "conflict"
    [] OTHER                                   -> "saved"

Applies(row, body) == ~AlreadyApplied(row, body) /\ Current(row, body)

PutRow(row, body) == IF Applies(row, body) THEN ApplyBody(body) ELSE row
=============================================================================
