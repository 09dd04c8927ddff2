--------------------------- MODULE LibraryShelves ---------------------------
(***************************************************************************)
(* What OfflineCopies and OfflineTraces share: who may read what, the page *)
(* a family tablet shows, and the last shelf of every profile the tablet   *)
(* has seen (profile_shelf, frontend/src/offline/revocation.ts).           *)
(***************************************************************************)
EXTENDS Integers, FiniteSets

CONSTANTS
  Profiles, Books,
  Opened,  \* the books that are opened, assigned and taken away
  Slots,   \* numbers for the loads of the library under way at once
  Scopes   \* bounds: the children who use the tablet, how many loads overlap, how often
           \* assignments and texts change, how many texts a version has in turn, and how
           \* many answers with personalization values are under way at once

ShelvesAssumption ==
  Opened \subseteq Books /\ Slots \subseteq Nat /\ \A c \in Scopes : c.users \subseteq Profiles
ASSUME ShelvesAssumption

VARIABLES
  scope,     \* the bounds of this behaviour, with what is left of the changes
  assigned,  \* server: who has which published book
  shelf,     \* the last shelf of each profile the device has seen
  screen     \* the page shown: a profile's library or a book it reads

Library == "library"

Listed(p) == {b \in Books : <<p, b>> \in assigned}

\* Who has the books that are opened to begin with is anybody's guess; everybody has the
\* others, and the device has seen them.
ShelvesInit ==
  /\ scope \in Scopes
  /\ \E some \in SUBSET (scope.users \X Opened) :
       assigned = some \cup (scope.users \X (Books \ Opened))
  /\ shelf = [p \in Profiles |-> Books \ Opened]
  /\ screen \in scope.users \X {Library}

Change == scope.changes > 0 /\ scope' = [scope EXCEPT !.changes = @ - 1]

\* A guardian assigns a book or takes it away; archiving takes it from everybody in turn.
Assign(p, b) ==
  /\ p \in scope.users /\ Change
  /\ assigned' = IF <<p, b>> \in assigned THEN assigned \ {<<p, b>>} ELSE assigned \cup {<<p, b>>}

\* The first slot that is free, within the scope.
Free(s, taken) == s <= scope.loads /\ s \notin taken /\ \A r \in Slots : r < s => r \in taken

\* putProfileShelf
TakeShelf(p, books) == shelf' = [shelf EXCEPT ![p] = books]

\* getAllProfileShelves: what any profile this device knows of may still read.
StillNeeded == UNION {shelf[p] : p \in Profiles}

Withdrawn(p, b) == <>[](<<p, b>> \notin assigned)
=============================================================================
