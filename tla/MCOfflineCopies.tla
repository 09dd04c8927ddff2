--------------------------- MODULE MCOfflineCopies ---------------------------
(***************************************************************************)
(* OfflineCopies and OfflineTraces for TLC, side by side: a behaviour is   *)
(* one of the one or one of the other, and keeps to one of the scopes.     *)
(***************************************************************************)
EXTENDS OfflineCopies

VARIABLES part, places, names, answers, visits

T == INSTANCE OfflineTraces

Scope(users, n, changes, texts, values) ==
  [users |-> users, loads |-> n, changes |-> changes, texts |-> texts, answers |-> values]

CopiesScopes ==
  { Scope({"ada", "ben"}, 1, 2, 1, 0),   \* two children who take turns
    Scope({"ada", "ben"}, 1, 1, 2, 0),   \* and a text that is rewritten
    Scope({"ada"}, 1, 2, 2, 0),          \* one, whose book is also taken away
    Scope({"ada"}, 2, 1, 2, 0) }         \* and whose loads of the library overlap
TracesScopes ==
  { Scope({"ada", "ben"}, 1, 1, 1, 1), Scope({"ada"}, 2, 2, 1, 2),
    Scope({"ada", "ben"}, 2, 1, 1, 0) }  \* both, without values

MCScopes == CopiesScopes \cup TracesScopes

mcvars == <<vars, part, places, names, answers, visits>>

MCInit ==
  /\ Init /\ T!TracesInit
  /\ \/ part = "copies" /\ scope \in CopiesScopes
     \/ part = "traces" /\ scope \in TracesScopes

MCNext ==
  \/ part = "copies" /\ Next /\ UNCHANGED <<part, places, names, answers, visits>>
  \/ part = "traces" /\ T!TracesNext
     /\ UNCHANGED <<part, content, copies, hashes, download, loads>>

MCSpec == MCInit /\ [][MCNext]_mcvars /\ Fairness /\ T!TracesFairness

\* Both: what is withdrawn for good leaves the device, book and traces.
WithdrawalCompletes == WithdrawnBookLeaves /\ T!TracesLeave
=============================================================================
