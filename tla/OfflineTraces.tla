---------------------------- MODULE OfflineTraces ----------------------------
(***************************************************************************)
(* What a child leaves on a family tablet in the books it reads: its place *)
(* with the writes queued for it, and the name the book was read under     *)
(* (personalization_values); and how reconcileOfflineCache                 *)
(* (frontend/src/offline/revocation.ts) takes both away again.  The copies *)
(* of the books, which the same function purges in between, are            *)
(* OfflineCopies'.  Every await is a place where other pages run.          *)
(***************************************************************************)
EXTENDS LibraryShelves

VARIABLES
  places,   \* the reading states of the device, with the writes queued for them
  names,    \* the personalization values cached: whose, for which book
  answers,  \* answers to readers that asked for values, on their way
  visits    \* the loads of the library under way, with the shelf they brought

traces == <<places, names, answers>>
tvars == <<scope, assigned, shelf, screen, traces, visits>>

NoVisit == [stage |-> "none", profile |-> "", items |-> {}, needed |-> {}, todo |-> {}]

TracesInit ==
  /\ ShelvesInit
  /\ places = {} /\ names = {} /\ answers = {}
  /\ visits = [s \in Slots |-> NoVisit]

Withdraw(p, b) ==
  /\ Assign(p, b)
  /\ UNCHANGED <<shelf, screen, traces, visits>>

(***************************************************************************)
(* The pages.  A shelf that is answered after its page was left is not     *)
(* taken; whatever else a page awaits still runs to its end without it.    *)
(***************************************************************************)
GoTo(page) ==
  /\ screen /= page /\ screen' = page
  /\ visits' = [s \in Slots |-> IF visits[s].stage = "answered" THEN NoVisit ELSE visits[s]]

\* get_personalization_values: of a book assigned to the child some, or none; of any other
\* book none.
Told(p, b) == IF b \in Listed(p) THEN BOOLEAN ELSE {FALSE}

\* A reader asks for the values to read the book with, if it asks at all.
Read(p, b) ==
  /\ screen = <<p, Library>> /\ GoTo(<<p, b>>)
  /\ \/ UNCHANGED answers
     \/ /\ Cardinality(answers) < scope.answers
        /\ \E told \in Told(p, b) : answers' = answers \cup {<<p, b, told>>}
  /\ UNCHANGED <<scope, assigned, shelf, places, names>>

BackToLibrary(p) ==
  /\ p \in scope.users
  /\ GoTo(<<p, Library>>)
  /\ UNCHANGED <<scope, assigned, shelf, traces>>

\* A page read is recorded in the reading state, and in the queue if it cannot be sent.
Persist(p, b) ==
  /\ screen = <<p, b>>
  /\ places' = places \cup {<<p, b>>}
  /\ UNCHANGED <<scope, assigned, shelf, screen, names, answers, visits>>

\* reconcilePersonalizationValues: an answer with values is kept, one without deletes what
\* was kept.  It may come when the page was left already, or never.
NamesArrive(p, b, told) ==
  /\ <<p, b, told>> \in answers
  /\ answers' = answers \ {<<p, b, told>>}
  /\ names' = IF told THEN names \cup {<<p, b>>} ELSE names \ {<<p, b>>}
  /\ UNCHANGED <<scope, assigned, shelf, screen, places, visits>>

(***************************************************************************)
(* The library page (LibraryPage.tsx) asks for the shelf as it opens and   *)
(* whenever the device is online again, whatever it asked for before.      *)
(***************************************************************************)
AskShelf(s, p) ==
  /\ screen = <<p, Library>> /\ Free(s, {r \in Slots : visits[r] /= NoVisit})
  /\ visits' = [visits EXCEPT ![s].stage = "answered", ![s].profile = p, ![s].items = Listed(p)]
  /\ UNCHANGED <<scope, assigned, shelf, screen, traces>>

TakeAnswer(s) ==
  /\ visits[s].stage = "answered"
  /\ visits' = [visits EXCEPT ![s].stage = "places"]
  /\ UNCHANGED <<scope, assigned, shelf, screen, traces>>

\* The reading states and the queue of this profile.
PurgePlaces(s) ==
  /\ visits[s].stage = "places"
  /\ places' = {place \in places :
                 place[1] = visits[s].profile => place[2] \in visits[s].items}
  /\ visits' = [visits EXCEPT ![s].stage = "shelf"]
  /\ UNCHANGED <<scope, assigned, shelf, screen, names, answers>>

PutShelf(s) ==
  /\ visits[s].stage = "shelf"
  /\ TakeShelf(visits[s].profile, visits[s].items)
  /\ visits' = [visits EXCEPT ![s].stage = "union"]
  /\ UNCHANGED <<scope, assigned, screen, traces>>

UniteShelves(s) ==
  /\ visits[s].stage = "union"
  /\ visits' = [visits EXCEPT ![s].stage = "list", ![s].needed = StillNeeded]
  /\ UNCHANGED <<scope, assigned, shelf, screen, traces>>

Ended(s, visit) ==
  visits' = [visits EXCEPT ![s] = IF visit.todo = {} THEN NoVisit ELSE visit]

\* Fault: a name stays while any shelf lists the book, its own reader's or not.
ListNamesNobodyNeeds(s) ==
  LET visit == visits[s]
  IN  /\ visit.stage = "list"
      /\ Ended(s, [visit EXCEPT !.stage = "names",
                               !.todo = {n \in names : n[2] \notin visit.needed}])
      /\ UNCHANGED <<scope, assigned, shelf, screen, traces>>

\* listPersonalizationValues: this profile's rule is its new shelf, every other's is what
\* any shelf lists.
ListNames(s) ==
  LET visit == visits[s]
      revoked == {n \in names : \/ n[1] = visit.profile /\ n[2] \notin visit.items
                                \/ n[2] \notin visit.needed}
  IN  /\ visit.stage = "list"
      /\ Ended(s, [visit EXCEPT !.stage = "names", !.todo = revoked])
      /\ UNCHANGED <<scope, assigned, shelf, screen, traces>>

PurgeName(s, n) ==
  /\ visits[s].stage = "names" /\ n \in visits[s].todo
  /\ names' = names \ {n}
  /\ Ended(s, [visits[s] EXCEPT !.todo = @ \ {n}])
  /\ UNCHANGED <<scope, assigned, shelf, screen, places, answers>>

(***************************************************************************)
(* The device finishes what it has begun; the child, the server and the    *)
(* network owe nothing.                                                    *)
(***************************************************************************)
Forget(s) ==
  \/ PurgePlaces(s) \/ PutShelf(s) \/ UniteShelves(s) \/ ListNames(s)
  \/ \E n \in visits[s].todo : PurgeName(s, n)

TracesNext ==
  \/ \E p \in Profiles, b \in Opened :
       \/ Withdraw(p, b) \/ Read(p, b) \/ Persist(p, b)
       \/ \E told \in BOOLEAN : NamesArrive(p, b, told)
  \/ \E p \in Profiles : BackToLibrary(p) \/ \E s \in Slots : AskShelf(s, p)
  \/ \E s \in Slots : TakeAnswer(s) \/ Forget(s)

TracesFairness == \A s \in Slots : WF_tvars(Forget(s))

TracesSpec == TracesInit /\ [][TracesNext]_tvars /\ TracesFairness

(***************************************************************************)
(* Property                                                                *)
(***************************************************************************)
\* The library of a profile is loaded, and its shelf taken, again and again.
ShelfIsTaken(p) == []<>(\E s \in Slots : visits[s].stage = "list" /\ visits[s].profile = p)

\* What a child left behind in a book it may not read any more is forgotten: its place, the
\* queued writes and the name it was read under, also when loads of the library overlap and
\* an answer with the name comes late.
TracesLeave ==
  \A p \in Profiles, b \in Opened :
    ShelfIsTaken(p) /\ Withdrawn(p, b) /\ <>[](screen /= <<p, b>>)
      => <>[](<<p, b>> \notin places \cup names)
=============================================================================
