---------------------------- MODULE OfflineCopies ----------------------------
(***************************************************************************)
(* The copies of books a family tablet keeps for reading offline           *)
(* (frontend/src/offline/): downloaded by the reader within a budget,      *)
(* taken away again when no library on the device lists them, or when      *)
(* their text changed under the same version.  Every await is a place      *)
(* where the other pages of the application run.                           *)
(***************************************************************************)
EXTENDS LibraryShelves

VARIABLES
  content,     \* server: the text of the published version, a number
  storybooks,  \* the texts cached on the device, 0 for none
  hashes,      \* the texts the server last advertised, 0 for none
  download,    \* the download under way
  loads,       \* the loads of the library under way
  late         \* history: the books whose old text arrived after it changed

server == <<scope, assigned, content>>
copies == <<storybooks, late>>
vars == <<server, copies, hashes, shelf, screen, download, loads>>

Failed == "failed"         \* the page of a book that could not be had
NoDownload == [stage |-> "none", profile |-> {}, book |-> {}, text |-> 0]
NoLoad == [stage |-> "none", check |-> "none", profile |-> "", items |-> << >>,
           needed |-> {}, todo |-> {}, stale |-> {}, next |-> << >>]

Cached == {b \in Books : storybooks[b] /= 0}

Init ==
  /\ ShelvesInit
  /\ content = [b \in Books |-> 1]
  /\ storybooks = [b \in Books |-> IF b \in Opened THEN 0 ELSE 1]
  /\ hashes = [b \in Books |-> IF b \in Opened THEN 0 ELSE 1]
  /\ download = NoDownload
  /\ loads = [s \in Slots |-> NoLoad]
  /\ late = {}

(***************************************************************************)
(* The server's side: books come and go, and the text of a version that    *)
(* was published may still be rewritten.                                   *)
(***************************************************************************)
Reassign(p, b) ==
  /\ Assign(p, b)
  /\ UNCHANGED <<content, copies, hashes, shelf, screen, download, loads>>

Rewrite(b) ==
  /\ Change /\ content[b] < scope.texts
  /\ content' = [content EXCEPT ![b] = @ + 1]
  /\ UNCHANGED <<assigned, copies, hashes, shelf, screen, download, loads>>

(***************************************************************************)
(* The pages.  A shelf that is answered after its page was left is not     *)
(* taken; whatever else a page awaits still runs to its end without it.    *)
(***************************************************************************)
LeaveFor(page) ==
  /\ screen /= page /\ screen' = page
  /\ loads' = [s \in Slots |-> IF loads[s].stage = "answered" THEN NoLoad ELSE loads[s]]

\* Fault: the cache is not asked first.
DownloadAgain(p, b) ==
  /\ screen = <<p, Library>> /\ LeaveFor(<<p, b>>)
  /\ download = NoDownload
  /\ download' = [NoDownload EXCEPT !.stage = "fetch", !.profile = {p}, !.book = {b}]
  /\ UNCHANGED <<server, copies, hashes, shelf>>

\* ReaderPage.load: from the cache, else by a download; one at a time is modelled.
OpenBook(p, b) ==
  /\ screen = <<p, Library>> /\ LeaveFor(<<p, b>>)
  /\ IF b \in Cached
       THEN UNCHANGED download
       ELSE /\ download = NoDownload
            /\ download' = [NoDownload EXCEPT !.stage = "fetch", !.profile = {p}, !.book = {b}]
  /\ UNCHANGED <<server, copies, hashes, shelf>>

ToLibrary(p) ==
  /\ p \in scope.users
  /\ LeaveFor(<<p, Library>>)
  /\ UNCHANGED <<server, copies, hashes, shelf, download>>

(***************************************************************************)
(* A download: the server hands out a published book assigned to the child *)
(* who asks; then cacheStorybook asks the budget.  How much is stored is   *)
(* for the browser to say, and any other book may be the one least         *)
(* recently opened.                                                        *)
(***************************************************************************)
FetchStory ==
  /\ download.stage = "fetch"
  /\ \E p \in download.profile, b \in download.book :
       \/ /\ download' = NoDownload
          /\ screen' = IF screen = <<p, b>> THEN <<p, Failed>> ELSE screen
       \/ /\ b \in Listed(p)
          /\ download' = [download EXCEPT !.stage = "budget", !.profile = {}, !.text = content[b]]
          /\ UNCHANGED screen
  /\ UNCHANGED <<server, copies, hashes, shelf, loads>>

checkDownloadBudget ==
  LET others == Cached \ download.book
      allowed == [download EXCEPT !.stage = "write"]
      Evict(victim) == storybooks' = [storybooks EXCEPT ![victim] = 0]
  IN  /\ download.stage = "budget"
      /\ \/ download' = allowed /\ UNCHANGED storybooks       \* it fits, or no estimate
         \/ \E victim \in others :
              \/ download' = allowed /\ Evict(victim)
              \/ download' \in {allowed, NoDownload}         \* the eviction fails
                   /\ UNCHANGED storybooks
         \/ others = {} /\ download' = NoDownload             \* past the hard cap
              /\ UNCHANGED storybooks
      /\ UNCHANGED <<server, late, hashes, shelf, screen, loads>>

WriteStorybook ==
  /\ download.stage = "write"
  /\ \E b \in download.book :
       /\ storybooks' = [storybooks EXCEPT ![b] = download.text]
       /\ late' = IF download.text = content[b] THEN late \ {b} ELSE late \cup {b}
  /\ download' = NoDownload
  /\ UNCHANGED <<server, hashes, shelf, screen, loads>>

WriteFails ==
  /\ download.stage = "write"
  /\ download' = NoDownload
  /\ UNCHANGED <<server, copies, hashes, shelf, screen, loads>>

(***************************************************************************)
(* The library page (LibraryPage.tsx) asks for the shelf as it opens and   *)
(* whenever the device is online again; an answer that finds the page open *)
(* is taken as the truth and starts both reconciliations.                  *)
(***************************************************************************)
RequestShelf(s, p) ==
  /\ screen = <<p, Library>> /\ Free(s, {r \in Slots : loads[r] /= NoLoad})
  /\ loads' = [loads EXCEPT ![s].stage = "answered", ![s].profile = p,
                            ![s].items = [b \in Listed(p) |-> content[b]]]
  /\ UNCHANGED <<server, copies, hashes, shelf, screen, download>>

ReceiveShelf(s) ==
  /\ loads[s].stage = "answered"
  /\ loads' = [loads EXCEPT ![s].stage = "shelf", ![s].check = "list"]
  /\ UNCHANGED <<server, copies, hashes, shelf, screen, download>>

(***************************************************************************)
(* reconcileOfflineCache (revocation.ts), one await after the other.       *)
(***************************************************************************)
Finished(s, load) ==
  [loads EXCEPT ![s] = IF load.stage = "purge" /\ load.todo = {} /\ load.check = "done"
                       THEN NoLoad ELSE load]

putProfileShelf(s) ==
  /\ loads[s].stage = "shelf"
  /\ TakeShelf(loads[s].profile, DOMAIN loads[s].items)
  /\ loads' = [loads EXCEPT ![s].stage = "union"]
  /\ UNCHANGED <<server, copies, hashes, screen, download>>

\* getAllProfileShelves, and then listCachedStorybookIds.
UniteShelves(s) ==
  /\ loads[s].stage = "union"
  /\ loads' = [loads EXCEPT ![s].stage = "list", ![s].needed = StillNeeded]
  /\ UNCHANGED <<server, copies, hashes, shelf, screen, download>>

ListUnneeded(s) ==
  /\ loads[s].stage = "list"
  /\ loads' = Finished(s, [loads[s] EXCEPT !.stage = "purge", !.needed = {},
                                           !.todo = Cached \ loads[s].needed])
  /\ UNCHANGED <<server, copies, hashes, shelf, screen, download>>

PurgeBook(s, b) ==
  /\ loads[s].stage = "purge" /\ b \in loads[s].todo
  /\ storybooks' = [storybooks EXCEPT ![b] = 0]
  /\ loads' = Finished(s, [loads[s] EXCEPT !.todo = @ \ {b}])
  /\ UNCHANGED <<server, late, hashes, shelf, screen, download>>

(***************************************************************************)
(* evictStaleOfflineBooks: what is cached is compared with what the shelf  *)
(* advertises.  The memory of that is read first and written last.         *)
(***************************************************************************)
Remember(load, book) ==
  IF book \in DOMAIN load.items THEN load.items[book]
  ELSE IF book \in Cached THEN hashes[book] ELSE 0

\* Fault: a copy nothing is remembered of is taken to be the advertised one.
TrustUnknown(s) ==
  LET load == loads[s]
      checked == DOMAIN load.items \cap Cached
  IN  /\ load.check = "list"
      /\ loads' = [loads EXCEPT ![s].check = "evict",
                     ![s].stale = {b \in checked : hashes[b] \notin {0, load.items[b]}},
                     ![s].next = [b \in Books |-> Remember(load, b)]]
      /\ UNCHANGED <<server, copies, hashes, shelf, screen, download>>

CompareCached(s) ==
  LET load == loads[s]
      checked == DOMAIN load.items \cap Cached
  IN  /\ load.check = "list"
      /\ loads' = [loads EXCEPT ![s].check = "evict",
                     ![s].stale = {b \in checked : hashes[b] /= load.items[b]},
                     ![s].next = [b \in Books |-> Remember(load, b)]]
      /\ UNCHANGED <<server, copies, hashes, shelf, screen, download>>

EvictStale(s) ==
  LET load == loads[s]
  IN  /\ load.check = "evict"
      /\ storybooks' = [b \in Books |-> IF b \in load.stale THEN 0 ELSE storybooks[b]]
      /\ hashes' = load.next
      /\ loads' = Finished(s, [load EXCEPT !.check = "done"])
      /\ UNCHANGED <<server, late, shelf, screen, download>>

(***************************************************************************)
(* The device finishes what it has begun; the child and the server owe     *)
(* nothing.                                                                *)
(***************************************************************************)
Download ==
  FetchStory \/ checkDownloadBudget \/ WriteStorybook \/ WriteFails
Reconcile(s) ==
  \/ putProfileShelf(s) \/ UniteShelves(s) \/ ListUnneeded(s)
  \/ \E b \in Books : PurgeBook(s, b)
CheckStale(s) == CompareCached(s) \/ EvictStale(s)

Next ==
  \/ \E p \in Profiles, b \in Opened : OpenBook(p, b) \/ Reassign(p, b)
  \/ \E p \in Profiles : ToLibrary(p) \/ \E s \in Slots : RequestShelf(s, p)
  \/ \E b \in Opened : Rewrite(b)
  \/ Download
  \/ \E s \in Slots : ReceiveShelf(s) \/ Reconcile(s) \/ CheckStale(s)

Spec == Init /\ [][Next]_vars
Fairness ==
  /\ WF_vars(Download)
  /\ \A s \in Slots : WF_vars(Reconcile(s)) /\ WF_vars(CheckStale(s))
FairSpec == Spec /\ Fairness

(***************************************************************************)
(* Properties                                                              *)
(***************************************************************************)
\* Only what is not cached is downloaded, and texts are ones the server has had.
TypeOK ==
  /\ Cached \cap download.book = {}
  /\ assigned \subseteq Profiles \X Books
  /\ content \in [Books -> Nat \ {0}]
  /\ \A b \in Books : storybooks[b] \in 0 .. content[b] /\ hashes[b] \in 0 .. content[b]
  /\ shelf \in [Profiles -> SUBSET Books]
  /\ screen \in Profiles \X (Books \cup {Library, Failed})
  /\ late \subseteq Books

\* The library of a profile is loaded again and again.
Visited(p) ==
  []<>(p \in scope.users => \E s \in Slots : loads[s].stage = "list" /\ loads[s].profile = p)

\* A book taken away from everybody leaves the device, whatever was under way, provided
\* the family keeps looking at its libraries (the kill switch, revocation.ts).
WithdrawnBookLeaves ==
  \A b \in Opened :
    (\A p \in Profiles : Visited(p) /\ Withdrawn(p, b)) => <>[](storybooks[b] = 0)

\* A copy whose text changed is replaced or gone in the end, unless it arrived late.
StaleCopyLeaves ==
  \A b \in Opened :
    (\E p \in Profiles : Visited(p) /\ <>[](<<p, b>> \in assigned))
      => <>[](storybooks[b] \in {0, content[b]} \/ b \in late)
=============================================================================
