-------------------------- MODULE OfflineCopiesProofs --------------------------
(***************************************************************************)
(* What OfflineCopies guarantees for any family, any books and any number  *)
(* of loads of the library at once: only what is not cached is downloaded, *)
(* and whatever the device keeps or remembers of a book is a text the      *)
(* server has published.                                                   *)
(***************************************************************************)
EXTENDS OfflineCopies, TLAPS

\* The texts of some of the books.
Texts == UNION {[B -> Nat] : B \in SUBSET Books}

Stage == {"none", "answered", "shelf", "union", "list", "purge"}
Check == {"none", "list", "evict", "done"}

DownloadRecord == [stage : {"none", "fetch", "budget", "write"}, profile : SUBSET Profiles,
                   book : SUBSET Books, text : Nat]
Load == [stage : Stage, check : Check, profile : Profiles \cup {""}, items : Texts,
         needed : SUBSET Books, todo : SUBSET Books, stale : SUBSET Books, next : Texts]

(***************************************************************************)
(* The invariant.  Texts only grow, so a text that was the server's when   *)
(* it was read is one the server has had whenever it is written: that is   *)
(* what is kept of every await between the two.                            *)
(***************************************************************************)
\* No text of m is later than the server's, t.
Known(m, t) == \A b \in DOMAIN m : m[b] <= t[b]

ServerInv ==
  /\ assigned \subseteq Profiles \X Books
  /\ content \in [Books -> Nat \ {0}]

DeviceInv ==
  /\ storybooks \in [Books -> Nat] /\ Known(storybooks, content)
  /\ hashes \in [Books -> Nat] /\ Known(hashes, content)
  /\ shelf \in [Profiles -> SUBSET Books]
  /\ screen \in Profiles \X (Books \cup {Library, Failed})
  /\ late \subseteq Books

DownloadInv ==
  /\ download \in DownloadRecord
  /\ \A b \in download.book : /\ download.book = {b} /\ storybooks[b] = 0
                               /\ download.text <= content[b]

\* What a load of the library brought, and what it is going to remember.
LoadInv(load, t) ==
  /\ load \in Load
  /\ Known(load.items, t) /\ Known(load.next, t)
  /\ load.check = "evict" => DOMAIN load.next = Books

LoadsInv == loads \in [Slots -> Load] /\ \A s \in Slots : LoadInv(loads[s], content)

CInv == ServerInv /\ DeviceInv /\ DownloadInv /\ LoadsInv

-----------------------------------------------------------------------------
(***************************************************************************)
(* The server's texts only grow.                                           *)
(***************************************************************************)
Grown == \A b \in Books : content[b] \in Nat /\ content'[b] \in Nat /\ content[b] <= content'[b]

LEMMA StepServer == ASSUME ServerInv, [Next]_vars PROVE ServerInv' /\ Grown
<1>1. Opened \subseteq Books
  BY ShelvesAssumption DEF ShelvesAssumption
<1>2. CASE UNCHANGED server
  BY <1>1, <1>2 DEF server, ServerInv, Grown
<1>3. ASSUME NEW p \in Profiles, NEW b \in Opened, Reassign(p, b) PROVE ServerInv' /\ Grown
  <2>1. UNCHANGED content /\ assigned' \subseteq Profiles \X Books
    BY <1>1, <1>3 DEF Reassign, Assign, ServerInv
  <2> QED  BY <1>1, <2>1 DEF ServerInv, Grown
<1>4. ASSUME NEW b \in Opened, Rewrite(b) PROVE ServerInv' /\ Grown
  <2>1. UNCHANGED assigned /\ content' = [content EXCEPT ![b] = @ + 1]
    BY <1>4 DEF Rewrite
  <2>2. content[b] + 1 \in Nat \ {0}
    BY <1>1, <2>1 DEF ServerInv
  <2> QED  BY <1>1, <2>1, <2>2 DEF ServerInv, Grown
<1> QED
  BY <1>2, <1>3, <1>4
  DEF Next, vars, server, OpenBook, ToLibrary, RequestShelf, Download, FetchStory,
      checkDownloadBudget, WriteStorybook, WriteFails, ReceiveShelf, Reconcile,
      putProfileShelf, UniteShelves, ListUnneeded, PurgeBook, CheckStale, CompareCached, EvictStale

\* What is known stays known.
LEMMA KnownKept == ASSUME NEW m \in Texts, Known(m, content), Grown PROVE Known(m, content')
BY DEF Texts, Known, Grown

LEMMA AllTexts == ASSUME NEW m \in [Books -> Nat] PROVE m \in Texts /\ DOMAIN m = Books
BY DEF Texts

LEMMA NoLoadInv == NoLoad \in Load /\ LoadInv(NoLoad, content) /\ LoadInv(NoLoad, content')
<1>1. << >> \in [{} -> Nat]
  OBVIOUS
<1>2. << >> \in Texts /\ DOMAIN << >> = {}
  BY <1>1 DEF Texts
<1>3. NoLoad \in Load
  BY <1>2 DEF NoLoad, Load, Stage, Check
<1> QED  BY <1>2, <1>3 DEF LoadInv, Known, NoLoad

LEMMA InitCInv == Init => CInv
<1> SUFFICES ASSUME Init PROVE CInv
  OBVIOUS
<1>1. Opened \subseteq Books /\ scope.users \subseteq Profiles
  BY ShelvesAssumption DEF ShelvesAssumption, Init, ShelvesInit
<1>2. ServerInv
  <2>1. PICK some \in SUBSET (scope.users \X Opened) :
          assigned = some \cup (scope.users \X (Books \ Opened))
    BY DEF Init, ShelvesInit
  <2>2. assigned \subseteq Profiles \X Books
    BY <1>1, <2>1
  <2>3. content \in [Books -> Nat \ {0}]
    BY DEF Init
  <2> QED  BY <2>2, <2>3 DEF ServerInv
<1>3. /\ storybooks \in [Books -> Nat] /\ Known(storybooks, content)
      /\ hashes \in [Books -> Nat] /\ Known(hashes, content)
  BY DEF Init, Known
<1>4. shelf \in [Profiles -> SUBSET Books] /\ screen \in Profiles \X (Books \cup {Library, Failed})
  BY <1>1 DEF Init, ShelvesInit
<1>5. DeviceInv
  BY <1>3, <1>4 DEF DeviceInv, Init
<1>6. DownloadInv
  BY DEF DownloadInv, DownloadRecord, NoDownload, Init
<1>7. LoadsInv
  BY NoLoadInv DEF LoadsInv, Init
<1> QED  BY <1>2, <1>5, <1>6, <1>7 DEF CInv

-----------------------------------------------------------------------------
(***************************************************************************)
(* The loads of the library.                                               *)
(***************************************************************************)
LEMMA LoadKept == ASSUME NEW load, LoadInv(load, content), Grown PROVE LoadInv(load, content')
BY KnownKept DEF LoadInv, Load

LEMMA LoadSet ==
  ASSUME LoadsInv, Grown, NEW s \in Slots, NEW load, LoadInv(load, content'),
         loads' = [loads EXCEPT ![s] = load]
  PROVE  LoadsInv'
<1>1. load \in Load
  BY DEF LoadInv
<1>2. loads' \in [Slots -> Load] /\ loads'[s] = load
      /\ \A r \in Slots \ {s} : loads'[r] = loads[r]
  BY <1>1 DEF LoadsInv
<1>3. \A r \in Slots \ {s} : LoadInv(loads[r], content)
  BY DEF LoadsInv
<1>4. \A r \in Slots : LoadInv(loads'[r], content')
  BY <1>2, <1>3, LoadKept
<1> QED  BY <1>2, <1>4 DEF LoadsInv, LoadInv, Load, Known

LEMMA LoadLeft ==
  ASSUME LoadsInv, Grown, NEW page, LeaveFor(page)
  PROVE  LoadsInv'
<1>1. ASSUME NEW s \in Slots PROVE loads'[s] = NoLoad \/ loads'[s] = loads[s]
  BY DEF LeaveFor
<1>2. \A s \in Slots : loads'[s] \in Load
  BY <1>1, NoLoadInv DEF LoadsInv
<1>3. loads' \in [Slots -> Load]
  BY <1>2 DEF LeaveFor
<1>4. \A s \in Slots : LoadInv(loads'[s], content')
  BY <1>1, NoLoadInv, LoadKept DEF LoadsInv
<1> QED  BY <1>3, <1>4 DEF LoadsInv, LoadInv, Known

\* A load that goes on, and one that is through.
LEMMA LoadFinished ==
  ASSUME LoadsInv, Grown, NEW s \in Slots, NEW load, LoadInv(load, content'),
         loads' = Finished(s, load)
  PROVE  LoadsInv'
BY NoLoadInv, LoadSet DEF Finished

LEMMA RequestShelfLoads ==
  ASSUME CInv, Grown, NEW s \in Slots, NEW p \in Profiles, RequestShelf(s, p)
  PROVE  LoadsInv'
<1> DEFINE items == [b \in Listed(p) |-> content[b]]
           load == [loads[s] EXCEPT !.stage = "answered", !.profile = p, !.items = items]
<1>1. LoadsInv /\ loads[s] \in Load /\ LoadInv(loads[s], content)
  BY DEF CInv, LoadsInv
<1>2. items \in Texts /\ Known(items, content')
  <2>1. Listed(p) \subseteq Books
    BY DEF Listed
  <2>2. \A b \in Books : content[b] \in Nat /\ content'[b] = content[b]
    BY DEF CInv, ServerInv, RequestShelf, server
  <2>3. items \in [Listed(p) -> Nat]
    BY <2>1, <2>2
  <2> QED  BY <2>1, <2>2, <2>3 DEF Texts, Known
<1> HIDE DEF items
<1>3. /\ load \in Load /\ load.items = items /\ load.next = loads[s].next
      /\ load.check = loads[s].check
  BY <1>1, <1>2 DEF Load, Stage, Check
<1>4. loads' = [loads EXCEPT ![s] = load]
  BY <1>1 DEF RequestShelf, items
<1> HIDE DEF load
<1>5. LoadInv(load, content')
  BY <1>1, <1>2, <1>3, LoadKept DEF LoadInv
<1> QED  BY <1>1, <1>4, <1>5, LoadSet

LEMMA CompareCachedLoads ==
  ASSUME CInv, Grown, NEW s \in Slots, CompareCached(s)
  PROVE  LoadsInv'
<1> DEFINE stale == {b \in DOMAIN loads[s].items \cap Cached : hashes[b] /= loads[s].items[b]}
           next == [b \in Books |-> Remember(loads[s], b)]
           load == [loads[s] EXCEPT !.check = "evict", !.stale = stale, !.next = next]
<1>1. LoadsInv /\ loads[s] \in Load /\ LoadInv(loads[s], content)
  BY DEF CInv, LoadsInv
<1>2. UNCHANGED content /\ \A b \in Books : content[b] \in Nat
  BY DEF CompareCached, server, Grown
<1>3. ASSUME NEW b \in Books
      PROVE  Remember(loads[s], b) \in Nat /\ Remember(loads[s], b) <= content[b]
  <2>1. CASE b \in DOMAIN loads[s].items
    <3>1. loads[s].items \in Texts /\ Known(loads[s].items, content)
      BY <1>1 DEF LoadInv, Load
    <3> QED  BY <2>1, <3>1 DEF Remember, Texts, Known
  <2>2. CASE b \notin DOMAIN loads[s].items
    <3>1. hashes[b] \in Nat /\ hashes[b] <= content[b]
      BY DEF CInv, DeviceInv, Known
    <3> QED  BY <1>2, <2>2, <3>1 DEF Remember
  <2> QED  BY <2>1, <2>2
<1>4. next \in [Books -> Nat] /\ Known(next, content')
  BY <1>2, <1>3 DEF Known
<1>5. stale \subseteq Books
  BY DEF Cached
<1> HIDE DEF next, stale
<1>6. next \in Texts /\ DOMAIN next = Books
  BY <1>4, AllTexts
<1>7. load \in Load /\ load.items = loads[s].items /\ load.next = next
  BY <1>1, <1>5, <1>6 DEF Load, Stage, Check
<1>8. loads' = [loads EXCEPT ![s] = load]
  BY <1>1 DEF CompareCached, next, stale
<1> HIDE DEF load
<1>9. LoadInv(load, content')
  BY <1>1, <1>4, <1>6, <1>7, LoadKept DEF LoadInv
<1> QED  BY <1>1, <1>8, <1>9, LoadSet

\* Any other step of a load touches neither what it brought nor what it will remember.
LEMMA StageSet ==
  ASSUME LoadsInv, Grown, NEW s \in Slots, NEW load \in Load, load.items = loads[s].items,
         load.next = loads[s].next, load.check = "evict" => loads[s].check = "evict"
  PROVE  LoadInv(load, content')
<1>1. LoadInv(loads[s], content')
  BY LoadKept DEF LoadsInv
<1> QED  BY <1>1 DEF LoadInv

LEMMA OtherLoads ==
  ASSUME CInv, Grown, NEW s \in Slots,
         ReceiveShelf(s) \/ Reconcile(s) \/ EvictStale(s)
  PROVE  LoadsInv'
<1> DEFINE l == loads[s]
<1>1. LoadsInv /\ l \in Load
  BY DEF CInv, LoadsInv
<1>2. CASE ReceiveShelf(s)
  <2> DEFINE r == [l EXCEPT !.stage = "shelf", !.check = "list"]
  <2>1. r \in Load /\ r.items = l.items /\ r.next = l.next /\ r.check = "list"
    BY <1>1 DEF Load, Stage, Check
  <2>2. loads' = [loads EXCEPT ![s] = r]
    BY <1>2 DEF ReceiveShelf
  <2> HIDE DEF r
  <2> QED  BY <1>1, <2>1, <2>2, StageSet, LoadSet
<1>3. ASSUME NEW stage \in Stage, loads' = [loads EXCEPT ![s].stage = stage] PROVE LoadsInv'
  <2> DEFINE r == [l EXCEPT !.stage = stage]
  <2>1. r \in Load /\ r.items = l.items /\ r.next = l.next /\ r.check = l.check
    BY <1>1 DEF Load, Stage, Check
  <2>2. loads' = [loads EXCEPT ![s] = r]
    BY <1>3
  <2> HIDE DEF r
  <2> QED  BY <1>1, <2>1, <2>2, StageSet, LoadSet
<1>4. CASE UniteShelves(s)
  <2> DEFINE r == [l EXCEPT !.stage = "list", !.needed = StillNeeded]
  <2>1. StillNeeded \subseteq Books
    BY DEF CInv, DeviceInv, StillNeeded
  <2>2. r \in Load /\ r.items = l.items /\ r.next = l.next /\ r.check = l.check
    BY <1>1, <2>1 DEF Load, Stage, Check
  <2>3. loads' = [loads EXCEPT ![s] = r]
    BY <1>4 DEF UniteShelves
  <2> HIDE DEF r
  <2> QED  BY <1>1, <2>2, <2>3, StageSet, LoadSet
<1>5. CASE putProfileShelf(s)
  BY <1>3, <1>5 DEF putProfileShelf, Stage
<1>6. CASE ListUnneeded(s)
  <2> DEFINE u == Cached \ l.needed
             r == [l EXCEPT !.stage = "purge", !.needed = {}, !.todo = u]
  <2>1. u \subseteq Books
    BY DEF Cached
  <2> HIDE DEF u
  <2>2. r \in Load /\ r.items = l.items /\ r.next = l.next /\ r.check = l.check
    BY <1>1, <2>1 DEF Load, Stage, Check
  <2>3. loads' = Finished(s, r)
    BY <1>6 DEF ListUnneeded, u
  <2> HIDE DEF r
  <2> QED  BY <1>1, <2>2, <2>3, StageSet, LoadFinished
<1>7. ASSUME NEW b \in Books, PurgeBook(s, b) PROVE LoadsInv'
  <2> DEFINE r == [l EXCEPT !.todo = @ \ {b}]
  <2>1. r \in Load /\ r.items = l.items /\ r.next = l.next /\ r.check = l.check
    BY <1>1 DEF Load, Stage, Check
  <2>2. loads' = Finished(s, r)
    BY <1>7 DEF PurgeBook
  <2> HIDE DEF r
  <2> QED  BY <1>1, <2>1, <2>2, StageSet, LoadFinished
<1>9. CASE EvictStale(s)
  <2> DEFINE r == [l EXCEPT !.check = "done"]
  <2>1. r \in Load /\ r.items = l.items /\ r.next = l.next /\ r.check = "done"
    BY <1>1 DEF Load, Stage, Check
  <2>2. loads' = Finished(s, r)
    BY <1>9 DEF EvictStale
  <2> HIDE DEF r
  <2> QED  BY <1>1, <2>1, <2>2, StageSet, LoadFinished
<1> QED  BY <1>2, <1>4, <1>5, <1>6, <1>7, <1>9 DEF Reconcile

LEMMA StepLoads == ASSUME CInv, [Next]_vars PROVE LoadsInv'
<1>1. Grown
  BY StepServer DEF CInv
<1>2. CASE UNCHANGED loads
  BY <1>1, <1>2, LoadKept DEF CInv, LoadsInv
<1>3. ASSUME NEW page, LeaveFor(page) PROVE LoadsInv'
  BY <1>1, <1>3, LoadLeft DEF CInv
<1>4. ASSUME NEW s \in Slots, NEW p \in Profiles, RequestShelf(s, p) PROVE LoadsInv'
  BY <1>1, <1>4, RequestShelfLoads
<1>5. ASSUME NEW s \in Slots, ReceiveShelf(s) \/ Reconcile(s) \/ CheckStale(s) PROVE LoadsInv'
  BY <1>1, <1>5, OtherLoads, CompareCachedLoads DEF CheckStale
<1> QED
  BY <1>2, <1>3, <1>4, <1>5
  DEF Next, vars, OpenBook, Reassign, Rewrite, ToLibrary, Download, FetchStory,
      checkDownloadBudget, WriteStorybook, WriteFails

-----------------------------------------------------------------------------
(***************************************************************************)
(* The copies, and what is remembered of them.                             *)
(***************************************************************************)
\* A copy is taken away, or a download writes it.
LEMMA StepCopies ==
  ASSUME CInv, [Next]_vars
  PROVE  /\ storybooks' \in [Books -> Nat] /\ late' \subseteq Books
         /\ \/ \A b \in Books : storybooks'[b] = storybooks[b] \/ storybooks'[b] = 0
            \/ WriteStorybook
<1>1. storybooks \in [Books -> Nat] /\ late \subseteq Books
  BY DEF CInv, DeviceInv
<1>2. CASE UNCHANGED copies
  BY <1>1, <1>2 DEF copies
<1>3. ASSUME NEW b, storybooks' = [storybooks EXCEPT ![b] = 0]
      PROVE  /\ storybooks' \in [Books -> Nat]
             /\ \A c \in Books : storybooks'[c] = storybooks[c] \/ storybooks'[c] = 0
  BY <1>1, <1>3
<1>4. CASE checkDownloadBudget
  <2>1. UNCHANGED late /\ (UNCHANGED storybooks
           \/ \E victim \in Cached : storybooks' = [storybooks EXCEPT ![victim] = 0])
    BY <1>4 DEF checkDownloadBudget
  <2> QED  BY <1>1, <1>3, <2>1
<1>5. ASSUME NEW s \in Slots, NEW b \in Books, PurgeBook(s, b)
      PROVE  /\ UNCHANGED late
             /\ storybooks' \in [Books -> Nat]
             /\ \A c \in Books : storybooks'[c] = storybooks[c] \/ storybooks'[c] = 0
  BY <1>3, <1>5 DEF PurgeBook
<1>6. ASSUME NEW s \in Slots, EvictStale(s)
      PROVE  /\ UNCHANGED late
             /\ storybooks' \in [Books -> Nat]
             /\ \A c \in Books : storybooks'[c] = storybooks[c] \/ storybooks'[c] = 0
  BY <1>1, <1>6 DEF EvictStale
<1>7. CASE WriteStorybook
  <2>1. PICK b \in download.book :
          /\ storybooks' = [storybooks EXCEPT ![b] = download.text]
          /\ late' = late \ {b} \/ late' = late \cup {b}
    BY <1>7 DEF WriteStorybook
  <2>2. b \in Books /\ download.text \in Nat
    BY DEF CInv, DownloadInv, DownloadRecord
  <2> QED  BY <1>1, <1>7, <2>1, <2>2
<1> QED
  BY <1>1, <1>2, <1>4, <1>5, <1>6, <1>7
  DEF Next, vars, copies, OpenBook, Reassign, Rewrite, ToLibrary, RequestShelf,
      Download, FetchStory, WriteFails, ReceiveShelf, Reconcile, putProfileShelf,
      UniteShelves, ListUnneeded, CheckStale, CompareCached

LEMMA WrittenCopy ==
  ASSUME CInv, WriteStorybook
  PROVE  /\ UNCHANGED content /\ download' = NoDownload
         /\ \E b \in download.book : /\ storybooks'[b] = download.text
                                     /\ download.text <= content[b]
                                     /\ \A c \in Books \ {b} : storybooks'[c] = storybooks[c]
<1>1. PICK b \in download.book : storybooks' = [storybooks EXCEPT ![b] = download.text]
  BY DEF WriteStorybook
<1>2. b \in Books /\ download.text <= content[b] /\ storybooks \in [Books -> Nat]
  BY DEF CInv, DownloadInv, DownloadRecord, DeviceInv
<1> QED  BY <1>1, <1>2 DEF WriteStorybook, server

LEMMA StepKnown == ASSUME CInv, [Next]_vars PROVE Known(storybooks', content')
<1>1. Grown /\ storybooks' \in [Books -> Nat]
  BY StepServer, StepCopies DEF CInv
<1>2. \A b \in Books : storybooks[b] \in Nat /\ storybooks[b] <= content[b]
  BY DEF CInv, DeviceInv, Known
<1>3. ASSUME NEW b \in Books PROVE storybooks'[b] <= content'[b]
  <2>1. CASE storybooks'[b] = storybooks[b] \/ storybooks'[b] = 0
    BY <1>1, <1>2, <2>1 DEF Grown
  <2>2. CASE WriteStorybook
    BY <1>1, <1>2, <2>2, WrittenCopy
  <2> QED  BY <2>1, <2>2, StepCopies
<1> QED  BY <1>1, <1>3 DEF Known

\* What is remembered stays, or is what a load was going to remember.
LEMMA StepHashes ==
  ASSUME CInv, [Next]_vars
  PROVE  hashes' \in [Books -> Nat] /\ Known(hashes', content')
<1>1. Grown /\ hashes \in [Books -> Nat] /\ Known(hashes, content)
  BY StepServer DEF CInv, DeviceInv
<1>2. CASE UNCHANGED hashes
  BY <1>1, <1>2, KnownKept, AllTexts
<1>3. ASSUME NEW s \in Slots, EvictStale(s)
      PROVE  hashes' \in [Books -> Nat] /\ Known(hashes', content')
  <2>1. hashes' = loads[s].next /\ loads[s].check = "evict"
    BY <1>3 DEF EvictStale
  <2>2. hashes' \in Texts /\ DOMAIN hashes' = Books /\ Known(hashes', content)
    BY <2>1 DEF CInv, LoadsInv, LoadInv, Load
  <2>3. hashes' \in [Books -> Nat]
    BY <2>2 DEF Texts
  <2> QED  BY <1>1, <2>2, <2>3, KnownKept
<1> QED
  BY <1>2, <1>3
  DEF Next, vars, OpenBook, Reassign, Rewrite, ToLibrary, RequestShelf, Download,
      FetchStory, checkDownloadBudget, WriteStorybook, WriteFails, ReceiveShelf, Reconcile,
      putProfileShelf, UniteShelves, ListUnneeded, PurgeBook, CheckStale, CompareCached

-----------------------------------------------------------------------------
(***************************************************************************)
(* The shelves and the page.                                               *)
(***************************************************************************)
LEMMA StepShelf == ASSUME CInv, [Next]_vars PROVE shelf' \in [Profiles -> SUBSET Books]
<1>1. shelf \in [Profiles -> SUBSET Books]
  BY DEF CInv, DeviceInv
<1>2. ASSUME NEW s \in Slots, putProfileShelf(s) PROVE shelf' \in [Profiles -> SUBSET Books]
  <2>1. loads[s].items \in Texts
    BY DEF CInv, LoadsInv, Load
  <2>2. DOMAIN loads[s].items \subseteq Books
    BY <2>1 DEF Texts
  <2> QED  BY <1>1, <1>2, <2>2 DEF putProfileShelf, TakeShelf
<1> QED
  BY <1>1, <1>2
  DEF Next, vars, OpenBook, Reassign, Rewrite, ToLibrary, RequestShelf, Download,
      FetchStory, checkDownloadBudget, WriteStorybook, WriteFails, ReceiveShelf, Reconcile,
      UniteShelves, ListUnneeded, PurgeBook, CheckStale, CompareCached, EvictStale

LEMMA StepScreen ==
  ASSUME CInv, [Next]_vars
  PROVE  screen' \in Profiles \X (Books \cup {Library, Failed})
<1>1. screen \in Profiles \X (Books \cup {Library, Failed}) /\ Opened \subseteq Books
  BY ShelvesAssumption DEF CInv, DeviceInv, ShelvesAssumption
<1>2. CASE FetchStory
  <2>1. download.profile \subseteq Profiles
    BY DEF CInv, DownloadInv, DownloadRecord
  <2>2. UNCHANGED screen \/ \E p \in download.profile : screen' = <<p, Failed>>
    BY <1>2 DEF FetchStory
  <2> QED  BY <1>1, <2>1, <2>2
<1>3. ASSUME NEW p \in Profiles, NEW b \in Opened, OpenBook(p, b)
      PROVE  screen' \in Profiles \X (Books \cup {Library, Failed})
  BY <1>1, <1>3 DEF OpenBook, LeaveFor
<1>4. ASSUME NEW p \in Profiles, ToLibrary(p)
      PROVE  screen' \in Profiles \X (Books \cup {Library, Failed})
  BY <1>4 DEF ToLibrary, LeaveFor
<1>5. \/ UNCHANGED screen \/ FetchStory
      \/ \E p \in Profiles : ToLibrary(p) \/ \E b \in Opened : OpenBook(p, b)
  BY DEF Next, vars, Reassign, Rewrite, RequestShelf, Download,
         checkDownloadBudget, WriteStorybook, WriteFails, ReceiveShelf, Reconcile,
         putProfileShelf, UniteShelves, ListUnneeded, PurgeBook, CheckStale,
         CompareCached, EvictStale
<1> QED  BY <1>1, <1>2, <1>3, <1>4, <1>5

-----------------------------------------------------------------------------
(***************************************************************************)
(* The download.                                                           *)
(***************************************************************************)
LEMMA StepDownload == ASSUME CInv, [Next]_vars PROVE DownloadInv'
<1>1. download \in DownloadRecord /\ Grown
  BY StepServer DEF CInv, DownloadInv
<1>2. \A b \in Books : /\ storybooks[b] \in Nat /\ content[b] \in Nat /\ content'[b] \in Nat
                       /\ content[b] <= content'[b]
  BY <1>1 DEF Grown, CInv, DeviceInv
<1>3. CASE download' = NoDownload
  BY <1>3 DEF DownloadInv, DownloadRecord, NoDownload
\* The copies may lose a book, never gain the one that is downloaded.
<1>4. ASSUME download'.book = download.book, download'.text = download.text,
             download' \in DownloadRecord, ~ WriteStorybook
      PROVE  DownloadInv'
  <2>1. ASSUME NEW b \in download.book PROVE storybooks'[b] = 0 /\ download.text <= content'[b]
    <3>1. b \in Books /\ storybooks[b] = 0 /\ download.text \in Nat /\ download.text <= content[b]
      BY <1>1 DEF CInv, DownloadInv, DownloadRecord
    <3> QED  BY <1>2, <1>4, <3>1, StepCopies
  <2> QED  BY <1>4, <2>1 DEF CInv, DownloadInv
<1>5. ASSUME NEW p \in Profiles, NEW b \in Books, storybooks[b] = 0, UNCHANGED storybooks,
             download' = [NoDownload EXCEPT !.stage = "fetch", !.profile = {p}, !.book = {b}]
      PROVE  DownloadInv'
  <2>1. download' \in DownloadRecord /\ download'.book = {b} /\ download'.text = 0
    BY <1>5 DEF NoDownload, DownloadRecord
  <2> QED  BY <1>2, <1>5, <2>1 DEF DownloadInv
<1>6. ASSUME UNCHANGED download PROVE DownloadInv'
  <2>1. CASE WriteStorybook
    BY <1>3, <2>1 DEF WriteStorybook
  <2> QED  BY <1>1, <1>4, <1>6, <2>1
<1>7. ASSUME NEW p \in Profiles, NEW b \in Opened, OpenBook(p, b) PROVE DownloadInv'
  <2>1. b \in Books /\ UNCHANGED storybooks
    BY <1>7, ShelvesAssumption DEF ShelvesAssumption, OpenBook, copies
  <2>2. CASE UNCHANGED download
    BY <1>6, <2>2
  <2>3. CASE b \notin Cached
    BY <1>5, <1>7, <2>1, <2>3 DEF OpenBook, Cached
  <2> QED  BY <1>7, <2>2, <2>3 DEF OpenBook
<1>8. ASSUME FetchStory, download' /= NoDownload PROVE DownloadInv'
  <2>1. PICK b \in download.book :
          download' = [download EXCEPT !.stage = "budget", !.profile = {}, !.text = content[b]]
    BY <1>8 DEF FetchStory
  <2>2. UNCHANGED <<storybooks, content>>
    BY <1>8 DEF FetchStory, copies, server
  <2>3. b \in Books /\ download.book = {b} /\ storybooks[b] = 0
    BY <1>1 DEF CInv, DownloadInv, DownloadRecord
  <2>4. download' \in DownloadRecord /\ download'.book = {b} /\ download'.text = content[b]
    BY <1>1, <1>2, <2>1, <2>3 DEF DownloadRecord
  <2> QED  BY <1>2, <2>2, <2>3, <2>4 DEF DownloadInv
<1>9. ASSUME checkDownloadBudget, download' /= NoDownload PROVE DownloadInv'
  <2>1. download.stage = "budget" /\ download' = [download EXCEPT !.stage = "write"]
    BY <1>9 DEF checkDownloadBudget
  <2>2. /\ download' \in DownloadRecord /\ download'.book = download.book
        /\ download'.text = download.text
    BY <1>1, <2>1 DEF DownloadRecord
  <2>3. ~ WriteStorybook
    BY <2>1 DEF WriteStorybook
  <2> QED  BY <1>4, <2>2, <2>3
<1> QED
  BY <1>3, <1>6, <1>7, <1>8, <1>9
  DEF Next, vars, Reassign, Rewrite, ToLibrary, RequestShelf, Download,
      WriteStorybook, WriteFails, ReceiveShelf, Reconcile, putProfileShelf,
      UniteShelves, ListUnneeded, PurgeBook, CheckStale, CompareCached, EvictStale

-----------------------------------------------------------------------------
LEMMA StepCInv == CInv /\ [Next]_vars => CInv'
<1> SUFFICES ASSUME CInv, [Next]_vars PROVE CInv'
  OBVIOUS
<1>1. ServerInv' /\ DownloadInv' /\ LoadsInv'
  BY StepServer, StepDownload, StepLoads DEF CInv
<1>2. DeviceInv'
  BY StepCopies, StepKnown, StepHashes, StepShelf, StepScreen DEF DeviceInv
<1> QED  BY <1>1, <1>2 DEF CInv

\* Only what is not cached is downloaded, and every text the device keeps or remembers is
\* one the server has published, wherever the awaits of ReaderPage, of cacheStorybook and of
\* the two reconciliations let another one run.
THEOREM TypeCorrect == Spec => []TypeOK
<1>1. CInv => TypeOK
  <2> SUFFICES ASSUME CInv PROVE TypeOK
    OBVIOUS
  <2>1. Cached \cap download.book = {}
    BY DEF CInv, DownloadInv, Cached
  <2>2. ASSUME NEW b \in Books
        PROVE  storybooks[b] \in 0 .. content[b] /\ hashes[b] \in 0 .. content[b]
    <3>1. /\ storybooks[b] \in Nat /\ storybooks[b] <= content[b]
          /\ hashes[b] \in Nat /\ hashes[b] <= content[b]
      BY DEF CInv, DeviceInv, Known
    <3>2. content[b] \in Nat
      BY ShelvesAssumption DEF CInv, ServerInv, ShelvesAssumption
    <3> QED  BY <3>1, <3>2
  <2> QED  BY <2>1, <2>2 DEF TypeOK, CInv, ServerInv, DeviceInv
<1> QED  BY <1>1, InitCInv, StepCInv, PTL DEF Spec
=============================================================================
