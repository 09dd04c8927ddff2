---------------------------- MODULE StoryReading ----------------------------
(***************************************************************************)
(* Stories pass the gate onto the shelf, a child reads them on the player  *)
(* (frontend/src/player/machine.ts), with or without a character, and goes *)
(* on from one book of a series to the next.  The validator judges with    *)
(* one engine, the child reads with another.                               *)
(***************************************************************************)
EXTENDS SeriesGate, PlayerEngine

CONSTANTS
  Library,       \* the chains of books: name -> sequence of stories
  MaxPath,       \* how many nodes a modelled reading passes
  MaxBookmarks   \* how many bookmarks a reading holds (10)

\* The library holds chains of documents, a character has numbers for its variables,
\* and a reading begins at a node.
ReadingAssumption ==
  /\ MaxPath \in Nat \ {0} /\ MaxBookmarks \in Nat
  /\ Canonical \in [DOMAIN Canonical -> [min : Int, max : Int]]
  /\ \A name \in DOMAIN Library :
       /\ Library[name] \in Seq(ToSet(Library[name]))
       /\ \A i \in DOMAIN Library[name] : IsDocument(Library[name][i])
ASSUME ReadingAssumption

VARIABLES
  chain,    \* the name of the chain under way
  shelf,    \* how many of its books are published, in their order
  book,     \* the one being read, 0 when none is
  origin,   \* how the reading began: from where, with which variables
  reading,  \* the reading state
  slots     \* the bookmarks saved in it

readingVars == <<chain, shelf, book, origin, reading, slots>>

NoReading == [node |-> "", vars |-> NoVars, path |-> << >>, visits |-> {}]
Unopened == [how |-> "unopened", entry |-> {}, carried |-> NoVars, tried |-> FALSE]
Books == Library[chain]
Story == Books[book]

\* character_seed: a child's character has a value for every canonical variable.
Characters ==
  {seed \in [DOMAIN Canonical -> {Num(k) : k \in
      UNION {Canonical[v].min .. Canonical[v].max : v \in DOMAIN Canonical}}] :
    \A v \in DOMAIN Canonical : seed[v].n \in Canonical[v].min .. Canonical[v].max}

ReadingInit ==
  /\ chain \in DOMAIN Library
  /\ shelf = 0 /\ book = 0
  /\ origin = Unopened
  /\ reading = NoReading
  /\ slots = {}

(***************************************************************************)
(* Publication: the gate judges the book, and the series rules the chain   *)
(* of the books published so far and this one.                             *)
(***************************************************************************)
Publishable(n) ==
  /\ RunGate(Books[n])
  /\ Books[n].series /= {} => ValidateSeries(SubSeq(Books, 1, n))

Publish ==
  /\ shelf < Len(Books)
  /\ Publishable(shelf + 1)
  /\ shelf' = shelf + 1
  /\ UNCHANGED <<chain, book, origin, reading, slots>>

(***************************************************************************)
(* Opening a book on a fresh read; the reader's own saved progress would   *)
(* win over any seed and is the matter of ReadingSync.                     *)
(***************************************************************************)
Opened(n, how, entry, carried, tried) ==
  /\ book' = n
  /\ origin' = [how |-> how, entry |-> entry, carried |-> carried, tried |-> tried]
  /\ reading' = startContinuation(Books[n], carried, entry)
  /\ slots' = {}
  /\ UNCHANGED <<chain, shelf>>

OpenFresh(n) == book = 0 /\ Opened(n, "fresh", {}, NoVars, FALSE)
OpenAs(n, seed) == book = 0 /\ Opened(n, "character", {}, seed, FALSE)

\* ContinueSeries: offered at a satisfying ending of a book that is not the last.
\* tried: the gate has entered the next book with what this one is finished with, for it
\* was begun as the gate begins it and has no more exits than the gate tries.
Tried(series) ==
  /\ series.carries_state
  /\ origin.how = "fresh" /\ series.entry \subseteq {Story.start}
  /\ Cardinality(SatisfyingExitStates(Story, series.entry)) <= MaxEntryStates

ContinueSeries ==
  /\ book \in 1 .. shelf - 1
  /\ isEnding(Story, reading)
  /\ IsSatisfying(Story.nodes[reading.node])
  /\ \E series \in Story.series, next \in Books[book + 1].series :
       /\ ~series.is_final
       /\ Opened(book + 1, "continued", next.entry,
                 IF series.carries_state THEN reading.vars ELSE NoVars, Tried(series))

(***************************************************************************)
(* The reader machine.  Going back replays from the character's seed but   *)
(* knows nothing of a continuation; a restart begins as the reading did.   *)
(***************************************************************************)
BackSeed == IF origin.how = "character" THEN origin.carried ELSE NoVars

applyChoice(c) ==
  /\ book /= 0 /\ ~isEnding(Story, reading)
  /\ Len(reading.path) < MaxPath
  /\ c \in visibleChoices(Story, reading)
  /\ reading' = choose(Story, reading, c)
  /\ UNCHANGED <<chain, shelf, book, origin, slots>>

applyBack ==
  /\ book /= 0
  /\ reading' \in back(Story, reading, BackSeed)
  /\ UNCHANGED <<chain, shelf, book, origin, slots>>

reset ==
  /\ book /= 0
  /\ reading' = startContinuation(Story, origin.carried, origin.entry)
  /\ slots' = {}
  /\ UNCHANGED <<chain, shelf, book, origin>>

\* The reader offers saving while the story goes on and there is room (Reader.tsx).
applySaveBookmark ==
  /\ book /= 0 /\ ~isEnding(Story, reading) /\ Cardinality(slots) < MaxBookmarks
  /\ slots' = slots \cup {reading}
  /\ UNCHANGED <<chain, shelf, book, origin, reading>>

applyLoadBookmark(saved) ==
  /\ saved \in slots
  /\ reading' = saved
  /\ UNCHANGED <<chain, shelf, book, origin, slots>>

applyDeleteBookmark(saved) ==
  /\ saved \in slots
  /\ slots' = slots \ {saved}
  /\ UNCHANGED <<chain, shelf, book, origin, reading>>

Read ==
  \/ \E n \in 1 .. shelf : OpenFresh(n) \/ \E seed \in Characters : OpenAs(n, seed)
  \/ ContinueSeries
  \/ book /= 0 /\ \E c \in ToSet(Story.nodes[reading.node].choices) : applyChoice(c)
  \/ applyBack \/ reset \/ applySaveBookmark
  \/ \E saved \in slots : applyLoadBookmark(saved) \/ applyDeleteBookmark(saved)

ReadingNext == Publish \/ Read
ReadingSpec == ReadingInit /\ [][ReadingNext]_readingVars

(***************************************************************************)
(* Properties                                                              *)
(***************************************************************************)
\* The state a reader is in is one of the story being read, within the bounds.
ReadingTypeOK ==
  /\ chain \in DOMAIN Library /\ shelf \in 0 .. Len(Books) /\ book \in 0 .. shelf
  /\ book = 0 => reading = NoReading /\ slots = {} /\ origin = Unopened
  /\ book /= 0 => /\ reading.path \in Seq(Nodes(Story)) /\ Len(reading.path) \in 1 .. MaxPath
                  /\ reading.visits \subseteq Nodes(Story)
                  /\ Cardinality(slots) <= MaxBookmarks

\* Every reading there can be, by choices, Go back, bookmarks and restarts, is a
\* configuration of the walk the validator judged its start by, or of the walk of a fresh
\* read, unless a walk was cut short (walk.py).
ReadingIsWalked ==
  LET walked == Walk(Story, origin.carried, origin.entry)
      fresh == Walk(Story, NoVars, {})
  IN  book /= 0 /\ ~Capped(walked) /\ ~Capped(fresh) =>
        \E key \in walked \cup fresh : key.node = reading.node /\ key.vars = reading.vars

\* A reading has its type, and the validator's walk has come through it.
ReadingInv == ReadingTypeOK /\ ReadingIsWalked

\* The states the child's own engine can take a reading to in so many choices, paths left out.
WithoutPath(s) == [s EXCEPT !.path = << >>]

Then(story, s) ==
  {WithoutPath(choose(story, s, c)) : c \in
    {c \in visibleChoices(story, s) : ~isEnding(story, s)}}

Further(story, search) ==
  LET new == (UNION {Then(story, t) : t \in search.new}) \ search.seen
  IN  [seen |-> search.seen \cup new, new |-> new]

Ahead(story, s, limit) ==
  LET ahead[n \in 0 .. limit] ==
        IF n = 0 THEN [seen |-> {s}, new |-> {s}] ELSE Further(story, ahead[n - 1])
  IN  ahead[limit].seen

\* No loop of configurations or of nodes is longer than this.
Horizon(story) == ConfigCap + Cardinality(Nodes(story))
Futures == Ahead(Story, WithoutPath(reading), Horizon(Story))
CanFinish == \E s \in Futures : isEnding(Story, s)

\* A tier-1 story has no variables and is not walked; that its conditions never hide the way
\* on, if it has any, nothing checks.
Judged(story) == story.tier = 1 => \A c \in AllChoices(story) : c.condition = {}

\* A published book never leaves a child stuck: from every reading, begun afresh or as
\* any character, an ending can be reached with the choices shown (L1-4, L2-9, L2-10, CH-3b).
ReaderCanFinish == origin.how \in {"fresh", "character"} /\ Judged(Story) => CanFinish

\* A child who finished a book the way the validator walked it enters a next book that
\* can be finished well, unless the walk of that was cut short (SR-9).
ContinuationIsWinnable ==
  origin.tried
    /\ reading = startContinuation(Story, origin.carried, origin.entry)
    /\ ~Capped(Walk(Story, origin.carried, origin.entry))
  => \E s \in Futures : IsSatisfying(Story.nodes[s.node])

\* Whatever a child does, the state the reader saves passes the server's structural
\* check, as long as it holds no bookmark and no number has drifted off (player/replay.py).
SavesAreAccepted ==
  /\ book /= 0 /\ slots = {}
  /\ \A v \in DOMAIN reading.vars : IsSafe(reading.vars[v])
  => ValidateReadingState(Story, reading, slots)

\* The two engines show the same choices in every reading and take them to the same state.
EnginesAgree ==
  book /= 0 =>
    /\ visibleChoices(Story, reading) = VisibleChoices(Story, reading)
    /\ \A c \in VisibleChoices(Story, reading) :
         choose(Story, reading, c) = Choose(Story, reading, c)
=============================================================================
