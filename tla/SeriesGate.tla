----------------------------- MODULE SeriesGate -----------------------------
(***************************************************************************)
(* What a story is entered with besides its own initial values: a child's  *)
(* character (validator/character.py) and the state carried from the book  *)
(* before it (validator/series.py); and the gate as a whole.               *)
(***************************************************************************)
EXTENDS StoryGate

(***************************************************************************)
(* character.py.  The envelope names the character variables the story     *)
(* takes and the range it is written for.                                  *)
(***************************************************************************)
EnvelopeSize(envelope) ==
  FoldFunction(LAMBDA span, size : size * (span.max - span.min + 1), 1, envelope)

EnvelopeStates(envelope) ==
  {vars \in [DOMAIN envelope -> {Num(k) : k \in
      UNION {envelope[v].min .. envelope[v].max : v \in DOMAIN envelope}}] :
    \A v \in DOMAIN envelope : vars[v].n \in envelope[v].min .. envelope[v].max}

CharacterBlock(story, envelope) ==
  /\ \A v \in DOMAIN envelope :
       /\ v \in DOMAIN Canonical /\ v \in DOMAIN story.vars
       /\ story.vars[v].type = "int"
       /\ story.vars[v].min = {envelope[v].min} /\ story.vars[v].max = {envelope[v].max}
       /\ Canonical[v].min <= envelope[v].min /\ envelope[v].max <= Canonical[v].max
  /\ DOMAIN story.vars \cap DOMAIN Canonical \subseteq DOMAIN envelope
  /\ EnvelopeSize(envelope) <= MaxEntryStates
  /\ \A series \in story.series : ~(series.carries_state /\ series.book_index > 1)

\* CH-3b, with a walk that was cut short counted as a regression.
Regressions(story, state) ==
  LET PerState(f) == f.rule \in {"L2-9", "L2-10", "L2-12", "L2-14"}
      Errors(vars) == {f \in ValidateLayer2(story, vars, {}) : PerState(f)}
  IN  {f \in Errors(state) : f.rule = "L2-12" \/ f \notin Errors(NoVars)}

UnionDeadBranches(story, states) ==
  LET walks == {Walk(story, vars, {}) : vars \in states \cup {NoVars}}
  IN  IF \E w \in walks : Capped(w) THEN {}
      ELSE DeadBranches(story, Nodes(story), UNION {EverVisible(story, w) : w \in walks}, "CH-3a")

SatisfyingEndingReachable(story, carried, entry) ==
  LET configs == Walk(story, carried, entry)
  IN  Capped(configs) \/ \E k \in configs : IsSatisfying(story.nodes[k.node])

ValidateCharacter(story) ==
  IF story.accepts = {} THEN
    IF DOMAIN story.vars \cap DOMAIN Canonical = {} THEN {} ELSE {StoryFinding("CH-6")}
  ELSE LET envelope == CHOOSE e \in story.accepts : TRUE
       IN  IF ~CharacterBlock(story, envelope) THEN {StoryFinding("CH")}
           ELSE IF story.tier = 1 THEN {}
           ELSE LET states == EnvelopeStates(envelope)
                IN  UnionDeadBranches(story, states)
                      \cup (UNION {Regressions(story, state) : state \in states})
                      \cup {StoryFinding("CH-4") : state \in
                             {s \in states : ~SatisfyingEndingReachable(story, s, {})}}

(***************************************************************************)
(* gate.py: the rules that block a story.  Those about its wording, names, *)
(* length and pacing only narrow it and are left out.                      *)
(***************************************************************************)
RunGate(story) ==
  /\ ValidateLayer1(story) = {}
  /\ ValidateLayer2(story, NoVars, {}) = {}
  /\ ValidateCharacter(story) = {}

(***************************************************************************)
(* series.py.  A chain is the books of one series; only errors are kept.   *)
(***************************************************************************)
Block(book) == CHOOSE series \in book.series : TRUE
InSeries(chain) == \A i \in DOMAIN chain : chain[i].series /= {}
WellIndexed(chain) ==
  {Block(chain[i]).book_index : i \in DOMAIN chain} = 1 .. Len(chain)
BookAt(chain, index) ==
  chain[CHOOSE i \in DOMAIN chain : Block(chain[i]).book_index = index]

CheckEntryNodes(chain) ==
  \A i \in DOMAIN chain :
    LET entry == Block(chain[i]).entry
    IN  entry \subseteq Nodes(chain[i]) /\ (Block(chain[i]).book_index > 1 => entry /= {})

CheckFinalFlags(chain) ==
  \A i \in DOMAIN chain : Block(chain[i]).is_final => Block(chain[i]).book_index = Len(chain)

CheckContinuity(chain) ==
  \A i \in 1 .. Len(chain) - 1 :
    \E n \in Nodes(BookAt(chain, i)) : IsSatisfying(BookAt(chain, i).nodes[n])

CheckStateCarry(chain) ==
  /\ \A i \in DOMAIN chain :
       chain[i].band \in YoungBands \/ chain[i].tier = 1 => ~Block(chain[i]).carries_state
  /\ \A i, j \in DOMAIN chain : Block(chain[i]).carries_state = Block(chain[j]).carries_state

\* SR-8; a variable the next book does not declare is dropped with a warning.
CheckCarriedVariables(chain) ==
  \A i \in 1 .. Len(chain) - 1 :
    LET sender == BookAt(chain, i).vars
        receiver == BookAt(chain, i + 1).vars
    IN  Block(chain[1]).carries_state =>
          \A v \in DOMAIN sender \cap DOMAIN receiver :
            /\ sender[v].type = receiver[v].type
            /\ \A lo \in sender[v].min, hi \in sender[v].max :
                 \A low \in receiver[v].min, high \in receiver[v].max : low <= lo /\ hi <= high

\* The variables a reader can finish a book with, were it entered without a carry.
SatisfyingExitStates(book, entry) ==
  {k.vars : k \in {k \in Walk(book, NoVars, entry) : IsSatisfying(book.nodes[k.node])}}

ErrorSignatures(book, carried, entry) ==
  {<<f.rule, f.node>> : f \in ValidateLayer2(book, carried, entry)}

\* Of more than MaxEntryStates exits some are tried; the code takes the first in its order.
TriedExits(book) ==
  LET exits == SatisfyingExitStates(book, Block(book).entry)
  IN  IF Cardinality(exits) <= MaxEntryStates THEN exits
      ELSE CHOOSE tried \in SUBSET exits : Cardinality(tried) = MaxEntryStates

\* Fault: the next book must stay sound, but nobody asks whether it can be won.
StaysSound(sender, receiver) ==
  LET entry == Block(receiver).entry
  IN  \A vars \in TriedExits(sender) :
        ErrorSignatures(receiver, vars, entry) \subseteq ErrorSignatures(receiver, NoVars, entry)

\* SR-9 for two books.
CheckHandover(sender, receiver) ==
  LET entry == Block(receiver).entry
  IN  \A vars \in TriedExits(sender) :
        /\ ErrorSignatures(receiver, vars, entry) \subseteq ErrorSignatures(receiver, NoVars, entry)
        /\ SatisfyingEndingReachable(receiver, vars, entry)

CheckContinuationEntryStates(chain) ==
  \A i \in 1 .. Len(chain) - 1 :
    Block(BookAt(chain, i)).carries_state => CheckHandover(BookAt(chain, i), BookAt(chain, i + 1))

ValidateSeries(chain) ==
  /\ InSeries(chain) /\ WellIndexed(chain)
  /\ CheckEntryNodes(chain) /\ CheckFinalFlags(chain) /\ CheckContinuity(chain)
  /\ CheckStateCarry(chain) /\ CheckCarriedVariables(chain)
  /\ CheckContinuationEntryStates(chain)
=============================================================================
