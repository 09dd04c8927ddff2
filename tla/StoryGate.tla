----------------------------- MODULE StoryGate -----------------------------
(***************************************************************************)
(* The validator (validator/): which stories may be published, judged by   *)
(* walking every configuration a reader can be in.  A finding is the rule, *)
(* the node, the choice and the variables it names.                        *)
(***************************************************************************)
EXTENDS StoryEngine, FiniteSets

CONSTANTS
  ConfigCap,       \* how many configurations a walk may hold (100 000)
  MaxEntryStates,  \* how many entry states are tried (64)
  Canonical        \* the reserved character variables: name -> [min, max]

\* The bounds of a walk (validator/walk.py) and of an envelope (validator/character.py).
GateAssumption == ConfigCap \in Nat \ {0} /\ MaxEntryStates \in Nat \ {0}
ASSUME GateAssumption

Finding(rule, node, choice, vars) ==
  [rule |-> rule, node |-> node, choice |-> choice, vars |-> vars]
Nodes(story) == DOMAIN story.nodes
StoryFinding(rule) == Finding(rule, "", "", NoVars)

(***************************************************************************)
(* walk.py.  Two readings are one configuration when they are at the same  *)
(* node with the same variables and have passed the same nodes of those    *)
(* whose effects happen once.                                              *)
(***************************************************************************)
OnceNodes(story) ==
  {n \in Nodes(story) : \E e \in ToSet(story.nodes[n].on_enter) : e.once}

\* Fault: configurations are told apart by node and variables alone.
PlainKey(story, s) == [node |-> s.node, vars |-> s.vars, path |-> << >>, visits |-> {}]

ConfigKey(story, s) ==
  [node |-> s.node, vars |-> s.vars, path |-> << >>, visits |-> s.visits \cap OnceNodes(story)]

\* What a reader who is somewhere may do there; at an ending nothing.
Options(story, key) ==
  {c \in VisibleChoices(story, key) : ~IsEnding(story.nodes[key.node])}

Successors(story, key) == {ConfigKey(story, Choose(story, key, c)) : c \in Options(story, key)}

\* One round of the walk: those found in the last round are expanded.
Expand(story, walk) ==
  LET new == (UNION {Successors(story, key) : key \in walk.new}) \ walk.seen
  IN  IF Cardinality(walk.seen) > ConfigCap THEN walk
      ELSE [seen |-> walk.seen \cup new, new |-> new]

\* walk_configurations; a walk of more than ConfigCap configurations is capped, and in as
\* many rounds it is capped or has nothing left to expand.
Walk(story, carried, entry) ==
  LET initial == ConfigKey(story, StartContinuation(story, carried, entry))
      walked[n \in 0 .. ConfigCap] ==
        IF n = 0 THEN [seen |-> {initial}, new |-> {initial}] ELSE Expand(story, walked[n - 1])
  IN  walked[ConfigCap].seen

Capped(configs) == Cardinality(configs) > ConfigCap

(***************************************************************************)
(* layer2.py, the rules that block.                                        *)
(***************************************************************************)
\* The configurations a step before those, and all from which the target can be reached.
Before(story, configs, reached) ==
  {k \in configs \ reached : Successors(story, k) \cap reached /= {}}

Reaching(story, configs, target) ==
  LET reaching[n \in 0 .. Cardinality(configs)] ==
        IF n = 0 THEN target
        ELSE reaching[n - 1] \cup Before(story, configs, reaching[n - 1])
  IN  reaching[Cardinality(configs)]

DeadEnds(story, configs) ==
  {k \in configs : ~IsEnding(story.nodes[k.node]) /\ Options(story, k) = {}}

CheckDeadEnds(story, configs) ==
  {Finding("L2-9", k.node, "", k.vars) : k \in DeadEnds(story, configs)}

\* Fault: only dead ends are looked for, not loops without a way out.
NoLoopEscape(story, configs) == {}

CheckLoopEscape(story, configs) ==
  LET ended == {k \in configs : IsEnding(story.nodes[k.node])}
      stuck == (configs \ Reaching(story, configs, ended)) \ DeadEnds(story, configs)
  IN  {Finding("L2-10", k.node, "", k.vars) : k \in stuck}

EverVisible(story, configs) ==
  UNION {{c.id : c \in VisibleChoices(story, k)} : k \in configs}

DeadBranches(story, nodes, visible, rule) ==
  UNION {{Finding(rule, n, c.id, NoVars) : c \in
           {c \in ToSet(story.nodes[n].choices) : c.condition /= {} /\ c.id \notin visible}} :
         n \in nodes}

CheckDeadBranches(story, configs) ==
  DeadBranches(story, {k.node : k \in configs}, EverVisible(story, configs), "L2-11")

ForbiddenEnding(story, e) ==
  IF story.band \in YoungBands \cup {"8-11", "10-13"}
    THEN e.valence = "negative"
    ELSE e.kind = "death"

\* A chain of forced steps that runs into a forbidden ending.
DoomedOption(story, key) ==
  LET Forced(k) == IF Cardinality(Options(story, k)) = 1
                     THEN CHOOSE next \in Successors(story, k) : TRUE
                     ELSE k
      chain[n \in 0 .. ConfigCap] == IF n = 0 THEN key ELSE Forced(chain[n - 1])
      last == chain[ConfigCap]
  IN  Options(story, last) = {} /\ \E e \in story.nodes[last.node].ending : ForbiddenEnding(story, e)

CheckNoAllFatalDecisions(story, configs) ==
  {Finding("L2-14", k.node, "", k.vars) : k \in
    {k \in configs :
       /\ Cardinality(Options(story, k)) >= 2
       /\ \A next \in Successors(story, k) : DoomedOption(story, next)}}

ValidateLayer2(story, carried, entry) ==
  LET configs == Walk(story, carried, entry)
  IN  IF story.tier = 1 THEN {}
      ELSE IF Capped(configs) THEN {StoryFinding("L2-12")}
      ELSE CheckDeadEnds(story, configs) \cup CheckLoopEscape(story, configs)
             \cup CheckDeadBranches(story, configs)
             \cup CheckNoAllFatalDecisions(story, configs)

(***************************************************************************)
(* layer1.py: references, logic and the graph of all choices, whatever     *)
(* their conditions.                                                       *)
(***************************************************************************)
Targets(story, n) == {c.target : c \in ToSet(story.nodes[n].choices)}

CheckReferences(story) ==
  {Finding("L1-2", n, "", NoVars) : n \in
    {n \in Nodes(story) : ~(Targets(story, n) \subseteq Nodes(story))}}

CheckLogic(story) ==
  IF /\ SchemaOk(story)
     /\ \A e \in AllEffects(story) : e.op = "set" => SetInBounds(story, e)
    THEN {} ELSE {StoryFinding("L1-6")}

GraphClosure(story, from) ==
  LET closure[n \in 0 .. Cardinality(Nodes(story))] ==
        IF n = 0 THEN from
        ELSE closure[n - 1] \cup UNION {Targets(story, m) : m \in closure[n - 1]}
  IN  closure[Cardinality(Nodes(story))]

CheckReachability(story) ==
  {Finding("L1-3", n, "", NoVars) : n \in Nodes(story) \ GraphClosure(story, {story.start})}

CheckGraphTermination(story) ==
  {Finding("L1-4", n, "", NoVars) : n \in
    {n \in Nodes(story) :
       \A m \in GraphClosure(story, {n}) : ~IsEnding(story.nodes[m])}}

ValidateLayer1(story) ==
  IF CheckReferences(story) /= {} THEN CheckReferences(story)
  ELSE CheckLogic(story) \cup CheckReachability(story) \cup CheckGraphTermination(story)
=============================================================================
