----------------------------- MODULE StoryEngine -----------------------------
(***************************************************************************)
(* player/engine.py: the engine the validators walk a story with and the   *)
(* server replays a reading with.  A state is where the reader is, the     *)
(* variables, the nodes passed in order and the set of them.               *)
(***************************************************************************)
EXTENDS StoryModel

CONSTANT MaxSafeInt   \* the largest integer the browser's doubles count to exactly (2^53 - 1)
ASSUME EngineAssumption == MaxSafeInt \in Nat \ {0}

Clamp(story, name, n) ==
  LET v == story.vars[name]
  IN  IF \E lo \in v.min : n < lo THEN CHOOSE lo \in v.min : TRUE
      ELSE IF \E hi \in v.max : n > hi THEN CHOOSE hi \in v.max : TRUE
      ELSE n

\* isinstance(True, int) holds in Python: counting from a boolean counts from 0 or 1.
Changed(story, vars, e) ==
  IF e.op = "inc" THEN vars[e.var].n + e.value.n ELSE vars[e.var].n - e.value.n

ApplyEffect(story, vars, e) ==
  [vars EXCEPT ![e.var] =
    IF e.op /= "set" THEN Num(Clamp(story, e.var, Changed(story, vars, e)))
    ELSE IF e.value.kind = "int" THEN Num(Clamp(story, e.var, e.value.n))
    ELSE e.value]

\* Effects in their order; again: those marked once have happened before.
ApplyAll(story, vars, effects, again) ==
  LET after[i \in 0 .. Len(effects)] ==
        IF i = 0 THEN vars
        ELSE IF effects[i].once /\ again THEN after[i - 1]
        ELSE ApplyEffect(story, after[i - 1], effects[i])
  IN  after[Len(effects)]

\* Entering a node: effects marked once only the first time.
EnterNode(story, vars, visits, node) ==
  ApplyAll(story, vars, story.nodes[node].on_enter, node \in visits)

\* A carried value counts if the story declares a variable of that name and type.
CarriedValue(story, carried, v) ==
  LET declared == story.vars[v]
  IN  IF v \notin DOMAIN carried \/ carried[v].kind /= declared.type THEN declared.initial
      ELSE IF declared.type = "int" THEN Num(Clamp(story, v, carried[v].n))
      ELSE carried[v]

EntryNode(story, entry) ==
  IF \E n \in entry : n \in DOMAIN story.nodes THEN CHOOSE n \in entry : TRUE ELSE story.start

StartContinuation(story, carried, entry) ==
  LET node == EntryNode(story, entry)
      vars == [v \in DOMAIN story.vars |-> CarriedValue(story, carried, v)]
  IN  [node |-> node, vars |-> EnterNode(story, vars, {}, node),
       path |-> <<node>>, visits |-> {node}]

Visible(vars, c) == \A condition \in c.condition : Evaluate(condition, vars)

VisibleChoices(story, s) == {c \in ToSet(story.nodes[s.node].choices) : Visible(s.vars, c)}

Choose(story, s, c) ==
  [node |-> c.target,
   vars |-> EnterNode(story, ApplyAll(story, s.vars, c.effects, FALSE), s.visits, c.target),
   path |-> Append(s.path, c.target),
   visits |-> s.visits \cup {c.target}]

(***************************************************************************)
(* player/replay.py: the structural check of every saved reading.          *)
(***************************************************************************)
InBounds(v, value) ==
  /\ value.kind = v.type
  /\ \A lo \in v.min : value.n >= lo
  /\ \A hi \in v.max : value.n <= hi

\* A variable without bounds may drift out of what the browser counts exactly.
IsSafe(value) == value.n \in -MaxSafeInt .. MaxSafeInt

ValueOk(v, value) == InBounds(v, value) /\ IsSafe(value)

CheckStructure(story, s) ==
  /\ s.node \in DOMAIN story.nodes
  /\ ToSet(s.path) \cup s.visits \subseteq DOMAIN story.nodes
  /\ s.path /= << >> => s.node = Last(s.path)
  /\ DOMAIN s.vars = DOMAIN story.vars
  /\ \A v \in DOMAIN story.vars : ValueOk(story.vars[v], s.vars[v])

\* validate_reading_state, without the choice path, which no reader sends.
ValidateReadingState(story, s, slots) == slots = {} /\ CheckStructure(story, s)
=============================================================================
