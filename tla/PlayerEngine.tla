---------------------------- MODULE PlayerEngine ----------------------------
(***************************************************************************)
(* frontend/src/player/engine.ts: the engine a child reads with.  What it  *)
(* shares with player/engine.py is written twice in the repository, and so *)
(* it is here; going back and bookmarks exist only on this side.           *)
(***************************************************************************)
EXTENDS StoryModel

IntBounds(story, name) ==
  LET v == story.vars[name]
  IN  IF v.type = "int" THEN [min |-> v.min, max |-> v.max] ELSE [min |-> {}, max |-> {}]

clamp(story, name, n) ==
  LET bounds == IntBounds(story, name)
  IN  IF \E lo \in bounds.min : n < lo THEN CHOOSE lo \in bounds.min : TRUE
      ELSE IF \E hi \in bounds.max : n > hi THEN CHOOSE hi \in bounds.max : TRUE
      ELSE n

\* Fault: effects are trusted to stay in range.
applyEffectUnclamped(story, vars, e) ==
  IF e.op = "set" THEN [vars EXCEPT ![e.var] = e.value]
  ELSE [vars EXCEPT ![e.var] =
          Num(IF e.op = "inc" THEN @.n + e.value.n ELSE @.n - e.value.n)]

applyEffect(story, vars, e) ==
  LET Number(value) == IF value.kind = "int" THEN value.n ELSE 0
      base == Number(vars[e.var])
      updated == IF e.op = "inc" THEN base + Number(e.value) ELSE base - Number(e.value)
  IN  [vars EXCEPT ![e.var] =
        IF e.op /= "set" THEN Num(clamp(story, e.var, updated))
        ELSE IF e.value.kind = "int" THEN Num(clamp(story, e.var, e.value.n))
        ELSE e.value]

applyAll(story, vars, effects, skipOnce) ==
  LET upTo[i \in 0 .. Len(effects)] ==
        IF i = 0 THEN vars
        ELSE IF effects[i].once /\ skipOnce THEN upTo[i - 1]
        ELSE applyEffect(story, upTo[i - 1], effects[i])
  IN  upTo[Len(effects)]

enterNode(story, vars, node, firstEntry) ==
  applyAll(story, vars, story.nodes[node].on_enter, ~firstEntry)

startContinuation(story, carried, entry) ==
  LET node == IF \E n \in entry : n \in DOMAIN story.nodes
                THEN CHOOSE n \in entry : TRUE
                ELSE story.start
      Carried(v) ==
        IF v \notin DOMAIN carried \/ carried[v].kind /= story.vars[v].type
          THEN story.vars[v].initial
        ELSE IF carried[v].kind = "int" THEN Num(clamp(story, v, carried[v].n))
        ELSE carried[v]
      vars == [v \in DOMAIN story.vars |-> Carried(v)]
  IN  [node |-> node, vars |-> enterNode(story, vars, node, TRUE),
       path |-> <<node>>, visits |-> {node}]

start(story) == startContinuation(story, NoVars, {})

isVisible(s, c) == c.condition = {} \/ \E condition \in c.condition : Evaluate(condition, s.vars)
visibleChoices(story, s) == {c \in ToSet(story.nodes[s.node].choices) : isVisible(s, c)}

isEnding(story, s) == IsEnding(story.nodes[s.node])

\* Fault: the node is marked visited before its entry effects are decided.
chooseVisitedFirst(story, s, c) ==
  [node |-> c.target,
   vars |-> enterNode(story, applyAll(story, s.vars, c.effects, FALSE), c.target, FALSE),
   path |-> Append(s.path, c.target), visits |-> s.visits \cup {c.target}]

choose(story, s, c) ==
  [node |-> c.target,
   vars |-> enterNode(story, applyAll(story, s.vars, c.effects, FALSE), c.target,
                      c.target \notin s.visits),
   path |-> Append(s.path, c.target),
   visits |-> s.visits \cup {c.target}]

(***************************************************************************)
(* Go back: the recorded nodes are read again from the start, by every     *)
(* visible choice with the recorded target; of the readings that end in    *)
(* the live state the first counts, in the order of the choices.  A run is *)
(* the places of the choices it took and the states it passed.  The budget *)
(* of 5000 steps is far above what the instances use.                      *)
(***************************************************************************)
Steps(story, run, target) ==
  LET s == run.states[Len(run.states)]
      choices == story.nodes[s.node].choices
  IN  {[picks |-> Append(run.picks, i), states |-> Append(run.states, choose(story, s, choices[i]))] :
         i \in {i \in DOMAIN choices : isVisible(s, choices[i]) /\ choices[i].target = target}}

searchPathReplay(story, live, initial) ==
  LET taken == Len(live.path) - 1
      runs[n \in 0 .. taken] ==
        IF n = 0 THEN {[picks |-> << >>, states |-> <<initial>>]}
        ELSE UNION {Steps(story, run, live.path[n + 1]) : run \in runs[n - 1]}
  IN  runs[taken]

sameVarState(a, b) == DOMAIN a = DOMAIN b /\ \A v \in DOMAIN a : a[v] = b[v]

\* The runs that end in the live state.
replayRecordedPath(story, live, seed) ==
  LET initial == startContinuation(story, seed, {})
      Faithful(s) == sameVarState(s.vars, live.vars) /\ s.visits = live.visits
  IN  IF live.path[1] /= initial.node THEN {}
      ELSE {run \in searchPathReplay(story, live, initial) : Faithful(run.states[Len(run.states)])}

\* A depth-first search meets the run with the smaller picks first.
MetBefore(a, b) ==
  \E i \in DOMAIN a.picks :
    a.picks[i] < b.picks[i] /\ \A k \in 1 .. i - 1 : a.picks[k] = b.picks[k]

\* back: the state one choice earlier, in the first faithful run; none when there is none.
back(story, s, seed) ==
  LET faithful == replayRecordedPath(story, s, seed)
      first == {run \in faithful : \A other \in faithful : ~MetBefore(other, run)}
  IN  IF Len(s.path) <= 1 THEN {} ELSE {run.states[Len(run.states) - 1] : run \in first}
=============================================================================
