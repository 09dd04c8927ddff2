----------------------------- MODULE StoryProofs -----------------------------
(***************************************************************************)
(* What holds of a story on its way from the approval to the child, for    *)
(* every library and every set of passages: first of StoryReading, the     *)
(* gate and the reader; then of StoryLifecycle, the approval.              *)
(***************************************************************************)
EXTENDS StoryReading, StoryLifecycle,
        FiniteSetTheorems, SequenceTheorems, WellFoundedInduction, TLAPS

(***************************************************************************)
(* Induction over data, first-order: sets of naturals have least elements, *)
(* a set that holds 0 and every successor holds all, and a function can be *)
(* defined step by step.  The last is what makes the recursive functions   *)
(* of the engines and of the walks functions at all.                       *)
(***************************************************************************)
\* Every set of naturals but the empty one has a least element.
LEMMA LeastNatural ==
  ASSUME NEW T \in SUBSET Nat, T /= {} PROVE \E n \in T : \A m \in T : n <= m
<1> DEFINE R == OpToRel(<, Nat)
<1>1. IsWellFoundedOn(R, Nat)
  BY NatLessThanWellFounded
<1>2. \A m, n \in Nat : m < n => <<m, n>> \in R
  BY DEF OpToRel
<1> HIDE DEF R
<1>3. \E n \in T : \A m \in T : <<m, n>> \notin R
  BY <1>1, WFMin
<1>4. PICK n \in T : \A m \in T : <<m, n>> \notin R
  BY <1>3
<1>5. ASSUME NEW m \in T PROVE n <= m
  <2>1. ~ (m < n) /\ m \in Nat /\ n \in Nat
    BY <1>2, <1>4
  <2> QED  BY <2>1
<1> QED  BY <1>5

\* What holds of 0, and of each number if of the one before, holds up to n.
LEMMA Induction ==
  ASSUME NEW n \in Nat, NEW T, 0 \in T, \A i \in 1 .. n : i - 1 \in T => i \in T
  PROVE  0 .. n \subseteq T
<1> DEFINE U == (0 .. n) \ T
<1> SUFFICES ASSUME U /= {} PROVE FALSE
  OBVIOUS
<1>1. U \in SUBSET Nat
  OBVIOUS
<1>2. PICK i \in U : \A m \in U : i <= m
  <2> HIDE DEF U
  <2> QED  BY <1>1, LeastNatural
<1>3. i \in 1 .. n /\ i - 1 \in 0 .. n /\ i - 1 < i /\ i \notin T
  BY <1>2
<1>4. i - 1 \in T
  BY <1>2, <1>3
<1> QED  BY <1>3, <1>4

\* The functions that begin with a and go on by the steps.
Iterates(S, n, a, step) ==
  {g \in [0 .. n -> S] : g[0] = a /\ \A i \in 1 .. n : g[i] = step[i][g[i - 1]]}

\* However a function is to go on from step to step, there is one that does.
LEMMA Recursion ==
  ASSUME NEW S, NEW n \in Nat, NEW a \in S, NEW step \in [1 .. n -> [S -> S]]
  PROVE  Iterates(S, n, a, step) /= {}
<1> DEFINE Upto(k) == {g \in [0 .. k -> S] : g[0] = a /\ \A i \in 1 .. k : g[i] = step[i][g[i - 1]]}
           T == {k \in 0 .. n : Upto(k) /= {}}
<1>1. 0 \in T
  <2>1. [i \in 0 .. 0 |-> a] \in Upto(0)
    OBVIOUS
  <2> QED  BY <2>1
<1>2. ASSUME NEW k \in 1 .. n, k - 1 \in T PROVE k \in T
  <2>1. PICK g \in Upto(k - 1) : TRUE
    BY <1>2
  <2> DEFINE h == [i \in 0 .. k |-> IF i = k THEN step[k][g[k - 1]] ELSE g[i]]
  <2>2. g[k - 1] \in S
    BY <2>1
  <2>3. h \in [0 .. k -> S]
    BY <2>1, <2>2
  <2>4. h[0] = a
    BY <2>1
  <2>5. ASSUME NEW i \in 1 .. k PROVE h[i] = step[i][h[i - 1]]
    <3>1. CASE i = k
      BY <3>1
    <3>2. CASE i /= k
      BY <2>1, <3>2
    <3> QED  BY <3>1, <3>2
  <2>6. h \in Upto(k)
    BY <2>3, <2>4, <2>5
  <2>7. k \in 0 .. n
    OBVIOUS
  <2> HIDE DEF h, Upto
  <2> QED  BY <2>6, <2>7
<1>3. n \in T
  <2> HIDE DEF T
  <2>1. 0 .. n \subseteq T
    BY <1>1, <1>2, Induction
  <2> QED  BY <2>1
<1> QED  BY <1>3 DEF Iterates

(***************************************************************************)
(* Stories as the gate lets them through, and the states of a reading.     *)
(***************************************************************************)
\* A document the schema accepts whose choices lead to nodes of it.
Sound(story) ==
  /\ IsDocument(story) /\ SchemaOk(story)
  /\ \A n \in Nodes(story) : Targets(story, n) \subseteq Nodes(story)

\* The variables of a reader: every one the story declares, of its type and in its bounds.
VarStates(story) ==
  {values \in [DOMAIN story.vars -> Value] :
     \A v \in DOMAIN story.vars : InBounds(story.vars[v], values[v])}

\* The effects the schema accepts.
GoodEffects(story) == {e \in EffectType : EffectOk(story, e)}

\* The effects and choices of a node are as the schema asks.
LEMMA GoodNodes ==
  ASSUME NEW story, Sound(story), NEW n \in Nodes(story)
  PROVE  /\ story.nodes[n].on_enter \in Seq(GoodEffects(story))
         /\ \A c \in ToSet(story.nodes[n].choices) :
              /\ c \in AllChoices(story) /\ c \in ChoiceType /\ AtMostOne(c.condition)
              /\ c.target \in Nodes(story) /\ c.effects \in Seq(GoodEffects(story))
<1>1. story.nodes[n] \in PassageType /\ n \in DOMAIN story.nodes
  BY DEF Sound, IsDocument, Nodes
<1>2. \A e \in AllEffects(story) : EffectOk(story, e)
  BY DEF Sound, SchemaOk
<1>3. story.nodes[n].on_enter \in Seq(GoodEffects(story))
  <2> DEFINE onEnter == story.nodes[n].on_enter
  <2>1. onEnter \in Seq(EffectType)
    BY <1>1 DEF PassageType
  <2>2. ASSUME NEW i \in 1 .. Len(onEnter)
        PROVE  onEnter[i] \in GoodEffects(story)
    <3>1. onEnter[i] \in EffectType /\ i \in DOMAIN onEnter
      BY <2>1
    <3>2. onEnter[i] \in ToSet(onEnter)
      BY <3>1 DEF ToSet
    <3>3. onEnter[i] \in EntryEffects(story)
      BY <1>1, <3>2 DEF EntryEffects
    <3>4. onEnter[i] \in AllEffects(story)
      BY <3>3 DEF AllEffects
    <3> QED  BY <1>2, <3>1, <3>4 DEF GoodEffects
  <2> HIDE DEF onEnter
  <2>3. onEnter \in Seq(GoodEffects(story))
    BY <2>1, <2>2
  <2> QED  BY <2>3 DEF onEnter
<1>4. ASSUME NEW c \in ToSet(story.nodes[n].choices)
      PROVE  /\ c \in AllChoices(story) /\ c \in ChoiceType /\ AtMostOne(c.condition)
             /\ c.target \in Nodes(story) /\ c.effects \in Seq(GoodEffects(story))
  <2>1. c \in AllChoices(story)
    BY <1>1 DEF AllChoices
  <2>2. c \in ChoiceType
    <3>1. story.nodes[n].choices \in Seq(ChoiceType)
      BY <1>1 DEF PassageType
    <3> QED  BY <3>1 DEF ToSet
  <2>3. AtMostOne(c.condition)
    BY <2>1 DEF Sound, IsDocument
  <2>4. c.target \in Nodes(story)
    BY DEF Sound, Targets
  <2>5. c.effects \in Seq(EffectType)
    BY <2>2 DEF ChoiceType
  <2>6. ASSUME NEW i \in 1 .. Len(c.effects) PROVE c.effects[i] \in GoodEffects(story)
    <3>1. c.effects[i] \in EffectType /\ i \in DOMAIN c.effects
      BY <2>5
    <3>2. c.effects[i] \in ToSet(c.effects)
      BY <3>1 DEF ToSet
    <3>3. c.effects[i] \in ChoiceEffects(story)
      BY <2>1, <3>2 DEF ChoiceEffects
    <3>4. c.effects[i] \in AllEffects(story)
      BY <3>3 DEF AllEffects
    <3> QED  BY <1>2, <3>1, <3>4 DEF GoodEffects
  <2>7. c.effects \in Seq(GoodEffects(story))
    BY <2>5, <2>6
  <2> QED  BY <2>1, <2>2, <2>3, <2>4, <2>7
<1> QED  BY <1>3, <1>4

\* Clamping gives a number in the bounds, for the server's engine and for the child's.
LEMMA Clamped ==
  ASSUME NEW story, Sound(story), NEW v \in DOMAIN story.vars, NEW n \in Int
  PROVE  /\ Clamp(story, v, n) \in Int
         /\ \A lo \in story.vars[v].min : Clamp(story, v, n) >= lo
         /\ \A hi \in story.vars[v].max : Clamp(story, v, n) <= hi
         /\ story.vars[v].type = "int" => clamp(story, v, n) = Clamp(story, v, n)
<1> DEFINE d == story.vars[v]
<1>1. /\ d \in VariableType /\ AtMostOne(d.min) /\ AtMostOne(d.max)
      /\ d.min \in SUBSET Int /\ d.max \in SUBSET Int /\ d.initial.n \in Int
  <2>1. d \in VariableType /\ AtMostOne(d.min) /\ AtMostOne(d.max)
    BY DEF Sound, IsDocument
  <2> QED  BY <2>1 DEF VariableType, Value
<1>2. \A lo \in d.min, hi \in d.max : lo <= hi
  <2>1. VariableOk(d)
    BY DEF Sound, SchemaOk
  <2> QED  BY <2>1 DEF VariableOk
<1>3. CASE \E lo \in d.min : n < lo
  <2>1. PICK lo \in d.min : n < lo
    BY <1>3
  <2>2. (CHOOSE low \in d.min : TRUE) = lo
    BY <1>1, <2>1 DEF AtMostOne
  <2>3. Clamp(story, v, n) = lo
    BY <1>3, <2>2 DEF Clamp
  <2>4. \A low \in d.min : low = lo
    BY <1>1, <2>1 DEF AtMostOne
  <2>5. d.type = "int" => clamp(story, v, n) = lo
    BY <1>3, <2>2 DEF clamp, IntBounds
  <2> QED  BY <1>1, <1>2, <2>1, <2>3, <2>4, <2>5
<1>4. CASE ~(\E lo \in d.min : n < lo) /\ \E hi \in d.max : n > hi
  <2>1. PICK hi \in d.max : n > hi
    BY <1>4
  <2>2. (CHOOSE high \in d.max : TRUE) = hi
    BY <1>1, <2>1 DEF AtMostOne
  <2>3. Clamp(story, v, n) = hi
    BY <1>4, <2>2 DEF Clamp
  <2>4. \A high \in d.max : high = hi
    BY <1>1, <2>1 DEF AtMostOne
  <2>5. d.type = "int" => clamp(story, v, n) = hi
    BY <1>4, <2>2 DEF clamp, IntBounds
  <2> QED  BY <1>1, <1>2, <2>1, <2>3, <2>4, <2>5
<1>5. CASE ~(\E lo \in d.min : n < lo) /\ ~(\E hi \in d.max : n > hi)
  <2>1. Clamp(story, v, n) = n
    BY <1>5 DEF Clamp
  <2>2. d.type = "int" => clamp(story, v, n) = n
    BY <1>5 DEF clamp, IntBounds
  <2> QED  BY <1>1, <1>5, <2>1, <2>2
<1> QED  BY <1>3, <1>4, <1>5

\* An effect keeps every variable of its type and within its bounds, and the two engines
\* apply it alike.
LEMMA EffectApplied ==
  ASSUME NEW story, Sound(story), NEW values \in VarStates(story), NEW e \in GoodEffects(story)
  PROVE  /\ ApplyEffect(story, values, e) \in VarStates(story)
         /\ applyEffect(story, values, e) = ApplyEffect(story, values, e)
<1> DEFINE d == story.vars[e.var]
           new == IF e.op /= "set" THEN Num(Clamp(story, e.var, Changed(story, values, e)))
                  ELSE IF e.value.kind = "int" THEN Num(Clamp(story, e.var, e.value.n))
                  ELSE e.value
<1>1. /\ e.var \in DOMAIN story.vars /\ e.value \in Value /\ e.value.n \in Int /\ e.value.kind = d.type
      /\ e.op \in {"set", "inc", "dec"} /\ (e.op \in {"inc", "dec"} => e.value.kind = "int")
  BY DEF GoodEffects, EffectOk, EffectType, Value
<1>2. values \in [DOMAIN story.vars -> Value] /\ \A v \in DOMAIN story.vars : InBounds(story.vars[v], values[v])
  BY DEF VarStates
<1>3. values[e.var] \in Value /\ values[e.var].n \in Int /\ values[e.var].kind = d.type
  BY <1>1, <1>2 DEF InBounds, Value
<1>4. Changed(story, values, e) \in Int
  BY <1>1, <1>3 DEF Changed
<1>5. d.type = "bool" => d.min = {} /\ d.max = {}
  <2>1. VariableOk(d)
    BY <1>1 DEF Sound, SchemaOk
  <2> QED  BY <2>1 DEF VariableOk
<1>6. new \in Value /\ InBounds(d, new)
  <2>1. ASSUME NEW n \in Int, d.type = "int"
        PROVE  Num(Clamp(story, e.var, n)) \in Value /\ InBounds(d, Num(Clamp(story, e.var, n)))
    <3>1. /\ Clamp(story, e.var, n) \in Int
          /\ \A lo \in d.min : Clamp(story, e.var, n) >= lo
          /\ \A hi \in d.max : Clamp(story, e.var, n) <= hi
      BY <1>1, Clamped
    <3> QED  BY <2>1, <3>1 DEF Num, Value, InBounds
  <2>2. CASE e.op /= "set"
    BY <1>1, <1>4, <2>1, <2>2
  <2>3. CASE e.op = "set" /\ e.value.kind = "int"
    BY <1>1, <2>1, <2>3
  <2>4. CASE e.op = "set" /\ e.value.kind /= "int"
    <3>1. d.type = "bool"
      BY <1>1, <2>4 DEF Value
    <3> QED  BY <1>1, <1>5, <2>4, <3>1 DEF InBounds
  <2> QED  BY <2>2, <2>3, <2>4
<1>7. ApplyEffect(story, values, e) = [values EXCEPT ![e.var] = new]
  BY DEF ApplyEffect
<1>8. ApplyEffect(story, values, e) \in VarStates(story)
  <2> HIDE DEF new
  <2> QED  BY <1>1, <1>2, <1>6, <1>7 DEF VarStates
<1>9. applyEffect(story, values, e) = ApplyEffect(story, values, e)
  <2> DEFINE Number(value) == IF value.kind = "int" THEN value.n ELSE 0
             updated == IF e.op = "inc" THEN Number(values[e.var]) + Number(e.value)
                        ELSE Number(values[e.var]) - Number(e.value)
             same == IF e.op /= "set" THEN Num(clamp(story, e.var, updated))
                     ELSE IF e.value.kind = "int" THEN Num(clamp(story, e.var, e.value.n))
                     ELSE e.value
  <2>1. applyEffect(story, values, e) = [values EXCEPT ![e.var] = same]
    BY DEF applyEffect
  <2>2. e.op /= "set" => updated = Changed(story, values, e)
    BY <1>1, <1>3 DEF Changed
  <2>3. \A n \in Int : d.type = "int" => clamp(story, e.var, n) = Clamp(story, e.var, n)
    BY <1>1, Clamped
  <2>4. same = new
    <3> HIDE DEF updated
    <3>1. CASE e.op /= "set"
      BY <1>1, <1>4, <2>2, <2>3, <3>1
    <3>2. CASE e.op = "set"
      BY <1>1, <2>3, <3>2
    <3> QED  BY <3>1, <3>2
  <2> HIDE DEF same, new
  <2> QED  BY <1>7, <2>1, <2>4
<1> QED  BY <1>8, <1>9

\* Effects one after the other, on the server's engine: what holds before and is kept by
\* every effect holds after.
LEMMA ApplyAllSteps ==
  ASSUME NEW story, Sound(story), NEW values \in VarStates(story),
         NEW effects \in Seq(GoodEffects(story)), NEW again \in BOOLEAN
  PROVE  \E g \in [0 .. Len(effects) -> VarStates(story)] :
           /\ g[0] = values
           /\ \A i \in 1 .. Len(effects) :
                g[i] = IF effects[i].once /\ again THEN g[i - 1]
                       ELSE ApplyEffect(story, g[i - 1], effects[i])
           /\ ApplyAll(story, values, effects, again) = g[Len(effects)]
<1> DEFINE n == Len(effects)
           S == VarStates(story)
           kept(i, s) == IF effects[i].once /\ again THEN s ELSE ApplyEffect(story, s, effects[i])
           step == [i \in 1 .. n |-> [s \in S |-> kept(i, s)]]
           after == CHOOSE f : f = [i \in 0 .. Len(effects) |->
                      IF i = 0 THEN values
                      ELSE IF effects[i].once /\ again THEN f[i - 1]
                      ELSE ApplyEffect(story, f[i - 1], effects[i])]
<1>0. n \in Nat /\ values \in S
  OBVIOUS
<1>1. ASSUME NEW i \in 1 .. n, NEW s \in S PROVE kept(i, s) \in S
  <2>1. effects[i] \in GoodEffects(story)
    OBVIOUS
  <2>2. ApplyEffect(story, s, effects[i]) \in S
    BY <2>1, EffectApplied
  <2> QED  BY <2>2
<1>2. step \in [1 .. n -> [S -> S]]
  <2> HIDE DEF kept, S, n
  <2>1. \A i \in 1 .. n : [s \in S |-> kept(i, s)] \in [S -> S]
    BY <1>1
  <2> QED  BY <2>1
<1>3. PICK g \in [0 .. n -> S] : g[0] = values /\ \A i \in 1 .. n : g[i] = step[i][g[i - 1]]
  <2> HIDE DEF step, S, n
  <2>1. Iterates(S, n, values, step) /= {}
    BY <1>0, <1>2, Recursion
  <2> QED  BY <2>1 DEF Iterates
<1>4. ASSUME NEW i \in 1 .. n PROVE g[i] = kept(i, g[i - 1])
  <2>1. g[i - 1] \in S
    <3> HIDE DEF S
    <3> QED  BY <1>0, <1>3
  <2> HIDE DEF S, n, kept
  <2> QED  BY <1>3, <2>1
<1>5. g = [i \in 0 .. Len(effects) |->
            IF i = 0 THEN values
            ELSE IF effects[i].once /\ again THEN g[i - 1]
            ELSE ApplyEffect(story, g[i - 1], effects[i])]
  <2>1. g = [i \in 0 .. Len(effects) |-> g[i]]
    BY <1>3
  <2>2. \A i \in 0 .. Len(effects) :
          g[i] = IF i = 0 THEN values
                 ELSE IF effects[i].once /\ again THEN g[i - 1]
                 ELSE ApplyEffect(story, g[i - 1], effects[i])
    <3> SUFFICES ASSUME NEW i \in 0 .. Len(effects), i /= 0
                 PROVE  g[i] = kept(i, g[i - 1])
      BY <1>3
    <3>1. i \in 1 .. n
      OBVIOUS
    <3> QED  BY <1>4, <3>1
  <2> QED  BY <2>1, <2>2
<1>6. after = [i \in 0 .. Len(effects) |->
            IF i = 0 THEN values
            ELSE IF effects[i].once /\ again THEN after[i - 1]
            ELSE ApplyEffect(story, after[i - 1], effects[i])]
  BY <1>5, Zenon
<1>7. ApplyAll(story, values, effects, again) = after[Len(effects)]
  BY Zenon DEF ApplyAll
<1> DEFINE T == {i \in 0 .. n : after[i] = g[i]}
<1>8. 0 .. n \subseteq T
  <2>1. 0 \in T
    <3> HIDE DEF after
    <3> QED  BY <1>0, <1>3, <1>6
  <2>2. ASSUME NEW i \in 1 .. n, i - 1 \in T PROVE i \in T
    <3>1. after[i] = kept(i, after[i - 1])
      <4>1. i \in 0 .. Len(effects) /\ i /= 0
        OBVIOUS
      <4> HIDE DEF after, n
      <4> QED  BY <1>6, <4>1
    <3>2. after[i - 1] = g[i - 1]
      BY <2>2
    <3> HIDE DEF after, kept
    <3>3. after[i] = g[i]
      BY <1>4, <3>1, <3>2
    <3> QED  BY <3>3
  <2> HIDE DEF T, n
  <2> QED  BY <1>0, <2>1, <2>2, Induction
<1>9. after[Len(effects)] = g[Len(effects)]
  <2> HIDE DEF after
  <2> QED  BY <1>0, <1>8
<1> HIDE DEF after
<1> QED  BY <1>3, <1>4, <1>7, <1>9

\* A list of effects keeps every variable of its type and within its bounds, and the two
\* engines apply it alike.
LEMMA AllApplied ==
  ASSUME NEW story, Sound(story), NEW values \in VarStates(story),
         NEW effects \in Seq(GoodEffects(story)), NEW again \in BOOLEAN
  PROVE  /\ ApplyAll(story, values, effects, again) \in VarStates(story)
         /\ applyAll(story, values, effects, again) = ApplyAll(story, values, effects, again)
<1> DEFINE n == Len(effects)
           upTo == CHOOSE f : f = [i \in 0 .. Len(effects) |->
                     IF i = 0 THEN values
                     ELSE IF effects[i].once /\ again THEN f[i - 1]
                     ELSE applyEffect(story, f[i - 1], effects[i])]
<1>0. n \in Nat
  OBVIOUS
<1>1. PICK g \in [0 .. n -> VarStates(story)] :
        /\ g[0] = values
        /\ \A i \in 1 .. n : g[i] = IF effects[i].once /\ again THEN g[i - 1]
                                    ELSE ApplyEffect(story, g[i - 1], effects[i])
        /\ ApplyAll(story, values, effects, again) = g[n]
  BY ApplyAllSteps
<1>2. ASSUME NEW i \in 1 .. n
      PROVE  g[i] = IF effects[i].once /\ again THEN g[i - 1]
                    ELSE applyEffect(story, g[i - 1], effects[i])
  <2>1. g[i - 1] \in VarStates(story) /\ effects[i] \in GoodEffects(story)
    BY <1>0
  <2>2. applyEffect(story, g[i - 1], effects[i]) = ApplyEffect(story, g[i - 1], effects[i])
    BY <2>1, EffectApplied
  <2> QED  BY <1>1, <2>2
<1>3. g = [i \in 0 .. Len(effects) |->
            IF i = 0 THEN values
            ELSE IF effects[i].once /\ again THEN g[i - 1]
            ELSE applyEffect(story, g[i - 1], effects[i])]
  <2>1. g = [i \in 0 .. Len(effects) |-> g[i]]
    BY <1>1
  <2>2. \A i \in 0 .. Len(effects) :
          g[i] = IF i = 0 THEN values
                 ELSE IF effects[i].once /\ again THEN g[i - 1]
                 ELSE applyEffect(story, g[i - 1], effects[i])
    <3> SUFFICES ASSUME NEW i \in 0 .. Len(effects), i /= 0
                 PROVE  g[i] = IF effects[i].once /\ again THEN g[i - 1]
                               ELSE applyEffect(story, g[i - 1], effects[i])
      BY <1>1
    <3>1. i \in 1 .. n
      OBVIOUS
    <3> QED  BY <1>2, <3>1
  <2> QED  BY <2>1, <2>2
<1>4. upTo = [i \in 0 .. Len(effects) |->
               IF i = 0 THEN values
               ELSE IF effects[i].once /\ again THEN upTo[i - 1]
               ELSE applyEffect(story, upTo[i - 1], effects[i])]
  BY <1>3, Zenon
<1>5. applyAll(story, values, effects, again) = upTo[n]
  BY Zenon DEF applyAll
<1> DEFINE T == {i \in 0 .. n : upTo[i] = g[i]}
<1>6. 0 .. n \subseteq T
  <2>1. 0 \in T
    <3> HIDE DEF upTo
    <3> QED  BY <1>0, <1>1, <1>4
  <2>2. ASSUME NEW i \in 1 .. n, i - 1 \in T PROVE i \in T
    <3>1. i \in 0 .. Len(effects) /\ i /= 0
      OBVIOUS
    <3>2. upTo[i - 1] = g[i - 1]
      BY <2>2
    <3> HIDE DEF upTo
    <3>3. upTo[i] = g[i]
      BY <1>2, <1>4, <3>1, <3>2
    <3> QED  BY <3>3
  <2> HIDE DEF T, n
  <2> QED  BY <1>0, <2>1, <2>2, Induction
<1>7. upTo[n] = g[n] /\ g[n] \in VarStates(story)
  <2> HIDE DEF upTo
  <2> QED  BY <1>0, <1>1, <1>6
<1> HIDE DEF upTo
<1> QED  BY <1>1, <1>5, <1>7

\* Where no effect is marked once, it does not matter whether the node was passed before.
LEMMA NothingOnce ==
  ASSUME NEW story, Sound(story), NEW values \in VarStates(story),
         NEW effects \in Seq(GoodEffects(story)), \A e \in ToSet(effects) : ~e.once,
         NEW again \in BOOLEAN, NEW instead \in BOOLEAN
  PROVE  ApplyAll(story, values, effects, again) = ApplyAll(story, values, effects, instead)
<1> DEFINE n == Len(effects)
<1>0. n \in Nat
  OBVIOUS
<1>1. PICK g \in [0 .. n -> VarStates(story)] :
        /\ g[0] = values
        /\ \A i \in 1 .. n : g[i] = IF effects[i].once /\ again THEN g[i - 1]
                                    ELSE ApplyEffect(story, g[i - 1], effects[i])
        /\ ApplyAll(story, values, effects, again) = g[n]
  BY ApplyAllSteps
<1>2. PICK h \in [0 .. n -> VarStates(story)] :
        /\ h[0] = values
        /\ \A i \in 1 .. n : h[i] = IF effects[i].once /\ instead THEN h[i - 1]
                                    ELSE ApplyEffect(story, h[i - 1], effects[i])
        /\ ApplyAll(story, values, effects, instead) = h[n]
  BY ApplyAllSteps
<1>3. ASSUME NEW i \in 1 .. n PROVE ~effects[i].once
  <2>1. effects[i] \in ToSet(effects)
    BY DEF ToSet
  <2> QED  BY <2>1
<1> DEFINE T == {i \in 0 .. n : g[i] = h[i]}
<1>4. 0 .. n \subseteq T
  <2>1. 0 \in T
    BY <1>0, <1>1, <1>2
  <2>2. ASSUME NEW i \in 1 .. n, i - 1 \in T PROVE i \in T
    <3>1. g[i - 1] = h[i - 1]
      BY <2>2
    <3>2. g[i] = h[i]
      BY <1>1, <1>2, <1>3, <3>1
    <3> QED  BY <3>2
  <2> HIDE DEF T, n
  <2> QED  BY <1>0, <2>1, <2>2, Induction
<1>5. g[n] = h[n]
  BY <1>0, <1>4
<1> QED  BY <1>1, <1>2, <1>5

\* The states of a reading of the story.
States(story) ==
  [node : Nodes(story), vars : VarStates(story), path : Seq(Nodes(story)), visits : SUBSET Nodes(story)]

\* Entering a node keeps the variables typed, is the same on both engines, and depends on the
\* nodes passed only through those with effects that happen once.
LEMMA NodeEntered ==
  ASSUME NEW story, Sound(story), NEW values \in VarStates(story),
         NEW n \in Nodes(story), NEW visits
  PROVE  /\ EnterNode(story, values, visits, n) \in VarStates(story)
         /\ enterNode(story, values, n, n \notin visits) = EnterNode(story, values, visits, n)
         /\ EnterNode(story, values, visits \cap OnceNodes(story), n) = EnterNode(story, values, visits, n)
<1> DEFINE effects == story.nodes[n].on_enter
           again == n \in visits
<1>1. effects \in Seq(GoodEffects(story))
  BY GoodNodes
<1>2. EnterNode(story, values, visits, n) = ApplyAll(story, values, effects, again) /\ again \in BOOLEAN
  BY DEF EnterNode
<1>3. enterNode(story, values, n, n \notin visits) = applyAll(story, values, effects, again)
  <2>1. ~(n \notin visits) = again
    OBVIOUS
  <2>2. enterNode(story, values, n, n \notin visits) = applyAll(story, values, effects, ~(n \notin visits))
    BY DEF enterNode
  <2> QED  BY <2>1, <2>2
<1>4. /\ ApplyAll(story, values, effects, again) \in VarStates(story)
      /\ applyAll(story, values, effects, again) = ApplyAll(story, values, effects, again)
  <2> HIDE DEF effects, again
  <2> QED  BY <1>1, <1>2, AllApplied
<1>5. EnterNode(story, values, visits \cap OnceNodes(story), n) = ApplyAll(story, values, effects, again)
  <2>1. CASE n \in OnceNodes(story)
    <3>1. (n \in visits \cap OnceNodes(story)) = again
      BY <2>1
    <3> QED  BY <3>1 DEF EnterNode
  <2>2. CASE n \notin OnceNodes(story)
    <3>1. \A e \in ToSet(effects) : ~e.once
      BY <2>2 DEF OnceNodes
    <3>2. \A other \in BOOLEAN :
            ApplyAll(story, values, effects, other) = ApplyAll(story, values, effects, again)
      <4> HIDE DEF effects, again
      <4> QED  BY <1>1, <1>2, <3>1, NothingOnce
    <3> DEFINE other == n \in visits \cap OnceNodes(story)
    <3>3. other \in BOOLEAN
      OBVIOUS
    <3>4. EnterNode(story, values, visits \cap OnceNodes(story), n) = ApplyAll(story, values, effects, other)
      BY DEF EnterNode
    <3> HIDE DEF effects, again, other
    <3> QED  BY <3>2, <3>3, <3>4
  <2> QED  BY <2>1, <2>2
<1> HIDE DEF effects, again
<1> QED  BY <1>2, <1>3, <1>4, <1>5

\* A choice leads from a state of the reading to another, and the engines agree on it.
LEMMA ChoiceTaken ==
  ASSUME NEW story, Sound(story), NEW s \in States(story),
         NEW c \in ToSet(story.nodes[s.node].choices)
  PROVE  /\ Choose(story, s, c) \in States(story)
         /\ choose(story, s, c) = Choose(story, s, c)
         /\ isVisible(s, c) <=> Visible(s.vars, c)
<1>1. /\ s.node \in Nodes(story) /\ s.vars \in VarStates(story)
      /\ s.path \in Seq(Nodes(story)) /\ s.visits \in SUBSET Nodes(story)
  BY DEF States
<1>2. /\ c \in ChoiceType /\ AtMostOne(c.condition) /\ c.target \in Nodes(story)
      /\ c.effects \in Seq(GoodEffects(story))
  BY <1>1, GoodNodes
<1> DEFINE values == ApplyAll(story, s.vars, c.effects, FALSE)
           entered == EnterNode(story, values, s.visits, c.target)
<1>3. values \in VarStates(story) /\ applyAll(story, s.vars, c.effects, FALSE) = values
  BY <1>1, <1>2, AllApplied
<1>4. /\ entered \in VarStates(story)
      /\ enterNode(story, values, c.target, c.target \notin s.visits) = entered
  <2> HIDE DEF values
  <2> QED  BY <1>2, <1>3, NodeEntered
<1>5. Choose(story, s, c) = [node |-> c.target, vars |-> entered, path |-> Append(s.path, c.target),
                             visits |-> s.visits \cup {c.target}]
  BY DEF Choose
<1>6. Append(s.path, c.target) \in Seq(Nodes(story)) /\ s.visits \cup {c.target} \in SUBSET Nodes(story)
  BY <1>1, <1>2
<1>7. Choose(story, s, c) \in States(story)
  <2> HIDE DEF entered
  <2> QED  BY <1>2, <1>4, <1>5, <1>6 DEF States
<1>8. choose(story, s, c) = [node |-> c.target, vars |-> entered, path |-> Append(s.path, c.target),
                             visits |-> s.visits \cup {c.target}]
  <2>1. choose(story, s, c) =
          [node |-> c.target,
           vars |-> enterNode(story, applyAll(story, s.vars, c.effects, FALSE), c.target,
                              c.target \notin s.visits),
           path |-> Append(s.path, c.target), visits |-> s.visits \cup {c.target}]
    BY DEF choose
  <2> HIDE DEF entered, values
  <2> QED  BY <1>3, <1>4, <2>1
<1>9. isVisible(s, c) <=> Visible(s.vars, c)
  BY <1>2, Zenon DEF isVisible, Visible, AtMostOne
<1> HIDE DEF entered
<1> QED  BY <1>5, <1>7, <1>8, <1>9

\* The engines show the same choices.
LEMMA SameChoices ==
  ASSUME NEW story, Sound(story), NEW s \in States(story)
  PROVE  visibleChoices(story, s) = VisibleChoices(story, s)
<1>1. \A c \in ToSet(story.nodes[s.node].choices) : isVisible(s, c) <=> Visible(s.vars, c)
  BY ChoiceTaken
<1> QED  BY <1>1 DEF visibleChoices, VisibleChoices

\* What a story may be entered with: any variables, of any of the kinds.
Carries(values) == values \in [DOMAIN values -> Value]

\* A value carried into a story is in its bounds, and the same on both engines.
LEMMA ValueCarried ==
  ASSUME NEW story, Sound(story), NEW carried, Carries(carried), NEW v \in DOMAIN story.vars
  PROVE  /\ CarriedValue(story, carried, v) \in Value
         /\ InBounds(story.vars[v], CarriedValue(story, carried, v))
         /\ CarriedValue(story, carried, v) =
              IF v \notin DOMAIN carried \/ carried[v].kind /= story.vars[v].type
                THEN story.vars[v].initial
              ELSE IF carried[v].kind = "int" THEN Num(clamp(story, v, carried[v].n))
              ELSE carried[v]
<1> DEFINE d == story.vars[v]
<1>1. /\ d \in VariableType /\ d.initial \in Value /\ d.initial.n \in Int
      /\ d.min \in SUBSET Int /\ d.max \in SUBSET Int
  <2>1. d \in VariableType
    BY DEF Sound, IsDocument
  <2> QED  BY <2>1 DEF VariableType, Value
<1>2. VariableOk(d)
  BY DEF Sound, SchemaOk
<1>3. CASE v \notin DOMAIN carried \/ carried[v].kind /= d.type
  <2>1. CarriedValue(story, carried, v) = d.initial
    BY <1>3 DEF CarriedValue
  <2> QED  BY <1>1, <1>2, <1>3, <2>1 DEF VariableOk, InBounds
<1>4. CASE v \in DOMAIN carried /\ carried[v].kind = d.type /\ d.type = "int"
  <2>1. carried[v].n \in Int
    BY <1>4 DEF Carries, Value
  <2>2. CarriedValue(story, carried, v) = Num(Clamp(story, v, carried[v].n))
    BY <1>4 DEF CarriedValue
  <2>3. /\ Clamp(story, v, carried[v].n) \in Int
        /\ \A lo \in d.min : Clamp(story, v, carried[v].n) >= lo
        /\ \A hi \in d.max : Clamp(story, v, carried[v].n) <= hi
        /\ clamp(story, v, carried[v].n) = Clamp(story, v, carried[v].n)
    BY <1>4, <2>1, Clamped
  <2> QED  BY <1>4, <2>2, <2>3 DEF Num, Value, InBounds
<1>5. CASE v \in DOMAIN carried /\ carried[v].kind = d.type /\ d.type /= "int"
  <2>1. CarriedValue(story, carried, v) = carried[v] /\ carried[v] \in Value
    BY <1>5 DEF CarriedValue, Carries
  <2>2. d.min = {} /\ d.max = {}
    BY <1>1, <1>2, <1>5 DEF VariableOk, VariableType
  <2> QED  BY <1>5, <2>1, <2>2 DEF InBounds
<1> QED  BY <1>3, <1>4, <1>5

\* A reading begins in a state of the story, the same on both engines.
LEMMA ReadingStarted ==
  ASSUME NEW story, Sound(story), NEW carried, Carries(carried), NEW entry, AtMostOne(entry)
  PROVE  /\ StartContinuation(story, carried, entry) \in States(story)
         /\ StartContinuation(story, carried, entry).path = <<StartContinuation(story, carried, entry).node>>
         /\ startContinuation(story, carried, entry) = StartContinuation(story, carried, entry)
<1> DEFINE node == EntryNode(story, entry)
           values == [v \in DOMAIN story.vars |-> CarriedValue(story, carried, v)]
           entered == EnterNode(story, values, {}, node)
<1>1. node \in Nodes(story)
  <2>1. story.start \in DOMAIN story.nodes
    BY DEF Sound, SchemaOk
  <2>2. (\E n \in entry : n \in DOMAIN story.nodes) => (CHOOSE n \in entry : TRUE) \in DOMAIN story.nodes
    BY DEF AtMostOne
  <2> QED  BY <2>1, <2>2 DEF EntryNode, Nodes
<1>2. values \in VarStates(story)
  BY ValueCarried DEF VarStates
<1>3. entered \in VarStates(story) /\ enterNode(story, values, node, TRUE) = entered
  <2>1. enterNode(story, values, node, node \notin {}) = entered /\ entered \in VarStates(story)
    <3> HIDE DEF values, node
    <3> QED  BY <1>1, <1>2, NodeEntered
  <2>2. node \notin {}
    OBVIOUS
  <2> HIDE DEF values, node, entered
  <2> QED  BY <2>1, <2>2
<1>4. StartContinuation(story, carried, entry) =
        [node |-> node, vars |-> entered, path |-> <<node>>, visits |-> {node}]
  BY DEF StartContinuation
<1>5. StartContinuation(story, carried, entry) \in States(story)
  <2> HIDE DEF entered, node
  <2> QED  BY <1>1, <1>3, <1>4 DEF States
<1>6. startContinuation(story, carried, entry) =
        [node |-> node, vars |-> enterNode(story, values, node, TRUE), path |-> <<node>>, visits |-> {node}]
  <2>1. values = [v \in DOMAIN story.vars |->
          IF v \notin DOMAIN carried \/ carried[v].kind /= story.vars[v].type
            THEN story.vars[v].initial
          ELSE IF carried[v].kind = "int" THEN Num(clamp(story, v, carried[v].n))
          ELSE carried[v]]
    BY ValueCarried
  <2> HIDE DEF values
  <2> QED  BY <2>1 DEF startContinuation, EntryNode
<1> HIDE DEF values, node, entered
<1>7. startContinuation(story, carried, entry) = StartContinuation(story, carried, entry)
  BY <1>3, <1>4, <1>6
<1>8. StartContinuation(story, carried, entry).path = <<StartContinuation(story, carried, entry).node>>
  BY <1>4
<1> QED  BY <1>5, <1>7, <1>8

\* A fresh read carries nothing.
LEMMA NothingCarried == Carries(NoVars) /\ AtMostOne({})
BY DEF Carries, NoVars, AtMostOne

(***************************************************************************)
(* A configuration stands for all the readings with its key: they show the *)
(* same choices and go on to readings with the same key.                   *)
(***************************************************************************)
Configurations(story) == {s \in States(story) : s.path = << >> /\ s.visits \subseteq OnceNodes(story)}

\* Every state of a reading has a configuration.
LEMMA KeyOfState ==
  ASSUME NEW story, NEW s \in States(story)
  PROVE  ConfigKey(story, s) \in Configurations(story)
<1>1. s.node \in Nodes(story) /\ s.vars \in VarStates(story) /\ s.visits \in SUBSET Nodes(story)
  BY DEF States
<1>2. ConfigKey(story, s) =
        [node |-> s.node, vars |-> s.vars, path |-> << >>, visits |-> s.visits \cap OnceNodes(story)]
  BY DEF ConfigKey
<1>3. ConfigKey(story, s) \in States(story)
  BY <1>1, <1>2 DEF States
<1> QED  BY <1>2, <1>3 DEF Configurations

\* A reading and its configuration are shown the same choices, which lead to one configuration.
LEMMA KeyFollows ==
  ASSUME NEW story, Sound(story), NEW s \in States(story)
  PROVE  /\ Options(story, ConfigKey(story, s)) = Options(story, s)
         /\ VisibleChoices(story, ConfigKey(story, s)) = VisibleChoices(story, s)
         /\ \A c \in ToSet(story.nodes[s.node].choices) :
              ConfigKey(story, Choose(story, ConfigKey(story, s), c)) = ConfigKey(story, Choose(story, s, c))
<1> DEFINE key == ConfigKey(story, s)
<1>1. key.node = s.node /\ key.vars = s.vars /\ key.path = << >>
      /\ key.visits = s.visits \cap OnceNodes(story) /\ key \in States(story)
  BY KeyOfState DEF Configurations, ConfigKey
<1>2. VisibleChoices(story, key) = VisibleChoices(story, s)
  <2> HIDE DEF key
  <2> QED  BY <1>1 DEF VisibleChoices
<1>3. Options(story, key) = Options(story, s)
  <2> HIDE DEF key
  <2> QED  BY <1>1, <1>2 DEF Options
<1>4. ASSUME NEW c \in ToSet(story.nodes[s.node].choices)
      PROVE  ConfigKey(story, Choose(story, key, c)) = ConfigKey(story, Choose(story, s, c))
  <2> HIDE DEF key
  <2> DEFINE values == ApplyAll(story, s.vars, c.effects, FALSE)
  <2>1. c.target \in Nodes(story) /\ values \in VarStates(story) /\ s.visits \in SUBSET Nodes(story)
    <3>1. s.node \in Nodes(story) /\ s.vars \in VarStates(story) /\ s.visits \in SUBSET Nodes(story)
      BY DEF States
    <3>2. c.target \in Nodes(story) /\ c.effects \in Seq(GoodEffects(story))
      BY <3>1, GoodNodes
    <3> QED  BY <3>1, <3>2, AllApplied
  <2>2. EnterNode(story, values, s.visits \cap OnceNodes(story), c.target) =
          EnterNode(story, values, s.visits, c.target)
    <3> HIDE DEF values
    <3> QED  BY <2>1, NodeEntered
  <2>3. Choose(story, key, c).vars = Choose(story, s, c).vars
    <3>1. Choose(story, key, c).vars = EnterNode(story, values, s.visits \cap OnceNodes(story), c.target)
      BY <1>1 DEF Choose
    <3>2. Choose(story, s, c).vars = EnterNode(story, values, s.visits, c.target)
      BY DEF Choose
    <3> QED  BY <2>2, <3>1, <3>2
  <2>4. Choose(story, key, c).node = Choose(story, s, c).node
    BY DEF Choose
  <2>5. Choose(story, key, c).visits \cap OnceNodes(story) = Choose(story, s, c).visits \cap OnceNodes(story)
    <3>1. Choose(story, key, c).visits = key.visits \cup {c.target}
          /\ Choose(story, s, c).visits = s.visits \cup {c.target}
      BY DEF Choose
    <3> QED  BY <1>1, <3>1
  <2> QED  BY <2>3, <2>4, <2>5 DEF ConfigKey
<1> HIDE DEF key
<1> QED  BY <1>2, <1>3, <1>4 DEF key

\* The images of the members of a finite set are finitely many.
LEMMA FiniteImage ==
  ASSUME NEW S, IsFiniteSet(S), NEW T, NEW f \in [S -> T], \A t \in T : \E x \in S : f[x] = t
  PROVE  IsFiniteSet(T) /\ Cardinality(T) <= Cardinality(S)
<1>1. f \in Surjection(S, T)
  BY DEF Surjection
<1> QED  BY <1>1, FS_Surjection

\* A configuration has finitely many successors, all of them configurations.
LEMMA FiniteSuccessors ==
  ASSUME NEW story, Sound(story), NEW key \in Configurations(story)
  PROVE  IsFiniteSet(Successors(story, key)) /\ Successors(story, key) \subseteq Configurations(story)
<1> DEFINE choices == story.nodes[key.node].choices
           options == Options(story, key)
           next == [c \in options |-> ConfigKey(story, Choose(story, key, c))]
<1>1. key \in States(story) /\ key.node \in DOMAIN story.nodes
  BY DEF Configurations, States, Nodes
<1>2. options \subseteq ToSet(choices)
  BY DEF Options, VisibleChoices
<1>3. IsFiniteSet(options)
  <2>1. choices \in Seq(ChoiceType)
    BY <1>1 DEF Sound, IsDocument, PassageType
  <2>2. Len(choices) \in Nat /\ DOMAIN choices = 1 .. Len(choices)
    BY <2>1
  <2>3. IsFiniteSet(1 .. Len(choices))
    BY <2>2, FS_Interval
  <2>4. [i \in 1 .. Len(choices) |-> choices[i]] \in [1 .. Len(choices) -> ToSet(choices)]
        /\ \A c \in ToSet(choices) : \E i \in 1 .. Len(choices) : [j \in 1 .. Len(choices) |-> choices[j]][i] = c
    BY <2>2 DEF ToSet
  <2>5. IsFiniteSet(ToSet(choices))
    <3> HIDE DEF choices
    <3> QED  BY <2>3, <2>4, FiniteImage
  <2> HIDE DEF choices, options
  <2> QED  BY <1>2, <2>5, FS_Subset
<1>4. Successors(story, key) = {next[c] : c \in options}
  BY DEF Successors
<1>5. ASSUME NEW c \in options PROVE next[c] \in Configurations(story)
  <2>1. Choose(story, key, c) \in States(story)
    <3> HIDE DEF options
    <3> QED  BY <1>1, <1>2, ChoiceTaken
  <2>2. next[c] = ConfigKey(story, Choose(story, key, c))
    OBVIOUS
  <2> HIDE DEF next
  <2> QED  BY <2>1, <2>2, KeyOfState
<1>6. IsFiniteSet(Successors(story, key))
  <2>1. next \in [options -> Successors(story, key)]
        /\ \A t \in Successors(story, key) : \E c \in options : next[c] = t
    <3>1. DOMAIN next = options /\ next = [c \in options |-> next[c]]
      OBVIOUS
    <3> HIDE DEF next, options
    <3> QED  BY <1>4, <3>1
  <2> HIDE DEF next, options
  <2> QED  BY <1>3, <2>1, FiniteImage
<1> HIDE DEF next, options
<1> QED  BY <1>4, <1>5, <1>6

(***************************************************************************)
(* The walk of the validator.                                              *)
(***************************************************************************)
\* What holds of a walk after n rounds: it has found only configurations that a closed set
\* with the first one holds, has gone on from all but the new ones, and unless it is over
\* or cut short has found one in every round.
Rounds(story, initial, n) ==
  {walk \in [seen : SUBSET Configurations(story), new : SUBSET Configurations(story)] :
     /\ initial \in walk.seen /\ walk.new \subseteq walk.seen /\ IsFiniteSet(walk.seen)
     /\ \A key \in walk.seen \ walk.new : Successors(story, key) \subseteq walk.seen
     /\ walk.new = {} \/ Cardinality(walk.seen) >= n + 1 \/ Cardinality(walk.seen) > ConfigCap
     /\ \A closed \in SUBSET Configurations(story) :
          initial \in closed /\ (\A key \in closed : Successors(story, key) \subseteq closed)
            => walk.seen \subseteq closed}

\* One round of the walk keeps what is known after n rounds, for n + 1.
LEMMA RoundTaken ==
  ASSUME NEW story, Sound(story), NEW initial \in Configurations(story),
         NEW n \in Nat, NEW walk \in Rounds(story, initial, n)
  PROVE  Expand(story, walk) \in Rounds(story, initial, n + 1)
<1> DEFINE found == UNION {Successors(story, key) : key \in walk.new}
           new == found \ walk.seen
           seen == walk.seen \cup new
           K == Configurations(story)
<1>1. /\ walk.seen \in SUBSET K /\ walk.new \in SUBSET K
      /\ walk \in [seen : SUBSET K, new : SUBSET K]
      /\ initial \in walk.seen /\ walk.new \subseteq walk.seen /\ IsFiniteSet(walk.seen)
      /\ \A key \in walk.seen \ walk.new : Successors(story, key) \subseteq walk.seen
      /\ walk.new = {} \/ Cardinality(walk.seen) >= n + 1 \/ Cardinality(walk.seen) > ConfigCap
      /\ \A closed \in SUBSET K :
           initial \in closed /\ (\A key \in closed : Successors(story, key) \subseteq closed)
             => walk.seen \subseteq closed
  BY DEF Rounds
<1>2. Cardinality(walk.seen) \in Nat /\ ConfigCap \in Nat
  BY <1>1, FS_CardinalityType, GateAssumption DEF GateAssumption
<1>3. CASE Cardinality(walk.seen) > ConfigCap
  <2>1. Expand(story, walk) = walk
    BY <1>3 DEF Expand
  <2> HIDE DEF K
  <2> QED  BY <1>1, <1>3, <2>1 DEF Rounds, K
<1>4. CASE ~(Cardinality(walk.seen) > ConfigCap)
  <2>1. Expand(story, walk) = [seen |-> seen, new |-> new]
    BY <1>4 DEF Expand
  <2>2. found \in SUBSET K
    BY <1>1, FiniteSuccessors
  <2>3. \A key \in walk.new : Successors(story, key) \subseteq found
    OBVIOUS
  <2>4. IsFiniteSet(found)
    <3> DEFINE all == {Successors(story, key) : key \in walk.new}
               f == [key \in walk.new |-> Successors(story, key)]
    <3>1. IsFiniteSet(walk.new)
      BY <1>1, FS_Subset
    <3>2. IsFiniteSet(all)
      <4>1. f \in [walk.new -> all] /\ \A t \in all : \E key \in walk.new : f[key] = t
        OBVIOUS
      <4> HIDE DEF all, f
      <4> QED  BY <3>1, <4>1, FiniteImage
    <3>3. \A T \in all : IsFiniteSet(T)
      BY <1>1, FiniteSuccessors
    <3>4. found = UNION all
      OBVIOUS
    <3> HIDE DEF all, found
    <3> QED  BY <3>2, <3>3, <3>4, FS_UNION
  <2> HIDE DEF found
  <2>5. IsFiniteSet(new) /\ IsFiniteSet(seen)
    BY <1>1, <2>4, FS_Difference, FS_Union
  <2>6. \A key \in seen \ new : Successors(story, key) \subseteq seen
    <3> SUFFICES ASSUME NEW key \in walk.seen PROVE Successors(story, key) \subseteq seen
      OBVIOUS
    <3>1. CASE key \in walk.new
      BY <2>3, <3>1
    <3>2. CASE key \notin walk.new
      BY <1>1, <3>2
    <3> QED  BY <3>1, <3>2
  <2>7. new = {} \/ Cardinality(seen) >= (n + 1) + 1
    <3> SUFFICES ASSUME new /= {} PROVE Cardinality(seen) >= (n + 1) + 1
      OBVIOUS
    <3>1. walk.new /= {}
      <4>1. walk.new = {} => found = {}
        BY DEF found
      <4> QED  BY <4>1
    <3>2. Cardinality(walk.seen) >= n + 1
      BY <1>1, <1>4, <3>1
    <3>3. PICK key \in new : TRUE
      OBVIOUS
    <3>4. Cardinality(walk.seen \cup {key}) = Cardinality(walk.seen) + 1 /\ IsFiniteSet(walk.seen \cup {key})
      BY <1>1, <3>3, FS_AddElement
    <3>5. walk.seen \cup {key} \in SUBSET seen
      BY <3>3
    <3>6. Cardinality(walk.seen \cup {key}) <= Cardinality(seen)
      <4> HIDE DEF seen
      <4> QED  BY <2>5, <3>5, FS_Subset
    <3>7. Cardinality(seen) \in Nat
      BY <2>5, FS_CardinalityType
    <3> HIDE DEF seen, new
    <3> QED  BY <1>2, <3>2, <3>4, <3>6, <3>7
  <2>8. ASSUME NEW closed \in SUBSET K, initial \in closed,
               \A key \in closed : Successors(story, key) \subseteq closed
        PROVE  seen \subseteq closed
    <3>1. walk.seen \subseteq closed
      BY <1>1, <2>8
    <3>2. found \subseteq closed
      BY <1>1, <2>8, <3>1 DEF found
    <3> QED  BY <3>1, <3>2
  <2>9. seen \in SUBSET K /\ new \in SUBSET K /\ initial \in seen /\ new \subseteq seen
    BY <1>1, <2>2
  <2> HIDE DEF seen, new, K
  <2>10. [seen |-> seen, new |-> new] \in Rounds(story, initial, n + 1)
    BY <2>5, <2>6, <2>7, <2>8, <2>9 DEF Rounds, K
  <2> QED  BY <2>1, <2>10
<1> QED  BY <1>3, <1>4

\* A walk goes on by its rounds.
Walked(story, initial) ==
  {w \in [0 .. ConfigCap -> [seen : SUBSET Configurations(story), new : SUBSET Configurations(story)]] :
     /\ w[0].seen = {initial}
     /\ \A n \in 1 .. ConfigCap : w[n] = Expand(story, w[n - 1])
     /\ \A n \in 0 .. ConfigCap : w[n] \in Rounds(story, initial, n)}

\* The recursive function of walk_configurations is a walk by rounds.
LEMMA WalkInSteps ==
  ASSUME NEW story, Sound(story), NEW carried, Carries(carried), NEW entry, AtMostOne(entry)
  PROVE  \E w \in Walked(story, ConfigKey(story, StartContinuation(story, carried, entry))) :
           Walk(story, carried, entry) = w[ConfigCap].seen
<1> DEFINE initial == ConfigKey(story, StartContinuation(story, carried, entry))
           K == Configurations(story)
           S == [seen : SUBSET K, new : SUBSET K]
           first == [seen |-> {initial}, new |-> {initial}]
           step == [i \in 1 .. ConfigCap |-> [walk \in S |-> Expand(story, walk)]]
           walked == CHOOSE f : f = [n \in 0 .. ConfigCap |->
                       IF n = 0 THEN [seen |-> {initial}, new |-> {initial}] ELSE Expand(story, f[n - 1])]
<1>1. ConfigCap \in Nat
  BY GateAssumption DEF GateAssumption
<1>2. initial \in K
  BY ReadingStarted, KeyOfState
<1>3. ASSUME NEW walk \in S PROVE Expand(story, walk) \in S
  <2> DEFINE new == (UNION {Successors(story, key) : key \in walk.new}) \ walk.seen
  <2>1. \A key \in walk.new : Successors(story, key) \subseteq K
    BY FiniteSuccessors
  <2>2. new \in SUBSET K
    BY <2>1
  <2>3. Expand(story, walk) = walk \/ Expand(story, walk) = [seen |-> walk.seen \cup new, new |-> new]
    BY DEF Expand
  <2> HIDE DEF new, K
  <2> QED  BY <2>2, <2>3
<1>4. step \in [1 .. ConfigCap -> [S -> S]] /\ first \in S
  <2>1. first \in S
    BY <1>2
  <2> HIDE DEF S, first
  <2> QED  BY <1>3, <2>1
<1>5. PICK g \in [0 .. ConfigCap -> S] :
        g[0] = first /\ \A i \in 1 .. ConfigCap : g[i] = step[i][g[i - 1]]
  <2> HIDE DEF step, S, first
  <2>1. Iterates(S, ConfigCap, first, step) /= {}
    BY <1>1, <1>4, Recursion
  <2> QED  BY <2>1 DEF Iterates
<1>6. g = [n \in 0 .. ConfigCap |->
            IF n = 0 THEN [seen |-> {initial}, new |-> {initial}] ELSE Expand(story, g[n - 1])]
  <2>1. g = [n \in 0 .. ConfigCap |-> g[n]]
    BY <1>5
  <2>2. \A n \in 0 .. ConfigCap :
          g[n] = IF n = 0 THEN [seen |-> {initial}, new |-> {initial}] ELSE Expand(story, g[n - 1])
    <3> SUFFICES ASSUME NEW n \in 0 .. ConfigCap, n /= 0 PROVE g[n] = Expand(story, g[n - 1])
      BY <1>5
    <3>1. n \in 1 .. ConfigCap /\ n - 1 \in 0 .. ConfigCap
      BY <1>1
    <3> HIDE DEF S
    <3>2. g[n - 1] \in S
      BY <3>1
    <3>3. step[n] = [walk \in S |-> Expand(story, walk)]
      BY <3>1
    <3> HIDE DEF step
    <3> QED  BY <1>5, <3>1, <3>2, <3>3
  <2> HIDE DEF initial, S
  <2> QED  BY <2>1, <2>2
<1>7. walked = [n \in 0 .. ConfigCap |->
            IF n = 0 THEN [seen |-> {initial}, new |-> {initial}] ELSE Expand(story, walked[n - 1])]
  <2> HIDE DEF initial
  <2> QED  BY <1>6, Zenon
<1>8. Walk(story, carried, entry) = walked[ConfigCap].seen
  BY Zenon DEF Walk
<1> DEFINE T == {n \in 0 .. ConfigCap : walked[n] \in Rounds(story, initial, n)}
<1>9. 0 .. ConfigCap \subseteq T
  <2>1. 0 \in T
    <3>1. walked[0] = first /\ 0 \in 0 .. ConfigCap
      <4> HIDE DEF walked, initial
      <4> QED  BY <1>1, <1>7
    <3>2. first.seen = {initial} /\ first.new = {initial} /\ first \in S
      BY <1>4
    <3>3. IsFiniteSet({initial}) /\ Cardinality({initial}) = 1
      BY FS_Singleton
    <3> HIDE DEF first, initial, walked
    <3>4. first \in Rounds(story, initial, 0)
      <4>1. /\ initial \in first.seen /\ first.new \subseteq first.seen /\ IsFiniteSet(first.seen)
            /\ first.seen \ first.new = {} /\ Cardinality(first.seen) >= 0 + 1
        BY <3>2, <3>3
      <4>2. \A closed : initial \in closed => first.seen \subseteq closed
        BY <3>2
      <4>3. first \in [seen : SUBSET Configurations(story), new : SUBSET Configurations(story)]
        BY <3>2
      <4> HIDE DEF S, K
      <4> QED  BY <4>1, <4>2, <4>3 DEF Rounds
    <3> QED  BY <3>1, <3>4
  <2>2. ASSUME NEW n \in 1 .. ConfigCap, n - 1 \in T PROVE n \in T
    <3>1. n \in 0 .. ConfigCap /\ n /= 0 /\ n - 1 \in Nat /\ (n - 1) + 1 = n
      BY <1>1
    <3>2. walked[n] = Expand(story, walked[n - 1])
      <4> HIDE DEF walked, initial
      <4> QED  BY <1>7, <3>1
    <3>3. walked[n - 1] \in Rounds(story, initial, n - 1)
      BY <2>2
    <3> HIDE DEF walked, initial
    <3>4. Expand(story, walked[n - 1]) \in Rounds(story, initial, (n - 1) + 1)
      BY <1>2, <3>1, <3>3, RoundTaken
    <3>5. walked[n] \in Rounds(story, initial, n)
      BY <3>1, <3>2, <3>4
    <3> QED  BY <3>1, <3>5
  <2> HIDE DEF T
  <2> QED  BY <1>1, <2>1, <2>2, Induction
<1>10. \A n \in 0 .. ConfigCap : walked[n] \in Rounds(story, initial, n)
  <2> HIDE DEF walked, initial
  <2> QED  BY <1>9
<1>11. walked \in [0 .. ConfigCap -> S] /\ walked[0].seen = {initial}
  <2>1. walked = [n \in 0 .. ConfigCap |-> walked[n]]
    <3> HIDE DEF walked
    <3> QED  BY <1>7
  <2>2. \A n \in 0 .. ConfigCap : walked[n] \in S
    <3> HIDE DEF walked, initial
    <3> QED  BY <1>10 DEF Rounds
  <2>3. walked[0] = first
    <3>1. 0 \in 0 .. ConfigCap
      BY <1>1
    <3> HIDE DEF walked, initial
    <3> QED  BY <1>7, <3>1
  <2>4. first.seen = {initial}
    OBVIOUS
  <2> HIDE DEF walked, S, initial, first
  <2>5. walked \in [0 .. ConfigCap -> S]
    BY <2>1, <2>2
  <2> QED  BY <2>3, <2>4, <2>5
<1>12. ASSUME NEW n \in 1 .. ConfigCap PROVE walked[n] = Expand(story, walked[n - 1])
  <2>1. n \in 0 .. ConfigCap /\ n /= 0
    BY <1>1
  <2> HIDE DEF walked, initial
  <2> QED  BY <1>7, <2>1
<1> HIDE DEF walked
<1>13. walked \in Walked(story, initial)
  <2> HIDE DEF initial
  <2> QED  BY <1>10, <1>11, <1>12 DEF Walked
<1> QED  BY <1>8, <1>13

\* What the walk holds: where it began, and unless it was cut short all that follows; and
\* nothing besides what any closed set with its beginning holds.
LEMMA WalkDone ==
  ASSUME NEW story, Sound(story), NEW carried, Carries(carried), NEW entry, AtMostOne(entry)
  PROVE  /\ Walk(story, carried, entry) \in SUBSET Configurations(story)
         /\ IsFiniteSet(Walk(story, carried, entry))
         /\ ConfigKey(story, StartContinuation(story, carried, entry)) \in Walk(story, carried, entry)
         /\ ~Capped(Walk(story, carried, entry)) =>
              \A key \in Walk(story, carried, entry) :
                Successors(story, key) \subseteq Walk(story, carried, entry)
         /\ \A closed \in SUBSET Configurations(story) :
              /\ ConfigKey(story, StartContinuation(story, carried, entry)) \in closed
              /\ \A key \in closed : Successors(story, key) \subseteq closed
              => Walk(story, carried, entry) \subseteq closed
<1> DEFINE initial == ConfigKey(story, StartContinuation(story, carried, entry))
           K == Configurations(story)
<1>1. ConfigCap \in Nat /\ ConfigCap \in 0 .. ConfigCap
  BY GateAssumption DEF GateAssumption
<1>2. PICK done \in Rounds(story, initial, ConfigCap) : Walk(story, carried, entry) = done.seen
  <2> HIDE DEF initial
  <2>1. PICK w \in Walked(story, initial) : Walk(story, carried, entry) = w[ConfigCap].seen
    BY WalkInSteps DEF initial
  <2> QED  BY <1>1, <2>1 DEF Walked
<1>3. /\ done.seen \in SUBSET K /\ initial \in done.seen /\ IsFiniteSet(done.seen)
      /\ \A key \in done.seen \ done.new : Successors(story, key) \subseteq done.seen
      /\ done.new = {} \/ Cardinality(done.seen) >= ConfigCap + 1 \/ Cardinality(done.seen) > ConfigCap
      /\ \A closed \in SUBSET K :
           initial \in closed /\ (\A key \in closed : Successors(story, key) \subseteq closed)
             => done.seen \subseteq closed
  <2> HIDE DEF initial
  <2> QED  BY <1>2 DEF Rounds
<1>4. ~Capped(done.seen) => done.new = {}
  <2>1. Cardinality(done.seen) \in Nat
    BY <1>3, FS_CardinalityType
  <2> QED  BY <1>1, <1>3, <2>1 DEF Capped
<1> HIDE DEF initial
<1>5. ~Capped(done.seen) => \A key \in done.seen : Successors(story, key) \subseteq done.seen
  BY <1>3, <1>4
<1> QED  BY <1>2, <1>3, <1>5 DEF initial

(***************************************************************************)
(* Going back.  The runs of the replay stay in any set of states that      *)
(* holds the first one and what visible choices lead to, and their states  *)
(* have passed one node, two nodes, and so on.                             *)
(***************************************************************************)
Closed(story, G) == \A s \in G : \A c \in VisibleChoices(story, s) : Choose(story, s, c) \in G

\* Runs of the replay whose states are all in G.
RunsIn(G) == {run \in [picks : Seq(Nat), states : Seq(G)] : run.states /= << >>}

\* Runs of n states, the k-th of which has passed k nodes.
LongRuns(G, n) ==
  {run \in RunsIn(G) : Len(run.states) = n /\ \A k \in 1 .. n : Len(run.states[k].path) = k}

\* A step of the replay adds a state of G to a run.
LEMMA StepTaken ==
  ASSUME NEW story, Sound(story), NEW G \in SUBSET States(story), Closed(story, G),
         NEW n \in Nat, NEW run \in RunsIn(G), NEW target, NEW next \in Steps(story, run, target)
  PROVE  next \in RunsIn(G) /\ (run \in LongRuns(G, n) => next \in LongRuns(G, n + 1))
<1> DEFINE s == run.states[Len(run.states)]
           choices == story.nodes[s.node].choices
<1>1. /\ run.states \in Seq(G) /\ run.picks \in Seq(Nat) /\ run.states /= << >>
      /\ Len(run.states) \in Nat \ {0}
  BY DEF RunsIn
<1>2. s \in G /\ s \in States(story) /\ s.path \in Seq(Nodes(story)) /\ s.node \in Nodes(story)
  <2>1. s \in G
    BY <1>1
  <2> HIDE DEF s
  <2> QED  BY <2>1 DEF States
<1>3. PICK i \in DOMAIN choices :
        /\ isVisible(s, choices[i]) /\ choices[i].target = target
        /\ next = [picks |-> Append(run.picks, i), states |-> Append(run.states, choose(story, s, choices[i]))]
  BY DEF Steps
<1> DEFINE c == choices[i]
           t == choose(story, s, c)
<1>4. c \in ToSet(choices) /\ i \in Nat
  <2>1. choices \in Seq(ChoiceType)
    BY <1>2 DEF Sound, IsDocument, PassageType, Nodes
  <2> HIDE DEF choices
  <2>2. i \in DOMAIN choices
    BY <1>3
  <2>3. i \in Nat
    BY <2>1, <2>2
  <2>4. choices[i] \in ToSet(choices)
    BY <2>2, Zenon DEF ToSet
  <2> QED  BY <2>3, <2>4
<1>5. t \in G /\ t.path = Append(s.path, c.target)
  <2> HIDE DEF s, c
  <2>1. t = Choose(story, s, c) /\ c \in VisibleChoices(story, s)
    BY <1>2, <1>3, <1>4, ChoiceTaken DEF VisibleChoices, c
  <2>2. Choose(story, s, c).path = Append(s.path, c.target)
    BY DEF Choose
  <2> QED  BY <1>2, <2>1, <2>2 DEF Closed
<1> HIDE DEF t, c
<1>6. next.picks = Append(run.picks, i) /\ next.states = Append(run.states, t)
      /\ next = [picks |-> Append(run.picks, i), states |-> Append(run.states, t)]
  <2> DEFINE picks == Append(run.picks, i)
             states == Append(run.states, t)
  <2>1. next = [picks |-> picks, states |-> states]
    BY <1>3 DEF t, c
  <2> HIDE DEF picks, states, s, choices
  <2> QED  BY <2>1 DEF picks, states
<1>7. Append(run.states, t) \in Seq(G) /\ Append(run.states, t) /= << >> /\ Append(run.picks, i) \in Seq(Nat)
  <2> HIDE DEF s, choices
  <2> QED  BY <1>1, <1>4, <1>5, AppendProperties
<1>8. next \in RunsIn(G)
  BY <1>6, <1>7 DEF RunsIn
<1>9. ASSUME run \in LongRuns(G, n) PROVE next \in LongRuns(G, n + 1)
  <2>1. Len(run.states) = n /\ \A k \in 1 .. n : Len(run.states[k].path) = k
    BY <1>9 DEF LongRuns
  <2>2. Len(next.states) = n + 1
    BY <1>1, <1>5, <1>6, <2>1
  <2>3. ASSUME NEW k \in 1 .. n + 1 PROVE Len(next.states[k].path) = k
    <3>1. CASE k = n + 1
      <4>1. next.states[k] = t
        BY <1>1, <1>5, <1>6, <2>1, <3>1
      <4>2. Len(s.path) = n
        BY <1>1, <2>1
      <4>3. Len(t.path) = Len(s.path) + 1
        BY <1>2, <1>5
      <4> QED  BY <3>1, <4>1, <4>2, <4>3
    <3>2. CASE k /= n + 1
      <4>1. next.states[k] = run.states[k] /\ k \in 1 .. n
        BY <1>1, <1>5, <1>6, <2>1, <3>2
      <4> QED  BY <2>1, <4>1
    <3> QED  BY <3>1, <3>2
  <2> QED  BY <1>8, <2>2, <2>3 DEF LongRuns
<1> QED  BY <1>8, <1>9

\* Every run the search returns stays in G and has the length of the path.
LEMMA RunsReplayed ==
  ASSUME NEW story, Sound(story), NEW G \in SUBSET States(story), Closed(story, G),
         NEW live, NEW taken \in Nat, Len(live.path) = taken + 1,
         NEW initial \in G, Len(initial.path) = 1
  PROVE  searchPathReplay(story, live, initial) \subseteq LongRuns(G, taken + 1)
<1> DEFINE S == SUBSET RunsIn(G)
           first == {[picks |-> << >>, states |-> <<initial>>]}
           follow(n, R) == UNION {Steps(story, run, live.path[n + 1]) : run \in R}
           step == [n \in 1 .. taken |-> [R \in S |-> follow(n, R)]]
           runs == CHOOSE f : f = [n \in 0 .. taken |->
                     IF n = 0 THEN {[picks |-> << >>, states |-> <<initial>>]}
                     ELSE UNION {Steps(story, run, live.path[n + 1]) : run \in f[n - 1]}]
<1>1. first \in S /\ first \subseteq LongRuns(G, 1)
  <2> DEFINE run == [picks |-> << >>, states |-> <<initial>>]
  <2>1. <<initial>> \in Seq(G) /\ << >> \in Seq(Nat) /\ <<initial>> /= << >>
        /\ Len(<<initial>>) = 1 /\ <<initial>>[1] = initial
    OBVIOUS
  <2>2. run \in RunsIn(G)
    BY <2>1 DEF RunsIn
  <2>3. run \in LongRuns(G, 1)
    BY <2>1, <2>2 DEF LongRuns
  <2> QED  BY <2>2, <2>3
<1>2. ASSUME NEW n \in 1 .. taken, NEW R \in S PROVE follow(n, R) \in S
  <2>1. ASSUME NEW run \in R, NEW next \in Steps(story, run, live.path[n + 1]) PROVE next \in RunsIn(G)
    BY <2>1, StepTaken
  <2> QED  BY <2>1
<1>3. step \in [1 .. taken -> [S -> S]]
  <2> HIDE DEF follow, S
  <2>1. \A n \in 1 .. taken : [R \in S |-> follow(n, R)] \in [S -> S]
    BY <1>2
  <2> QED  BY <2>1
<1>4. PICK g \in [0 .. taken -> S] : g[0] = first /\ \A n \in 1 .. taken : g[n] = step[n][g[n - 1]]
  <2> HIDE DEF step, S, first
  <2>1. Iterates(S, taken, first, step) /= {}
    BY <1>1, <1>3, Recursion
  <2> QED  BY <2>1 DEF Iterates
<1>5. g = [n \in 0 .. taken |->
            IF n = 0 THEN {[picks |-> << >>, states |-> <<initial>>]}
            ELSE UNION {Steps(story, run, live.path[n + 1]) : run \in g[n - 1]}]
  <2>1. g = [n \in 0 .. taken |-> g[n]]
    BY <1>4
  <2>2. \A n \in 0 .. taken :
          g[n] = IF n = 0 THEN {[picks |-> << >>, states |-> <<initial>>]}
                 ELSE UNION {Steps(story, run, live.path[n + 1]) : run \in g[n - 1]}
    <3> SUFFICES ASSUME NEW n \in 0 .. taken, n /= 0 PROVE g[n] = follow(n, g[n - 1])
      BY <1>4
    <3>1. n \in 1 .. taken /\ n - 1 \in 0 .. taken
      OBVIOUS
    <3> HIDE DEF S, follow
    <3>2. g[n - 1] \in S
      BY <3>1
    <3>3. step[n] = [R \in S |-> follow(n, R)]
      BY <3>1
    <3> HIDE DEF step
    <3> QED  BY <1>4, <3>1, <3>2, <3>3
  <2> QED  BY <2>1, <2>2
<1>6. runs = [n \in 0 .. taken |->
            IF n = 0 THEN {[picks |-> << >>, states |-> <<initial>>]}
            ELSE UNION {Steps(story, run, live.path[n + 1]) : run \in runs[n - 1]}]
  BY <1>5, Zenon
<1>7. searchPathReplay(story, live, initial) = runs[taken]
  <2>1. Len(live.path) - 1 = taken
    OBVIOUS
  <2> QED  BY <2>1, Zenon DEF searchPathReplay
<1> DEFINE T == {n \in 0 .. taken : runs[n] \subseteq LongRuns(G, n + 1)}
<1>8. 0 .. taken \subseteq T
  <2>1. 0 \in T
    <3>1. runs[0] = first
      <4> HIDE DEF runs
      <4> QED  BY <1>6
    <3> HIDE DEF runs, first
    <3> QED  BY <1>1, <3>1
  <2>2. ASSUME NEW n \in 1 .. taken, n - 1 \in T PROVE n \in T
    <3>1. n \in 0 .. taken /\ n /= 0 /\ n \in Nat /\ (n - 1) + 1 = n
      OBVIOUS
    <3>2. runs[n - 1] \subseteq LongRuns(G, n)
      BY <2>2, <3>1
    <3>3. runs[n] = follow(n, runs[n - 1])
      <4> HIDE DEF runs
      <4> QED  BY <1>6, <3>1
    <3> HIDE DEF runs
    <3>4. ASSUME NEW run \in runs[n - 1], NEW next \in Steps(story, run, live.path[n + 1])
          PROVE  next \in LongRuns(G, n + 1)
      <4>1. run \in LongRuns(G, n) /\ run \in RunsIn(G)
        BY <3>2 DEF LongRuns
      <4> QED  BY <3>1, <4>1, StepTaken
    <3>5. runs[n] \subseteq LongRuns(G, n + 1)
      BY <3>3, <3>4
    <3> QED  BY <3>1, <3>5
  <2> HIDE DEF T
  <2> QED  BY <2>1, <2>2, Induction
<1>9. runs[taken] \subseteq LongRuns(G, taken + 1)
  <2>1. taken \in 0 .. taken
    OBVIOUS
  <2> HIDE DEF runs
  <2> QED  BY <1>8, <2>1
<1> HIDE DEF runs
<1> QED  BY <1>7, <1>9

\* Going back leads to a state of G that has passed fewer nodes.
LEMMA WentBack ==
  ASSUME NEW story, Sound(story), NEW G \in SUBSET States(story), Closed(story, G),
         NEW seed, Carries(seed), startContinuation(story, seed, {}) \in G,
         NEW live, live.path \in Seq(Nodes(story)), NEW s \in back(story, live, seed)
  PROVE  s \in G /\ Len(s.path) \in 1 .. Len(live.path) - 1
<1> DEFINE initial == startContinuation(story, seed, {})
           taken == Len(live.path) - 1
<1>1. Len(live.path) > 1 /\ taken \in Nat /\ Len(live.path) = taken + 1
  BY DEF back
<1>2. PICK run \in replayRecordedPath(story, live, seed) : s = run.states[Len(run.states) - 1]
  BY DEF back
<1>3. run \in searchPathReplay(story, live, initial)
  BY DEF replayRecordedPath
<1>4. Len(initial.path) = 1
  <2>1. AtMostOne({})
    BY NothingCarried
  <2>2. initial.path = <<initial.node>>
    <3>1. initial = StartContinuation(story, seed, {})
      BY <2>1, ReadingStarted
    <3> HIDE DEF initial
    <3> QED  BY <2>1, <3>1, ReadingStarted
  <2> HIDE DEF initial
  <2> QED  BY <2>2
<1>5. run \in LongRuns(G, taken + 1)
  <2> HIDE DEF initial, taken
  <2>1. initial \in G
    BY DEF initial
  <2>2. searchPathReplay(story, live, initial) \subseteq LongRuns(G, taken + 1)
    BY <1>1, <1>4, <2>1, RunsReplayed
  <2> QED  BY <1>3, <2>2
<1>6. /\ run.states \in Seq(G) /\ Len(run.states) = taken + 1
      /\ \A k \in 1 .. taken + 1 : Len(run.states[k].path) = k
  BY <1>5 DEF LongRuns, RunsIn
<1>7. Len(run.states) - 1 = taken /\ taken \in 1 .. taken + 1 /\ taken \in 1 .. Len(run.states)
  BY <1>1, <1>6
<1>8. s \in G
  BY <1>2, <1>6, <1>7
<1>9. Len(s.path) = taken
  BY <1>2, <1>6, <1>7
<1> QED  BY <1>1, <1>7, <1>8, <1>9

(***************************************************************************)
(* Where a reading that began so can be: its path ends where it is, and    *)
(* its configuration is one of the walk its start was judged by or of a    *)
(* fresh read, unless one of them was cut short.                           *)
(***************************************************************************)
\* The walk the start of a reading was judged by, and the one of a fresh read.
WalkOf(story, o) == Walk(story, o.carried, o.entry)
Fresh(story) == Walk(story, NoVars, {})

\* The states a reading that began so can be in.
Reached(story, o) ==
  {s \in States(story) :
     /\ s.path /= << >> /\ s.node = s.path[Len(s.path)]
     /\ ~Capped(WalkOf(story, o)) /\ ~Capped(Fresh(story)) =>
          ConfigKey(story, s) \in WalkOf(story, o) \cup Fresh(story)}

\* A node with choices is no ending.
LEMMA OnlyInside ==
  ASSUME NEW story, Sound(story), NEW n \in Nodes(story), NEW c \in ToSet(story.nodes[n].choices)
  PROVE  ~IsEnding(story.nodes[n])
<1>1. story.nodes[n].choices \in Seq(ChoiceType)
  BY DEF Sound, IsDocument, PassageType, Nodes
<1>2. NodeOk(story.nodes[n])
  BY DEF Sound, SchemaOk, Nodes
<1>3. story.nodes[n].choices /= << >>
  BY <1>1 DEF ToSet
<1> QED  BY <1>2, <1>3 DEF NodeOk

\* A visible choice leads from a configuration of a walk to the next.
LEMMA VisibleIsSuccessor ==
  ASSUME NEW story, Sound(story), NEW s \in States(story), NEW c \in VisibleChoices(story, s)
  PROVE  /\ ConfigKey(story, Choose(story, s, c)) \in Successors(story, ConfigKey(story, s))
         /\ c \in Options(story, s) /\ c \in ToSet(story.nodes[s.node].choices)
<1>1. c \in ToSet(story.nodes[s.node].choices) /\ s.node \in Nodes(story)
  BY DEF VisibleChoices, States
<1>2. c \in Options(story, s)
  BY <1>1, OnlyInside DEF Options
<1>3. c \in Options(story, ConfigKey(story, s))
  BY <1>2, KeyFollows
<1>4. ConfigKey(story, Choose(story, ConfigKey(story, s), c)) = ConfigKey(story, Choose(story, s, c))
  BY <1>1, KeyFollows
<1> QED  BY <1>1, <1>2, <1>3, <1>4 DEF Successors

\* Choosing stays among the states that can be reached.
LEMMA ReachedClosed ==
  ASSUME NEW story, Sound(story), NEW o, Carries(o.carried), AtMostOne(o.entry)
  PROVE  Closed(story, Reached(story, o))
<1> SUFFICES ASSUME NEW s \in Reached(story, o), NEW c \in VisibleChoices(story, s)
             PROVE  Choose(story, s, c) \in Reached(story, o)
  BY DEF Closed
<1> DEFINE t == Choose(story, s, c)
<1>1. s \in States(story) /\ s.path \in Seq(Nodes(story))
  BY DEF Reached, States
<1>2. /\ ConfigKey(story, t) \in Successors(story, ConfigKey(story, s))
      /\ c \in ToSet(story.nodes[s.node].choices)
  BY <1>1, VisibleIsSuccessor
<1>3. t \in States(story)
  BY <1>1, <1>2, ChoiceTaken
<1>4. t.path /= << >> /\ t.node = t.path[Len(t.path)]
  <2>1. t.path = Append(s.path, c.target) /\ t.node = c.target
    BY DEF Choose
  <2> HIDE DEF t
  <2> QED  BY <1>1, <2>1
<1>5. ASSUME ~Capped(WalkOf(story, o)), ~Capped(Fresh(story))
      PROVE  ConfigKey(story, t) \in WalkOf(story, o) \cup Fresh(story)
  <2>1. ConfigKey(story, s) \in WalkOf(story, o) \cup Fresh(story)
    BY <1>5 DEF Reached
  <2>2. \A key \in WalkOf(story, o) : Successors(story, key) \subseteq WalkOf(story, o)
    BY <1>5, WalkDone DEF WalkOf
  <2>3. \A key \in Fresh(story) : Successors(story, key) \subseteq Fresh(story)
    BY <1>5, NothingCarried, WalkDone DEF Fresh
  <2> HIDE DEF t
  <2> QED  BY <1>2, <2>1, <2>2, <2>3
<1> HIDE DEF t
<1>6. t \in Reached(story, o)
  BY <1>3, <1>4, <1>5 DEF Reached
<1> QED  BY <1>6 DEF t

\* The start of a reading is the first configuration of its walk.
LEMMA StartIsWalked ==
  ASSUME NEW story, Sound(story), NEW carried, Carries(carried), NEW entry, AtMostOne(entry),
         NEW s, s = startContinuation(story, carried, entry)
  PROVE  /\ s \in States(story) /\ ConfigKey(story, s) \in Walk(story, carried, entry)
         /\ Len(s.path) = 1 /\ s.path /= << >> /\ s.node = s.path[Len(s.path)]
<1>1. s = StartContinuation(story, carried, entry)
  BY ReadingStarted
<1>2. s \in States(story) /\ s.path = <<s.node>>
  BY <1>1, ReadingStarted
<1>3. ConfigKey(story, s) \in Walk(story, carried, entry)
  BY <1>1, WalkDone
<1> QED  BY <1>2, <1>3

\* A reading that begins as o says.
LEMMA OwnStart ==
  ASSUME NEW story, Sound(story), NEW o, Carries(o.carried), AtMostOne(o.entry)
  PROVE  /\ startContinuation(story, o.carried, o.entry) \in Reached(story, o)
         /\ Len(startContinuation(story, o.carried, o.entry).path) = 1
<1> DEFINE s == startContinuation(story, o.carried, o.entry)
<1> HIDE DEF s
<1>1. /\ s \in States(story) /\ ConfigKey(story, s) \in WalkOf(story, o)
      /\ Len(s.path) = 1 /\ s.path /= << >> /\ s.node = s.path[Len(s.path)]
  BY StartIsWalked DEF WalkOf, s
<1>2. s \in Reached(story, o)
  BY <1>1 DEF Reached
<1> QED  BY <1>1, <1>2 DEF s

\* A reading that begins afresh.
LEMMA FreshStart ==
  ASSUME NEW story, Sound(story), NEW o, Carries(o.carried), AtMostOne(o.entry)
  PROVE  /\ startContinuation(story, NoVars, {}) \in Reached(story, o)
         /\ Len(startContinuation(story, NoVars, {}).path) = 1
<1> DEFINE s == startContinuation(story, NoVars, {})
<1> HIDE DEF s
<1>1. /\ s \in States(story) /\ ConfigKey(story, s) \in Fresh(story)
      /\ Len(s.path) = 1 /\ s.path /= << >> /\ s.node = s.path[Len(s.path)]
  BY NothingCarried, StartIsWalked DEF Fresh, s
<1>2. s \in Reached(story, o)
  BY <1>1 DEF Reached
<1> QED  BY <1>1, <1>2 DEF s

\* What the gate lets through is sound.
LEMMA GateIsSound ==
  ASSUME NEW story, IsDocument(story), RunGate(story) PROVE Sound(story)
<1>1. ValidateLayer1(story) = {}
  BY DEF RunGate
<1>2. CheckReferences(story) = {}
  BY <1>1 DEF ValidateLayer1
<1>3. CheckLogic(story) = {}
  BY <1>1, <1>2 DEF ValidateLayer1
<1>4. \A n \in Nodes(story) : Targets(story, n) \subseteq Nodes(story)
  BY <1>2 DEF CheckReferences
<1>5. SchemaOk(story)
  BY <1>3 DEF CheckLogic
<1> QED  BY <1>4, <1>5 DEF Sound

\* The books of the chain are documents, and those the gate lets through are sound.
LEMMA BooksAreDocuments ==
  ASSUME chain \in DOMAIN Library
  PROVE  /\ Books \in Seq(ToSet(Books)) /\ Len(Books) \in Nat
         /\ \A n \in 1 .. Len(Books) : IsDocument(Books[n]) /\ (Publishable(n) => Sound(Books[n]))
<1>1. Books \in Seq(ToSet(Books)) /\ \A i \in DOMAIN Books : IsDocument(Books[i])
  BY ReadingAssumption DEF ReadingAssumption, Books
<1>2. Len(Books) \in Nat /\ DOMAIN Books = 1 .. Len(Books)
  BY <1>1
<1>3. ASSUME NEW n \in 1 .. Len(Books), Publishable(n) PROVE Sound(Books[n])
  BY <1>1, <1>2, <1>3, GateIsSound DEF Publishable
<1> QED  BY <1>1, <1>2, <1>3

(***************************************************************************)
(* From one book of a series to the next: the chain the series rules judged *)
(* is the one the child reads.                                             *)
(***************************************************************************)
\* The chain the series rules judge when a book is published.
Prefix(n) == SubSeq(Books, 1, n)

\* The chain that was judged with a book is the books up to it.
LEMMA PrefixIsBooks ==
  ASSUME chain \in DOMAIN Library, NEW n \in 1 .. Len(Books)
  PROVE  /\ Len(Prefix(n)) = n /\ DOMAIN Prefix(n) = 1 .. n
         /\ \A i \in 1 .. n : Prefix(n)[i] = Books[i]
<1>1. Books \in Seq(ToSet(Books)) /\ Len(Books) \in Nat
  BY BooksAreDocuments
<1>2. 1 \in 1 .. Len(Books) + 1 /\ n \in 1 - 1 .. Len(Books)
  BY <1>1
<1>3. Prefix(n) \in Seq(ToSet(Books)) /\ Len(Prefix(n)) = n /\ \A i \in 1 .. n : Prefix(n)[i] = Books[i]
  <2> DEFINE S == ToSet(Books)
             s == Books
  <2> HIDE DEF S, s
  <2>1. s \in Seq(S) /\ n \in 1 .. Len(s)
    BY <1>1 DEF S, s
  <2>2. /\ SubSeq(s, 1, n) \in Seq(S) /\ Len(SubSeq(s, 1, n)) = n
        /\ \A i \in 1 .. n : SubSeq(s, 1, n)[i] = s[i]
    BY <2>1
  <2> QED  BY <2>2 DEF S, s, Prefix
<1> QED  BY <1>3

\* A book has at most one series block.
LEMMA BlockIs ==
  ASSUME NEW story, IsDocument(story), NEW series \in story.series
  PROVE  Block(story) = series /\ AtMostOne(series.entry)
<1>1. AtMostOne(story.series) /\ \A other \in story.series : AtMostOne(other.entry)
  BY DEF IsDocument
<1> QED  BY <1>1 DEF AtMostOne, Block

\* The books of a published chain have their indexes in order.
LEMMA IndexesInOrder ==
  ASSUME chain \in DOMAIN Library, NEW n \in 1 .. Len(Books),
         \A k \in 1 .. n : Publishable(k), Books[n].series /= {}
  PROVE  /\ ValidateSeries(Prefix(n))
         /\ \A i \in 1 .. n : Books[i].series /= {} /\ Block(Books[i]).book_index = i
         /\ \A i \in 1 .. n : BookAt(Prefix(n), i) = Books[i]
<1>1. n \in Nat /\ Len(Books) \in Nat
  BY BooksAreDocuments
<1>2. ValidateSeries(Prefix(n))
  BY DEF Publishable, Prefix
<1>3. \A i \in 1 .. n : Books[i].series /= {}
  BY <1>2, PrefixIsBooks DEF ValidateSeries, InSeries
<1>4. ASSUME NEW k \in 1 .. n PROVE \E i \in 1 .. k : Block(Books[i]).book_index = k
  <2>1. k \in 1 .. Len(Books)
    BY <1>1
  <2>2. ValidateSeries(Prefix(k))
    BY <1>3 DEF Publishable, Prefix
  <2>3. {Block(Prefix(k)[i]).book_index : i \in DOMAIN Prefix(k)} = 1 .. Len(Prefix(k))
    BY <2>2 DEF ValidateSeries, WellIndexed
  <2>4. /\ Len(Prefix(k)) = k /\ DOMAIN Prefix(k) = 1 .. k
        /\ \A i \in 1 .. k : Prefix(k)[i] = Books[i]
    BY <2>1, PrefixIsBooks
  <2>5. k \in 1 .. Len(Prefix(k))
    BY <1>1, <2>4
  <2>6. PICK i \in DOMAIN Prefix(k) : Block(Prefix(k)[i]).book_index = k
    BY <2>3, <2>5
  <2> QED  BY <2>4, <2>6
<1> DEFINE T == {k \in 0 .. n : \A i \in 1 .. k : Block(Books[i]).book_index = i}
<1>5. 0 .. n \subseteq T
  <2>1. 0 \in T
    BY <1>1
  <2>2. ASSUME NEW k \in 1 .. n, k - 1 \in T PROVE k \in T
    <3>1. \A i \in 1 .. k - 1 : Block(Books[i]).book_index = i
      BY <2>2
    <3>2. PICK j \in 1 .. k : Block(Books[j]).book_index = k
      BY <1>4
    <3>3. j = k
      BY <3>1, <3>2
    <3>4. \A i \in 1 .. k : Block(Books[i]).book_index = i
      BY <3>1, <3>2, <3>3
    <3> QED  BY <3>4
  <2> HIDE DEF T
  <2> QED  BY <1>1, <2>1, <2>2, Induction
<1>6. \A i \in 1 .. n : Block(Books[i]).book_index = i
  BY <1>1, <1>5
<1>7. ASSUME NEW i \in 1 .. n PROVE BookAt(Prefix(n), i) = Books[i]
  <2>1. \A j \in DOMAIN Prefix(n) : Block(Prefix(n)[j]).book_index = i <=> j = i
    BY <1>6, PrefixIsBooks
  <2>2. i \in DOMAIN Prefix(n)
    BY PrefixIsBooks
  <2>3. (CHOOSE j \in DOMAIN Prefix(n) : Block(Prefix(n)[j]).book_index = i) = i
    BY <2>1, <2>2
  <2> QED  BY <2>3, PrefixIsBooks DEF BookAt
<1> QED  BY <1>2, <1>3, <1>6, <1>7

\* The gate has walked a fresh read of a story that is not of tier 1 to its end.
LEMMA FreshIsWhole ==
  ASSUME NEW story, RunGate(story), story.tier /= 1
  PROVE  /\ ~Capped(Fresh(story))
         /\ CheckDeadEnds(story, Fresh(story)) = {} /\ CheckLoopEscape(story, Fresh(story)) = {}
BY DEF RunGate, ValidateLayer2, Fresh

\* SR-9: what a child finishes a book with, begun as the gate begins it, the next book has been
\* entered with by the gate, and a satisfying ending was reachable.
LEMMA HandedOver ==
  ASSUME chain \in DOMAIN Library, NEW n \in 1 .. Len(Books), n + 1 \in 1 .. Len(Books),
         \A k \in 1 .. n + 1 : Publishable(k),
         NEW series \in Books[n].series, NEW next \in Books[n + 1].series,
         series.carries_state, series.entry \subseteq {Books[n].start},
         Cardinality(SatisfyingExitStates(Books[n], series.entry)) <= MaxEntryStates,
         NEW s \in States(Books[n]), IsSatisfying(Books[n].nodes[s.node]),
         ~Capped(Fresh(Books[n])) => ConfigKey(Books[n], s) \in Fresh(Books[n])
  PROVE  SatisfyingEndingReachable(Books[n + 1], s.vars, next.entry)
<1> DEFINE m == n + 1
           c == Prefix(m)
           sender == Books[n]
           receiver == Books[m]
<1>1. /\ n \in Nat /\ m \in 1 .. Len(Books) /\ Books[m].series /= {} /\ n \in 1 .. Len(Books)
      /\ n \in 1 .. m /\ m \in 1 .. m
  BY BooksAreDocuments
<1>2. /\ ValidateSeries(c) /\ BookAt(c, n) = sender /\ BookAt(c, m) = receiver
      /\ Len(c) = m /\ DOMAIN c = 1 .. m /\ c[n] = sender
  <2> HIDE DEF m
  <2> QED  BY <1>1, IndexesInOrder, PrefixIsBooks DEF m
<1>3. IsDocument(sender) /\ IsDocument(receiver) /\ Sound(sender)
  BY <1>1, BooksAreDocuments
<1>4. Block(sender) = series /\ Block(receiver) = next
  BY <1>3, BlockIs
<1>5. sender.tier /= 1
  <2> HIDE DEF c, sender
  <2> QED  BY <1>1, <1>2, <1>4 DEF ValidateSeries, CheckStateCarry
<1>6. CheckHandover(sender, receiver)
  <2>1. n \in 1 .. Len(c) - 1
    BY <1>1, <1>2
  <2> HIDE DEF c, sender, receiver
  <2> QED  BY <1>2, <1>4, <2>1 DEF ValidateSeries, CheckContinuationEntryStates, m
<1>7. Walk(sender, NoVars, series.entry) = Fresh(sender)
  <2>1. sender.start \in DOMAIN sender.nodes
    BY <1>3 DEF Sound, SchemaOk
  <2>2. EntryNode(sender, series.entry) = EntryNode(sender, {})
    <3>1. EntryNode(sender, {}) = sender.start
      BY DEF EntryNode
    <3>2. EntryNode(sender, series.entry) = sender.start
      BY <2>1 DEF EntryNode
    <3> QED  BY <3>1, <3>2
  <2>3. StartContinuation(sender, NoVars, series.entry) = StartContinuation(sender, NoVars, {})
    BY <2>2 DEF StartContinuation
  <2> HIDE DEF sender
  <2> QED  BY <2>3 DEF Walk, Fresh
<1>8. s.vars \in SatisfyingExitStates(sender, series.entry)
  <2> DEFINE key == ConfigKey(sender, s)
  <2>1. key \in Fresh(sender)
    BY <1>1, <1>5, FreshIsWhole DEF Publishable
  <2>2. key.vars = s.vars /\ key.node = s.node
    BY DEF ConfigKey
  <2> HIDE DEF key
  <2> QED  BY <1>7, <2>1, <2>2 DEF SatisfyingExitStates
<1>9. s.vars \in TriedExits(sender)
  BY <1>4, <1>8 DEF TriedExits
<1> HIDE DEF sender, receiver
<1>10. SatisfyingEndingReachable(receiver, s.vars, next.entry)
  BY <1>4, <1>6, <1>9 DEF CheckHandover
<1> QED  BY <1>10 DEF receiver

(***************************************************************************)
(* The invariant: the shelf holds books the gate let through, and the      *)
(* reading and its bookmarks are where a reading that began so can be.     *)
(***************************************************************************)
\* Those of them on a path within the bound.
Passed(story, o) == {s \in Reached(story, o) : Len(s.path) \in 1 .. MaxPath}

\* How a reading may have begun: what it carried, and that the gate tried a tried one.
OriginOk(story, o) ==
  /\ Carries(o.carried) /\ AtMostOne(o.entry)
  /\ o.how = "fresh" => o.carried = NoVars /\ o.entry = {}
  /\ o.how = "character" => o.carried \in Characters /\ o.entry = {}
  /\ o.tried => SatisfyingEndingReachable(story, o.carried, o.entry)

\* The bookmarks of a reading are states it has passed, no more than there is room for.
Bookmarks(story, o) == {saved \in SUBSET Passed(story, o) : IsFiniteSet(saved) /\ Cardinality(saved) <= MaxBookmarks}

\* The inductive invariant of the reader.
ReaderInv ==
  /\ chain \in DOMAIN Library /\ shelf \in 0 .. Len(Books) /\ book \in 0 .. shelf
  /\ \A n \in 1 .. shelf : Publishable(n)
  /\ book = 0 => reading = NoReading /\ slots = {} /\ origin = Unopened
  /\ book /= 0 => /\ OriginOk(Story, origin)
                  /\ reading \in Passed(Story, origin) /\ slots \in Bookmarks(Story, origin)

\* The bounds are numbers.
LEMMA Bounds == MaxPath \in Nat \ {0} /\ MaxBookmarks \in Nat
BY ReadingAssumption DEF ReadingAssumption

\* The story being read has passed the gate.
LEMMA StoryIsSound ==
  ASSUME ReaderInv, book /= 0
  PROVE  Sound(Story) /\ IsDocument(Story) /\ RunGate(Story) /\ book \in 1 .. Len(Books) /\ book \in 1 .. shelf
<1>1. Len(Books) \in Nat /\ chain \in DOMAIN Library
  BY BooksAreDocuments DEF ReaderInv
<1>2. book \in 1 .. shelf /\ book \in 1 .. Len(Books) /\ Publishable(book)
  BY <1>1 DEF ReaderInv
<1> QED  BY <1>1, <1>2, BooksAreDocuments DEF Story, Publishable

\* A reading may have no bookmarks.
LEMMA NoBookmarks ==
  ASSUME NEW story, NEW o PROVE {} \in Bookmarks(story, o)
BY FS_EmptySet, Bounds DEF Bookmarks

\* A character carries numbers.
LEMMA CharactersCarry == \A seed \in Characters : Carries(seed)
<1> SUFFICES ASSUME NEW seed \in Characters PROVE Carries(seed)
  OBVIOUS
<1> DEFINE numbers == UNION {Canonical[v].min .. Canonical[v].max : v \in DOMAIN Canonical}
<1>1. numbers \subseteq Int
  <2>1. \A v \in DOMAIN Canonical : Canonical[v].min \in Int /\ Canonical[v].max \in Int
    BY ReadingAssumption DEF ReadingAssumption
  <2> QED  BY <2>1
<1>2. seed \in [DOMAIN Canonical -> {Num(k) : k \in numbers}]
  BY DEF Characters
<1> HIDE DEF numbers
<1>3. \A v \in DOMAIN Canonical : seed[v] \in Value
  <2>1. \A k \in numbers : Num(k) \in Value
    BY <1>1 DEF Num, Value
  <2> QED  BY <1>2, <2>1
<1> QED  BY <1>2, <1>3 DEF Carries

\* A book opened from where the origin says is being read, and nothing is saved yet.
LEMMA BookOpened ==
  ASSUME ReaderInv, NEW n \in 1 .. shelf, NEW how, NEW entry, NEW carried, NEW tried,
         OriginOk(Books[n], [how |-> how, entry |-> entry, carried |-> carried, tried |-> tried]),
         Opened(n, how, entry, carried, tried)
  PROVE  ReaderInv'
<1> DEFINE o == [how |-> how, entry |-> entry, carried |-> carried, tried |-> tried]
<1>1. /\ chain' = chain /\ shelf' = shelf /\ Books' = Books /\ book' = n /\ Story' = Books[n]
      /\ origin' = o /\ slots' = {} /\ reading' = startContinuation(Books[n], carried, entry)
  BY DEF Opened, Books, Story
<1>2. /\ chain \in DOMAIN Library /\ shelf \in 0 .. Len(Books) /\ n \in 0 .. shelf /\ n /= 0
      /\ \A k \in 1 .. shelf : Publishable(k)
      /\ n \in 1 .. Len(Books)
  BY BooksAreDocuments DEF ReaderInv
<1>3. Sound(Books[n])
  BY <1>2, BooksAreDocuments
<1>4. Carries(carried) /\ AtMostOne(entry) /\ o.carried = carried /\ o.entry = entry
  BY DEF OriginOk
<1> HIDE DEF o
<1>5. startContinuation(Books[n], carried, entry) \in Passed(Books[n], o)
  <2> DEFINE s == startContinuation(Books[n], carried, entry)
  <2>1. Carries(o.carried) /\ AtMostOne(o.entry) /\ carried = o.carried /\ entry = o.entry
    BY <1>4
  <2>2. s \in Reached(Books[n], o) /\ Len(s.path) = 1
    <3>1. /\ startContinuation(Books[n], o.carried, o.entry) \in Reached(Books[n], o)
          /\ Len(startContinuation(Books[n], o.carried, o.entry).path) = 1
      BY <1>3, <2>1, OwnStart
    <3> QED  BY <2>1, <3>1
  <2>3. 1 \in 1 .. MaxPath
    BY Bounds
  <2> HIDE DEF s
  <2>4. s \in Passed(Books[n], o)
    BY <2>2, <2>3 DEF Passed
  <2> QED  BY <2>4 DEF s
<1>6. {} \in Bookmarks(Books[n], o)
  BY NoBookmarks
<1>7. \A k \in 1 .. shelf : Publishable(k)'
  BY <1>1, <1>2 DEF Publishable
<1>8. OriginOk(Story, origin)'
  BY <1>1 DEF OriginOk, o, Characters
<1> QED  BY <1>1, <1>2, <1>5, <1>6, <1>7, <1>8 DEF ReaderInv, Passed, Bookmarks, Reached

\* A step that stays in the book, with the bookmarks and the reading where they can be.
LEMMA StillReading ==
  ASSUME ReaderInv, book /= 0, UNCHANGED <<chain, shelf, book, origin>>,
         reading' \in Passed(Story, origin), slots' \in Bookmarks(Story, origin)
  PROVE  ReaderInv'
<1>1. Books' = Books /\ Story' = Story
  BY DEF Books, Story
<1>2. \A k \in 1 .. shelf : Publishable(k)'
  BY <1>1 DEF ReaderInv, Publishable
<1>3. OriginOk(Story, origin)'
  BY <1>1 DEF ReaderInv, OriginOk, Characters
<1>4. (reading \in Passed(Story, origin))' /\ (slots \in Bookmarks(Story, origin))'
  BY <1>1 DEF Passed, Bookmarks, Reached
<1> QED  BY <1>1, <1>2, <1>3, <1>4 DEF ReaderInv

\* The invariant holds before anything is published.
LEMMA ReadingStartsSo ==
  ASSUME ReadingInit PROVE ReaderInv
<1>1. Len(Books) \in Nat
  BY BooksAreDocuments DEF ReadingInit
<1> QED  BY <1>1 DEF ReadingInit, ReaderInv

\* Publish: the gate has judged the book, and nothing else changes.
LEMMA BookPublished ==
  ASSUME ReaderInv, Publish PROVE ReaderInv'
<1>1. Books' = Books /\ Story' = Story /\ shelf' = shelf + 1
      /\ UNCHANGED <<chain, book, origin, reading, slots>>
  BY DEF Publish, Books, Story
<1>2. shelf' \in 0 .. Len(Books) /\ book \in 0 .. shelf'
  BY <1>1, BooksAreDocuments DEF ReaderInv, Publish
<1>3. \A n \in 1 .. shelf' : Publishable(n)
  <2>1. shelf \in Nat
    BY BooksAreDocuments DEF ReaderInv
  <2>2. \A n \in 1 .. shelf' : n \in 1 .. shelf \/ n = shelf + 1
    BY <1>1, <2>1
  <2> QED  BY <2>2 DEF ReaderInv, Publish
<1>4. \A n \in 1 .. shelf' : Publishable(n)'
  BY <1>1, <1>3 DEF Publishable
<1>5. OriginOk(Story, origin)' <=> OriginOk(Story, origin)
  BY <1>1 DEF OriginOk, Characters
<1> QED  BY <1>1, <1>2, <1>4, <1>5 DEF ReaderInv, Passed, Bookmarks, Reached

\* OpenFresh and OpenAs: a book is opened afresh or as a character.
LEMMA BookBegun ==
  ASSUME ReaderInv, NEW n \in 1 .. shelf, OpenFresh(n) \/ \E seed \in Characters : OpenAs(n, seed)
  PROVE  ReaderInv'
<1>1. CASE OpenFresh(n)
  <2>1. OriginOk(Books[n], [how |-> "fresh", entry |-> {}, carried |-> NoVars, tried |-> FALSE])
    BY NothingCarried DEF OriginOk
  <2>2. Opened(n, "fresh", {}, NoVars, FALSE)
    BY <1>1 DEF OpenFresh
  <2> QED  BY <2>1, <2>2, BookOpened
<1>2. ASSUME NEW seed \in Characters, OpenAs(n, seed) PROVE ReaderInv'
  <2>1. OriginOk(Books[n], [how |-> "character", entry |-> {}, carried |-> seed, tried |-> FALSE])
    BY NothingCarried, CharactersCarry DEF OriginOk
  <2>2. Opened(n, "character", {}, seed, FALSE)
    BY <1>2 DEF OpenAs
  <2> QED  BY <2>1, <2>2, BookOpened
<1> QED  BY <1>1, <1>2

\* ContinueSeries: the next book is entered with what this one is finished with.
LEMMA BookContinued ==
  ASSUME ReaderInv, ContinueSeries PROVE ReaderInv'
<1> DEFINE n == book + 1
<1>1. book \in 1 .. shelf - 1 /\ book /= 0 /\ IsSatisfying(Story.nodes[reading.node])
  BY DEF ContinueSeries
<1>2. PICK series \in Story.series, next \in Books[n].series :
        Opened(n, "continued", next.entry,
               IF series.carries_state THEN reading.vars ELSE NoVars, Tried(series))
  BY DEF ContinueSeries
<1>3. /\ shelf \in Nat /\ n \in 1 .. shelf /\ n \in 1 .. Len(Books) /\ book \in 1 .. Len(Books)
      /\ chain \in DOMAIN Library /\ \A k \in 1 .. n : Publishable(k)
  BY <1>1, BooksAreDocuments DEF ReaderInv
<1>4. reading \in Reached(Story, origin) /\ reading \in States(Story) /\ OriginOk(Story, origin)
  BY <1>1 DEF ReaderInv, Passed, Reached
<1> DEFINE carried == IF series.carries_state THEN reading.vars ELSE NoVars
           o == [how |-> "continued", entry |-> next.entry, carried |-> carried, tried |-> Tried(series)]
<1>5. Carries(carried)
  <2>1. reading.vars \in [DOMAIN Story.vars -> Value]
    BY <1>4 DEF States, VarStates
  <2>2. Carries(reading.vars)
    BY <2>1 DEF Carries
  <2> QED  BY <2>2, NothingCarried
<1>6. AtMostOne(next.entry)
  BY <1>3, BooksAreDocuments, BlockIs
<1>7. Tried(series) => SatisfyingEndingReachable(Books[n], carried, next.entry)
  <2> SUFFICES ASSUME Tried(series) PROVE SatisfyingEndingReachable(Books[n], carried, next.entry)
    OBVIOUS
  <2>1. /\ series.carries_state /\ origin.how = "fresh" /\ series.entry \subseteq {Story.start}
        /\ Cardinality(SatisfyingExitStates(Story, series.entry)) <= MaxEntryStates
    BY DEF Tried
  <2>2. WalkOf(Story, origin) = Fresh(Story)
    BY <1>4, <2>1 DEF OriginOk, WalkOf, Fresh
  <2>3. ~Capped(Fresh(Story)) => ConfigKey(Story, reading) \in Fresh(Story)
    BY <1>4, <2>2 DEF Reached
  <2>4. SatisfyingEndingReachable(Books[n], reading.vars, next.entry)
    BY <1>1, <1>2, <1>3, <1>4, <2>1, <2>3, HandedOver DEF Story
  <2> QED  BY <2>1, <2>4
<1>8. OriginOk(Books[n], o)
  <2>1. o.how = "continued" /\ o.carried = carried /\ o.entry = next.entry /\ o.tried = Tried(series)
    OBVIOUS
  <2> HIDE DEF o, carried
  <2> QED  BY <1>5, <1>6, <1>7, <2>1 DEF OriginOk
<1> HIDE DEF n
<1> QED  BY <1>2, <1>3, <1>8, BookOpened

\* applyChoice stays within the walks.
LEMMA ChoiceApplied ==
  ASSUME ReaderInv, NEW c, applyChoice(c) PROVE ReaderInv'
<1>1. /\ book /= 0 /\ Len(reading.path) < MaxPath /\ c \in visibleChoices(Story, reading)
      /\ reading' = choose(Story, reading, c) /\ UNCHANGED <<chain, shelf, book, origin, slots>>
  BY DEF applyChoice
<1>2. /\ reading \in Reached(Story, origin) /\ reading \in States(Story) /\ Len(reading.path) \in 1 .. MaxPath
      /\ reading.path \in Seq(Nodes(Story))
      /\ slots \in Bookmarks(Story, origin) /\ OriginOk(Story, origin) /\ Sound(Story)
  BY <1>1, StoryIsSound DEF ReaderInv, Passed, Reached, States
<1>3. c \in VisibleChoices(Story, reading) /\ c \in ToSet(Story.nodes[reading.node].choices)
  BY <1>1, <1>2, SameChoices DEF VisibleChoices
<1>4. reading' = Choose(Story, reading, c)
  BY <1>1, <1>2, <1>3, ChoiceTaken
<1>5. reading' \in Reached(Story, origin)
  BY <1>2, <1>3, <1>4, ReachedClosed DEF Closed, OriginOk
<1>6. Len(reading'.path) \in 1 .. MaxPath
  <2>1. reading'.path = Append(reading.path, c.target)
    BY <1>4 DEF Choose
  <2> DEFINE before == reading.path
             after == reading'.path
  <2>2. after = Append(before, c.target) /\ before \in Seq(Nodes(Story)) /\ Len(before) < MaxPath
    BY <1>1, <1>2, <2>1
  <2> HIDE DEF before, after
  <2>3. Len(after) \in 1 .. MaxPath
    BY <2>2, Bounds
  <2> QED  BY <2>3 DEF after
<1> QED  BY <1>1, <1>2, <1>5, <1>6, StillReading DEF Passed

\* applyBack stays within them too, though it replays from another start in a continued book.
LEMMA WentBackInReader ==
  ASSUME ReaderInv, applyBack PROVE ReaderInv'
<1>1. book /= 0 /\ reading' \in back(Story, reading, BackSeed) /\ UNCHANGED <<chain, shelf, book, origin, slots>>
  BY DEF applyBack
<1>2. /\ reading \in Passed(Story, origin) /\ slots \in Bookmarks(Story, origin)
      /\ OriginOk(Story, origin) /\ Sound(Story)
      /\ reading.path \in Seq(Nodes(Story)) /\ Len(reading.path) \in 1 .. MaxPath
  BY <1>1, StoryIsSound DEF ReaderInv, Passed, Reached, States
<1> DEFINE G == Reached(Story, origin)
<1>3. Carries(BackSeed) /\ startContinuation(Story, BackSeed, {}) \in G
  <2>1. CASE origin.how = "character"
    <3>1. BackSeed = origin.carried /\ origin.entry = {} /\ Carries(origin.carried) /\ AtMostOne(origin.entry)
      BY <1>2, <2>1 DEF BackSeed, OriginOk
    <3>2. startContinuation(Story, origin.carried, origin.entry) \in G
      BY <1>2, <3>1, OwnStart
    <3> QED  BY <3>1, <3>2
  <2>2. CASE origin.how /= "character"
    <3>1. BackSeed = NoVars /\ Carries(origin.carried) /\ AtMostOne(origin.entry)
      BY <1>2, <2>2 DEF BackSeed, OriginOk
    <3> QED  BY <1>2, <3>1, FreshStart, NothingCarried
  <2> QED  BY <2>1, <2>2
<1>4. G \in SUBSET States(Story) /\ Closed(Story, G)
  <2>1. Closed(Story, G)
    BY <1>2, ReachedClosed DEF OriginOk
  <2> QED  BY <2>1 DEF Reached
<1>5. reading' \in G /\ Len(reading'.path) \in 1 .. Len(reading.path) - 1
  <2> HIDE DEF G
  <2> QED  BY <1>1, <1>2, <1>3, <1>4, WentBack
<1>6. Len(reading'.path) \in 1 .. MaxPath
  BY <1>2, <1>5, Bounds
<1> QED  BY <1>1, <1>2, <1>5, <1>6, StillReading DEF Passed

\* reset begins again where the reading began.
LEMMA StartedOver ==
  ASSUME ReaderInv, reset PROVE ReaderInv'
<1>1. /\ book /= 0 /\ slots' = {} /\ UNCHANGED <<chain, shelf, book, origin>>
      /\ reading' = startContinuation(Story, origin.carried, origin.entry)
  BY DEF reset
<1>2. Sound(Story) /\ OriginOk(Story, origin)
  BY <1>1, StoryIsSound DEF ReaderInv
<1>3. reading' \in Reached(Story, origin) /\ Len(reading'.path) = 1
  BY <1>1, <1>2, OwnStart DEF OriginOk
<1>4. reading' \in Passed(Story, origin)
  <2>1. 1 \in 1 .. MaxPath
    BY Bounds
  <2> QED  BY <1>3, <2>1 DEF Passed
<1> QED  BY <1>1, <1>4, NoBookmarks, StillReading

\* applySaveBookmark: there is room for one more.
LEMMA BookmarkSaved ==
  ASSUME ReaderInv, applySaveBookmark PROVE ReaderInv'
<1>1. /\ book /= 0 /\ Cardinality(slots) < MaxBookmarks /\ slots' = slots \cup {reading}
      /\ UNCHANGED <<chain, shelf, book, origin, reading>>
  BY DEF applySaveBookmark
<1>2. reading \in Passed(Story, origin) /\ slots \in Bookmarks(Story, origin)
  BY <1>1 DEF ReaderInv
<1>3. /\ slots \in SUBSET Passed(Story, origin) /\ IsFiniteSet(slots) /\ Cardinality(slots) \in Nat
  BY <1>2, FS_CardinalityType DEF Bookmarks
<1>4. IsFiniteSet(slots') /\ Cardinality(slots') <= MaxBookmarks
  BY <1>1, <1>3, FS_AddElement, Bounds
<1>5. slots' \in Bookmarks(Story, origin)
  BY <1>1, <1>2, <1>3, <1>4 DEF Bookmarks
<1> QED  BY <1>1, <1>2, <1>5, StillReading

\* applyLoadBookmark and applyDeleteBookmark: what was saved was passed.
LEMMA BookmarkUsed ==
  ASSUME ReaderInv, NEW saved \in slots, applyLoadBookmark(saved) \/ applyDeleteBookmark(saved)
  PROVE  ReaderInv'
<1>1. book /= 0
  BY DEF ReaderInv
<1>2. reading \in Passed(Story, origin) /\ slots \in Bookmarks(Story, origin)
  BY <1>1 DEF ReaderInv
<1>3. saved \in Passed(Story, origin) /\ IsFiniteSet(slots)
  BY <1>2 DEF Bookmarks
<1>4. CASE applyLoadBookmark(saved)
  BY <1>1, <1>2, <1>3, <1>4, StillReading DEF applyLoadBookmark
<1>5. CASE applyDeleteBookmark(saved)
  <2>1. slots' = slots \ {saved} /\ UNCHANGED <<chain, shelf, book, origin, reading>>
    BY <1>5 DEF applyDeleteBookmark
  <2>2. Cardinality(slots') <= Cardinality(slots) /\ IsFiniteSet(slots') /\ Cardinality(slots) \in Nat
        /\ Cardinality(slots') \in Nat
    BY <1>3, <2>1, FS_Subset, FS_CardinalityType
  <2>3. slots' \in Bookmarks(Story, origin)
    BY <1>2, <2>1, <2>2, Bounds DEF Bookmarks
  <2> QED  BY <1>1, <1>2, <2>1, <2>3, StillReading
<1> QED  BY <1>4, <1>5

\* The gate, the two engines and the reader machine keep the invariant in every library of
\* documents: whatever is published, opened, chosen, taken back, saved or begun again.
THEOREM ReaderInvariant == ReadingSpec => []ReaderInv
<1>1. ReadingInit => ReaderInv
  BY ReadingStartsSo
<1>2. ReaderInv /\ [ReadingNext]_readingVars => ReaderInv'
  <2> SUFFICES ASSUME ReaderInv, [ReadingNext]_readingVars PROVE ReaderInv'
    OBVIOUS
  <2>1. CASE Publish
    BY <2>1, BookPublished
  <2>2. CASE \E n \in 1 .. shelf : OpenFresh(n) \/ \E seed \in Characters : OpenAs(n, seed)
    BY <2>2, BookBegun
  <2>3. CASE ContinueSeries
    BY <2>3, BookContinued
  <2>4. CASE book /= 0 /\ \E c \in ToSet(Story.nodes[reading.node].choices) : applyChoice(c)
    BY <2>4, ChoiceApplied
  <2>5. CASE applyBack
    BY <2>5, WentBackInReader
  <2>6. CASE reset
    BY <2>6, StartedOver
  <2>7. CASE applySaveBookmark
    BY <2>7, BookmarkSaved
  <2>8. CASE \E saved \in slots : applyLoadBookmark(saved) \/ applyDeleteBookmark(saved)
    BY <2>8, BookmarkUsed
  <2>9. CASE UNCHANGED readingVars
    BY <2>9 DEF readingVars, ReaderInv, Publishable, OriginOk, Characters, Passed, Bookmarks, Reached, Story, Books
  <2> QED  BY <2>1, <2>2, <2>3, <2>4, <2>5, <2>6, <2>7, <2>8, <2>9 DEF ReadingNext, Read
<1> QED  BY <1>1, <1>2, PTL DEF ReadingSpec

\* What the invariant says is enough for each property of the reader.
LEMMA InvTypeOK == ReaderInv => ReadingTypeOK
<1> SUFFICES ASSUME ReaderInv PROVE ReadingTypeOK
  OBVIOUS
<1>1. CASE book = 0
  BY <1>1 DEF ReaderInv, ReadingTypeOK
<1>2. CASE book /= 0
  <2>1. reading \in Passed(Story, origin) /\ slots \in Bookmarks(Story, origin)
    BY <1>2 DEF ReaderInv
  <2>2. reading.path \in Seq(Nodes(Story)) /\ Len(reading.path) \in 1 .. MaxPath
        /\ reading.visits \subseteq Nodes(Story) /\ Cardinality(slots) <= MaxBookmarks
    BY <2>1 DEF Passed, Reached, States, Bookmarks
  <2> QED  BY <1>2, <2>2 DEF ReaderInv, ReadingTypeOK
<1> QED  BY <1>1, <1>2

\* The walk holds the configuration of every reading.
LEMMA InvWalked == ReaderInv => ReadingIsWalked
<1> SUFFICES ASSUME ReaderInv, book /= 0, ~Capped(WalkOf(Story, origin)), ~Capped(Fresh(Story))
             PROVE  \E key \in WalkOf(Story, origin) \cup Fresh(Story) :
                      key.node = reading.node /\ key.vars = reading.vars
  BY DEF ReadingIsWalked, WalkOf, Fresh
<1>1. ConfigKey(Story, reading) \in WalkOf(Story, origin) \cup Fresh(Story)
  BY DEF ReaderInv, Passed, Reached
<1>2. ConfigKey(Story, reading).node = reading.node /\ ConfigKey(Story, reading).vars = reading.vars
  BY DEF ConfigKey
<1> QED  BY <1>1, <1>2

\* A state of the story passes the structural check.
LEMMA InvAccepted == ReaderInv => SavesAreAccepted
<1> SUFFICES ASSUME ReaderInv, book /= 0, slots = {},
                    \A v \in DOMAIN reading.vars : IsSafe(reading.vars[v])
             PROVE  CheckStructure(Story, reading)
  BY DEF SavesAreAccepted, ValidateReadingState
<1>1. reading \in States(Story) /\ reading.path /= << >> /\ reading.node = reading.path[Len(reading.path)]
  BY DEF ReaderInv, Passed, Reached
<1>2. /\ reading.node \in Nodes(Story) /\ reading.path \in Seq(Nodes(Story))
      /\ reading.visits \subseteq Nodes(Story) /\ reading.vars \in VarStates(Story)
  BY <1>1 DEF States
<1>3. ToSet(reading.path) \subseteq Nodes(Story)
  BY <1>2 DEF ToSet
<1>4. reading.node = Last(reading.path)
  BY <1>1 DEF Last
<1>5. DOMAIN reading.vars = DOMAIN Story.vars
      /\ \A v \in DOMAIN Story.vars : ValueOk(Story.vars[v], reading.vars[v])
  BY <1>2 DEF VarStates, ValueOk
<1> QED  BY <1>2, <1>3, <1>4, <1>5 DEF CheckStructure, Nodes

\* In a state of the story the engines agree.
LEMMA InvAgree == ReaderInv => EnginesAgree
<1> SUFFICES ASSUME ReaderInv, book /= 0 PROVE EnginesAgree
  BY DEF EnginesAgree
<1>1. reading \in States(Story) /\ Sound(Story)
  BY StoryIsSound DEF ReaderInv, Passed, Reached
<1>2. visibleChoices(Story, reading) = VisibleChoices(Story, reading)
  BY <1>1, SameChoices
<1>3. \A c \in VisibleChoices(Story, reading) : choose(Story, reading, c) = Choose(Story, reading, c)
  BY <1>1, ChoiceTaken DEF VisibleChoices
<1> QED  BY <1>2, <1>3 DEF EnginesAgree

\* A reading stays one of the story being read, on a path no longer than the bound.
THEOREM ReadingTypeCorrect == ReadingSpec => []ReadingTypeOK
BY ReaderInvariant, InvTypeOK, PTL

\* Every reading, by choices, Go back, bookmarks and restarts, is a configuration the
\* validator has walked (walk.py), unless a walk was cut short.
THEOREM ReadingWalked == ReadingSpec => []ReadingInv
<1>1. ReaderInv => ReadingInv
  BY InvTypeOK, InvWalked DEF ReadingInv
<1> QED  BY <1>1, ReaderInvariant, PTL

\* Whatever a child does, a reading without bookmarks passes the structural check the server
\* makes of every save (player/replay.py).
THEOREM SavesAccepted == ReadingSpec => []SavesAreAccepted
BY ReaderInvariant, InvAccepted, PTL

\* player/engine.ts and player/engine.py show the same choices in every reading and take
\* them to the same state.
THEOREM SameEngines == ReadingSpec => []EnginesAgree
BY ReaderInvariant, InvAgree, PTL

(***************************************************************************)
(* What lies ahead of a reading.                                           *)
(***************************************************************************)
\* A state without its path is a state of the story, of the same configuration.
LEMMA PathDropped ==
  ASSUME NEW story, NEW s \in States(story)
  PROVE  /\ WithoutPath(s) \in States(story)
         /\ WithoutPath(s).node = s.node
         /\ ConfigKey(story, WithoutPath(s)) = ConfigKey(story, s)
<1>1. s \in [node : Nodes(story), vars : VarStates(story), path : Seq(Nodes(story)), visits : SUBSET Nodes(story)]
  BY DEF States
<1> DEFINE t == WithoutPath(s)
<1>2. << >> \in Seq(Nodes(story))
  OBVIOUS
<1>3. t \in States(story) /\ t.node = s.node /\ t.vars = s.vars /\ t.visits = s.visits
  BY <1>1, <1>2 DEF WithoutPath, States
<1> HIDE DEF t
<1>4. ConfigKey(story, t) = ConfigKey(story, s)
  BY <1>3 DEF ConfigKey
<1> QED  BY <1>3, <1>4 DEF t

\* What a reading can go on to stays in the story and follows the choices shown.
LEMMA ThenFollows ==
  ASSUME NEW story, Sound(story), NEW s \in States(story)
  PROVE  /\ Then(story, s) \in SUBSET States(story)
         /\ \A c \in VisibleChoices(story, s) :
              \E t \in Then(story, s) :
                t.node = c.target /\ ConfigKey(story, t) = ConfigKey(story, Choose(story, s, c))
<1>1. visibleChoices(story, s) = VisibleChoices(story, s) /\ s.node \in Nodes(story)
  BY SameChoices DEF States
<1>2. ASSUME NEW c \in VisibleChoices(story, s)
      PROVE  /\ choose(story, s, c) = Choose(story, s, c) /\ Choose(story, s, c) \in States(story)
             /\ WithoutPath(choose(story, s, c)) \in States(story) /\ ~isEnding(story, s)
             /\ WithoutPath(choose(story, s, c)).node = c.target
             /\ ConfigKey(story, WithoutPath(choose(story, s, c))) = ConfigKey(story, Choose(story, s, c))
  <2>1. c \in ToSet(story.nodes[s.node].choices)
    BY DEF VisibleChoices
  <2>2. choose(story, s, c) = Choose(story, s, c) /\ Choose(story, s, c) \in States(story)
    BY <2>1, ChoiceTaken
  <2>3. Choose(story, s, c).node = c.target
    BY DEF Choose
  <2>4. ~isEnding(story, s)
    BY <1>1, <2>1, OnlyInside DEF isEnding
  <2> QED  BY <2>2, <2>3, <2>4, PathDropped
<1>3. Then(story, s) \in SUBSET States(story)
  BY <1>1, <1>2 DEF Then
<1>4. ASSUME NEW c \in VisibleChoices(story, s) PROVE WithoutPath(choose(story, s, c)) \in Then(story, s)
  BY <1>1, <1>2 DEF Then
<1> QED  BY <1>2, <1>3, <1>4

\* What is known of a search for the states ahead of s: all but the new ones are expanded.
Searched(story, s) ==
  {search \in [seen : SUBSET States(story), new : SUBSET States(story)] :
     /\ s \in search.seen /\ search.new \subseteq search.seen
     /\ \A t \in search.seen \ search.new : Then(story, t) \subseteq search.seen}

\* A round of the search expands all it has seen.
LEMMA SearchedFurther ==
  ASSUME NEW story, Sound(story), NEW s, NEW search \in Searched(story, s)
  PROVE  /\ Further(story, search) \in Searched(story, s)
         /\ search.seen \subseteq Further(story, search).seen
         /\ \A t \in search.seen : Then(story, t) \subseteq Further(story, search).seen
<1> DEFINE found == UNION {Then(story, t) : t \in search.new}
           new == found \ search.seen
           seen == search.seen \cup new
<1>1. /\ search.seen \in SUBSET States(story) /\ search.new \in SUBSET States(story)
      /\ s \in search.seen /\ search.new \subseteq search.seen
      /\ \A t \in search.seen \ search.new : Then(story, t) \subseteq search.seen
  BY DEF Searched
<1>2. Further(story, search) = [seen |-> seen, new |-> new]
  BY DEF Further
<1>3. found \in SUBSET States(story)
  BY <1>1, ThenFollows
<1>4. \A t \in search.new : Then(story, t) \subseteq found
  OBVIOUS
<1> HIDE DEF found
<1>5. \A t \in search.seen : Then(story, t) \subseteq seen
  BY <1>1, <1>4
<1>6. /\ seen \in SUBSET States(story) /\ new \in SUBSET States(story) /\ s \in seen /\ new \subseteq seen
      /\ seen \ new \subseteq search.seen /\ search.seen \subseteq seen
  BY <1>1, <1>3
<1> HIDE DEF seen, new
<1>7. [seen |-> seen, new |-> new] \in Searched(story, s)
  BY <1>5, <1>6 DEF Searched
<1> QED  BY <1>2, <1>5, <1>6, <1>7

\* What lies ahead of s after so many choices.
Outwards(story, s, limit) ==
  {A \in [0 .. limit -> SUBSET States(story)] :
     /\ s \in A[0]
     /\ \A n \in 1 .. limit :
          A[n - 1] \subseteq A[n] /\ \A t \in A[n - 1] : Then(story, t) \subseteq A[n]
     /\ \A n \in 0 .. limit : A[n] \subseteq A[limit]}

\* The states ahead grow round by round, by what follows from each.
LEMMA AheadInSteps ==
  ASSUME NEW story, Sound(story), NEW s \in States(story), NEW limit \in Nat
  PROVE  \E A \in Outwards(story, s, limit) : Ahead(story, s, limit) = A[limit]
<1> DEFINE S == Searched(story, s)
           first == [seen |-> {s}, new |-> {s}]
           step == [n \in 1 .. limit |-> [search \in S |-> Further(story, search)]]
           ahead == CHOOSE f : f = [n \in 0 .. limit |->
                      IF n = 0 THEN [seen |-> {s}, new |-> {s}] ELSE Further(story, f[n - 1])]
<1>1. first \in S
  <2>1. /\ first \in [seen : SUBSET States(story), new : SUBSET States(story)]
        /\ first.seen = {s} /\ first.new = {s}
    OBVIOUS
  <2> HIDE DEF first
  <2> QED  BY <2>1 DEF Searched
<1>2. step \in [1 .. limit -> [S -> S]]
  <2> HIDE DEF S
  <2>1. \A search \in S : Further(story, search) \in S
    BY SearchedFurther DEF S
  <2> QED  BY <2>1
<1>3. PICK g \in [0 .. limit -> S] : g[0] = first /\ \A n \in 1 .. limit : g[n] = step[n][g[n - 1]]
  <2> HIDE DEF step, S, first
  <2>1. Iterates(S, limit, first, step) /= {}
    BY <1>1, <1>2, Recursion
  <2> QED  BY <2>1 DEF Iterates
<1> HIDE DEF S
<1>4. ASSUME NEW n \in 1 .. limit PROVE g[n] = Further(story, g[n - 1]) /\ g[n - 1] \in S
  <2>1. n - 1 \in 0 .. limit
    OBVIOUS
  <2>2. g[n - 1] \in S
    BY <2>1
  <2>3. step[n] = [search \in S |-> Further(story, search)]
    OBVIOUS
  <2> HIDE DEF step
  <2> QED  BY <1>3, <2>2, <2>3
<1>5. g = [n \in 0 .. limit |->
            IF n = 0 THEN [seen |-> {s}, new |-> {s}] ELSE Further(story, g[n - 1])]
  <2>1. g = [n \in 0 .. limit |-> g[n]]
    BY <1>3
  <2>2. \A n \in 0 .. limit :
          g[n] = IF n = 0 THEN [seen |-> {s}, new |-> {s}] ELSE Further(story, g[n - 1])
    <3> SUFFICES ASSUME NEW n \in 0 .. limit, n /= 0 PROVE g[n] = Further(story, g[n - 1])
      BY <1>3
    <3>1. n \in 1 .. limit
      OBVIOUS
    <3> QED  BY <1>4, <3>1
  <2> QED  BY <2>1, <2>2
<1>6. ahead = [n \in 0 .. limit |->
                IF n = 0 THEN [seen |-> {s}, new |-> {s}] ELSE Further(story, ahead[n - 1])]
  BY <1>5, Zenon
<1>7. Ahead(story, s, limit) = ahead[limit].seen
  BY Zenon DEF Ahead
<1> DEFINE T == {n \in 0 .. limit : ahead[n] = g[n]}
<1>8. 0 .. limit \subseteq T
  <2>1. 0 \in T
    <3>1. ahead[0] = first
      <4> HIDE DEF ahead
      <4> QED  BY <1>6
    <3>2. 0 \in 0 .. limit
      OBVIOUS
    <3> HIDE DEF ahead, first
    <3>3. ahead[0] = g[0]
      BY <1>3, <3>1
    <3> QED  BY <3>2, <3>3
  <2>2. ASSUME NEW n \in 1 .. limit, n - 1 \in T PROVE n \in T
    <3>1. n \in 0 .. limit /\ n /= 0
      OBVIOUS
    <3>2. ahead[n - 1] = g[n - 1]
      BY <2>2
    <3>3. ahead[n] = Further(story, ahead[n - 1])
      <4> HIDE DEF ahead
      <4> QED  BY <1>6, <3>1
    <3> HIDE DEF ahead
    <3>4. ahead[n] = g[n]
      BY <1>4, <3>2, <3>3
    <3> QED  BY <3>1, <3>4
  <2> HIDE DEF T
  <2> QED  BY <2>1, <2>2, Induction
<1>9. ahead[limit] = g[limit]
  <2>1. limit \in 0 .. limit
    OBVIOUS
  <2> HIDE DEF ahead
  <2> QED  BY <1>8, <2>1
<1> HIDE DEF ahead
<1> DEFINE A == [n \in 0 .. limit |-> g[n].seen]
<1>10. A \in [0 .. limit -> SUBSET States(story)]
  <2>1. \A n \in 0 .. limit : g[n].seen \in SUBSET States(story)
    BY DEF S, Searched
  <2> QED  BY <2>1
<1>11. s \in A[0]
  BY <1>1, <1>3 DEF S
<1>12. ASSUME NEW n \in 1 .. limit
       PROVE  A[n - 1] \subseteq A[n] /\ \A t \in A[n - 1] : Then(story, t) \subseteq A[n]
  <2>1. A[n] = g[n].seen /\ A[n - 1] = g[n - 1].seen
    OBVIOUS
  <2> HIDE DEF A
  <2> QED  BY <1>4, <2>1, SearchedFurther DEF S
<1>13. Ahead(story, s, limit) = A[limit]
  BY <1>7, <1>9
<1> HIDE DEF A
<1> DEFINE U == {k \in 0 .. limit : \A n \in 0 .. k : A[n] \subseteq A[k]}
<1>14. 0 .. limit \subseteq U
  <2>1. 0 \in U
    OBVIOUS
  <2>2. ASSUME NEW k \in 1 .. limit, k - 1 \in U PROVE k \in U
    <3>1. \A n \in 0 .. k - 1 : A[n] \subseteq A[k - 1]
      BY <2>2
    <3>2. \A n \in 0 .. k : n = k \/ n \in 0 .. k - 1
      OBVIOUS
    <3>3. \A n \in 0 .. k : A[n] \subseteq A[k]
      BY <1>12, <3>1, <3>2
    <3> QED  BY <3>3
  <2> HIDE DEF U
  <2> QED  BY <2>1, <2>2, Induction
<1>15. \A n \in 0 .. limit : A[n] \subseteq A[limit]
  <2>1. limit \in 0 .. limit
    OBVIOUS
  <2> QED  BY <1>14, <2>1
<1>16. A \in Outwards(story, s, limit)
  BY <1>10, <1>11, <1>12, <1>15 DEF Outwards
<1> QED  BY <1>13, <1>16

\* Whatever the walk holds lies ahead of the reading it was begun as.
LEMMA WalkLiesAhead ==
  ASSUME NEW story, Sound(story), NEW carried, Carries(carried), NEW entry, AtMostOne(entry),
         NEW limit \in Nat, ConfigCap <= limit, NEW key \in Walk(story, carried, entry)
  PROVE  \E t \in Ahead(story, WithoutPath(startContinuation(story, carried, entry)), limit) :
           t \in States(story) /\ ConfigKey(story, t) = key
<1> DEFINE first == StartContinuation(story, carried, entry)
           s == WithoutPath(startContinuation(story, carried, entry))
           initial == ConfigKey(story, first)
<1>1. first \in States(story) /\ s \in States(story) /\ ConfigKey(story, s) = initial
  <2>1. first \in States(story) /\ startContinuation(story, carried, entry) = first
    BY ReadingStarted
  <2> HIDE DEF first
  <2> QED  BY <2>1, PathDropped
<1> HIDE DEF s
<1>2. PICK A \in [0 .. limit -> SUBSET States(story)] :
        /\ s \in A[0]
        /\ \A n \in 1 .. limit :
             A[n - 1] \subseteq A[n] /\ \A t \in A[n - 1] : Then(story, t) \subseteq A[n]
        /\ \A n \in 0 .. limit : A[n] \subseteq A[limit]
        /\ Ahead(story, s, limit) = A[limit]
  <2>1. \E A \in Outwards(story, s, limit) : Ahead(story, s, limit) = A[limit]
    BY <1>1, AheadInSteps
  <2> QED  BY <2>1 DEF Outwards
<1>3. PICK w \in [0 .. ConfigCap -> [seen : SUBSET Configurations(story), new : SUBSET Configurations(story)]] :
        /\ w[0].seen = {initial}
        /\ \A n \in 1 .. ConfigCap : w[n] = Expand(story, w[n - 1])
        /\ \A n \in 0 .. ConfigCap : w[n] \in Rounds(story, initial, n)
        /\ Walk(story, carried, entry) = w[ConfigCap].seen
  <2> HIDE DEF initial
  <2>1. \E w \in Walked(story, initial) : Walk(story, carried, entry) = w[ConfigCap].seen
    BY WalkInSteps DEF initial
  <2> QED  BY <2>1 DEF Walked
<1> HIDE DEF first, initial
<1>4. ConfigCap \in Nat /\ \A n \in 0 .. ConfigCap : n \in 0 .. limit
  BY GateAssumption DEF GateAssumption
<1> DEFINE T == {n \in 0 .. ConfigCap : \A k \in w[n].seen : \E t \in A[n] : ConfigKey(story, t) = k}
<1>5. 0 .. ConfigCap \subseteq T
  <2>1. 0 \in T
    BY <1>1, <1>2, <1>3, <1>4
  <2>2. ASSUME NEW n \in 1 .. ConfigCap, n - 1 \in T PROVE n \in T
    <3>1. /\ n \in 0 .. ConfigCap /\ n - 1 \in 0 .. ConfigCap /\ n \in 1 .. limit
          /\ n - 1 \in 0 .. limit /\ n \in 0 .. limit
      BY <1>4
    <3>2. \A k \in w[n - 1].seen : \E t \in A[n - 1] : ConfigKey(story, t) = k
      BY <2>2
    <3>3. w[n - 1].new \subseteq w[n - 1].seen /\ w[n - 1].seen \subseteq Configurations(story)
      BY <1>3, <3>1 DEF Rounds
    <3>4. A[n - 1] \subseteq A[n] /\ A[n - 1] \subseteq States(story) /\ \A t \in A[n - 1] : Then(story, t) \subseteq A[n]
      BY <1>2, <3>1
    <3>5. ASSUME NEW k \in w[n].seen PROVE \E t \in A[n] : ConfigKey(story, t) = k
      <4>1. CASE k \in w[n - 1].seen
        BY <3>2, <3>4, <4>1
      <4>2. CASE k \notin w[n - 1].seen
        <5>1. w[n] = Expand(story, w[n - 1])
          BY <1>3
        <5>2. PICK before \in w[n - 1].new : k \in Successors(story, before)
          BY <4>2, <5>1 DEF Expand
        <5>3. PICK u \in A[n - 1] : ConfigKey(story, u) = before
          BY <3>2, <3>3
        <5>4. PICK c \in Options(story, before) : k = ConfigKey(story, Choose(story, before, c))
          BY <5>2 DEF Successors
        <5>5. u \in States(story)
          BY <3>4
        <5>6. c \in VisibleChoices(story, u) /\ c \in ToSet(story.nodes[u.node].choices)
          BY <5>3, <5>4, <5>5, KeyFollows DEF Options, VisibleChoices
        <5>7. k = ConfigKey(story, Choose(story, u, c))
          BY <5>3, <5>4, <5>5, <5>6, KeyFollows
        <5>8. PICK t \in Then(story, u) : ConfigKey(story, t) = ConfigKey(story, Choose(story, u, c))
          BY <5>5, <5>6, ThenFollows
        <5> QED  BY <3>4, <5>7, <5>8
      <4> QED  BY <4>1, <4>2
    <3> QED  BY <3>1, <3>5
  <2> HIDE DEF T
  <2> QED  BY <1>4, <2>1, <2>2, Induction
<1>6. PICK t \in A[ConfigCap] : ConfigKey(story, t) = key
  <2>1. ConfigCap \in 0 .. ConfigCap
    BY <1>4
  <2> QED  BY <1>3, <1>5, <2>1
<1>7. t \in A[limit] /\ t \in States(story)
  <2>1. ConfigCap \in 0 .. limit /\ limit \in 0 .. limit
    BY <1>4
  <2>2. A[limit] \subseteq States(story)
    BY <2>1
  <2> QED  BY <1>2, <2>1, <2>2
<1> QED  BY <1>2, <1>6, <1>7 DEF s

\* The rounds of a search backwards from the target.
Backwards(story, configs, target, rounds) ==
  {R \in [0 .. rounds -> SUBSET configs] :
     R[0] = target /\ \A n \in 1 .. rounds : R[n] = R[n - 1] \cup Before(story, configs, R[n - 1])}

\* The configurations that can reach the target grow step by step.
LEMMA ReachingInSteps ==
  ASSUME NEW story, NEW configs, IsFiniteSet(configs), NEW target, target \subseteq configs
  PROVE  \E R \in Backwards(story, configs, target, Cardinality(configs)) :
           Reaching(story, configs, target) = R[Cardinality(configs)]
<1> DEFINE N == Cardinality(configs)
           S == SUBSET configs
           back1(r) == r \cup Before(story, configs, r)
           step == [n \in 1 .. N |-> [r \in S |-> back1(r)]]
           reaching == CHOOSE f : f = [n \in 0 .. Cardinality(configs) |->
                         IF n = 0 THEN target ELSE f[n - 1] \cup Before(story, configs, f[n - 1])]
<1>1. N \in Nat
  BY FS_CardinalityType
<1>2. \A r \in S : back1(r) \in S
  BY DEF Before
<1>3. step \in [1 .. N -> [S -> S]]
  <2> HIDE DEF S, N, back1
  <2> QED  BY <1>2
<1>4. PICK g \in [0 .. N -> S] : g[0] = target /\ \A n \in 1 .. N : g[n] = step[n][g[n - 1]]
  <2>1. target \in S
    OBVIOUS
  <2> HIDE DEF step, S, N
  <2>2. Iterates(S, N, target, step) /= {}
    BY <1>1, <1>3, <2>1, Recursion
  <2> QED  BY <2>2 DEF Iterates
<1>5. ASSUME NEW n \in 1 .. N PROVE g[n] = back1(g[n - 1]) /\ n \in 0 .. N /\ n /= 0
  <2>1. n - 1 \in 0 .. N /\ n \in 0 .. N /\ n /= 0
    BY <1>1
  <2> HIDE DEF S, N, back1
  <2>2. g[n - 1] \in S
    BY <2>1
  <2>3. step[n] = [r \in S |-> back1(r)]
    OBVIOUS
  <2> HIDE DEF step
  <2> QED  BY <1>4, <2>1, <2>2, <2>3
<1>6. g = [n \in 0 .. Cardinality(configs) |->
            IF n = 0 THEN target ELSE g[n - 1] \cup Before(story, configs, g[n - 1])]
  <2>1. g = [n \in 0 .. N |-> g[n]]
    BY <1>4
  <2>2. \A n \in 0 .. N : g[n] = IF n = 0 THEN target ELSE g[n - 1] \cup Before(story, configs, g[n - 1])
    <3> SUFFICES ASSUME NEW n \in 0 .. N, n /= 0 PROVE g[n] = back1(g[n - 1])
      BY <1>4
    <3>1. n \in 1 .. N
      BY <1>1
    <3> QED  BY <1>5, <3>1
  <2> QED  BY <2>1, <2>2
<1>7. reaching = [n \in 0 .. Cardinality(configs) |->
                   IF n = 0 THEN target ELSE reaching[n - 1] \cup Before(story, configs, reaching[n - 1])]
  BY <1>6, Zenon
<1>8. Reaching(story, configs, target) = reaching[N]
  BY Zenon DEF Reaching
<1> DEFINE T == {n \in 0 .. N : reaching[n] = g[n]}
<1>9. 0 .. N \subseteq T
  <2>1. 0 \in T
    <3>1. 0 \in 0 .. N
      BY <1>1
    <3>2. reaching[0] = target
      <4> HIDE DEF reaching
      <4> QED  BY <1>7, <3>1
    <3> HIDE DEF reaching, N
    <3>3. reaching[0] = g[0]
      BY <1>4, <3>2
    <3> QED  BY <3>1, <3>3
  <2>2. ASSUME NEW n \in 1 .. N, n - 1 \in T PROVE n \in T
    <3>1. reaching[n - 1] = g[n - 1]
      BY <2>2
    <3>2. reaching[n] = back1(reaching[n - 1])
      <4> HIDE DEF reaching
      <4> QED  BY <1>5, <1>7
    <3> HIDE DEF reaching, back1
    <3>3. reaching[n] = g[n]
      BY <1>5, <3>1, <3>2
    <3> QED  BY <1>5, <3>3
  <2> HIDE DEF T, N
  <2> QED  BY <1>1, <2>1, <2>2, Induction
<1>10. reaching[N] = g[N]
  <2>1. N \in 0 .. N
    BY <1>1
  <2> HIDE DEF reaching, N
  <2> QED  BY <1>9, <2>1
<1> HIDE DEF reaching
<1>11. \A n \in 1 .. N : g[n] = g[n - 1] \cup Before(story, configs, g[n - 1])
  BY <1>5
<1>12. g \in Backwards(story, configs, target, N)
  <2> HIDE DEF N
  <2> QED  BY <1>4, <1>11 DEF Backwards
<1> QED  BY <1>8, <1>10, <1>12

\* A walk the gate found no dead end and no loop without escape in leaves an ending ahead of
\* every reading with one of its configurations.
LEMMA EscapeLiesAhead ==
  ASSUME NEW story, Sound(story), NEW configs \in SUBSET Configurations(story), IsFiniteSet(configs),
         CheckDeadEnds(story, configs) = {}, CheckLoopEscape(story, configs) = {},
         NEW s \in States(story), ConfigKey(story, s) \in configs,
         NEW limit \in Nat, Cardinality(configs) <= limit
  PROVE  \E t \in Ahead(story, s, limit) : isEnding(story, t)
<1> DEFINE ended == {k \in configs : IsEnding(story.nodes[k.node])}
           N == Cardinality(configs)
<1>1. configs \subseteq Reaching(story, configs, ended)
  <2>1. DeadEnds(story, configs) = {}
    BY DEF CheckDeadEnds
  <2>2. (configs \ Reaching(story, configs, ended)) \ DeadEnds(story, configs) = {}
    BY DEF CheckLoopEscape
  <2> QED  BY <2>1, <2>2
<1>2. N \in Nat /\ N <= limit
  BY FS_CardinalityType
<1>3. PICK A \in [0 .. limit -> SUBSET States(story)] :
        /\ s \in A[0]
        /\ \A n \in 1 .. limit :
             A[n - 1] \subseteq A[n] /\ \A t \in A[n - 1] : Then(story, t) \subseteq A[n]
        /\ \A n \in 0 .. limit : A[n] \subseteq A[limit]
        /\ Ahead(story, s, limit) = A[limit]
  <2>1. \E A \in Outwards(story, s, limit) : Ahead(story, s, limit) = A[limit]
    BY AheadInSteps
  <2> QED  BY <2>1 DEF Outwards
<1>4. PICK R \in [0 .. N -> SUBSET configs] :
        /\ R[0] = ended
        /\ \A n \in 1 .. N : R[n] = R[n - 1] \cup Before(story, configs, R[n - 1])
        /\ Reaching(story, configs, ended) = R[N]
  <2>1. ended \subseteq configs
    OBVIOUS
  <2> HIDE DEF ended, N
  <2>2. \E R \in Backwards(story, configs, ended, N) : Reaching(story, configs, ended) = R[N]
    BY <2>1, ReachingInSteps DEF N
  <2> QED  BY <2>2 DEF Backwards
<1> DEFINE Found == \E t \in A[limit] : isEnding(story, t)
           T == {n \in 0 .. N : \A m \in 0 .. limit : m + n <= limit =>
                   \A t \in A[m] : ConfigKey(story, t) \in R[n] => Found}
<1>5. 0 .. N \subseteq T
  <2>1. 0 \in T
    <3> SUFFICES ASSUME NEW m \in 0 .. limit, NEW t \in A[m], ConfigKey(story, t) \in R[0] PROVE Found
      BY <1>2
    <3>1. IsEnding(story.nodes[ConfigKey(story, t).node])
      BY <1>4
    <3>2. ConfigKey(story, t).node = t.node
      BY DEF ConfigKey
    <3>3. t \in A[limit]
      BY <1>3
    <3> QED  BY <3>1, <3>2, <3>3 DEF isEnding
  <2>2. ASSUME NEW n \in 1 .. N, n - 1 \in T PROVE n \in T
    <3>1. n \in 0 .. N /\ n - 1 \in 0 .. N
      BY <1>2
    <3>2. \A m \in 0 .. limit : m + (n - 1) <= limit =>
            \A t \in A[m] : ConfigKey(story, t) \in R[n - 1] => Found
      BY <2>2
    <3> SUFFICES ASSUME NEW m \in 0 .. limit, m + n <= limit,
                        NEW t \in A[m], ConfigKey(story, t) \in R[n]
                 PROVE  Found
      BY <3>1
    <3>3. CASE ConfigKey(story, t) \in R[n - 1]
      <4>1. m + (n - 1) <= limit
        BY <1>2
      <4> HIDE DEF Found
      <4> QED  BY <3>2, <3>3, <4>1
    <3>4. CASE ConfigKey(story, t) \notin R[n - 1]
      <4>1. ConfigKey(story, t) \in Before(story, configs, R[n - 1])
        BY <1>4, <3>4
      <4>2. PICK k \in Successors(story, ConfigKey(story, t)) : k \in R[n - 1]
        BY <4>1 DEF Before
      <4>3. t \in States(story)
        BY <1>3
      <4>4. PICK c \in Options(story, ConfigKey(story, t)) : k = ConfigKey(story, Choose(story, ConfigKey(story, t), c))
        BY <4>2 DEF Successors
      <4>5. c \in VisibleChoices(story, t) /\ c \in ToSet(story.nodes[t.node].choices)
        BY <4>3, <4>4, KeyFollows DEF Options, VisibleChoices
      <4>6. k = ConfigKey(story, Choose(story, t, c))
        BY <4>3, <4>4, <4>5, KeyFollows
      <4>7. PICK u \in Then(story, t) : ConfigKey(story, u) = ConfigKey(story, Choose(story, t, c))
        BY <4>3, <4>5, ThenFollows
      <4>8. /\ m + 1 \in 1 .. limit /\ m + 1 \in 0 .. limit /\ (m + 1) - 1 = m
            /\ (m + 1) + (n - 1) <= limit
        BY <1>2
      <4>9. u \in A[m + 1]
        <5>1. \A v \in A[(m + 1) - 1] : Then(story, v) \subseteq A[m + 1]
          BY <1>3, <4>8
        <5> QED  BY <4>7, <4>8, <5>1
      <4>10. ConfigKey(story, u) \in R[n - 1]
        BY <4>2, <4>6, <4>7
      <4> HIDE DEF Found
      <4> QED  BY <3>2, <4>8, <4>9, <4>10
    <3> QED  BY <3>3, <3>4
  <2> HIDE DEF T, N
  <2> QED  BY <1>2, <2>1, <2>2, Induction
<1>6. Found
  <2>1. N \in 0 .. N /\ 0 \in 0 .. limit /\ 0 + N <= limit
    BY <1>2
  <2>2. N \in T
    <3> HIDE DEF T
    <3> QED  BY <1>5, <2>1
  <2>3. ConfigKey(story, s) \in R[N]
    BY <1>1, <1>4
  <2> HIDE DEF Found
  <2> QED  BY <1>3, <2>1, <2>2, <2>3
<1> QED  BY <1>3, <1>6

\* The rounds of a search along all choices.
Forwards(story, from, rounds) ==
  {C \in [0 .. rounds -> SUBSET Nodes(story)] :
     C[0] = from /\ \A n \in 1 .. rounds : C[n] = C[n - 1] \cup UNION {Targets(story, m) : m \in C[n - 1]}}

\* The nodes that can be reached in the graph grow step by step.
LEMMA ClosureInSteps ==
  ASSUME NEW story, Sound(story), NEW from, from \subseteq Nodes(story)
  PROVE  \E C \in Forwards(story, from, Cardinality(Nodes(story))) :
           GraphClosure(story, from) = C[Cardinality(Nodes(story))]
<1> DEFINE N == Cardinality(Nodes(story))
           S == SUBSET Nodes(story)
           wider(r) == r \cup UNION {Targets(story, m) : m \in r}
           step == [n \in 1 .. N |-> [r \in S |-> wider(r)]]
           closure == CHOOSE f : f = [n \in 0 .. Cardinality(Nodes(story)) |->
                        IF n = 0 THEN from ELSE f[n - 1] \cup UNION {Targets(story, m) : m \in f[n - 1]}]
<1>1. N \in Nat
  BY FS_CardinalityType DEF Sound, IsDocument, Nodes
<1>2. \A r \in S : wider(r) \in S
  BY DEF Sound
<1>3. step \in [1 .. N -> [S -> S]]
  <2> HIDE DEF S, N, wider
  <2> QED  BY <1>2
<1>4. PICK g \in [0 .. N -> S] : g[0] = from /\ \A n \in 1 .. N : g[n] = step[n][g[n - 1]]
  <2>1. from \in S
    OBVIOUS
  <2> HIDE DEF step, S, N
  <2>2. Iterates(S, N, from, step) /= {}
    BY <1>1, <1>3, <2>1, Recursion
  <2> QED  BY <2>2 DEF Iterates
<1>5. ASSUME NEW n \in 1 .. N PROVE g[n] = wider(g[n - 1]) /\ n \in 0 .. N /\ n /= 0
  <2>1. n - 1 \in 0 .. N /\ n \in 0 .. N /\ n /= 0
    BY <1>1
  <2> HIDE DEF S, N, wider
  <2>2. g[n - 1] \in S
    BY <2>1
  <2>3. step[n] = [r \in S |-> wider(r)]
    OBVIOUS
  <2> HIDE DEF step
  <2> QED  BY <1>4, <2>1, <2>2, <2>3
<1>6. g = [n \in 0 .. Cardinality(Nodes(story)) |->
            IF n = 0 THEN from ELSE g[n - 1] \cup UNION {Targets(story, m) : m \in g[n - 1]}]
  <2>1. g = [n \in 0 .. N |-> g[n]]
    BY <1>4
  <2>2. \A n \in 0 .. N :
          g[n] = IF n = 0 THEN from ELSE g[n - 1] \cup UNION {Targets(story, m) : m \in g[n - 1]}
    <3> SUFFICES ASSUME NEW n \in 0 .. N, n /= 0 PROVE g[n] = wider(g[n - 1])
      BY <1>4
    <3>1. n \in 1 .. N
      BY <1>1
    <3> QED  BY <1>5, <3>1
  <2> QED  BY <2>1, <2>2
<1>7. closure = [n \in 0 .. Cardinality(Nodes(story)) |->
                  IF n = 0 THEN from ELSE closure[n - 1] \cup UNION {Targets(story, m) : m \in closure[n - 1]}]
  BY <1>6, Zenon
<1>8. GraphClosure(story, from) = closure[N]
  BY Zenon DEF GraphClosure
<1> DEFINE T == {n \in 0 .. N : closure[n] = g[n]}
<1>9. 0 .. N \subseteq T
  <2>1. 0 \in T
    <3>1. 0 \in 0 .. N
      BY <1>1
    <3>2. closure[0] = from
      <4> HIDE DEF closure
      <4> QED  BY <1>7, <3>1
    <3> HIDE DEF closure, N
    <3>3. closure[0] = g[0]
      BY <1>4, <3>2
    <3> QED  BY <3>1, <3>3
  <2>2. ASSUME NEW n \in 1 .. N, n - 1 \in T PROVE n \in T
    <3>1. closure[n - 1] = g[n - 1]
      BY <2>2
    <3>2. closure[n] = wider(closure[n - 1])
      <4> HIDE DEF closure
      <4> QED  BY <1>5, <1>7
    <3> HIDE DEF closure, wider
    <3>3. closure[n] = g[n]
      BY <1>5, <3>1, <3>2
    <3> QED  BY <1>5, <3>3
  <2> HIDE DEF T, N
  <2> QED  BY <1>1, <2>1, <2>2, Induction
<1>10. closure[N] = g[N]
  <2>1. N \in 0 .. N
    BY <1>1
  <2> HIDE DEF closure, N
  <2> QED  BY <1>9, <2>1
<1> HIDE DEF closure
<1>11. \A n \in 1 .. N : g[n] = g[n - 1] \cup UNION {Targets(story, m) : m \in g[n - 1]}
  BY <1>5
<1>12. g \in Forwards(story, from, N)
  <2> HIDE DEF N
  <2> QED  BY <1>4, <1>11 DEF Forwards
<1> QED  BY <1>8, <1>10, <1>12

\* In a story without conditions the graph of all choices is the graph of the visible ones, so
\* L1-4 leaves an ending ahead of every reading.
LEMMA GraphLiesAhead ==
  ASSUME NEW story, Sound(story), \A c \in AllChoices(story) : c.condition = {},
         CheckGraphTermination(story) = {},
         NEW s \in States(story), NEW limit \in Nat, Cardinality(Nodes(story)) <= limit
  PROVE  \E t \in Ahead(story, s, limit) : isEnding(story, t)
<1> DEFINE N == Cardinality(Nodes(story))
<1>1. N \in Nat /\ N <= limit
  BY FS_CardinalityType DEF Sound, IsDocument, Nodes
<1>2. s.node \in Nodes(story) /\ {s.node} \subseteq Nodes(story)
  BY DEF States
<1>3. PICK end \in GraphClosure(story, {s.node}) : IsEnding(story.nodes[end])
  BY <1>2 DEF CheckGraphTermination
<1>4. PICK A \in [0 .. limit -> SUBSET States(story)] :
        /\ s \in A[0]
        /\ \A n \in 1 .. limit :
             A[n - 1] \subseteq A[n] /\ \A t \in A[n - 1] : Then(story, t) \subseteq A[n]
        /\ \A n \in 0 .. limit : A[n] \subseteq A[limit]
        /\ Ahead(story, s, limit) = A[limit]
  <2>1. \E A \in Outwards(story, s, limit) : Ahead(story, s, limit) = A[limit]
    BY AheadInSteps
  <2> QED  BY <2>1 DEF Outwards
<1>5. PICK C \in [0 .. N -> SUBSET Nodes(story)] :
        /\ C[0] = {s.node}
        /\ \A n \in 1 .. N : C[n] = C[n - 1] \cup UNION {Targets(story, m) : m \in C[n - 1]}
        /\ GraphClosure(story, {s.node}) = C[N]
  <2> HIDE DEF N
  <2>1. \E C \in Forwards(story, {s.node}, N) : GraphClosure(story, {s.node}) = C[N]
    BY <1>2, ClosureInSteps DEF N
  <2> QED  BY <2>1 DEF Forwards
<1> DEFINE T == {n \in 0 .. N : \A m \in C[n] : \E t \in A[n] : t.node = m}
<1>6. 0 .. N \subseteq T
  <2>1. 0 \in T
    BY <1>1, <1>4, <1>5
  <2>2. ASSUME NEW n \in 1 .. N, n - 1 \in T PROVE n \in T
    <3>1. n \in 0 .. N /\ n - 1 \in 0 .. limit /\ n \in 1 .. limit
      BY <1>1
    <3>2. \A m \in C[n - 1] : \E t \in A[n - 1] : t.node = m
      BY <2>2
    <3>3. A[n - 1] \subseteq A[n] /\ A[n - 1] \subseteq States(story) /\ \A t \in A[n - 1] : Then(story, t) \subseteq A[n]
      BY <1>4, <3>1
    <3>4. ASSUME NEW m \in C[n] PROVE \E t \in A[n] : t.node = m
      <4>1. CASE m \in C[n - 1]
        BY <3>2, <3>3, <4>1
      <4>2. CASE m \notin C[n - 1]
        <5>1. PICK before \in C[n - 1] : m \in Targets(story, before)
          BY <1>5, <4>2
        <5>2. PICK u \in A[n - 1] : u.node = before
          BY <3>2
        <5>3. PICK c \in ToSet(story.nodes[u.node].choices) : c.target = m
          BY <5>1, <5>2 DEF Targets
        <5>4. u \in States(story) /\ u.node \in Nodes(story)
          BY <3>3 DEF States
        <5>5. c \in AllChoices(story)
          BY <5>4, GoodNodes
        <5>6. c \in VisibleChoices(story, u)
          BY <5>5 DEF VisibleChoices, Visible
        <5>7. PICK t \in Then(story, u) : t.node = c.target
          BY <5>4, <5>6, ThenFollows
        <5> QED  BY <3>3, <5>3, <5>7
      <4> QED  BY <4>1, <4>2
    <3> QED  BY <3>1, <3>4
  <2> HIDE DEF T, N
  <2> QED  BY <1>1, <2>1, <2>2, Induction
<1>7. PICK t \in A[N] : t.node = end
  <2>1. N \in 0 .. N
    BY <1>1
  <2> HIDE DEF N
  <2> QED  BY <1>3, <1>5, <1>6, <2>1
<1>8. t \in A[limit]
  <2>1. N \in 0 .. limit
    BY <1>1
  <2> HIDE DEF N
  <2> QED  BY <1>4, <2>1
<1> QED  BY <1>3, <1>4, <1>7, <1>8 DEF isEnding

\* A story entered with values that count the same is entered the same, and walked the same.
LEMMA SameEntry ==
  ASSUME NEW story, NEW carried, NEW other,
         \A v \in DOMAIN story.vars : CarriedValue(story, carried, v) = CarriedValue(story, other, v)
  PROVE  Walk(story, carried, {}) = Walk(story, other, {})
<1>1. [v \in DOMAIN story.vars |-> CarriedValue(story, carried, v)]
        = [v \in DOMAIN story.vars |-> CarriedValue(story, other, v)]
  OBVIOUS
<1>2. StartContinuation(story, carried, {}) = StartContinuation(story, other, {})
  BY <1>1 DEF StartContinuation
<1> QED  BY <1>2 DEF Walk

\* A walk that is whole and has no dead end and no loop without escape.
Escapes(story, configs) ==
  ~Capped(configs) /\ CheckDeadEnds(story, configs) = {} /\ CheckLoopEscape(story, configs) = {}

\* CH-3b: an envelope state without regressions is walked as well as a fresh read.
LEMMA NoRegression ==
  ASSUME NEW story, RunGate(story), story.tier /= 1, NEW state, Regressions(story, state) = {}
  PROVE  Escapes(story, Walk(story, state, {}))
<1> DEFINE configs == Walk(story, state, {})
<1>1. ValidateLayer2(story, NoVars, {}) = {}
  BY DEF RunGate
<1>2. \A f \in ValidateLayer2(story, state, {}) : f.rule \notin {"L2-9", "L2-10", "L2-12", "L2-14"}
  BY <1>1 DEF Regressions
<1>3. ~Capped(configs)
  <2> SUFFICES ASSUME Capped(configs) PROVE FALSE
    OBVIOUS
  <2>1. StoryFinding("L2-12") \in ValidateLayer2(story, state, {})
    BY DEF ValidateLayer2
  <2>2. StoryFinding("L2-12").rule = "L2-12"
    BY DEF StoryFinding, Finding
  <2> QED  BY <1>2, <2>1, <2>2
<1>4. CheckDeadEnds(story, configs) \subseteq ValidateLayer2(story, state, {})
      /\ CheckLoopEscape(story, configs) \subseteq ValidateLayer2(story, state, {})
  BY <1>3 DEF ValidateLayer2
<1>5. CheckDeadEnds(story, configs) = {}
  <2>1. ASSUME NEW f \in CheckDeadEnds(story, configs)
        PROVE  f.rule = "L2-9"
    <3>1. PICK k : f = Finding("L2-9", k.node, "", k.vars)
      BY DEF CheckDeadEnds
    <3> QED  BY <3>1 DEF Finding
  <2> QED  BY <1>2, <1>4, <2>1
<1>6. CheckLoopEscape(story, configs) = {}
  <2>1. ASSUME NEW f \in CheckLoopEscape(story, configs)
        PROVE  f.rule = "L2-10"
    <3>1. PICK k : f = Finding("L2-10", k.node, "", k.vars)
      BY DEF CheckLoopEscape
    <3> QED  BY <3>1 DEF Finding
  <2> QED  BY <1>2, <1>4, <2>1
<1> QED  BY <1>3, <1>5, <1>6 DEF Escapes

\* Whatever character a child has, the walk of the story entered as that character is one the
\* gate has judged: that of the envelope state its values are clamped to.
LEMMA CharacterWalkEscapes ==
  ASSUME NEW story, Sound(story), RunGate(story), story.tier /= 1, NEW seed \in Characters
  PROVE  Escapes(story, Walk(story, seed, {}))
<1>1. /\ DOMAIN seed = DOMAIN Canonical
      /\ \A v \in DOMAIN Canonical : seed[v] \in Value /\ seed[v].kind = "int" /\ seed[v].n \in Int
  <2> DEFINE numbers == UNION {Canonical[v].min .. Canonical[v].max : v \in DOMAIN Canonical}
  <2>1. seed \in [DOMAIN Canonical -> {Num(k) : k \in numbers}]
    BY DEF Characters
  <2>2. \A x \in {Num(k) : k \in numbers} : x.kind = "int"
    BY DEF Num
  <2>3. Carries(seed)
    BY CharactersCarry
  <2> HIDE DEF numbers
  <2> QED  BY <2>1, <2>2, <2>3 DEF Carries, Value
<1>2. Escapes(story, Fresh(story))
  BY FreshIsWhole DEF Escapes
<1>3. ValidateCharacter(story) = {}
  BY DEF RunGate
<1>4. CASE story.accepts = {}
  <2>1. DOMAIN story.vars \cap DOMAIN Canonical = {}
    BY <1>3, <1>4 DEF ValidateCharacter
  <2>2. ASSUME NEW v \in DOMAIN story.vars
        PROVE  CarriedValue(story, seed, v) = CarriedValue(story, NoVars, v)
    <3>1. v \notin DOMAIN seed /\ v \notin DOMAIN NoVars
      BY <1>1, <2>1 DEF NoVars
    <3> QED  BY <3>1 DEF CarriedValue
  <2>3. Walk(story, seed, {}) = Fresh(story)
    BY <2>2, SameEntry DEF Fresh
  <2> QED  BY <1>2, <2>3
<1>5. CASE story.accepts /= {}
  <2> DEFINE envelope == CHOOSE e \in story.accepts : TRUE
             state == [v \in DOMAIN envelope |-> Num(Clamp(story, v, seed[v].n))]
  <2>1. envelope \in story.accepts /\ envelope \in [DOMAIN envelope -> [min : Int, max : Int]]
    <3>1. envelope \in story.accepts
      BY <1>5
    <3> HIDE DEF envelope
    <3> QED  BY <3>1 DEF Sound, IsDocument
  <2>2. CharacterBlock(story, envelope) /\ \A s \in EnvelopeStates(envelope) : Regressions(story, s) = {}
    <3>1. CharacterBlock(story, envelope)
      BY <1>3, <1>5 DEF ValidateCharacter
    <3>2. \A s \in EnvelopeStates(envelope) : Regressions(story, s) \subseteq ValidateCharacter(story)
      BY <1>5, <3>1 DEF ValidateCharacter
    <3> QED  BY <1>3, <3>1, <3>2
  <2> HIDE DEF envelope
  <2>3. /\ \A v \in DOMAIN envelope :
             /\ v \in DOMAIN Canonical /\ v \in DOMAIN story.vars /\ story.vars[v].type = "int"
             /\ story.vars[v].min = {envelope[v].min} /\ story.vars[v].max = {envelope[v].max}
        /\ DOMAIN story.vars \cap DOMAIN Canonical \subseteq DOMAIN envelope
    BY <2>2 DEF CharacterBlock
  <2>4. ASSUME NEW v \in DOMAIN envelope
        PROVE  /\ Clamp(story, v, seed[v].n) \in envelope[v].min .. envelope[v].max
               /\ Clamp(story, v, Clamp(story, v, seed[v].n)) = Clamp(story, v, seed[v].n)
    <3> DEFINE n == Clamp(story, v, seed[v].n)
    <3>1. envelope[v].min \in Int /\ envelope[v].max \in Int
      BY <2>1
    <3>2. n \in Int /\ (\A lo \in story.vars[v].min : n >= lo) /\ (\A hi \in story.vars[v].max : n <= hi)
      BY <1>1, <2>3, Clamped
    <3> HIDE DEF n
    <3>3. n \in envelope[v].min .. envelope[v].max
      BY <2>3, <3>1, <3>2
    <3>4. ~(\E lo \in story.vars[v].min : n < lo) /\ ~(\E hi \in story.vars[v].max : n > hi)
      BY <2>3, <3>1, <3>2
    <3>5. Clamp(story, v, n) = n
      BY <3>4 DEF Clamp
    <3> QED  BY <3>3, <3>5 DEF n
  <2>5. state \in EnvelopeStates(envelope)
    <3> DEFINE numbers == UNION {envelope[v].min .. envelope[v].max : v \in DOMAIN envelope}
    <3>1. \A v \in DOMAIN envelope : Clamp(story, v, seed[v].n) \in numbers
      BY <2>4
    <3>2. \A v \in DOMAIN envelope : state[v].n = Clamp(story, v, seed[v].n)
      BY DEF Num
    <3> HIDE DEF numbers
    <3>3. state \in [DOMAIN envelope -> {Num(k) : k \in numbers}]
      BY <3>1
    <3> HIDE DEF state
    <3> QED  BY <2>4, <3>2, <3>3 DEF EnvelopeStates, numbers
  <2>6. ASSUME NEW v \in DOMAIN story.vars
        PROVE  CarriedValue(story, seed, v) = CarriedValue(story, state, v)
    <3>1. CASE v \in DOMAIN envelope
      <4> DEFINE n == Clamp(story, v, seed[v].n)
      <4>1. CarriedValue(story, seed, v) = Num(n)
        BY <1>1, <2>3, <3>1 DEF CarriedValue
      <4>2. state[v] = Num(n) /\ v \in DOMAIN state
        BY <3>1
      <4>3. Num(n).kind = "int" /\ Num(n).n = n
        BY DEF Num
      <4>4. Clamp(story, v, n) = n
        BY <2>4, <3>1
      <4> HIDE DEF state, n
      <4> QED  BY <2>3, <3>1, <4>1, <4>2, <4>3, <4>4 DEF CarriedValue
    <3>2. CASE v \notin DOMAIN envelope
      <4>1. v \notin DOMAIN seed /\ v \notin DOMAIN state
        BY <1>1, <2>3, <3>2
      <4> HIDE DEF state
      <4> QED  BY <4>1 DEF CarriedValue
    <3> QED  BY <3>1, <3>2
  <2> HIDE DEF state
  <2>7. Walk(story, seed, {}) = Walk(story, state, {})
    BY <2>6, SameEntry
  <2>8. Escapes(story, Walk(story, state, {}))
    BY <2>2, <2>5, NoRegression
  <2> QED  BY <2>7, <2>8
<1> QED  BY <1>4, <1>5

(***************************************************************************)
(* The ways on.                                                            *)
(***************************************************************************)
\* The horizon is as far as any loop, of configurations or of nodes.
LEMMA HorizonIsFar ==
  ASSUME NEW story, Sound(story)
  PROVE  /\ Horizon(story) \in Nat /\ ConfigCap <= Horizon(story)
         /\ Cardinality(Nodes(story)) <= Horizon(story)
<1>1. Cardinality(Nodes(story)) \in Nat
  BY FS_CardinalityType DEF Sound, IsDocument, Nodes
<1>2. ConfigCap \in Nat
  BY GateAssumption DEF GateAssumption
<1> QED  BY <1>1, <1>2 DEF Horizon

\* Every reading can be finished: its configuration is in a walk without dead ends or traps.
LEMMA InvFinish == ReaderInv /\ book /= 0 => ReaderCanFinish
<1> SUFFICES ASSUME ReaderInv, book /= 0, origin.how \in {"fresh", "character"}, Judged(Story)
             PROVE  \E t \in Ahead(Story, WithoutPath(reading), Horizon(Story)) : isEnding(Story, t)
  BY DEF ReaderCanFinish, CanFinish, Futures
<1>1. /\ Sound(Story) /\ RunGate(Story) /\ OriginOk(Story, origin)
      /\ reading \in Reached(Story, origin) /\ reading \in States(Story)
  BY StoryIsSound DEF ReaderInv, Passed, Reached
<1> DEFINE s == WithoutPath(reading)
<1>2. s \in States(Story) /\ ConfigKey(Story, s) = ConfigKey(Story, reading)
  BY <1>1, PathDropped
<1> HIDE DEF s
<1>3. CASE Story.tier = 1
  <2>1. \A c \in AllChoices(Story) : c.condition = {}
    BY <1>3 DEF Judged
  <2>2. CheckGraphTermination(Story) = {}
    BY <1>1 DEF RunGate, ValidateLayer1
  <2> QED  BY <1>1, <1>2, <2>1, <2>2, HorizonIsFar, GraphLiesAhead DEF s
<1>4. CASE Story.tier /= 1
  <2>1. Escapes(Story, Fresh(Story))
    BY <1>1, <1>4, FreshIsWhole DEF Escapes
  <2>2. Escapes(Story, WalkOf(Story, origin))
    <3>1. CASE origin.how = "fresh"
      <4>1. WalkOf(Story, origin) = Fresh(Story)
        BY <1>1, <3>1 DEF OriginOk, WalkOf, Fresh
      <4> QED  BY <2>1, <4>1
    <3>2. CASE origin.how = "character"
      <4>1. WalkOf(Story, origin) = Walk(Story, origin.carried, {}) /\ origin.carried \in Characters
        BY <1>1, <3>2 DEF OriginOk, WalkOf
      <4> QED  BY <1>1, <1>4, <4>1, CharacterWalkEscapes
    <3> QED  BY <3>1, <3>2
  <2>3. PICK configs \in {WalkOf(Story, origin), Fresh(Story)} : ConfigKey(Story, reading) \in configs
    BY <1>1, <2>1, <2>2 DEF Reached, Escapes
  <2>4. configs \in SUBSET Configurations(Story) /\ IsFiniteSet(configs)
    <3>1. Carries(origin.carried) /\ AtMostOne(origin.entry)
      BY <1>1 DEF OriginOk
    <3>2. CASE configs = WalkOf(Story, origin)
      BY <1>1, <3>1, <3>2, WalkDone DEF WalkOf
    <3>3. CASE configs = Fresh(Story)
      BY <1>1, <3>3, NothingCarried, WalkDone DEF Fresh
    <3> QED  BY <2>3, <3>2, <3>3
  <2>5. Escapes(Story, configs)
    BY <2>1, <2>2, <2>3
  <2>6. Cardinality(configs) <= Horizon(Story) /\ Horizon(Story) \in Nat
    <3>1. Cardinality(configs) \in Nat
      BY <2>4, FS_CardinalityType
    <3>2. ConfigCap \in Nat
      BY GateAssumption DEF GateAssumption
    <3> QED  BY <1>1, <2>5, <3>1, <3>2, HorizonIsFar DEF Escapes, Capped
  <2> QED  BY <1>1, <1>2, <2>3, <2>4, <2>5, <2>6, EscapeLiesAhead DEF Escapes, s
<1> QED  BY <1>3, <1>4

\* A continuation the gate tried can be won: the satisfying ending of its walk lies ahead.
LEMMA InvWinnable == ReaderInv /\ book /= 0 => ContinuationIsWinnable
<1> SUFFICES ASSUME ReaderInv, book /= 0, origin.tried,
                    reading = startContinuation(Story, origin.carried, origin.entry),
                    ~Capped(WalkOf(Story, origin))
             PROVE  \E t \in Ahead(Story, WithoutPath(reading), Horizon(Story)) : IsSatisfying(Story.nodes[t.node])
  BY DEF ContinuationIsWinnable, Futures, WalkOf
<1>1. Sound(Story) /\ OriginOk(Story, origin)
  BY StoryIsSound DEF ReaderInv
<1>2. Carries(origin.carried) /\ AtMostOne(origin.entry)
      /\ SatisfyingEndingReachable(Story, origin.carried, origin.entry)
  BY <1>1 DEF OriginOk
<1>3. PICK key \in Walk(Story, origin.carried, origin.entry) : IsSatisfying(Story.nodes[key.node])
  BY <1>2 DEF SatisfyingEndingReachable, WalkOf
<1>4. PICK t \in Ahead(Story, WithoutPath(reading), Horizon(Story)) : ConfigKey(Story, t) = key
  BY <1>1, <1>2, HorizonIsFar, WalkLiesAhead
<1>5. t.node = key.node
  BY <1>4 DEF ConfigKey
<1> QED  BY <1>3, <1>4, <1>5

\* Before a book is opened there is nothing to finish.
LEMMA NothingOpened ==
  ReaderInv /\ book = 0 => ReaderCanFinish /\ ContinuationIsWinnable
<1> SUFFICES ASSUME ReaderInv, book = 0 PROVE ReaderCanFinish /\ ContinuationIsWinnable
  OBVIOUS
<1>1. origin = Unopened
  BY DEF ReaderInv
<1>2. origin.how \notin {"fresh", "character"} /\ ~origin.tried
  BY <1>1 DEF Unopened
<1> QED  BY <1>2 DEF ReaderCanFinish, ContinuationIsWinnable

\* A published story never leaves a child stuck: the validator proves it of configurations
\* with its own engine (L1-4, L2-9, L2-10, CH-3b), the child reads on with the other.
THEOREM NoReaderIsStuck == ReadingSpec => []ReaderCanFinish
<1>1. ReaderInv => ReaderCanFinish
  BY InvFinish, NothingOpened
<1> QED  BY <1>1, ReaderInvariant, PTL

\* SR-9 keeps its promise: who finished a book as the validator walked it enters a next
\* book that can be finished well.
THEOREM ContinuationsCanBeWon == ReadingSpec => []ContinuationIsWinnable
<1>1. ReaderInv => ContinuationIsWinnable
  BY InvWinnable, NothingOpened
<1> QED  BY <1>1, ReaderInvariant, PTL

(***************************************************************************)
(* The approval: type correctness, the two invariants the approval gate    *)
(* rests on, and that StoryLifecycle implements StoryShelf.                *)
(***************************************************************************)
\* A screening makes a report, and judges passages of the story.
LEMMA ScreeningType ==
  \A s \in AllStages \cup {EntryBlocked} : s.report \in Report /\ s.judged \subseteq Node
<1>1. EntryBlocked.report \in Report /\ EntryBlocked.judged \subseteq Node
  BY DEF EntryBlocked, AllClean, Report, Verdict
<1>2. ASSUME NEW s \in ClassifierBlocks
      PROVE  s.report \in Report /\ s.judged \subseteq Node
  BY <1>2 DEF ClassifierBlocks, Report, Verdict
<1>3. ASSUME NEW s \in Reviews
      PROVE  s.report \in Report /\ s.judged \subseteq Node
  <2>1. PICK f \in [Node -> Verdict], u \in SUBSET Node, gap \in BOOLEAN,
             w \in {"clean", "flag", "block"} :
          s = [report |-> [found |-> [n \in Node |-> IF n \in u THEN "clean" ELSE f[n]],
                           unreviewed |-> u, unscreened |-> gap,
                           whole |-> IF \E n \in Node \ u : f[n] = "block"
                                     THEN "clean" ELSE w],
               judged |-> Node \ u]
    BY <1>3 DEF Reviews
  <2>2. [n \in Node |-> IF n \in u THEN "clean" ELSE f[n]] \in [Node -> Verdict]
    BY DEF Verdict
  <2> QED  BY <2>1, <2>2 DEF Report
<1> QED  BY <1>1, <1>2, <1>3 DEF AllStages

\* Rewriting passages of a text makes a text.
LEMMA RewrittenType ==
  ASSUME text \in Text, NEW changed
  PROVE  Rewritten(changed) \in Text
BY DEF Rewritten, Text

\* The answer on an edited passage merged into a report makes a report.
LEMMA MergedType ==
  ASSUME report \in Report, NEW n \in Node, NEW verdict \in Verdict,
         NEW reviewed \in BOOLEAN, NEW screened \in BOOLEAN
  PROVE  Merged(n, verdict, reviewed, screened) \in Report
<1>1. [report.found EXCEPT ![n] = verdict] \in [Node -> Verdict]
  BY DEF Report
<1>2. (IF reviewed THEN report.unreviewed ELSE report.unreviewed \cup {n}) \in SUBSET Node
  BY DEF Report
<1>3. (report.unscreened \/ ~screened) \in BOOLEAN
  OBVIOUS
<1> QED  BY <1>1, <1>2, <1>3 DEF Merged, Report

\* The pipeline leaves a report that was made on the text it leaves, and it leaves
\* the text alone unless a repair is allowed.
LEMMA PipelineEffect ==
  ASSUME text \in Text, judged \subseteq Node, NEW allowRepair \in BOOLEAN, Pipeline(allowRepair)
  PROVE  /\ text' \in Text /\ report' \in Report /\ judged' \subseteq Node
         /\ basis' = text'
         /\ ~allowRepair => text' = text
<1>1. CASE \E s \in AllStages \cup {EntryBlocked} : UNCHANGED text /\ Persist(s, judged)
  BY <1>1, ScreeningType DEF Persist
<1>2. CASE allowRepair /\ AdoptRepair
  BY <1>2, ScreeningType, RewrittenType DEF AdoptRepair, Persist
<1> QED  BY <1>1, <1>2 DEF Pipeline

-----------------------------------------------------------------------------
(***************************************************************************)
(* The inductive invariant.  Neither property is inductive without the     *)
(* type, which says that a story has a report from its first moderation on.*)
(***************************************************************************)
IInv == TypeOK /\ PublishedAsApproved /\ ReportSpeaksOfText

LEMMA InitIInv == Init => IInv
<1> SUFFICES ASSUME Init PROVE IInv
  OBVIOUS
<1>1. TypeOK
  BY DEF Init, TypeOK, Status, Text
<1> QED  BY <1>1 DEF Init, IInv, PublishedAsApproved, ReportSpeaksOfText

LEMMA StepIInv == IInv /\ [Next]_vars => IInv'
<1> SUFFICES ASSUME IInv, [Next]_vars PROVE IInv'
  OBVIOUS
<1> USE DEF IInv
<1>1. CASE Moderate
  <2>1. Pipeline(TRUE) /\ status' \in {"in_review", "needs_revision"}
    BY <1>1 DEF Moderate, Move, Transition
  <2>2. /\ text' \in Text /\ report' \in Report /\ judged' \subseteq Node
        /\ basis' = text'
    BY <2>1, PipelineEffect DEF TypeOK
  <2>3. TypeOK'
    BY <1>1, <2>1, <2>2 DEF Moderate, TypeOK, Status, approval
  <2> QED  BY <2>1, <2>2, <2>3 DEF PublishedAsApproved, ReportSpeaksOfText
<1>2. CASE Remoderate
  <2>1. Pipeline(status = "in_review") /\ status' = status
    BY <1>2 DEF Remoderate, AllowRepair, storybook
  <2>2. /\ text' \in Text /\ report' \in Report /\ judged' \subseteq Node
        /\ basis' = text' /\ (status /= "in_review" => text' = text)
    BY <2>1, PipelineEffect DEF TypeOK
  <2>3. TypeOK'
    BY <1>2, <2>1, <2>2 DEF Remoderate, Remoderatable, TypeOK, approval, storybook
  <2>4. PublishedAsApproved'
    BY <1>2, <2>2 DEF Remoderate, PublishedAsApproved, storybook, approval
  <2> QED  BY <2>2, <2>3, <2>4 DEF ReportSpeaksOfText
<1>3. CASE Submit
  <2>1. status' = "in_review"
    BY <1>3 DEF Submit, Move, Transition
  <2>2. report \in Report
    BY <1>3 DEF Submit, TypeOK
  <2> QED
    BY <1>3, <2>1, <2>2
    DEF Submit, TypeOK, PublishedAsApproved, ReportSpeaksOfText, Status, approval, review
<1>4. CASE SendBack \/ Recall \/ Archive
  <2>1. /\ status' \in {"needs_revision", "in_review", "archived"}
        /\ status' = "archived" => status = "published"
        /\ status /= "draft"
    BY <1>4 DEF SendBack, Recall, Archive, Move, Transition
  <2> QED
    BY <1>4, <2>1
    DEF SendBack, Recall, Archive, TypeOK, PublishedAsApproved, ReportSpeaksOfText, Status, approval, review
<1>5. ASSUME NEW n \in Node, Edit(n) PROVE IInv'
  <2>1. status' = status /\ status \in {"in_review", "needs_revision"} /\ report \in Report
    BY <1>5 DEF Edit, Editable, TypeOK, storybook
  <2>2. text' \in Text
    BY <1>5, RewrittenType DEF Edit, TypeOK
  <2>3. basis' = text'
    <3>1. basis = text
      BY <2>1, ConstantsAssumption DEF ReportSpeaksOfText
    <3>2. basis' = [text EXCEPT ![n] = text[n] + 1] /\ text' = Rewritten({n})
      BY <1>5, <3>1 DEF Edit
    <3> QED  BY <3>2 DEF Rewritten, TypeOK, Text
  <2>4. judged' \subseteq Node
    BY <1>5 DEF Edit, ScreenPassage, TypeOK
  <2>5. report' \in Report
    <3>1. PICK verdict \in Verdict, reviewed \in BOOLEAN, screened \in BOOLEAN :
            report' = Merged(n, verdict, reviewed, screened)
      BY <1>5 DEF Edit, ScreenPassage, Verdict
    <3> QED  BY <2>1, <3>1, MergedType
  <2>6. TypeOK'
    BY <1>5, <2>1, <2>2, <2>3, <2>4, <2>5 DEF Edit, TypeOK, storybook, approval
  <2> QED  BY <2>1, <2>3, <2>6 DEF PublishedAsApproved, ReportSpeaksOfText
<1>6. ASSUME NEW a \in Admin, NEW override \in BOOLEAN, Approve(a, override) PROVE IInv'
  <2>1. status' = "published" /\ report \in Report
    BY <1>6 DEF Approve, Move, Transition, TypeOK
  <2> QED
    BY <1>6, <2>1
    DEF Approve, TypeOK, PublishedAsApproved, ReportSpeaksOfText, Status, review
<1>7. CASE UNCHANGED vars
  BY <1>7 DEF vars, TypeOK, PublishedAsApproved, ReportSpeaksOfText
<1> QED  BY <1>1, <1>2, <1>3, <1>4, <1>5, <1>6, <1>7 DEF Next

\* Every state of the story has the type the model gives it; in particular a story
\* past its first moderation has a report (publishing/service.py submit relies on it).
THEOREM TypeCorrect == Spec => []TypeOK
<1>1. Spec => []IInv
  BY InitIInv, StepIInv, PTL DEF Spec
<1> QED  BY <1>1, PTL DEF IInv

\* A published story has an approver, and says what it said when it was approved:
\* repairs, edits and second moderations (allow_repair, _EDITABLE_STATUSES) cannot
\* change it while it is out.
THEOREM PublishedAsApprovedAlways == Spec => []PublishedAsApproved
<1>1. Spec => []IInv
  BY InitIInv, StepIInv, PTL DEF Spec
<1> QED  BY <1>1, PTL DEF IInv

\* Every verdict in the report the approval gate reads was given on the present text
\* of its passage.
THEOREM ReportSpeaksOfTextAlways == Spec => []ReportSpeaksOfText
<1>1. Spec => []IInv
  BY InitIInv, StepIInv, PTL DEF Spec
<1> QED  BY <1>1, PTL DEF IInv

-----------------------------------------------------------------------------
(***************************************************************************)
(* Refinement.                                                             *)
(***************************************************************************)
LEMMA InitShelf == Init => Shelf!Init
BY DEF Init, Shelf!Init

\* A step puts the text on the shelf, takes it off, or leaves the shelf as it is.
LEMMA StepShelf == IInv /\ [Next]_vars => [Shelf!Next]_Shelf!vars
<1> SUFFICES ASSUME IInv, [Next]_vars PROVE [Shelf!Next]_Shelf!vars
  OBVIOUS
<1> DEFINE onShelf == IF status = "published" THEN text ELSE Nothing
<1> USE DEF IInv, Shelf!vars
<1>1. CASE Moderate
  <2>1. status /= "published" /\ status' /= "published" /\ approvedBy' = approvedBy
    BY <1>1 DEF Moderate, Move, Transition, approval
  <2> QED  BY <2>1
<1>2. CASE Remoderate
  <2>1. /\ status' = status /\ approvedBy' = approvedBy
        /\ status /= "in_review" => text' = text
    BY <1>2, PipelineEffect DEF Remoderate, AllowRepair, TypeOK, storybook, approval
  <2> QED  BY <1>2, <2>1 DEF Remoderate
<1>3. CASE Submit
  <2>1. status /= "published" /\ status' /= "published" /\ approvedBy' = approvedBy
    BY <1>3 DEF Submit, Move, Transition, approval
  <2> QED  BY <2>1
<1>4. CASE SendBack \/ Recall \/ Archive
  <2>1. status' /= "published" /\ approvedBy' = approvedBy /\ text' = text
    BY <1>4 DEF SendBack, Recall, Archive, Move, Transition, approval
  <2>2. CASE status = "published"
    <3>1. text /= Nothing
      BY ConstantsAssumption DEF TypeOK
    <3> QED  BY <2>1, <2>2, <3>1 DEF Shelf!Next, Shelf!Withdraw
  <2> QED  BY <2>1, <2>2
<1>5. ASSUME NEW n \in Node, Edit(n) PROVE [Shelf!Next]_Shelf!vars
  BY <1>5 DEF Edit, Editable, storybook, approval
<1>6. ASSUME NEW a \in Admin, NEW override \in BOOLEAN, Approve(a, override)
      PROVE  [Shelf!Next]_Shelf!vars
  <2>1. status = "in_review" /\ status' = "published" /\ text' \in Text /\ approvedBy' = a
    BY <1>6 DEF Approve, Move, Transition, TypeOK
  <2> QED  BY <2>1 DEF Shelf!Next, Shelf!Release
<1>7. CASE UNCHANGED vars
  BY <1>7 DEF vars
<1> QED  BY <1>1, <1>2, <1>3, <1>4, <1>5, <1>6, <1>7 DEF Next

\* The code keeps the promise of the shelf: what is released is released by an admin
\* and does not change until it is withdrawn.
THEOREM ShelfKept == Spec => ShelfIsKept
<1>1. Spec => []IInv
  BY InitIInv, StepIInv, PTL DEF Spec
<1> QED  BY <1>1, InitShelf, StepShelf, PTL DEF Spec, ShelfIsKept, Shelf!Spec
=============================================================================
