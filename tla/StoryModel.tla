----------------------------- MODULE StoryModel -----------------------------
(***************************************************************************)
(* A story document (storybook/models.py): typed variables, nodes with     *)
(* effects on entry, choices with conditions and effects, endings, and the *)
(* blocks that place it in a series or open it to a child's character.     *)
(* Whatever the document may omit is a set of at most one element.         *)
(***************************************************************************)
EXTENDS Integers, SequencesExt

Satisfying == {"success", "completion"}
YoungBands == {"3-5", "5-8"}
NoVars == << >>             \* a variable state with no variables at all

(***************************************************************************)
(* Values.  A boolean is never a number: Python's bool is an int, and both *)
(* evaluators take care that True is not 1.                                *)
(***************************************************************************)
Flag(b) == [kind |-> "bool", n |-> IF b THEN 1 ELSE 0]
Num(k) == [kind |-> "int", n |-> k]

Variable(type, initial, min, max) ==
  [type |-> type, initial |-> initial, min |-> min, max |-> max]
Effect(op, var, value, once) == [op |-> op, var |-> var, value |-> value, once |-> once]
Choice(id, target, condition, effects) ==
  [id |-> id, target |-> target, condition |-> condition, effects |-> effects]
Passage(onEnter, choices) == [on_enter |-> onEnter, choices |-> choices, ending |-> {}]
EndingNode(kind, valence) ==
  [on_enter |-> << >>, choices |-> << >>, ending |-> {[kind |-> kind, valence |-> valence]}]

IsEnding(node) == node.ending /= {}
IsSatisfying(node) == \E e \in node.ending : e.kind \in Satisfying
AllChoices(story) == UNION {ToSet(story.nodes[n].choices) : n \in DOMAIN story.nodes}
EntryEffects(story) == UNION {ToSet(story.nodes[n].on_enter) : n \in DOMAIN story.nodes}
ChoiceEffects(story) == UNION {ToSet(c.effects) : c \in AllChoices(story)}
AllEffects(story) == EntryEffects(story) \cup ChoiceEffects(story)
Initials(story) == [v \in DOMAIN story.vars |-> story.vars[v].initial]

(***************************************************************************)
(* Conditions: JSONLogic restricted to var, !, and, or and comparisons     *)
(* (storybook/condition.py).  A condition is the sequence of its terms,    *)
(* each after its arguments, which it names by their places; the last term *)
(* is the condition itself.  Every term has the fields of all kinds.       *)
(***************************************************************************)
Ref(name) == [ref |-> {name}, value |-> Flag(FALSE)]
Literal(value) == [ref |-> {}, value |-> value]
Term(op, args, left, right) == [op |-> op, args |-> args, left |-> left, right |-> right]
Connective(op, args) == Term(op, args, Literal(Flag(FALSE)), Literal(Flag(FALSE)))

Cmp(op, left, right) == <<Term(op, {}, left, right)>>
Is(name) == <<Term("var", {}, Ref(name), Ref(name))>>
Not(c) == Append(c, Connective("!", {Len(c)}))
Nary(op, c, d) ==
  c \o [i \in DOMAIN d |-> [d[i] EXCEPT !.args = {Len(c) + k : k \in @}]]
    \o <<Connective(op, {Len(c), Len(c) + Len(d)})>>

Ordering == {"<", "<=", ">", ">="}
Comparison == Ordering \cup {"==", "!="}

ReferencedVars(c) == UNION {c[i].left.ref \cup c[i].right.ref : i \in DOMAIN c}

OrderingVarRefs(c) ==
  UNION {c[i].left.ref \cup c[i].right.ref : i \in {i \in DOMAIN c : c[i].op \in Ordering}}

(***************************************************************************)
(* The evaluator: an undeclared variable reads as false, values of two     *)
(* kinds are never equal, and only numbers have an order.                  *)
(***************************************************************************)
Lookup(name, vars) == IF name \in DOMAIN vars THEN vars[name] ELSE Flag(FALSE)

Resolve(operand, vars) ==
  IF operand.ref = {}
    THEN operand.value
    ELSE Lookup(CHOOSE name \in operand.ref : TRUE, vars)

Ordered(op, l, r) ==
  /\ l.kind = "int" /\ r.kind = "int"
  /\ \/ op = "<" /\ l.n < r.n
     \/ op = "<=" /\ l.n <= r.n
     \/ op = ">" /\ l.n > r.n
     \/ op = ">=" /\ l.n >= r.n

Compare(op, l, r) ==
  \/ op = "==" /\ l = r
  \/ op = "!=" /\ l /= r
  \/ op \in Ordering /\ Ordered(op, l, r)

Evaluate(c, vars) ==
  LET holds[i \in DOMAIN c] ==
        LET t == c[i]
            l == Resolve(t.left, vars)
        IN  \/ t.op = "var" /\ l.n /= 0
            \/ t.op = "!" /\ \A k \in t.args : ~holds[k]
            \/ t.op = "and" /\ \A k \in t.args : holds[k]
            \/ t.op = "or" /\ \E k \in t.args : holds[k]
            \/ t.op \in Comparison /\ Compare(t.op, l, Resolve(t.right, vars))
  IN  holds[Len(c)]

(***************************************************************************)
(* What the schema asks of a document (the Pydantic models, which          *)
(* validator/layer1.py repeats as L1-6).                                   *)
(***************************************************************************)
VariableOk(v) ==
  /\ v.initial.kind = v.type
  /\ v.type = "bool" => v.min = {} /\ v.max = {}
  /\ \A lo \in v.min : lo <= v.initial.n /\ \A hi \in v.max : lo <= hi
  /\ \A hi \in v.max : v.initial.n <= hi

EffectOk(story, e) ==
  /\ e.var \in DOMAIN story.vars
  /\ e.value.kind = story.vars[e.var].type
  /\ e.op \in {"inc", "dec"} => e.value.kind = "int" /\ e.value.n >= 0

SetInBounds(story, e) ==
  LET v == story.vars[e.var]
  IN  /\ \A lo \in v.min : lo <= e.value.n
      /\ \A hi \in v.max : e.value.n <= hi

ConditionOk(story, c) ==
  /\ ReferencedVars(c) \subseteq DOMAIN story.vars
  /\ \A name \in OrderingVarRefs(c) : story.vars[name].type = "int"

NodeOk(node) == IsEnding(node) <=> node.choices = << >>

UniqueChoices(story) ==
  \A n, m \in DOMAIN story.nodes :
    \A i \in DOMAIN story.nodes[n].choices, j \in DOMAIN story.nodes[m].choices :
      story.nodes[n].choices[i].id = story.nodes[m].choices[j].id => n = m /\ i = j

SchemaOk(story) ==
  /\ story.start \in DOMAIN story.nodes
  /\ story.tier = 1 => DOMAIN story.vars = {}
  /\ \A v \in DOMAIN story.vars : VariableOk(story.vars[v])
  /\ \A e \in AllEffects(story) : EffectOk(story, e)
  /\ \A ch \in AllChoices(story) : \A c \in ch.condition : ConditionOk(story, c)
  /\ \A n \in DOMAIN story.nodes : NodeOk(story.nodes[n])
  /\ UniqueChoices(story)

(***************************************************************************)
(* The shape of a document, which parsing it gives.                        *)
(***************************************************************************)
Value == [kind : {"bool", "int"}, n : Int]
AtMostOne(S) == \A a, b \in S : a = b

VariableType == [type : {"bool", "int"}, initial : Value, min : SUBSET Int, max : SUBSET Int]
EffectType == [op : {"set", "inc", "dec"}, var : STRING, value : Value, once : BOOLEAN]
OperandType == [ref : SUBSET STRING, value : Value]
TermType == [op : STRING, args : SUBSET Nat, left : OperandType, right : OperandType]
ChoiceType == [id : STRING, target : STRING, condition : SUBSET Seq(TermType), effects : Seq(EffectType)]
PassageType == [on_enter : Seq(EffectType), choices : Seq(ChoiceType),
             ending : SUBSET [kind : STRING, valence : STRING]]
SeriesType == [book_index : Nat, entry : SUBSET STRING, is_final : BOOLEAN, carries_state : BOOLEAN]

IsDocument(story) ==
  /\ story.vars \in [DOMAIN story.vars -> VariableType]
  /\ \A v \in DOMAIN story.vars : AtMostOne(story.vars[v].min) /\ AtMostOne(story.vars[v].max)
  /\ story.nodes \in [DOMAIN story.nodes -> PassageType] /\ IsFiniteSet(DOMAIN story.nodes)
  /\ \A c \in AllChoices(story) : AtMostOne(c.condition)
  /\ AtMostOne(story.accepts)
  /\ \A envelope \in story.accepts :
       envelope \in [DOMAIN envelope -> [min : Int, max : Int]]
  /\ story.series \subseteq SeriesType /\ AtMostOne(story.series)
  /\ \A series \in story.series : AtMostOne(series.entry)
=============================================================================
