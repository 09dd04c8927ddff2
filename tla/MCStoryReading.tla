--------------------------- MODULE MCStoryReading ---------------------------
(***************************************************************************)
(* Small stories for checking StoryReading with TLC: many of one shape,    *)
(* with every combination of a few effects, conditions and targets, and    *)
(* chains of two and three books.                                          *)
(***************************************************************************)
EXTENDS StoryReading

SmallMight == [might |-> [min |-> 0, max |-> 1]]

Gem == Variable("int", Num(0), {0}, {2})
Key == Variable("bool", Flag(FALSE), {}, {})
Might == Variable("int", Num(0), {0}, {1})

Gain == <<Effect("inc", "gem", Num(1), FALSE)>>
GainOnce == <<Effect("inc", "gem", Num(1), TRUE)>>
Spend == <<Effect("dec", "gem", Num(1), FALSE)>>
SetGem == <<Effect("set", "gem", Num(1), FALSE)>>
OverGem == <<Effect("set", "gem", Num(3), FALSE)>>
TakeKey == <<Effect("set", "key", Flag(TRUE), FALSE)>>
CountKey == <<Effect("inc", "key", Num(1), FALSE)>>
HasGems(k) == {Cmp(">=", Ref("gem"), Literal(Num(k)))}
HasKey == {Is("key")}
NoKey == {Not(Is("key"))}
KeyOrAllGems ==
  {Nary("or", Is("key"), Nary("and", Cmp("!=", Ref("gem"), Literal(Num(0))),
                                     Not(Cmp("<", Ref("gem"), Literal(Num(2))))))}
Never == {Cmp("<", Literal(Num(1)), Literal(Num(0)))}
Mighty == {Cmp(">=", Ref("might"), Literal(Num(1)))}
Weak == {Cmp("<", Ref("might"), Literal(Num(1)))}

Tier2(variables, accepts, series, nodes) ==
  [tier |-> 2, band |-> "10-13", vars |-> variables, accepts |-> accepts,
   start |-> "gate", nodes |-> nodes, series |-> series]
GemStory(nodes) == Tier2([gem |-> Gem, key |-> Key], {}, {}, nodes)
MightStory(nodes) == Tier2([key |-> Key, might |-> Might], {SmallMight}, {}, nodes)

Win == EndingNode("success", "positive")
Lose == EndingNode("setback", "negative")

\* A gate with a way into the hall and one elsewhere; a hall with a way to win and
\* one elsewhere.
Shape(enterGate, take, off, enterHall, out, turn, turning, pay) ==
  [n \in {"gate", "hall", "win"} \cup ({off, turn} \cap {"lose"}) |->
    CASE n = "gate" -> Passage(enterGate, <<Choice("in", "hall", {}, take), Choice("off", off, {}, << >>)>>)
      [] n = "hall" -> Passage(enterHall, <<Choice("out", "win", out, << >>),
                                            Choice("turn", turn, turning, pay)>>)
      [] n = "win" -> Win
      [] n = "lose" -> Lose]

Tier1(nodes) == [Tier2(NoVars, {}, {}, nodes) EXCEPT !.tier = 1]

GemShape(n) ==
  Shape(<< << >>, GainOnce>>[n[1]], << << >>, TakeKey>>[n[2]], <<"hall", "lose">>[n[3]],
        << << >>, Gain, GainOnce, Spend>>[n[4]], <<{}, HasGems(1), HasKey, HasGems(2), NoKey, KeyOrAllGems>>[n[5]],
        <<"gate", "lose">>[n[6]], <<{}, NoKey>>[n[7]], << << >>, SetGem, OverGem>>[n[8]])
GemNames == (1 .. 2) \X (1 .. 2) \X (1 .. 2) \X (1 .. 4) \X (1 .. 6) \X (1 .. 2) \X (1 .. 2) \X (1 .. 3)

\* Stories without variables; a condition of literals alone may hide a choice for good.
PlainShape(n) ==
  Shape(<< >>, << >>, <<"hall", "lose">>[n[1]], << >>, <<{}, Never>>[n[2]],
        <<"gate", "lose">>[n[3]], {}, << >>)
PlainNames == (1 .. 2) \X (1 .. 2) \X (1 .. 2)

MightShape(n) ==
  Shape(<< << >>, CountKey>>[n[1]], << << >>, TakeKey>>[n[2]], <<"hall", "lose">>[n[3]],
        << >>, <<{}, Mighty, Weak>>[n[4]], <<"gate", "lose">>[n[5]], <<{}, NoKey, Weak>>[n[6]], << >>)
MightNames == (1 .. 2) \X (1 .. 2) \X (1 .. 2) \X (1 .. 3) \X (1 .. 2) \X (1 .. 3)

(***************************************************************************)
(* Chains.  The first book may be finished with and without the key; the   *)
(* later ones have a vault that only opens with it, or that asks for not   *)
(* having it, or a way around.                                             *)
(***************************************************************************)
Series(index, entry, final) ==
  {[book_index |-> index, entry |-> entry, is_final |-> final, carries_state |-> TRUE]}
Volume(index, entry, final, nodes) ==
  Tier2([key |-> Key], {}, Series(index, entry, final), nodes)

FirstBook(take) ==
  [gate |-> Passage(<< >>, <<Choice("in", "win", {}, take), Choice("off", "hall", {}, << >>)>>),
   hall |-> Passage(<< >>, <<Choice("out", "win", {}, << >>), Choice("turn", "lose", {}, << >>)>>),
   win |-> Win, lose |-> Lose]
VaultBook(take, out, open) ==
  [gate |-> Passage(<< >>, <<Choice("in", "hall", {}, take)>>),
   hall |-> Passage(<< >>, <<Choice("out", "win", out, << >>), Choice("turn", "vault", {}, << >>)>>),
   vault |-> Passage(<< >>, <<Choice("open", "win", open, << >>)>>),
   win |-> Win]

ChainOf(n) ==
  <<Volume(1, {"gate"}, FALSE, FirstBook(<< << >>, TakeKey>>[n[1]])),
    Volume(2, {<<"gate", "hall">>[n[2]]}, TRUE,
           VaultBook(<< << >>, TakeKey>>[n[3]], <<{}, HasKey, NoKey>>[n[4]],
                     <<{}, HasKey, NoKey>>[n[5]]))>>
ChainNames == (1 .. 2) \X (1 .. 2) \X (1 .. 2) \X (1 .. 3) \X (1 .. 3)

SmallLibrary ==
  [name \in ({"gem"} \X GemNames) \cup ({"might"} \X MightNames)
           \cup ({"plain"} \X PlainNames) \cup ({"chain"} \X ChainNames) |->
    CASE name[1] = "gem" -> <<GemStory(GemShape(name[2]))>>
      [] name[1] = "might" -> <<MightStory(MightShape(name[2]))>>
      [] name[1] = "plain" -> <<Tier1(PlainShape(name[2]))>>
      [] name[1] = "chain" -> ChainOf(name[2])]
=============================================================================
