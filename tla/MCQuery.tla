------------------------------ MODULE MCQuery ------------------------------
(***************************************************************************)
(* Texts of up to three operands and texts at the edges of the grammar,    *)
(* and predicates of depth two, on entities of two properties.             *)
(*                                                                         *)
(* TLC keeps the value of a definition, but not of one that the .cfg gives *)
(* to a constant: those below only name another.                           *)
(***************************************************************************)
EXTENDS Query

Plain == {Comparison(Identifier(None, "a"), "Eq", Literal(1)),
          Comparison(Literal(2), "Gt", Identifier(None, "b")), IsNull(Identifier(None, "a"))}
Leaves == Plain \cup {Comparison(Identifier("other", "a"), "NotEq", Literal(1)),
                      Comparison(Identifier(None, "a"), "Lt", Literal(3)), True_}
Rare == {IsNull(Identifier(None, "c")), IsNull(Literal(1))}
Used == UNION {OperandsOf(p) : p \in Leaves \cup Rare}

Over(S) ==
    S \cup {Not(p) : p \in S} \cup {And(p, q) : p \in S, q \in S} \cup {Or(p, q) : p \in S, q \in S}
Trees == Over(Over(Leaves)) \cup Over(Leaves \cup Rare)

RECURSIVE MCDepth(_)
MCDepth(p) ==
    CASE p.node \in {"And", "Or"} -> 1 + MCDepth(p.left) + MCDepth(p.right)
      [] p.node = "Not"           -> 1 + MCDepth(p.pred)
      [] OTHER                    -> 0
Depths == [p \in Trees |-> MCDepth(p)]

-----------------------------------------------------------------------------
w1 == Word("plain", None, "a")
w2 == Word("plain", Collection, "b")
Comp(l, op, r) == <<l, Pair(op), r>>

Basic == {Comp(w1, "Eq", String_(1)), Comp(w2, "Lt", String_(2)), Comp(w1, "GtEq", w2)}
Joined(S, T) == {s \o <<Pair(op)>> \o t : s \in S, op \in {"And", "Or"}, t \in T}
Inner == Basic \cup Joined(Basic, Basic)
Outer == Basic \cup {<<Parentheses(e)>> : e \in Inner}

\* texts at the edges of the grammar and the parser
Edges ==
    LET w(b) == Word(b, None, "a")  other == Word("plain", "other", "a") IN
    {<<w1>>, <<Parentheses(<<w1>>)>>,
     Comp(w("literal"), "Eq", String_(1)), Comp(w("not"), "Eq", String_(1)),
     Comp(other, "NotEq", String_(1)), <<Pair("UnaryNot")>> \o Comp(w1, "Gt", String_(1)),
     <<w1, Pair("IsNullPostfix")>>, <<w1, Pair("In"), Parentheses(<<String_(1)>>)>>,
     <<w1, Pair("Add"), w2, Pair("LtEq"), String_(1)>>,
     Comp(w1, "Eq", String_(1)) \o <<Pair("Eq"), String_(2)>>,
     Comp(w1, "Eq", String_(1)) \o <<Pair("And"), w1>>,
     <<w1, Pair("Or")>> \o Comp(w1, "Eq", String_(1)),
     <<Parentheses(<<Parentheses(Comp(w1, "Eq", String_(1)))>>), Pair("Eq"), w2>>}
Deeper == {<<Parentheses(e)>> : e \in Joined(Outer, Basic)}

Queries == Outer \cup Joined(Outer, Outer) \cup Joined(Joined(Outer, Outer), Basic)
    \cup Joined(Joined(Basic, Outer), {<<Parentheses(e)>> : e \in Basic})
    \cup Joined(Deeper, Basic) \cup Joined(Basic, Deeper) \cup Edges

-----------------------------------------------------------------------------
\* no entity has had property c, and the database sorts 3 before 2
Entities == {i \in [{"a", "b", "c"} -> {1, 2, None}] : i["c"] = None}
Places == <<1, 3, 2>>

TextsDef == Queries
PredicatesDef == Trees
DepthDef == Depths
OperandsDef == Used
ItemsDef == Entities
SortedDef == Places
=============================================================================
