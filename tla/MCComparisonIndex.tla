------------------------- MODULE MCComparisonIndex -------------------------
(* A small instance of ComparisonIndex for TLC. *)
EXTENDS ComparisonIndex

\* The strings '', '0', '1', '6', '-1', '-8', '00', '01', and 'f' and 't' for the
\* booleans.
MCTexts == {<<>>, <<Digit(0)>>, <<Digit(1)>>, <<Digit(6)>>, <<Minus, Digit(1)>>,
            <<Minus, Digit(8)>>, <<Digit(0), Digit(0)>>, <<Digit(0), Digit(1)>>,
            <<LetterF>>, <<LetterT>>}

MCLiterals == {Str(<<>>), Str(<<Digit(0)>>), Str(<<Digit(0), Digit(1)>>),
               Bool(TRUE), Bool(FALSE)}
              \cup {Int_(i) : i \in {MinInt, -1, 0, 1, 4, 5, 6, MaxInt}}

Leaf0(op) == Leaf(op, Str(<<Digit(0)>>), FALSE)
Leaf1(op) == Leaf(op, Int_(1), FALSE)

\* Every comparison on its own, with the value on the left, and a few predicates
\* of two: an overlap within one key, a range, a negation, and True.
MCPredicates ==
    {Leaf(op, lit, FALSE) : op \in Ops, lit \in MCLiterals}
    \cup {Leaf("<", lit, TRUE) : lit \in MCLiterals}
    \cup {Or(Leaf0("="), Leaf0("=")), Or(Leaf0(">"), And(Leaf1(">"), Leaf0("<="))),
          And(Leaf1(">"), Leaf0("<=")), And(Leaf0(">="), Leaf0("<=")), Not(Leaf0("<")), Not(Leaf1("=")),
          True_, Or(Leaf0("="), True_), And(True_, Leaf0(">"))}

RECURSIVE MCDepth(_)
MCDepth(p) ==
    CASE p.node \in {"And", "Or"} -> 1 + MCDepth(p.left) + MCDepth(p.right)
      [] p.node = "Not"           -> 1 + MCDepth(p.pred)
      [] OTHER                    -> 0

MCDepths == [p \in MCPredicates |-> MCDepth(p)]

============================================================================
