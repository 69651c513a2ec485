------------------------------- MODULE Filter -------------------------------
(***************************************************************************)
(* What a predicate says of an entity (ankql/src/selection/filter.rs).     *)
(*                                                                         *)
(* Values are their ranks among the texts, which is how filter.rs compares *)
(* them; numbers, which the engines compare differently, are left out.  An *)
(* operand is an identifier or a literal: filter.rs, sql.rs and            *)
(* predicate.rs are unimplemented for any other.                           *)
(***************************************************************************)
EXTENDS Ast, Naturals, Sequences

CONSTANTS
    Predicates,   \* the predicates there are, and their parts
    Depth,        \* how deep a predicate is
    Operands,     \* the identifiers and literals in them
    Items,        \* entities: functions from property names to values and None
    Collection,   \* the name of their collection
    Quoted,       \* values that have an apostrophe in them
    None          \* no value, no collection, nothing yet

\* Predicates are trees.
ASSUME TreesAssumption ==
    /\ Depth \in [Predicates -> Nat]
    /\ \A p \in Predicates :
          \/ p = True_
          \/ p \in [node : {"Comparison"}, op : Operators, left : Operands, right : Operands]
          \/ p \in [node : {"IsNull"}, of : Operands]
          \/ /\ p \in [node : {"And", "Or"}, left : Predicates, right : Predicates]
             /\ Depth[p.left] < Depth[p] /\ Depth[p.right] < Depth[p]
          \/ p \in [node : {"Not"}, pred : Predicates] /\ Depth[p.pred] < Depth[p]

ASSUME OperandsAssumption ==
    \A e \in Operands :
        \/ e.expr = "Identifier" /\ \A i \in Items : e.name \in DOMAIN i
        \/ e.expr = "Literal" /\ e.val # None

-----------------------------------------------------------------------------
\* The predicates a predicate is made of.
Parts[p \in Predicates] ==
    {p} \cup (IF p.node \in {"And", "Or"} THEN Parts[p.left] \cup Parts[p.right]
              ELSE IF p.node = "Not" THEN Parts[p.pred]
              ELSE {})

OperandsOf(p) ==
    CASE p.node = "Comparison" -> {p.left, p.right}
      [] p.node = "IsNull" -> {p.of}
      [] OTHER -> {}

Compare(op, l, r) ==
    CASE op = "Eq" -> l = r [] op = "NotEq" -> l # r [] op = "Gt" -> l > r
      [] op = "GtEq" -> l >= r [] op = "Lt" -> l < r [] op = "LtEq" -> l <= r

Truth(b) == IF b THEN "true" ELSE "false"

Foreign(e) == e.expr = "Identifier" /\ e.coll \notin {None, Collection}

Value(item, e) == IF e.expr = "Literal" THEN e.val ELSE item[e.name]

\* the errors of evaluate_expr
Fails(item, e) == Foreign(e) \/ Value(item, e) = None

\* evaluate_predicate: "true", "false" or "error"
Evaluate[p \in Predicates] ==
    [item \in Items |->
        IF p.node = "Comparison" THEN
             IF Fails(item, p.left) \/ Fails(item, p.right) THEN "error"
             ELSE Truth(Compare(p.op, Value(item, p.left), Value(item, p.right)))
        ELSE IF p.node = "IsNull" THEN Truth(Fails(item, p.of))
        ELSE IF p.node = "And" THEN
             IF Evaluate[p.left][item] = "true" THEN Evaluate[p.right][item]
             ELSE Evaluate[p.left][item]
        ELSE IF p.node = "Or" THEN
             IF Evaluate[p.left][item] = "false" THEN Evaluate[p.right][item]
             ELSE Evaluate[p.left][item]
        ELSE IF p.node = "Not" THEN
             IF Evaluate[p.pred][item] = "error" THEN "error"
             ELSE Truth(Evaluate[p.pred][item] = "false")
        ELSE "true"]

-----------------------------------------------------------------------------
(* Kinds of predicates and entities *)

\* no NOT and no identifier of another collection
Askable(p) == \A q \in Parts[p] : q.node # "Not" /\ \A e \in OperandsOf(q) : ~Foreign(e)

\* The entities that lack no property that p names.
Complete(p) ==
    {i \in Items :
        \A q \in Parts[p] : \A e \in OperandsOf(q) : e.expr = "Identifier" => i[e.name] # None}
=============================================================================
