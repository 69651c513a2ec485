-------------------------------- MODULE Ast --------------------------------
(* Predicates and the expressions in them (ankql/src/ast.rs). *)

Identifier(coll, name) == [expr |-> "Identifier", coll |-> coll, name |-> name]
Literal(v) == [expr |-> "Literal", val |-> v]

Comparison(l, op, r) == [node |-> "Comparison", op |-> op, left |-> l, right |-> r]
IsNull(e) == [node |-> "IsNull", of |-> e]
And(l, r) == [node |-> "And", left |-> l, right |-> r]
Or(l, r) == [node |-> "Or", left |-> l, right |-> r]
Not(p) == [node |-> "Not", pred |-> p]
True_ == [node |-> "True"]

Operators == {"Eq", "NotEq", "Gt", "GtEq", "Lt", "LtEq"}
=============================================================================
