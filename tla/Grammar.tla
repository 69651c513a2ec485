------------------------------ MODULE Grammar ------------------------------
(* The pairs that texts are made of (ankql/src/ankql.pest). *)

Pair(rule) == [rule |-> rule]
Word(begins, coll, name) ==
    [rule |-> "Identifier", begins |-> begins, coll |-> coll, name |-> name]
String_(v) == [rule |-> "String", val |-> v]
Parentheses(inner) == [rule |-> "Parentheses", inner |-> inner]
=============================================================================
