----------------------------- MODULE Collation -----------------------------
(***************************************************************************)
(* Literals, comparisons, and under which keys a comparison is entered in  *)
(* the index the reactor keeps for one field of a collection               *)
(* (core/src/comparision_index.rs, with collation.rs and value.rs), next   *)
(* to what the comparison means when a predicate is evaluated              *)
(* (ankql/src/selection/filter.rs).                                        *)
(*                                                                         *)
(* Bytes are numbers in the order of their codes, with those that occur    *)
(* renumbered: 0 and 1, '-', the digits '0' to '8', 'f', 't', and the      *)
(* 0x7F, 0x80 and 0xFF that the greatest, the least and the other negative *)
(* integers start with.  Integers have the width of MinInt..MaxInt and     *)
(* "true" and "false" their first letter.  Floats are left out.            *)
(***************************************************************************)
EXTENDS Integers, Sequences

MinInt == -8
MaxInt == 7
Minus == 2
Digit(n) == 3 + n
LetterF == 12
LetterT == 13
X7F == 14
X80 == 15
XFF == 16

\* Literals and comparisons.
Str(b)  == [type |-> "String", val |-> b]
Int_(i) == [type |-> "Integer", val |-> i]
Bool(b) == [type |-> "Boolean", val |-> b]

Literals ==
    [type : {"String"}, val : Seq(Nat)]
    \cup [type : {"Integer"}, val : MinInt..MaxInt]
    \cup [type : {"Boolean"}, val : BOOLEAN]

\* The operators the index supports; it panics at the others.
Ops == {"=", ">", ">=", "<", "<="}

\* literalLeft: is the literal on the left of the operator?
Comparisons ==
    [node : {"Comparison"}, op : Ops, lit : Literals, literalLeft : BOOLEAN]

Leaf(op, lit, literalLeft) ==
    [node |-> "Comparison", op |-> op, lit |-> lit, literalLeft |-> literalLeft]
----------------------------------------------------------------------------
\* The order of byte strings (Vec<u8> and String alike).

\* Does position n put a before b?
DecidedAt(a, b, n) ==
    /\ n <= Len(a) + 1
    /\ \A k \in 1..(n - 1) : a[k] = b[k]
    /\ n <= Len(a) => a[n] < b[n]

Less(a, b) == \E n \in 1..Len(b) : DecidedAt(a, b, n)

AtMost(a, b) == a = b \/ Less(a, b)

\* Collatable, for a literal.

\* The first byte of an integer: below all texts for the small ones, in the
\* midst of the digits for greater ones, and above all texts for the greatest
\* and the negative ones.
Lead(i) ==
    CASE i \in 0..3       -> 0
      [] i \in 4..5       -> Digit(3)
      [] i \in 6..MaxInt  -> X7F
      [] i \in MinInt..-7 -> X80
      [] i \in -6..-1     -> XFF

BigEndian(i) == <<Lead(i), i % (MaxInt - MinInt + 1)>>

ToBytes(lit) ==
    CASE lit.type = "String"  -> lit.val
      [] lit.type = "Integer" -> BigEndian(lit.val)
      [] lit.type = "Boolean" -> IF lit.val THEN <<1>> ELSE <<0>>

\* SuccessorIncremented and PredecessorSame are slips the code might have had.
\* The last byte is incremented.
SuccessorIncremented(lit) ==
    IF lit.type # "String" THEN {ToBytes(lit)}
    ELSE IF lit.val = <<>> THEN {<<0>>}
    ELSE {[lit.val EXCEPT ![Len(lit.val)] = @ + 1]}

\* The successor and the predecessor, if there is one.
SuccessorBytes(lit) ==
    CASE lit.type = "String"  -> {Append(lit.val, 0)}
      [] lit.type = "Integer" -> IF lit.val = MaxInt THEN {} ELSE {BigEndian(lit.val + 1)}
      [] lit.type = "Boolean" -> IF lit.val THEN {<<1>>} ELSE {}

\* >= entered as >.
PredecessorSame(lit) == {ToBytes(lit)}

PredecessorBytes(lit) ==
    CASE lit.type = "String"  -> IF lit.val = <<>> THEN {}
                                 ELSE {SubSeq(lit.val, 1, Len(lit.val) - 1)}
      [] lit.type = "Integer" -> IF lit.val = MinInt THEN {} ELSE {BigEndian(lit.val - 1)}
      [] lit.type = "Boolean" -> IF lit.val THEN {<<0>>} ELSE {}

----------------------------------------------------------------------------
\* for_entry: the map and the key that a comparison is entered under, if any.
\* The side the literal is on makes no difference.

Entry(leaf) ==
    LET lit == leaf.lit IN
    CASE leaf.op = "="  -> {<<"eq", ToBytes(lit)>>}
      [] leaf.op = ">"  -> {<<"gt", ToBytes(lit)>>}
      [] leaf.op = "<"  -> {<<"lt", ToBytes(lit)>>}
      [] leaf.op = ">=" -> IF PredecessorBytes(lit) = {} THEN {<<"gt", <<>>>>}
                           ELSE {<<"gt", b>> : b \in PredecessorBytes(lit)}
      [] leaf.op = "<=" -> {<<"lt", b>> : b \in SuccessorBytes(lit)}

\* find_matching of a text: does it find what is under key k of map m?
Found(m, k, v) ==
    CASE m = "eq" -> k = v
      [] m = "gt" -> Less(k, v)
      [] m = "lt" -> \E b \in SuccessorBytes(Str(v)) : AtMost(b, k)

----------------------------------------------------------------------------
\* evaluate_predicate compares texts.

Text(lit) ==
    CASE lit.type = "String"  -> lit.val
      [] lit.type = "Integer" -> IF lit.val < 0 THEN <<Minus, Digit(-lit.val)>>
                                 ELSE <<Digit(lit.val)>>
      [] lit.type = "Boolean" -> IF lit.val THEN <<LetterT>> ELSE <<LetterF>>

Compare(op, a, b) ==
    CASE op = "="  -> a = b
      [] op = ">"  -> Less(b, a)
      [] op = ">=" -> AtMost(b, a)
      [] op = "<"  -> Less(a, b)
      [] op = "<=" -> AtMost(a, b)

Holds(leaf, v) ==
    IF leaf.literalLeft THEN Compare(leaf.op, Text(leaf.lit), v)
    ELSE Compare(leaf.op, v, Text(leaf.lit))

----------------------------------------------------------------------------
\* Is the first byte of the integer below, or above, all that the text of an
\* integer can start with?
Low(i)  == i \in MinInt..MaxInt /\ Lead(i) < Minus
High(i) == i \in MinInt..MaxInt /\ Lead(i) > Digit(-MinInt)

\* The comparisons the index can be relied on for, with the value on the left: of a
\* string, but not >= ''; of an integer if the key is on the right side of all
\* texts of integers, or >= of the least integer; of a boolean, > and >=.
Reliable(leaf) ==
    LET op == leaf.op  type == leaf.lit.type  val == leaf.lit.val IN
    /\ ~leaf.literalLeft
    /\ \/ type = "String" /\ <<op, val>> # <<">=", <<>>>>
       \/ type = "Integer" /\ \/ op = ">"  /\ Low(val)
                              \/ op = ">=" /\ (Low(val - 1) \/ val = MinInt)
                              \/ op = "<"  /\ High(val)
                              \/ op = "<=" /\ High(val + 1)
       \/ type = "Boolean" /\ op \in {">", ">="}

\* The comparisons the index of strings is exact for: >= is entered with a rough
\* predecessor (collation.rs:117-126), which has the last byte dropped.
Precise(leaf) == leaf.lit.type = "String" /\ ~leaf.literalLeft /\ leaf.op # ">="
============================================================================
