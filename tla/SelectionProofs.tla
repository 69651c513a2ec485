-------------------------- MODULE SelectionProofs --------------------------
(***************************************************************************)
(* What is shown and what is fetched, for predicates of any depth: the     *)
(* texts that sql.rs and predicate.rs put together, and what PostgreSQL    *)
(* makes of them.                                                          *)
(***************************************************************************)
EXTENDS Selection, Recursion, SequenceTheorems, FiniteSetTheorems

----------------------------------------------------------------------------
\* Predicates are finite trees.

\* What a predicate may be.
LEMMA Shapes ==
    ASSUME NEW p \in Predicates
    PROVE  \/ /\ p.node = "Comparison"
              /\ p.op \in Operators /\ p.left \in Operands /\ p.right \in Operands
           \/ p.node = "IsNull" /\ p.of \in Operands
           \/ p.node = "True" /\ p = True_
           \/ /\ p.node \in {"And", "Or"}
              /\ p.left \in Predicates /\ Depth[p.left] < Depth[p]
              /\ p.right \in Predicates /\ Depth[p.right] < Depth[p]
           \/ p.node = "Not" /\ p.pred \in Predicates /\ Depth[p.pred] < Depth[p]
<1>1. CASE p = True_
  BY <1>1 DEF True_
<1>2. CASE p \in [node : {"Comparison"}, op : Operators, left : Operands, right : Operands]
  BY <1>2
<1>3. CASE p \in [node : {"IsNull"}, of : Operands]
  BY <1>3
<1>4. CASE /\ p \in [node : {"And", "Or"}, left : Predicates, right : Predicates]
           /\ Depth[p.left] < Depth[p] /\ Depth[p.right] < Depth[p]
  BY <1>4
<1>5. CASE p \in [node : {"Not"}, pred : Predicates] /\ Depth[p.pred] < Depth[p]
  BY <1>5
<1> QED
  BY <1>1, <1>2, <1>3, <1>4, <1>5, TreesAssumption

\* The depth is a rank.
LEMMA DepthsAreRanks == IsRank(Predicates, Depth)
BY TreesAssumption DEF IsRank

\* The parts of a predicate that a recursive definition asks for.
Under(p) == {q \in Predicates : Depth[q] < Depth[p]}

\* What holds of every predicate whose parts it holds of, holds of all.
LEMMA PartsInduction ==
    ASSUME NEW S, \A p \in Predicates : Under(p) \subseteq S => p \in S
    PROVE  Predicates \subseteq S
<1>1. ASSUME NEW p \in Predicates, \A q \in Predicates : Depth[q] < Depth[p] => q \in S
      PROVE  p \in S
  BY <1>1 DEF Under
<1>2. Depth \in [Predicates -> Nat]
  BY TreesAssumption
<1> QED
  BY <1>1, <1>2, RankInduction

\* A rule that asks only for the parts of a predicate has a solution.
LEMMA PartsRecursion ==
    ASSUME NEW V, V # {}, NEW rule, IsRule(Predicates, V, rule),
           \A p \in Predicates : \A g, h \in [Predicates -> V] :
               (\A q \in Under(p) : g[q] = h[q]) => rule[p][g] = rule[p][h]
    PROVE  \E f : Solves(f, Predicates, V, rule)
<1>1. ASSUME NEW p \in Predicates, NEW g \in [Predicates -> V], NEW h \in [Predicates -> V],
             Agree(g, h, Predicates, Depth, Depth[p])
      PROVE  rule[p][g] = rule[p][h]
  <2>1. \A q \in Under(p) : g[q] = h[q]
    BY <1>1 DEF Agree, Under
  <2> QED
    BY <2>1
<1>2. Local(Predicates, V, Depth, rule)
  BY <1>1 DEF Local
<1> QED
  BY <1>2, DepthsAreRanks, RankRecursion

----------------------------------------------------------------------------
\* The recursive definitions, one by one: the body as an operator of the function
\* that it asks for the parts, and that the function is what its body says, and of
\* which type.

PartsIn(p, f) ==
    {p} \cup (IF p.node \in {"And", "Or"} THEN f[p.left] \cup f[p.right]
              ELSE IF p.node = "Not" THEN f[p.pred]
              ELSE {})

\* There is such a function: Parts is it.
LEMMA PartsDefined ==
    ASSUME NEW p \in Predicates
    PROVE  Parts[p] = PartsIn(p, Parts) /\ Parts[p] \subseteq Predicates
<1> DEFINE V == SUBSET Predicates
           rule == [q \in Predicates |-> [g \in [Predicates -> V] |-> PartsIn(q, g)]]
<1>1. ASSUME NEW q \in Predicates, NEW g, \A r \in Under(q) : g[r] \in V
      PROVE  PartsIn(q, g) \in V
  BY <1>1, Shapes DEF PartsIn, Under
<1>2. \A q \in Predicates : \A g \in [Predicates -> V] : PartsIn(q, g) \in V
  <2> SUFFICES ASSUME NEW q \in Predicates, NEW g \in [Predicates -> V]
               PROVE  PartsIn(q, g) \in V
    OBVIOUS
  <2>1. \A r \in Under(q) : g[r] \in V
    BY DEF Under
  <2> QED
    BY <1>1, <2>1
<1>3. IsRule(Predicates, V, rule)
  BY <1>2 DEF IsRule
<1>4. ASSUME NEW q \in Predicates, NEW g, NEW h, \A r \in Under(q) : g[r] = h[r]
      PROVE  PartsIn(q, g) = PartsIn(q, h)
  BY <1>4, Shapes DEF PartsIn, Under
<1>5. \A q \in Predicates : \A g, h \in [Predicates -> V] :
          (\A r \in Under(q) : g[r] = h[r]) => rule[q][g] = rule[q][h]
  BY <1>4
<1>6. \A f : Solves(f, Predicates, V, rule) => f = [q \in Predicates |-> PartsIn(q, f)]
  BY DEF Solves
<1> HIDE DEF V, rule
<1>7. PICK f : f = [q \in Predicates |-> PartsIn(q, f)]
  <2>1. V # {}
    BY DEF V
  <2> QED
    BY <1>3, <1>5, <1>6, <2>1, PartsRecursion
<1>8. Parts = CHOOSE g : g = [q \in Predicates |-> PartsIn(q, g)]
  BY DEF Parts, PartsIn
<1>9. Parts = [q \in Predicates |-> PartsIn(q, Parts)]
  BY <1>7, <1>8
<1>10. \A q \in Predicates : Parts[q] = PartsIn(q, Parts)
  BY <1>9
<1> DEFINE S == {q \in Predicates : Parts[q] \in V}
<1>11. Predicates \subseteq S
  <2>1. ASSUME NEW q \in Predicates, Under(q) \subseteq S
        PROVE  q \in S
    BY <1>1, <1>10, <2>1 DEF V
  <2> HIDE DEF S
  <2> QED
    BY <2>1, PartsInduction
<1> QED
  BY <1>10, <1>11 DEF V
Outcomes == {"true", "false", "error"}

EvaluateIn(p, f) ==
    [item \in Items |->
        IF p.node = "Comparison" THEN
             IF Fails(item, p.left) \/ Fails(item, p.right) THEN "error"
             ELSE Truth(Compare(p.op, Value(item, p.left), Value(item, p.right)))
        ELSE IF p.node = "IsNull" THEN Truth(Fails(item, p.of))
        ELSE IF p.node = "And" THEN
             IF f[p.left][item] = "true" THEN f[p.right][item] ELSE f[p.left][item]
        ELSE IF p.node = "Or" THEN
             IF f[p.left][item] = "false" THEN f[p.right][item] ELSE f[p.left][item]
        ELSE IF p.node = "Not" THEN
             IF f[p.pred][item] = "error" THEN "error" ELSE Truth(f[p.pred][item] = "false")
        ELSE "true"]

\* There is such a function: Evaluate is it.
LEMMA EvaluateDefined ==
    ASSUME NEW p \in Predicates
    PROVE  Evaluate[p] = EvaluateIn(p, Evaluate) /\ Evaluate[p] \in [Items -> Outcomes]
<1> DEFINE V == [Items -> Outcomes]
           rule == [q \in Predicates |-> [g \in [Predicates -> V] |-> EvaluateIn(q, g)]]
<1>1. ASSUME NEW q \in Predicates, NEW g, \A r \in Under(q) : g[r] \in V
      PROVE  EvaluateIn(q, g) \in V
  <2> SUFFICES ASSUME NEW item \in Items PROVE EvaluateIn(q, g)[item] \in Outcomes
    BY DEF EvaluateIn
  <2>1. \A b : Truth(b) \in Outcomes
    BY DEF Truth, Outcomes
  <2>2. \A r \in Under(q) : g[r][item] \in Outcomes
    BY <1>1
  <2>3. CASE q.node \in {"And", "Or"} /\ q.left \in Under(q) /\ q.right \in Under(q)
    BY <2>2, <2>3 DEF EvaluateIn
  <2>4. CASE q.node = "Not" /\ q.pred \in Under(q)
    BY <2>1, <2>2, <2>4 DEF EvaluateIn, Outcomes
  <2>5. CASE q.node \in {"Comparison", "IsNull", "True"}
    BY <2>1, <2>5 DEF EvaluateIn, Outcomes
  <2> QED
    BY <2>3, <2>4, <2>5, Shapes DEF Under
<1>2. \A q \in Predicates : \A g \in [Predicates -> V] : EvaluateIn(q, g) \in V
  <2> SUFFICES ASSUME NEW q \in Predicates, NEW g \in [Predicates -> V]
               PROVE  EvaluateIn(q, g) \in V
    OBVIOUS
  <2> HIDE DEF V
  <2>1. \A r \in Under(q) : g[r] \in V
    BY DEF Under
  <2> QED
    BY <1>1, <2>1
<1>3. IsRule(Predicates, V, rule)
  BY <1>2 DEF IsRule
<1>4. ASSUME NEW q \in Predicates, NEW g, NEW h, \A r \in Under(q) : g[r] = h[r]
      PROVE  EvaluateIn(q, g) = EvaluateIn(q, h)
  BY <1>4, Shapes DEF EvaluateIn, Under
<1>5. \A q \in Predicates : \A g, h \in [Predicates -> V] :
          (\A r \in Under(q) : g[r] = h[r]) => rule[q][g] = rule[q][h]
  BY <1>4
<1>6. \A f : Solves(f, Predicates, V, rule) => f = [q \in Predicates |-> EvaluateIn(q, f)]
  BY DEF Solves
<1>0. V # {}
  <2>1. [item \in Items |-> "true"] \in V
    BY DEF Outcomes
  <2> QED
    BY <2>1
<1> HIDE DEF V, rule
<1>7. PICK f : f = [q \in Predicates |-> EvaluateIn(q, f)]
  BY <1>0, <1>3, <1>5, <1>6, PartsRecursion
<1>8. Evaluate = CHOOSE g : g = [q \in Predicates |-> EvaluateIn(q, g)]
  BY DEF Evaluate, EvaluateIn
<1>9. Evaluate = [q \in Predicates |-> EvaluateIn(q, Evaluate)]
  BY <1>7, <1>8
<1>10. \A q \in Predicates : Evaluate[q] = EvaluateIn(q, Evaluate)
  BY <1>9
<1> DEFINE S == {q \in Predicates : Evaluate[q] \in V}
<1>11. Predicates \subseteq S
  <2>1. ASSUME NEW q \in Predicates, Under(q) \subseteq S
        PROVE  q \in S
    BY <1>1, <1>10, <2>1
  <2> HIDE DEF S
  <2> QED
    BY <2>1, PartsInduction
<1> QED
  BY <1>10, <1>11 DEF V

----------------------------------------------------------------------------
\* Texts.

Text == Seq(Tokens)

\* A word is a text.
LEMMA KeyText ==
    ASSUME NEW k \in Words
    PROVE  /\ Key(k) \in Text /\ Len(Key(k)) = 1 /\ Key(k)[1].word = k
           /\ Key(k)[1] \in Tokens /\ Key(k) = <<Key(k)[1]>>
<1>1. [word |-> k] \in Tokens
  BY DEF Tokens
<1> QED
  BY <1>1 DEF Key, Text

\* So is an operand, if it needs no quotes.
LEMMA OperandText ==
    ASSUME NEW e \in Operands
    PROVE  /\ WhereOperand(e) \in Text /\ Len(WhereOperand(e)) = 1
           /\ ShownOperand(e) \in Text /\ Len(ShownOperand(e)) = 1
           /\ WhereOperand(e)[1] = [word |-> "operand", of |-> e]
           /\ ~(e.expr = "Literal" /\ e.val \in Quoted) => ShownOperand(e) = WhereOperand(e)
<1>1. [word |-> "operand", of |-> e] \in Tokens
  BY DEF Tokens
<1>2. "unbalanced" \in Words
  BY DEF Words
<1> QED
  BY <1>1, <1>2, KeyText DEF WhereOperand, ShownOperand, Text

\* Texts are joined to texts.
LEMMA Join ==
    ASSUME NEW a \in Text, NEW b \in Text
    PROVE  a \o b \in Text /\ Len(a \o b) = Len(a) + Len(b)
BY ConcatProperties DEF Text

\* All that the two writers put together is text.
LEMMA WritersText ==
    ASSUME NEW l \in Text, NEW r \in Text
    PROVE  /\ OrSql(l, r) \in Text /\ AndSql(l, r) \in Text
           /\ NotShown(l) \in Text /\ NotWhere(l) \in Text
<1>1. \A k \in {"(", ")", "AND", "OR", "NOT"} : Key(k) \in Text
  BY KeyText DEF Words
<1>2. \A s, t \in Text : s \o t \in Text
  BY Join
<1> QED
  BY <1>1, <1>2 DEF OrSql, AndSql, NotShown, NotWhere

ShownIn(p, f) ==
    IF p.node = "Comparison" THEN ShownOperand(p.left) \o Key(p.op) \o ShownOperand(p.right)
    ELSE IF p.node = "IsNull" THEN ShownOperand(p.of) \o Key("IS NULL")
    ELSE IF p.node = "And" THEN AndSql(f[p.left], f[p.right])
    ELSE IF p.node = "Or" THEN OrSql(f[p.left], f[p.right])
    ELSE IF p.node = "Not" THEN NotShown(f[p.pred])
    ELSE <<>>

\* There is such a function: Shown is it.
LEMMA ShownDefined ==
    ASSUME NEW p \in Predicates
    PROVE  Shown[p] = ShownIn(p, Shown) /\ Shown[p] \in Text
<1> DEFINE V == Text
           rule == [q \in Predicates |-> [g \in [Predicates -> V] |-> ShownIn(q, g)]]
<1>1. ASSUME NEW q \in Predicates, NEW g, \A r \in Under(q) : g[r] \in V
      PROVE  ShownIn(q, g) \in V
  <2>1. CASE /\ q.node = "Comparison"
             /\ q.op \in Operators /\ q.left \in Operands /\ q.right \in Operands
    <3>1. Key(q.op) \in Text /\ ShownOperand(q.left) \in Text /\ ShownOperand(q.right) \in Text
      BY <2>1, KeyText, OperandText DEF Words
    <3> QED
      BY <2>1, <3>1, Join DEF ShownIn
  <2>2. CASE q.node = "IsNull" /\ q.of \in Operands
    <3>1. Key("IS NULL") \in Text /\ ShownOperand(q.of) \in Text
      BY <2>2, KeyText, OperandText DEF Words
    <3> QED
      BY <2>2, <3>1, Join DEF ShownIn
  <2>3. CASE q.node \in {"And", "Or"} /\ q.left \in Under(q) /\ q.right \in Under(q)
    BY <1>1, <2>3, WritersText DEF ShownIn
  <2>4. CASE q.node = "Not" /\ q.pred \in Under(q)
    BY <1>1, <2>4, WritersText DEF ShownIn
  <2>5. CASE q.node = "True"
    BY <2>5, EmptySeq DEF ShownIn, Text
  <2> QED
    BY <2>1, <2>2, <2>3, <2>4, <2>5, Shapes DEF Under
<1>2. \A q \in Predicates : \A g \in [Predicates -> V] : ShownIn(q, g) \in V
  <2> SUFFICES ASSUME NEW q \in Predicates, NEW g \in [Predicates -> V]
               PROVE  ShownIn(q, g) \in V
    OBVIOUS
  <2> HIDE DEF V
  <2>1. \A r \in Under(q) : g[r] \in V
    BY DEF Under
  <2> QED
    BY <1>1, <2>1
<1>3. IsRule(Predicates, V, rule)
  BY <1>2 DEF IsRule
<1>4. ASSUME NEW q \in Predicates, NEW g, NEW h, \A r \in Under(q) : g[r] = h[r]
      PROVE  ShownIn(q, g) = ShownIn(q, h)
  BY <1>4, Shapes DEF ShownIn, Under
<1>5. \A q \in Predicates : \A g, h \in [Predicates -> V] :
          (\A r \in Under(q) : g[r] = h[r]) => rule[q][g] = rule[q][h]
  BY <1>4
<1>6. \A f : Solves(f, Predicates, V, rule) => f = [q \in Predicates |-> ShownIn(q, f)]
  BY DEF Solves
<1>0. V # {}
  BY EmptySeq DEF Text
<1> HIDE DEF V, rule
<1>7. PICK f : f = [q \in Predicates |-> ShownIn(q, f)]
  BY <1>0, <1>3, <1>5, <1>6, PartsRecursion
<1>8. Shown = CHOOSE g : g = [q \in Predicates |-> ShownIn(q, g)]
  BY DEF Shown, ShownIn
<1>9. Shown = [q \in Predicates |-> ShownIn(q, Shown)]
  BY <1>7, <1>8
<1>10. \A q \in Predicates : Shown[q] = ShownIn(q, Shown)
  BY <1>9
<1> DEFINE S == {q \in Predicates : Shown[q] \in V}
<1>11. Predicates \subseteq S
  <2>1. ASSUME NEW q \in Predicates, Under(q) \subseteq S
        PROVE  q \in S
    BY <1>1, <1>10, <2>1
  <2> HIDE DEF S
  <2> QED
    BY <2>1, PartsInduction
<1> QED
  BY <1>10, <1>11 DEF V

WhereIn(p, f) ==
    IF p.node = "Comparison" THEN WhereOperand(p.left) \o Key(p.op) \o WhereOperand(p.right)
    ELSE IF p.node = "IsNull" THEN WhereOperand(p.of) \o Key("IS NULL")
    ELSE IF p.node = "And" THEN AndSql(f[p.left], f[p.right])
    ELSE IF p.node = "Or" THEN OrSql(f[p.left], f[p.right])
    ELSE IF p.node = "Not" THEN NotWhere(f[p.pred])
    ELSE TrueSql

\* There is such a function: Where is it.
LEMMA WhereDefined ==
    ASSUME NEW p \in Predicates
    PROVE  Where[p] = WhereIn(p, Where) /\ Where[p] \in Text
<1> DEFINE V == Text
           rule == [q \in Predicates |-> [g \in [Predicates -> V] |-> WhereIn(q, g)]]
<1>1. ASSUME NEW q \in Predicates, NEW g, \A r \in Under(q) : g[r] \in V
      PROVE  WhereIn(q, g) \in V
  <2>1. CASE /\ q.node = "Comparison"
             /\ q.op \in Operators /\ q.left \in Operands /\ q.right \in Operands
    <3>1. Key(q.op) \in Text /\ WhereOperand(q.left) \in Text /\ WhereOperand(q.right) \in Text
      BY <2>1, KeyText, OperandText DEF Words
    <3> QED
      BY <2>1, <3>1, Join DEF WhereIn
  <2>2. CASE q.node = "IsNull" /\ q.of \in Operands
    <3>1. Key("IS NULL") \in Text /\ WhereOperand(q.of) \in Text
      BY <2>2, KeyText, OperandText DEF Words
    <3> QED
      BY <2>2, <3>1, Join DEF WhereIn
  <2>3. CASE q.node \in {"And", "Or"} /\ q.left \in Under(q) /\ q.right \in Under(q)
    BY <1>1, <2>3, WritersText DEF WhereIn
  <2>4. CASE q.node = "Not" /\ q.pred \in Under(q)
    BY <1>1, <2>4, WritersText DEF WhereIn
  <2>5. CASE q.node = "True"
    BY <2>5, KeyText DEF WhereIn, TrueSql, Words
  <2> QED
    BY <2>1, <2>2, <2>3, <2>4, <2>5, Shapes DEF Under
<1>2. \A q \in Predicates : \A g \in [Predicates -> V] : WhereIn(q, g) \in V
  <2> SUFFICES ASSUME NEW q \in Predicates, NEW g \in [Predicates -> V]
               PROVE  WhereIn(q, g) \in V
    OBVIOUS
  <2> HIDE DEF V
  <2>1. \A r \in Under(q) : g[r] \in V
    BY DEF Under
  <2> QED
    BY <1>1, <2>1
<1>3. IsRule(Predicates, V, rule)
  BY <1>2 DEF IsRule
<1>4. ASSUME NEW q \in Predicates, NEW g, NEW h, \A r \in Under(q) : g[r] = h[r]
      PROVE  WhereIn(q, g) = WhereIn(q, h)
  BY <1>4, Shapes DEF WhereIn, Under
<1>5. \A q \in Predicates : \A g, h \in [Predicates -> V] :
          (\A r \in Under(q) : g[r] = h[r]) => rule[q][g] = rule[q][h]
  BY <1>4
<1>6. \A f : Solves(f, Predicates, V, rule) => f = [q \in Predicates |-> WhereIn(q, f)]
  BY DEF Solves
<1>0. V # {}
  BY EmptySeq DEF Text
<1> HIDE DEF V, rule
<1>7. PICK f : f = [q \in Predicates |-> WhereIn(q, f)]
  BY <1>0, <1>3, <1>5, <1>6, PartsRecursion
<1>8. Where = CHOOSE g : g = [q \in Predicates |-> WhereIn(q, g)]
  BY DEF Where, WhereIn
<1>9. Where = [q \in Predicates |-> WhereIn(q, Where)]
  BY <1>7, <1>8
<1>10. \A q \in Predicates : Where[q] = WhereIn(q, Where)
  BY <1>9
<1> DEFINE S == {q \in Predicates : Where[q] \in V}
<1>11. Predicates \subseteq S
  <2>1. ASSUME NEW q \in Predicates, Under(q) \subseteq S
        PROVE  q \in S
    BY <1>1, <1>10, <2>1
  <2> HIDE DEF S
  <2> QED
    BY <2>1, PartsInduction
<1> QED
  BY <1>10, <1>11 DEF V
----------------------------------------------------------------------------
\* What PostgreSQL reads.

Readings == {"true", "false", "null", "invalid"}

\* A set of positions that is not empty has a last one.
LEMMA LastIsLast ==
    ASSUME NEW n \in Nat, NEW S, S \subseteq 1..n, S # {}
    PROVE  Last(S) \in S /\ \A j \in S : j <= Last(S)
<1> DEFINE T == {n - i : i \in S}
<1>0. \A i \in S : n - i \in Nat
  OBVIOUS
<1>1. T \subseteq Nat /\ T # {}
  BY <1>0, Zenon
<1>2. PICK m \in T : \A k \in T : m <= k
  BY <1>1, LeastNumber
<1>3. PICK i \in S : m = n - i
  BY <1>2
<1>4. \A j \in S : j <= i
  BY <1>2, <1>3
<1> QED
  BY <1>3, <1>4 DEF Last

\* Where there is a word outside parentheses, there is a last.
LEMMA LastOutside ==
    ASSUME NEW sql \in Text, NEW k, Outside(sql, k) # {}
    PROVE  /\ Last(Outside(sql, k)) \in 1..Len(sql)
           /\ Last(Outside(sql, k)) \in Outside(sql, k)
           /\ \A j \in Outside(sql, k) : j <= Last(Outside(sql, k))
<1>1. Outside(sql, k) \subseteq 1..Len(sql)
  BY DEF Outside
<1>2. Len(sql) \in Nat
  BY LenProperties DEF Text
<1> QED
  BY <1>1, <1>2, LastIsLast

\* The pieces that are read on are shorter texts.
LEMMA Pieces ==
    ASSUME NEW sql \in Text, NEW i \in 1..Len(sql)
    PROVE  /\ Before(sql, i) \in Text /\ Len(Before(sql, i)) = i - 1
           /\ After(sql, i) \in Text /\ Len(After(sql, i)) = Len(sql) - i
<1>1. Len(sql) \in Nat /\ \A j \in 1..Len(sql) : sql[j] \in Tokens
  BY LenProperties, ElementOfSeq DEF Text
<1>2. /\ SubSeq(sql, 1, i - 1) \in Seq(Tokens)
      /\ Len(SubSeq(sql, 1, i - 1)) = IF 1 <= i - 1 THEN (i - 1) - 1 + 1 ELSE 0
  BY <1>1, SubSeqProperties
<1>3. /\ SubSeq(sql, i + 1, Len(sql)) \in Seq(Tokens)
      /\ Len(SubSeq(sql, i + 1, Len(sql))) = IF i + 1 <= Len(sql) THEN Len(sql) - (i + 1) + 1 ELSE 0
  BY <1>1, SubSeqProperties
<1> QED
  BY <1>1, <1>2, <1>3 DEF Before, After, Text

\* So is what is in parentheses.
LEMMA InnerPiece ==
    ASSUME NEW sql \in Text, Len(sql) > 2
    PROVE  /\ SubSeq(sql, 2, Len(sql) - 1) \in Text
           /\ Len(SubSeq(sql, 2, Len(sql) - 1)) = Len(sql) - 2
<1>1. Len(sql) \in Nat /\ \A j \in 1..Len(sql) : sql[j] \in Tokens
  BY LenProperties, ElementOfSeq DEF Text
<1>2. /\ SubSeq(sql, 2, Len(sql) - 1) \in Seq(Tokens)
      /\ Len(SubSeq(sql, 2, Len(sql) - 1)) = IF 2 <= Len(sql) - 1 THEN (Len(sql) - 1) - 2 + 1 ELSE 0
  BY <1>1, SubSeqProperties
<1> QED
  BY <1>1, <1>2 DEF Text

\* What is read is one of the readings.
LEMMA ReadingTypes ==
    /\ \A one, other, l, r \in Readings : Junction(one, other, l, r) \in Readings
    /\ \A v \in Readings : Negation(v) \in Readings
    /\ \A b : Truth(b) \in Readings
    /\ \A item, sql : Simple(item, sql) \in Readings
<1>1. \A b : Truth(b) \in Readings
  BY DEF Truth, Readings
<1>2. \A one, other, l, r \in Readings : Junction(one, other, l, r) \in Readings
  BY DEF Junction, Readings
<1>3. \A v \in Readings : Negation(v) \in Readings
  BY <1>1 DEF Negation
<1>4. \A item, sql : Simple(item, sql) \in Readings
  <2>1. {"true", "null", "invalid"} \subseteq Readings
    BY DEF Readings
  <2> QED
    BY <1>1, <2>1 DEF Simple
<1> QED
  BY <1>1, <1>2, <1>3, <1>4

SeesIn(sql, f) ==
    [item \in Items |->
        IF Outside(sql, "OR") # {} THEN
             Junction("true", "false", f[Before(sql, Last(Outside(sql, "OR")))][item],
                                       f[After(sql, Last(Outside(sql, "OR")))][item])
        ELSE IF Outside(sql, "AND") # {} THEN
             Junction("false", "true", f[Before(sql, Last(Outside(sql, "AND")))][item],
                                       f[After(sql, Last(Outside(sql, "AND")))][item])
        ELSE IF Len(sql) > 2 /\ sql[1].word = "NOT" THEN Negation(f[After(sql, 1)][item])
        ELSE IF Len(sql) > 2 /\ sql[1].word = "(" /\ sql[Len(sql)].word = ")" THEN
             f[SubSeq(sql, 2, Len(sql) - 1)][item]
        ELSE Simple(item, sql)]

\* The texts that reading a text asks for.
Shorter(sql) == {t \in Text : Len(t) < Len(sql)}

\* All the pieces are among them.
LEMMA PiecesShorter ==
    ASSUME NEW sql \in Text
    PROVE  /\ \A k : Outside(sql, k) # {} =>
                  /\ Before(sql, Last(Outside(sql, k))) \in Shorter(sql)
                  /\ After(sql, Last(Outside(sql, k))) \in Shorter(sql)
           /\ Len(sql) > 2 => /\ After(sql, 1) \in Shorter(sql)
                             /\ SubSeq(sql, 2, Len(sql) - 1) \in Shorter(sql)
<1>1. Len(sql) \in Nat
  BY LenProperties DEF Text
<1>2. ASSUME NEW i \in 1..Len(sql)
      PROVE  Before(sql, i) \in Shorter(sql) /\ After(sql, i) \in Shorter(sql)
  BY <1>1, Pieces DEF Shorter
<1>3. ASSUME Len(sql) > 2
      PROVE  1 \in 1..Len(sql) /\ SubSeq(sql, 2, Len(sql) - 1) \in Shorter(sql)
  BY <1>1, <1>3, InnerPiece DEF Shorter
<1> QED
  BY <1>2, <1>3, LastOutside

\* The body asks for nothing else, and its type follows from theirs.
LEMMA SeesInLocal ==
    ASSUME NEW sql \in Text, NEW g, NEW h, \A t \in Shorter(sql) : g[t] = h[t]
    PROVE  SeesIn(sql, g) = SeesIn(sql, h)
<1> SUFFICES ASSUME NEW item \in Items PROVE SeesIn(sql, g)[item] = SeesIn(sql, h)[item]
  BY DEF SeesIn
<1>1. CASE Outside(sql, "OR") # {}
  <2>1. /\ g[Before(sql, Last(Outside(sql, "OR")))] = h[Before(sql, Last(Outside(sql, "OR")))]
        /\ g[After(sql, Last(Outside(sql, "OR")))] = h[After(sql, Last(Outside(sql, "OR")))]
    BY <1>1, PiecesShorter
  <2> QED
    BY <1>1, <2>1 DEF SeesIn
<1>2. CASE Outside(sql, "OR") = {} /\ Outside(sql, "AND") # {}
  <2>1. /\ g[Before(sql, Last(Outside(sql, "AND")))] = h[Before(sql, Last(Outside(sql, "AND")))]
        /\ g[After(sql, Last(Outside(sql, "AND")))] = h[After(sql, Last(Outside(sql, "AND")))]
    BY <1>2, PiecesShorter
  <2> QED
    BY <1>2, <2>1 DEF SeesIn
<1>3. CASE Outside(sql, "OR") = {} /\ Outside(sql, "AND") = {}
  <2>1. Len(sql) > 2 => /\ g[After(sql, 1)] = h[After(sql, 1)]
                       /\ g[SubSeq(sql, 2, Len(sql) - 1)] = h[SubSeq(sql, 2, Len(sql) - 1)]
    BY PiecesShorter
  <2> QED
    BY <1>3, <2>1 DEF SeesIn
<1> QED
  BY <1>1, <1>2, <1>3

LEMMA SeesInType ==
    ASSUME NEW sql \in Text, NEW g, \A t \in Shorter(sql) : g[t] \in [Items -> Readings]
    PROVE  SeesIn(sql, g) \in [Items -> Readings]
<1> SUFFICES ASSUME NEW item \in Items PROVE SeesIn(sql, g)[item] \in Readings
  BY DEF SeesIn
<1>0. \A t \in Shorter(sql) : g[t][item] \in Readings
  OBVIOUS
<1>1. CASE Outside(sql, "OR") # {}
  <2>1. /\ g[Before(sql, Last(Outside(sql, "OR")))][item] \in Readings
        /\ g[After(sql, Last(Outside(sql, "OR")))][item] \in Readings
    BY <1>0, <1>1, PiecesShorter
  <2>2. "true" \in Readings /\ "false" \in Readings
    BY DEF Readings
  <2> QED
    BY <1>1, <2>1, <2>2, ReadingTypes DEF SeesIn
<1>2. CASE Outside(sql, "OR") = {} /\ Outside(sql, "AND") # {}
  <2>1. /\ g[Before(sql, Last(Outside(sql, "AND")))][item] \in Readings
        /\ g[After(sql, Last(Outside(sql, "AND")))][item] \in Readings
    BY <1>0, <1>2, PiecesShorter
  <2>2. "true" \in Readings /\ "false" \in Readings
    BY DEF Readings
  <2> QED
    BY <1>2, <2>1, <2>2, ReadingTypes DEF SeesIn
<1>3. CASE Outside(sql, "OR") = {} /\ Outside(sql, "AND") = {}
  <2>1. Len(sql) > 2 => /\ g[After(sql, 1)][item] \in Readings
                       /\ g[SubSeq(sql, 2, Len(sql) - 1)][item] \in Readings
    BY <1>0, PiecesShorter
  <2> QED
    BY <1>3, <2>1, ReadingTypes DEF SeesIn
<1> QED
  BY <1>1, <1>2, <1>3

\* There is such a function: Sees is it.
LEMMA SeesDefined ==
    ASSUME NEW sql \in Text
    PROVE  Sees[sql] = SeesIn(sql, Sees) /\ Sees[sql] \in [Items -> Readings]
<1> DEFINE V == [Items -> Readings]
           rank == [s \in Text |-> Len(s)]
           rule == [s \in Text |-> [g \in [Text -> V] |-> SeesIn(s, g)]]
<1>1. IsRank(Text, rank)
  BY LenProperties DEF IsRank, Text
<1>2. \A s \in Text : \A g \in [Text -> V] : SeesIn(s, g) \in V
  <2> SUFFICES ASSUME NEW s \in Text, NEW g \in [Text -> V] PROVE SeesIn(s, g) \in V
    OBVIOUS
  <2>1. \A t \in Shorter(s) : g[t] \in V
    <3> HIDE DEF V
    <3> QED
      BY DEF Shorter
  <2> QED
    BY <2>1, SeesInType
<1>3. IsRule(Text, V, rule)
  BY <1>2 DEF IsRule
<1>4. Local(Text, V, rank, rule)
  <2> SUFFICES ASSUME NEW s \in Text, NEW g \in [Text -> V], NEW h \in [Text -> V],
                      Agree(g, h, Text, rank, rank[s])
               PROVE  SeesIn(s, g) = SeesIn(s, h)
    BY DEF Local
  <2>1. \A t \in Shorter(s) : g[t] = h[t]
    BY DEF Shorter, Agree
  <2> QED
    BY <2>1, SeesInLocal
<1>5. \A f : Solves(f, Text, V, rule) => f = [s \in Text |-> SeesIn(s, f)]
  BY DEF Solves
<1>6. V # {}
  <2>1. [item \in Items |-> "true"] \in V
    BY DEF Readings
  <2> QED
    BY <2>1
<1> HIDE DEF V, rule, rank
<1>7. PICK f : f = [s \in Text |-> SeesIn(s, f)]
  BY <1>1, <1>3, <1>4, <1>5, <1>6, RankRecursion
<1>8. Sees = CHOOSE g : g = [s \in Text |-> SeesIn(s, g)]
  BY DEF Sees, SeesIn, Text
<1>9. Sees = [s \in Text |-> SeesIn(s, Sees)]
  BY <1>7, <1>8
<1>10. \A s \in Text : Sees[s] = SeesIn(s, Sees)
  BY <1>9
<1> DEFINE S == {s \in Text : Sees[s] \in V}
<1>11. Text \subseteq S
  <2>1. ASSUME NEW s \in Text, \A t \in Text : rank[t] < rank[s] => t \in S
        PROVE  s \in S
    <3>1. \A t \in Shorter(s) : Sees[t] \in V
      BY <2>1 DEF Shorter, rank
    <3> QED
      BY <1>10, <3>1, SeesInType DEF V
  <2> HIDE DEF S
  <2>2. rank \in [Text -> Nat]
    BY <1>1 DEF IsRank
  <2> QED
    BY <2>1, <2>2, RankInduction
<1> QED
  BY <1>10, <1>11 DEF V
----------------------------------------------------------------------------
\* Parentheses.

\* What holds at the start, and of the next whenever it holds, holds up to n.
LEMMA UpTo ==
    ASSUME NEW n \in Nat, NEW S, 0 \in S, \A i \in 0..n : i \in S /\ i < n => i + 1 \in S
    PROVE  0..n \subseteq S
<1> DEFINE Bad == {i \in 0..n : i \notin S}
<1> SUFFICES ASSUME Bad # {} PROVE FALSE
  OBVIOUS
<1>1. Bad \subseteq Nat
  OBVIOUS
<1>2. PICK m \in Bad : \A k \in Bad : m <= k
  BY <1>1, LeastNumber
<1>3. m - 1 \in 0..n /\ m - 1 \notin Bad /\ m - 1 < n
  BY <1>1, <1>2
<1> QED
  BY <1>3

\* The next word is counted, if it is the one.
LEMMA CountNext ==
    ASSUME NEW sql, NEW k, NEW i \in Nat
    PROVE  /\ Count(sql, k, 0) = 0
           /\ Count(sql, k, i) \in Nat
           /\ Count(sql, k, i + 1) =
                 IF sql[i + 1].word = k THEN Count(sql, k, i) + 1 ELSE Count(sql, k, i)
<1> DEFINE At(n) == {j \in 1..n : sql[j].word = k}
<1>1. At(0) = {}
  OBVIOUS
<1>2. IsFiniteSet(At(i))
  <2>1. IsFiniteSet(1..i)
    BY FS_Interval
  <2>2. At(i) \in SUBSET (1..i)
    OBVIOUS
  <2> HIDE DEF At
  <2> QED
    BY <2>1, <2>2, FS_Subset
<1>3. At(i + 1) = IF sql[i + 1].word = k THEN At(i) \cup {i + 1} ELSE At(i)
  OBVIOUS
<1>4. i + 1 \notin At(i)
  OBVIOUS
<1>5. \A n : Count(sql, k, n) = Cardinality(At(n))
  BY DEF Count
<1> HIDE DEF At
<1>6. Cardinality(At(i)) \in Nat
  BY <1>2, FS_CardinalityType
<1>7. Cardinality(At(i) \cup {i + 1}) = Cardinality(At(i)) + 1
  BY <1>2, <1>4, FS_AddElement
<1>8. Cardinality(At(0)) = 0
  BY <1>1, FS_EmptySet
<1> QED
  BY <1>3, <1>5, <1>6, <1>7, <1>8

\* How many parentheses are open after i words.
Level(sql, i) == Count(sql, "(", i) - Count(sql, ")", i)

Turn(k) == IF k = "(" THEN 1 ELSE IF k = ")" THEN -1 ELSE 0

LEMMA LevelNext ==
    ASSUME NEW sql, NEW i \in Nat
    PROVE  /\ Level(sql, 0) = 0
           /\ Level(sql, i) \in Int
           /\ Level(sql, i + 1) = Level(sql, i) + Turn(sql[i + 1].word)
BY CountNext DEF Level, Turn

\* The words of a text that is joined.
LEMMA JoinedWords ==
    ASSUME NEW a \in Text, NEW b \in Text
    PROVE  /\ Len(a) \in Nat /\ Len(b) \in Nat /\ Len(a \o b) = Len(a) + Len(b)
           /\ \A i \in 1..Len(a) : (a \o b)[i] = a[i]
           /\ \A i \in 1..Len(b) : (a \o b)[Len(a) + i] = b[i]
<1>1. Len(a) \in Nat /\ Len(b) \in Nat
  BY LenProperties DEF Text
<1>2. /\ Len(a \o b) = Len(a) + Len(b)
      /\ \A i \in 1..(Len(a) + Len(b)) :
             (a \o b)[i] = IF i <= Len(a) THEN a[i] ELSE b[i - Len(a)]
  BY ConcatProperties DEF Text
<1>3. ASSUME NEW i \in 1..Len(a) PROVE (a \o b)[i] = a[i]
  <2>1. i \in 1..(Len(a) + Len(b)) /\ i <= Len(a)
    BY <1>1
  <2> QED
    BY <1>2, <2>1
<1>4. ASSUME NEW i \in 1..Len(b) PROVE (a \o b)[Len(a) + i] = b[i]
  <2>1. /\ Len(a) + i \in 1..(Len(a) + Len(b)) /\ ~(Len(a) + i <= Len(a))
        /\ (Len(a) + i) - Len(a) = i
    BY <1>1
  <2> QED
    BY <1>2, <2>1
<1> QED
  BY <1>1, <1>2, <1>3, <1>4

\* Levels go on where two texts are joined.
LEMMA LevelJoined ==
    ASSUME NEW a \in Text, NEW b \in Text
    PROVE  /\ \A i \in 0..Len(a) : Level(a \o b, i) = Level(a, i)
           /\ \A i \in 0..Len(b) : Level(a \o b, Len(a) + i) = Level(a, Len(a)) + Level(b, i)
<1> DEFINE t == a \o b
<1>0. /\ Len(a) \in Nat /\ Len(b) \in Nat
      /\ \A i \in 1..Len(a) : t[i] = a[i]
      /\ \A i \in 1..Len(b) : t[Len(a) + i] = b[i]
  BY JoinedWords
<1> HIDE DEF t
<1>1. 0..Len(a) \subseteq {i \in 0..Len(a) : Level(t, i) = Level(a, i)}
  <2> DEFINE S == {i \in 0..Len(a) : Level(t, i) = Level(a, i)}
  <2>1. 0 \in S
    BY <1>0, LevelNext
  <2>2. ASSUME NEW i \in 0..Len(a), i \in S, i < Len(a) PROVE i + 1 \in S
    <3>1. i + 1 \in 1..Len(a) /\ i \in Nat
      BY <1>0, <2>2
    <3>2. t[i + 1] = a[i + 1]
      BY <1>0, <3>1
    <3>3. Level(t, i + 1) = Level(a, i + 1)
      BY <2>2, <3>1, <3>2, LevelNext
    <3> QED
      BY <3>1, <3>3
  <2> HIDE DEF S
  <2>3. 0..Len(a) \subseteq S
    BY <1>0, <2>1, <2>2, UpTo
  <2> QED
    BY <2>3 DEF S
<1>2. 0..Len(b) \subseteq {i \in 0..Len(b) : Level(t, Len(a) + i) = Level(a, Len(a)) + Level(b, i)}
  <2> DEFINE S == {i \in 0..Len(b) : Level(t, Len(a) + i) = Level(a, Len(a)) + Level(b, i)}
  <2>1. 0 \in S
    <3>1. Level(t, Len(a)) = Level(a, Len(a))
      BY <1>0, <1>1
    <3>2. Level(a, Len(a)) \in Int /\ Level(b, 0) = 0
      BY <1>0, LevelNext
    <3> QED
      BY <1>0, <3>1, <3>2
  <2>2. ASSUME NEW i \in 0..Len(b), i \in S, i < Len(b) PROVE i + 1 \in S
    <3>1. i + 1 \in 1..Len(b) /\ i \in Nat /\ Len(a) + i \in Nat
      BY <1>0, <2>2
    <3>2. t[Len(a) + (i + 1)] = b[i + 1] /\ Len(a) + (i + 1) = (Len(a) + i) + 1
      <4>1. t[Len(a) + (i + 1)] = b[i + 1]
        BY <1>0, <3>1, Zenon
      <4>2. Len(a) + (i + 1) = (Len(a) + i) + 1
        BY <1>0, <3>1
      <4> QED
        BY <4>1, <4>2
    <3>3. /\ Level(t, (Len(a) + i) + 1) = Level(t, Len(a) + i) + Turn(b[i + 1].word)
          /\ Level(b, i + 1) = Level(b, i) + Turn(b[i + 1].word)
          /\ Level(b, i) \in Int
      BY <3>1, <3>2, LevelNext
    <3>4. Level(a, Len(a)) \in Int /\ Turn(b[i + 1].word) \in Int
      BY <1>0, LevelNext DEF Turn
    <3>5. Level(t, Len(a) + i) = Level(a, Len(a)) + Level(b, i)
      BY <2>2
    <3>6. Level(t, Len(a) + (i + 1)) = Level(a, Len(a)) + Level(b, i + 1)
      BY <3>2, <3>3, <3>4, <3>5
    <3> QED
      BY <3>1, <3>6
  <2> HIDE DEF S
  <2>3. 0..Len(b) \subseteq S
    BY <1>0, <2>1, <2>2, UpTo
  <2> QED
    BY <2>3 DEF S
<1> QED
  BY <1>1, <1>2 DEF t

\* Every parenthesis in a text has its other half in it.
Closed(sql) ==
    /\ \A i \in 0..Len(sql) : Level(sql, i) >= 0
    /\ Level(sql, Len(sql)) = 0

\* What is in no parentheses is so on level 0.
LEMMA OutsideLevel ==
    ASSUME NEW sql \in Text, NEW k
    PROVE  Outside(sql, k) = {i \in 1..Len(sql) : sql[i].word = k /\ Level(sql, i) = 0}
<1>1. Len(sql) \in Nat
  BY LenProperties DEF Text
<1>2. ASSUME NEW i \in 1..Len(sql)
      PROVE  Level(sql, i) = 0 <=> Count(sql, "(", i) = Count(sql, ")", i)
  <2>1. i \in Nat
    BY <1>1
  <2>2. Count(sql, "(", i) \in Nat /\ Count(sql, ")", i) \in Nat
    BY <2>1, CountNext
  <2> QED
    BY <2>2 DEF Level
<1> QED
  BY <1>2 DEF Outside

\* What is outside in a text that follows a closed one stays outside, and what was in
\* neither is in none.
LEMMA OutsideJoined ==
    ASSUME NEW a \in Text, NEW b \in Text, NEW k, Closed(a)
    PROVE  \A i \in Nat :
              i \in Outside(a \o b, k)
              <=> i \in Outside(a, k) \/ (i > Len(a) /\ i - Len(a) \in Outside(b, k))
<1>0. /\ Len(a) \in Nat /\ Len(b) \in Nat /\ Len(a \o b) = Len(a) + Len(b)
      /\ \A i \in 1..Len(a) : (a \o b)[i] = a[i]
      /\ \A i \in 1..Len(b) : (a \o b)[Len(a) + i] = b[i]
  BY JoinedWords
<1>1. /\ \A i \in 0..Len(a) : Level(a \o b, i) = Level(a, i)
      /\ \A i \in 0..Len(b) : Level(a \o b, Len(a) + i) = Level(a, Len(a)) + Level(b, i)
  BY LevelJoined
<1> SUFFICES ASSUME NEW i \in Nat
             PROVE  i \in Outside(a \o b, k)
                    <=> i \in Outside(a, k) \/ (i > Len(a) /\ i - Len(a) \in Outside(b, k))
  OBVIOUS
<1>2. a \o b \in Text
  BY Join
<1>6. /\ i \in Outside(a \o b, k)
         <=> i \in 1..Len(a \o b) /\ (a \o b)[i].word = k /\ Level(a \o b, i) = 0
      /\ i \in Outside(a, k) <=> i \in 1..Len(a) /\ a[i].word = k /\ Level(a, i) = 0
      /\ \A j : j \in Outside(b, k) <=> j \in 1..Len(b) /\ b[j].word = k /\ Level(b, j) = 0
  <2>1. /\ Outside(a \o b, k)
             = {j \in 1..Len(a \o b) : (a \o b)[j].word = k /\ Level(a \o b, j) = 0}
        /\ Outside(a, k) = {j \in 1..Len(a) : a[j].word = k /\ Level(a, j) = 0}
        /\ Outside(b, k) = {j \in 1..Len(b) : b[j].word = k /\ Level(b, j) = 0}
    BY <1>2, OutsideLevel, Zenon
  <2> QED
    BY <2>1, Zenon
<1>3. CASE i \in 1..Len(a)
  <2>1. (a \o b)[i] = a[i] /\ Level(a \o b, i) = Level(a, i)
    BY <1>0, <1>1, <1>3
  <2>2. i \in 1..Len(a \o b) /\ ~(i > Len(a))
    BY <1>0, <1>3
  <2> QED
    BY <1>3, <1>6, <2>1, <2>2
<1>4. CASE i \in (Len(a) + 1)..(Len(a) + Len(b))
  <2> DEFINE j == i - Len(a)
  <2>1. j \in 1..Len(b) /\ i = Len(a) + j /\ i > Len(a) /\ i \notin 1..Len(a)
        /\ i \in 1..Len(a \o b)
    BY <1>0, <1>4
  <2>2. Level(b, j) \in Int
    BY <1>0, <2>1, LevelNext
  <2> HIDE DEF j
  <2>3. (a \o b)[i] = b[j] /\ Level(a \o b, i) = Level(b, j)
    BY <1>0, <1>1, <2>1, <2>2 DEF Closed
  <2>4. i \in Outside(a \o b, k) <=> j \in Outside(b, k)
    BY <1>6, <2>1, <2>3
  <2>5. i \notin Outside(a, k)
    BY <1>6, <2>1
  <2> QED
    BY <2>1, <2>4, <2>5 DEF j
<1>5. CASE i \notin 1..(Len(a) + Len(b))
  <2>1. i \notin 1..Len(a) /\ ~(i > Len(a) /\ i - Len(a) \in 1..Len(b)) /\ i \notin 1..Len(a \o b)
    BY <1>0, <1>5
  <2> QED
    BY <1>6, <2>1
<1> QED
  BY <1>0, <1>3, <1>4, <1>5

\* Two closed texts make a closed one.
LEMMA ClosedJoined ==
    ASSUME NEW a \in Text, NEW b \in Text, Closed(a), Closed(b)
    PROVE  Closed(a \o b)
<1>0. Len(a) \in Nat /\ Len(b) \in Nat /\ Len(a \o b) = Len(a) + Len(b)
  BY JoinedWords
<1>1. /\ \A i \in 0..Len(a) : Level(a \o b, i) = Level(a, i)
      /\ \A i \in 0..Len(b) : Level(a \o b, Len(a) + i) = Level(a, Len(a)) + Level(b, i)
  BY LevelJoined
<1>2. \A i \in 0..Len(b) : Level(a \o b, Len(a) + i) = Level(b, i)
  BY <1>0, <1>1, LevelNext DEF Closed
<1>3. ASSUME NEW i \in 0..Len(a \o b) PROVE Level(a \o b, i) >= 0
  <2>1. CASE i <= Len(a)
    BY <1>0, <1>1, <2>1 DEF Closed
  <2>2. CASE i > Len(a)
    <3>1. i - Len(a) \in 0..Len(b) /\ Len(a) + (i - Len(a)) = i
      BY <1>0, <2>2
    <3>2. Level(a \o b, i) = Level(b, i - Len(a))
      BY <1>2, <3>1
    <3> QED
      BY <3>1, <3>2 DEF Closed
  <2> QED
    BY <1>0, <2>1, <2>2
<1>4. Level(a \o b, Len(a \o b)) = 0
  BY <1>0, <1>2 DEF Closed
<1> QED
  BY <1>3, <1>4 DEF Closed
----------------------------------------------------------------------------
\* Reading what has been put together.

\* A word that is no parenthesis is closed.
LEMMA ClosedWord ==
    ASSUME NEW b \in Text, Len(b) = 1, b[1].word \notin {"(", ")"}
    PROVE  Closed(b) /\ \A k, i : i \in Outside(b, k) <=> i = 1 /\ b[1].word = k
<1>1. Level(b, 0) = 0 /\ Level(b, 0 + 1) = Level(b, 0) + Turn(b[0 + 1].word)
  BY LevelNext
<1>2. Level(b, 1) = 0
  BY <1>1 DEF Turn
<1>3. \A i : i \in 1..Len(b) <=> i = 1
  OBVIOUS
<1>4. Closed(b)
  BY <1>1, <1>2 DEF Closed
<1> QED
  BY <1>2, <1>3, <1>4, OutsideLevel

Connectives == {"AND", "OR"}

\* A connective between two texts, the first of them closed.
LEMMA Connected ==
    ASSUME NEW a \in Text, NEW w \in Text, NEW k \in Connectives, Closed(a)
    PROVE  /\ a \o Key(k) \o w \in Text /\ Len(a) \in Nat /\ Len(w) \in Nat
           /\ Len(a \o Key(k) \o w) = Len(a) + 1 + Len(w)
           /\ Closed(a \o Key(k))
           /\ \A m, i : i \in Outside(a \o Key(k) \o w, m)
                 <=> \/ i \in Outside(a, m)
                     \/ i = Len(a) + 1 /\ m = k
                     \/ /\ i \in Nat /\ i > Len(a) + 1
                        /\ i - (Len(a) + 1) \in Outside(w, m)
<1>1. /\ Key(k) \in Text /\ Len(Key(k)) = 1 /\ Key(k)[1].word = k
      /\ k \notin {"(", ")"}
  BY KeyText DEF Connectives, Words
<1>2. Closed(Key(k)) /\ \A m, i : i \in Outside(Key(k), m) <=> i = 1 /\ k = m
  BY <1>1, ClosedWord
<1> DEFINE b == a \o Key(k)
<1>3. b \in Text /\ Len(b) = Len(a) + 1 /\ Len(a) \in Nat /\ Closed(b)
  <2>1. b \in Text /\ Len(b) = Len(a) + 1
    BY <1>1, Join
  <2>2. Closed(b)
    BY <1>1, <1>2, ClosedJoined
  <2>3. Len(a) \in Nat
    BY LenProperties DEF Text
  <2> QED
    BY <2>1, <2>2, <2>3
<1>4. \A m : \A i \in Nat : i \in Outside(b, m) <=>
                 i \in Outside(a, m) \/ (i > Len(a) /\ i - Len(a) \in Outside(Key(k), m))
  BY <1>1, OutsideJoined
<1>5. \A m : \A i \in Nat : i \in Outside(b, m) <=>
                 i \in Outside(a, m) \/ (i = Len(a) + 1 /\ m = k)
  <2> SUFFICES ASSUME NEW m, NEW i \in Nat
               PROVE  i > Len(a) /\ i - Len(a) \in Outside(Key(k), m)
                      <=> i = Len(a) + 1 /\ m = k
    BY <1>4
  <2>1. i - Len(a) \in Outside(Key(k), m) <=> i - Len(a) = 1 /\ k = m
    BY <1>2
  <2>2. i > Len(a) /\ i - Len(a) = 1 <=> i = Len(a) + 1
    BY <1>3
  <2> QED
    BY <2>1, <2>2
<1> HIDE DEF b
<1>6. /\ b \o w \in Text /\ Len(b \o w) = Len(b) + Len(w) /\ Len(w) \in Nat
      /\ \A m : \A i \in Nat : i \in Outside(b \o w, m)
             <=> i \in Outside(b, m) \/ (i > Len(b) /\ i - Len(b) \in Outside(w, m))
  BY <1>3, Join, JoinedWords, OutsideJoined
<1>7. \A m, i : (i \in Outside(b \o w, m) => i \in Nat) /\ (i \in Outside(a, m) => i \in Nat)
  BY DEF Outside
<1>8. \A m, i : i \in Outside(b \o w, m)
                 <=> \/ i \in Outside(a, m)
                     \/ i = Len(a) + 1 /\ m = k
                     \/ /\ i \in Nat /\ i > Len(a) + 1
                        /\ i - (Len(a) + 1) \in Outside(w, m)
  <2> TAKE m, i
  <2>1. CASE i \in Nat
    BY <1>3, <1>5, <1>6, <2>1
  <2>2. CASE i \notin Nat
    <3>1. i # Len(a) + 1
      BY <1>3, <2>2
    <3> QED
      BY <1>7, <2>2, <3>1
  <2> QED
    BY <2>1, <2>2
<1> QED
  BY <1>3, <1>6, <1>8 DEF b

\* Its parts are the two.
LEMMA CutParts ==
    ASSUME NEW a \in Text, NEW w \in Text, NEW k \in Words
    PROVE  /\ Before(a \o Key(k) \o w, Len(a) + 1) = a
           /\ After(a \o Key(k) \o w, Len(a) + 1) = w
<1>1. Key(k) \in Text /\ Len(Key(k)) = 1
  BY KeyText
<1> DEFINE b == a \o Key(k)
           t == b \o w
<1>2. /\ b \in Text /\ Len(b) = Len(a) + 1 /\ Len(a) \in Nat
      /\ \A i \in 1..Len(a) : b[i] = a[i]
  <2>1. b \in Text
    BY <1>1, Join, Zenon
  <2>2. /\ Len(b) = Len(a) + Len(Key(k)) /\ Len(a) \in Nat
        /\ \A i \in 1..Len(a) : b[i] = a[i]
    BY <1>1, JoinedWords, Zenon
  <2>3. Len(Key(k)) = 1
    BY <1>1
  <2> QED
    BY <2>1, <2>2, <2>3, Zenon
<1> HIDE DEF b
<1>3. /\ t \in Text /\ Len(t) = Len(b) + Len(w) /\ Len(w) \in Nat
      /\ \A i \in 1..Len(b) : t[i] = b[i]
      /\ \A i \in 1..Len(w) : t[Len(b) + i] = w[i]
  BY <1>2, Join, JoinedWords, Zenon
<1> HIDE DEF t
<1>4. Len(a) + 1 \in 1..Len(t)
  BY <1>2, <1>3
<1>5. /\ Before(t, Len(a) + 1) \in Text /\ Len(Before(t, Len(a) + 1)) = Len(a)
      /\ After(t, Len(a) + 1) \in Text /\ Len(After(t, Len(a) + 1)) = Len(w)
  <2>1. /\ Before(t, Len(a) + 1) \in Text /\ Len(Before(t, Len(a) + 1)) = (Len(a) + 1) - 1
        /\ After(t, Len(a) + 1) \in Text /\ Len(After(t, Len(a) + 1)) = Len(t) - (Len(a) + 1)
    BY <1>3, <1>4, Pieces, Zenon
  <2>2. (Len(a) + 1) - 1 = Len(a) /\ Len(t) - (Len(a) + 1) = Len(w)
    BY <1>2, <1>3
  <2> QED
    BY <2>1, <2>2, Zenon
<1>6. \A j \in 1..Len(t) : t[j] \in Tokens
  BY <1>3, ElementOfSeq DEF Text
<1>7. ASSUME NEW i \in 1..Len(a) PROVE Before(t, Len(a) + 1)[i] = a[i]
  <2>1. \A j \in 1..((Len(a) + 1) - 1) : t[j] \in Tokens
    BY <1>2, <1>3, <1>6
  <2>2. \A j \in 1..((Len(a) + 1) - 1) - 1 + 1 :
            SubSeq(t, 1, (Len(a) + 1) - 1)[j] = t[1 + j - 1]
    BY <1>2, <2>1, SubSeqProperties
  <2>3. i \in 1..((Len(a) + 1) - 1) - 1 + 1 /\ 1 + i - 1 = i /\ i \in 1..Len(b)
    BY <1>2
  <2>4. SubSeq(t, 1, (Len(a) + 1) - 1)[i] = t[i]
    BY <2>2, <2>3
  <2> QED
    BY <1>2, <1>3, <2>3, <2>4 DEF Before
<1>8. ASSUME NEW i \in 1..Len(w) PROVE After(t, Len(a) + 1)[i] = w[i]
  <2>1. \A j \in (Len(a) + 1) + 1..Len(t) : t[j] \in Tokens
    BY <1>2, <1>3, <1>6
  <2>2. \A j \in 1..Len(t) - ((Len(a) + 1) + 1) + 1 :
            SubSeq(t, (Len(a) + 1) + 1, Len(t))[j] = t[((Len(a) + 1) + 1) + j - 1]
    BY <1>2, <1>3, <2>1, SubSeqProperties
  <2>3. /\ i \in 1..Len(t) - ((Len(a) + 1) + 1) + 1
        /\ ((Len(a) + 1) + 1) + i - 1 = Len(b) + i
    BY <1>2, <1>3
  <2>4. SubSeq(t, (Len(a) + 1) + 1, Len(t))[i] = t[Len(b) + i]
    BY <2>2, <2>3
  <2> QED
    BY <1>3, <2>4 DEF After
<1>9. Before(t, Len(a) + 1) = a
  BY <1>5, <1>7, SeqEqual DEF Text
<1>10. After(t, Len(a) + 1) = w
  BY <1>5, <1>8, SeqEqual DEF Text
<1> QED
  BY <1>9, <1>10 DEF t, b

\* The last connective outside parentheses is the one between, if none follows.
LEMMA LastConnective ==
    ASSUME NEW a \in Text, NEW w \in Text, NEW k \in Connectives, Closed(a), Outside(w, k) = {}
    PROVE  /\ Outside(a \o Key(k) \o w, k) # {}
           /\ Last(Outside(a \o Key(k) \o w, k)) = Len(a) + 1
<1> DEFINE t == a \o Key(k) \o w
<1>1. /\ t \in Text /\ Len(a) \in Nat
      /\ \A i : i \in Outside(t, k) <=> i \in Outside(a, k) \/ i = Len(a) + 1
  BY Connected
<1> HIDE DEF t
<1>2. Len(a) + 1 \in Outside(t, k)
  BY <1>1
<1>3. \A i \in Outside(a, k) : i \in Nat /\ i <= Len(a)
  BY <1>1 DEF Outside
<1>4. /\ Last(Outside(t, k)) \in Outside(t, k)
      /\ \A j \in Outside(t, k) : j <= Last(Outside(t, k))
  BY <1>1, <1>2, LastOutside
<1>5. Len(a) + 1 <= Last(Outside(t, k))
  BY <1>2, <1>4
<1>6. Last(Outside(t, k)) \notin Outside(a, k)
  BY <1>1, <1>3, <1>5
<1> QED
  BY <1>1, <1>2, <1>4, <1>6 DEF t

\* AND is read as the two that it connects.
LEMMA ReadAnd ==
    ASSUME NEW a \in Text, NEW w \in Text, NEW item \in Items, Closed(a),
           Outside(a, "OR") = {}, Outside(w, "OR") = {}, Outside(w, "AND") = {}
    PROVE  Sees[AndSql(a, w)][item] = Junction("false", "true", Sees[a][item], Sees[w][item])
<1> DEFINE t == a \o Key("AND") \o w
<1>1. "AND" \in Connectives /\ "AND" \in Words
  BY DEF Connectives, Words
<1>2. t \in Text /\ Outside(t, "OR") = {}
  <2>1. \A i : i \notin Outside(t, "OR")
    BY <1>1, Connected, SMTT(30)
  <2>2. t \in Text
    BY <1>1, Connected, Zenon
  <2> QED
    BY <2>1, <2>2, Zenon
<1>3. Outside(t, "AND") # {} /\ Last(Outside(t, "AND")) = Len(a) + 1
  BY <1>1, LastConnective
<1>4. Before(t, Len(a) + 1) = a /\ After(t, Len(a) + 1) = w
  BY <1>1, CutParts
<1>5. AndSql(a, w) = t
  BY DEF AndSql
<1> HIDE DEF t
<1>6. Sees[t] = SeesIn(t, Sees)
  BY <1>2, SeesDefined
<1> QED
  BY <1>2, <1>3, <1>4, <1>5, <1>6 DEF SeesIn

\* So is OR.
LEMMA ReadOr ==
    ASSUME NEW a \in Text, NEW w \in Text, NEW item \in Items, Closed(a), Outside(w, "OR") = {}
    PROVE  Sees[a \o Key("OR") \o w][item]
           = Junction("true", "false", Sees[a][item], Sees[w][item])
<1> DEFINE t == a \o Key("OR") \o w
<1>1. "OR" \in Connectives /\ "OR" \in Words
  BY DEF Connectives, Words
<1>2. t \in Text
  BY <1>1, Connected
<1>3. Outside(t, "OR") # {} /\ Last(Outside(t, "OR")) = Len(a) + 1
  BY <1>1, LastConnective
<1>4. Before(t, Len(a) + 1) = a /\ After(t, Len(a) + 1) = w
  BY <1>1, CutParts
<1> HIDE DEF t
<1>6. Sees[t] = SeesIn(t, Sees)
  BY <1>2, SeesDefined
<1>7. Sees[t][item] = Junction("true", "false", Sees[a][item], Sees[w][item])
  BY <1>3, <1>4, <1>6 DEF SeesIn
<1> QED
  BY <1>7 DEF t
----------------------------------------------------------------------------
\* Reading parentheses and NOT.

\* Joining texts is associative.
LEMMA Regroup ==
    ASSUME NEW a \in Text, NEW b \in Text, NEW c \in Text
    PROVE  (a \o b) \o c = a \o (b \o c)
BY ConcatAssociative DEF Text

Paren(x) == Key("(") \o x \o Key(")")

\* A closed text in parentheses is closed, and nothing in it is outside.
LEMMA InParens ==
    ASSUME NEW x \in Text, Closed(x)
    PROVE  /\ Paren(x) \in Text /\ Len(x) \in Nat /\ Len(Paren(x)) = Len(x) + 2
           /\ Paren(x)[1].word = "(" /\ Paren(x)[Len(x) + 2].word = ")"
           /\ \A i \in 1..Len(x) : Paren(x)[i + 1] = x[i]
           /\ Closed(Paren(x))
           /\ \A k \in Connectives : Outside(Paren(x), k) = {}
<1>1. /\ Key("(") \in Text /\ Len(Key("(")) = 1 /\ Key("(")[1].word = "("
      /\ Key(")") \in Text /\ Len(Key(")")) = 1 /\ Key(")")[1].word = ")"
  BY KeyText DEF Words
<1> DEFINE b == Key("(") \o x
           t == b \o Key(")")
<1>2. /\ b \in Text /\ Len(b) = Len(x) + 1 /\ Len(x) \in Nat
      /\ b[1] = Key("(")[1] /\ \A i \in 1..Len(x) : b[1 + i] = x[i]
      /\ \A i \in 0..Len(x) : Level(b, 1 + i) = Level(Key("("), 1) + Level(x, i)
  <2>1. /\ Len(x) \in Nat /\ Len(b) = 1 + Len(x) /\ 1 \in 1..Len(Key("("))
        /\ \A i \in 1..Len(Key("(")) : b[i] = Key("(")[i]
        /\ \A i \in 1..Len(x) : b[Len(Key("(")) + i] = x[i]
    BY <1>1, JoinedWords
  <2>2. \A i \in 0..Len(x) :
            Level(b, Len(Key("(")) + i) = Level(Key("("), Len(Key("("))) + Level(x, i)
    BY <1>1, LevelJoined
  <2>3. b \in Text
    BY <1>1, Join
  <2> HIDE DEF b
  <2> QED
    BY <1>1, <2>1, <2>2, <2>3
<1> HIDE DEF b
<1>3. /\ t \in Text /\ Len(t) = Len(b) + 1
      /\ \A i \in 1..Len(b) : t[i] = b[i]
      /\ t[Len(b) + 1] = Key(")")[1]
      /\ \A i \in 0..Len(b) : Level(t, i) = Level(b, i)
      /\ Level(t, Len(b) + 1) = Level(b, Len(b)) + Level(Key(")"), 1)
  <2>1. /\ Len(t) = Len(b) + Len(Key(")"))
        /\ \A i \in 1..Len(b) : t[i] = b[i]
        /\ \A i \in 1..Len(Key(")")) : t[Len(b) + i] = Key(")")[i]
    BY <1>1, <1>2, JoinedWords
  <2>2. /\ \A i \in 0..Len(b) : Level(t, i) = Level(b, i)
        /\ \A i \in 0..Len(Key(")")) : Level(t, Len(b) + i) = Level(b, Len(b)) + Level(Key(")"), i)
    BY <1>1, <1>2, LevelJoined
  <2>3. t \in Text
    BY <1>1, <1>2, Join
  <2>4. 1 \in 1..Len(Key(")")) /\ 1 \in 0..Len(Key(")"))
    BY <1>1
  <2> HIDE DEF t
  <2> QED
    BY <1>1, <2>1, <2>2, <2>3, <2>4
<1> HIDE DEF t
<1>4. Level(Key("("), 1) = 1 /\ Level(Key(")"), 1) = -1
  <2>1. \A k : /\ Level(Key(k), 0) = 0
                /\ Level(Key(k), 0 + 1) = Level(Key(k), 0) + Turn(Key(k)[0 + 1].word)
    BY LevelNext
  <2> QED
    BY <1>1, <2>1 DEF Turn
<1>5. \A i \in 0..Len(x) : Level(x, i) \in Int
  BY <1>2, LevelNext
<1>6. \A i \in 0..Len(x) : Level(t, 1 + i) >= 1
  <2> SUFFICES ASSUME NEW i \in 0..Len(x) PROVE Level(t, 1 + i) >= 1
    OBVIOUS
  <2>1. 1 + i \in 0..Len(b)
    BY <1>2
  <2>2. Level(t, 1 + i) = 1 + Level(x, i)
    BY <1>2, <1>3, <1>4, <2>1
  <2>3. Level(x, i) >= 0
    BY DEF Closed
  <2> QED
    BY <1>5, <2>2, <2>3
<1>7. Level(t, 0) = 0 /\ Level(t, Len(x) + 2) = 0
  <2>1. Level(b, 1 + Len(x)) = 1 + Level(x, Len(x))
    BY <1>2, <1>4
  <2>2. Level(b, Len(b)) = 1
    BY <1>2, <2>1 DEF Closed
  <2> QED
    BY <1>2, <1>3, <1>4, <2>2, LevelNext
<1>8. \A i \in 0..Len(t) : i = 0 \/ i = Len(x) + 2 \/ (i - 1 \in 0..Len(x) /\ 1 + (i - 1) = i)
  BY <1>2, <1>3
<1>9. Closed(t)
  <2>1. \A i \in 0..Len(t) : Level(t, i) >= 0
    <3> SUFFICES ASSUME NEW i \in 0..Len(t) PROVE Level(t, i) >= 0
      OBVIOUS
    <3>1. CASE i = 0 \/ i = Len(x) + 2
      BY <1>7, <3>1
    <3>2. CASE i - 1 \in 0..Len(x) /\ 1 + (i - 1) = i
      <4>1. PICK j \in 0..Len(x) : 1 + j = i
        BY <3>2
      <4>2. Level(t, 1 + j) >= 1
        BY <1>6
      <4>3. i \in Nat
        BY <1>2, <1>3
      <4>4. Level(t, i) \in Int
        BY <4>3, LevelNext
      <4> QED
        BY <4>1, <4>2, <4>4
    <3> QED
      BY <1>8, <3>1, <3>2
  <2>2. Len(t) = Len(x) + 2
    BY <1>2, <1>3
  <2> QED
    BY <1>7, <2>1, <2>2 DEF Closed
<1>10. ASSUME NEW k \in Connectives PROVE Outside(t, k) = {}
  <2> SUFFICES ASSUME NEW i \in 1..Len(t), t[i].word = k, Level(t, i) = 0 PROVE FALSE
    BY <1>3, OutsideLevel
  <2>1. i = Len(x) + 2
    <3>1. i \in 0..Len(t) /\ i # 0
      BY <1>2, <1>3
    <3>2. CASE i - 1 \in 0..Len(x) /\ 1 + (i - 1) = i
      <4>1. PICK j \in 0..Len(x) : 1 + j = i
        BY <3>2
      <4>2. Level(t, 1 + j) >= 1
        BY <1>6
      <4> QED
        BY <4>1, <4>2
    <3> QED
      BY <1>8, <3>1, <3>2
  <2>2. t[i] = Key(")")[1]
    BY <1>2, <1>3, <2>1
  <2> QED
    BY <1>1, <2>2 DEF Connectives
<1>11. \A i \in 1..Len(x) : t[i + 1] = x[i]
  <2> TAKE i \in 1..Len(x)
  <2>1. i + 1 \in 1..Len(b) /\ i + 1 = 1 + i
    BY <1>2
  <2>2. t[i + 1] = b[i + 1]
    BY <1>3, <2>1, Zenon
  <2> QED
    BY <1>2, <2>1, <2>2
<1>12. Len(t) = Len(x) + 2 /\ t[1].word = "(" /\ t[Len(x) + 2].word = ")"
  <2>1. 1 \in 1..Len(b) /\ Len(b) + 1 = Len(x) + 2
    BY <1>2
  <2>2. t[1] = b[1]
    BY <1>3, <2>1, Zenon
  <2> QED
    BY <1>1, <1>2, <1>3, <2>1, <2>2
<1>13. Paren(x) = t
  BY DEF Paren, t, b
<1> QED
  BY <1>2, <1>3, <1>9, <1>10, <1>11, <1>12, <1>13

\* It is read as what is in the parentheses.
LEMMA ReadParens ==
    ASSUME NEW x \in Text, Closed(x), Len(x) > 0, NEW item \in Items
    PROVE  Sees[Paren(x)][item] = Sees[x][item]
<1> DEFINE t == Paren(x)
<1>1. /\ t \in Text /\ Len(x) \in Nat /\ Len(t) = Len(x) + 2
      /\ t[1].word = "(" /\ t[Len(x) + 2].word = ")"
      /\ \A i \in 1..Len(x) : t[i + 1] = x[i]
      /\ Outside(t, "OR") = {} /\ Outside(t, "AND") = {}
  BY InParens DEF Connectives
<1> HIDE DEF t
<1>2. Len(t) > 2 /\ t[Len(t)].word = ")"
  BY <1>1
<1>3. SubSeq(t, 2, Len(t) - 1) \in Text /\ Len(SubSeq(t, 2, Len(t) - 1)) = Len(x)
  BY <1>1, <1>2, InnerPiece
<1>4. ASSUME NEW i \in 1..Len(x) PROVE SubSeq(t, 2, Len(t) - 1)[i] = x[i]
  <2>1. \A j \in 1..Len(t) : t[j] \in Tokens
    BY <1>1, ElementOfSeq DEF Text
  <2>2. \A j \in 2..Len(t) - 1 : t[j] \in Tokens
    BY <1>1, <2>1
  <2>3. \A j \in 1..(Len(t) - 1) - 2 + 1 : SubSeq(t, 2, Len(t) - 1)[j] = t[2 + j - 1]
    BY <1>1, <2>2, SubSeqProperties
  <2>4. i \in 1..(Len(t) - 1) - 2 + 1 /\ 2 + i - 1 = i + 1
    BY <1>1
  <2> QED
    BY <1>1, <2>3, <2>4
<1>5. SubSeq(t, 2, Len(t) - 1) = x
  BY <1>3, <1>4, SeqEqual DEF Text
<1>6. Sees[t] = SeesIn(t, Sees)
  BY <1>1, SeesDefined
<1>7. Sees[t][item] = Sees[SubSeq(t, 2, Len(t) - 1)][item]
  BY <1>1, <1>2, <1>6 DEF SeesIn
<1> QED
  BY <1>5, <1>7 DEF t

\* NOT before a text without connectives outside parentheses negates it.
LEMMA ReadNot ==
    ASSUME NEW w \in Text, Len(w) > 1, \A k \in Connectives : Outside(w, k) = {}
    PROVE  /\ Key("NOT") \o w \in Text /\ Len(Key("NOT") \o w) = Len(w) + 1
           /\ Closed(w) => Closed(Key("NOT") \o w)
           /\ \A k \in Connectives : Outside(Key("NOT") \o w, k) = {}
           /\ \A item \in Items : Sees[Key("NOT") \o w][item] = Negation(Sees[w][item])
<1>1. /\ Key("NOT") \in Text /\ Len(Key("NOT")) = 1 /\ Key("NOT")[1].word = "NOT"
      /\ "NOT" \in Words
  BY KeyText DEF Words
<1>2. Closed(Key("NOT")) /\ \A k, i : i \in Outside(Key("NOT"), k) <=> i = 1 /\ "NOT" = k
  BY <1>1, ClosedWord
<1> DEFINE t == Key("NOT") \o w
<1>3. Len(w) \in Nat
  BY LenProperties DEF Text
<1>4. t \in Text /\ Len(t) = Len(w) + 1
  <2>1. t \in Text /\ Len(t) = Len(Key("NOT")) + Len(w)
    BY <1>1, Join
  <2>2. Len(t) = 1 + Len(w)
    BY <1>1, <2>1
  <2>3. 1 + Len(w) = Len(w) + 1
    BY <1>3
  <2> HIDE DEF t
  <2> QED
    BY <2>1, <2>2, <2>3
<1>5. Closed(w) => Closed(t)
  BY <1>1, <1>2, ClosedJoined
<1>6. t[1].word = "NOT"
  <2>1. 1 \in 1..Len(Key("NOT"))
    BY <1>1
  <2>2. t[1] = Key("NOT")[1]
    BY <1>1, <2>1, JoinedWords
  <2> QED
    BY <1>1, <2>2
<1>7. ASSUME NEW k \in Connectives PROVE Outside(t, k) = {}
  <2>1. \A i \in Nat : i \notin Outside(t, k)
    BY <1>1, <1>2, OutsideJoined DEF Connectives
  <2>2. Outside(t, k) \subseteq Nat
    BY DEF Outside
  <2> QED
    BY <2>1, <2>2
<1>8. After(t, 1) = w
  <2>1. <<>> \in Text /\ Len(<<>>) = 0
    BY EmptySeq DEF Text
  <2>2. <<>> \o Key("NOT") = Key("NOT")
    BY <1>1, ConcatEmptySeq DEF Text
  <2>3. After(<<>> \o Key("NOT") \o w, Len(<<>>) + 1) = w
    BY <1>1, <2>1, CutParts
  <2> QED
    BY <2>1, <2>2, <2>3
<1> HIDE DEF t
<1>9. Sees[t] = SeesIn(t, Sees)
  BY <1>4, SeesDefined
<1>10. Len(t) > 2 /\ Outside(t, "OR") = {} /\ Outside(t, "AND") = {}
  BY <1>3, <1>4, <1>7 DEF Connectives
<1>11. \A item \in Items : Sees[t][item] = Negation(Sees[After(t, 1)][item])
  BY <1>6, <1>9, <1>10 DEF SeesIn
<1> QED
  BY <1>4, <1>5, <1>7, <1>8, <1>11 DEF t

\* A text of other words and without parentheses is read as it is.
LEMMA ReadSimple ==
    ASSUME NEW t \in Text, NEW item \in Items,
           Outside(t, "OR") = {}, Outside(t, "AND") = {},
           Len(t) > 2 => /\ t[1].word # "NOT"
                         /\ t[1].word # "(" \/ t[Len(t)].word # ")"
    PROVE  Sees[t][item] = Simple(item, t)
<1>1. Sees[t] = SeesIn(t, Sees)
  BY SeesDefined
<1> QED
  BY <1>1 DEF SeesIn
----------------------------------------------------------------------------
\* What the writers put together.

\* In a text without parentheses and connectives nothing is outside.
LEMMA PlainText ==
    ASSUME NEW t \in Text,
           \A i \in 1..Len(t) : t[i].word \notin Connectives \cup {"(", ")"}
    PROVE  Closed(t) /\ \A k \in Connectives : Outside(t, k) = {}
<1>1. Len(t) \in Nat
  BY LenProperties DEF Text
<1> DEFINE S == {i \in 0..Len(t) : Level(t, i) = 0}
<1>2. 0 \in S
  BY <1>1, LevelNext
<1>3. ASSUME NEW i \in 0..Len(t), i \in S, i < Len(t) PROVE i + 1 \in S
  <2>1. i \in Nat /\ i + 1 \in 1..Len(t) /\ i + 1 \in 0..Len(t)
    BY <1>1, <1>3
  <2>2. Turn(t[i + 1].word) = 0
    BY <2>1 DEF Turn
  <2>3. Level(t, i + 1) = Level(t, i) + Turn(t[i + 1].word)
    BY <2>1, LevelNext
  <2> QED
    BY <1>3, <2>1, <2>2, <2>3
<1> HIDE DEF S
<1>4. 0..Len(t) \subseteq S
  BY <1>1, <1>2, <1>3, UpTo
<1>5. \A i \in 0..Len(t) : Level(t, i) = 0
  BY <1>4 DEF S
<1>6. Closed(t)
  BY <1>1, <1>5 DEF Closed
<1> QED
  BY <1>6 DEF Outside

\* A comparison.
LEMMA ComparisonText ==
    ASSUME NEW l \in Operands, NEW r \in Operands, NEW op \in Operators
    PROVE  LET t == WhereOperand(l) \o Key(op) \o WhereOperand(r) IN
           /\ t \in Text /\ Len(t) = 3
           /\ t[1] = [word |-> "operand", of |-> l]
           /\ t[2].word = op
           /\ t[3] = [word |-> "operand", of |-> r]
<1>1. /\ Key(op) \in Text /\ Len(Key(op)) = 1 /\ Key(op)[1].word = op
  BY KeyText DEF Words
<1>2. /\ WhereOperand(l) \in Text /\ Len(WhereOperand(l)) = 1
      /\ WhereOperand(l)[1] = [word |-> "operand", of |-> l]
      /\ WhereOperand(r) \in Text /\ Len(WhereOperand(r)) = 1
      /\ WhereOperand(r)[1] = [word |-> "operand", of |-> r]
  BY OperandText
<1> DEFINE b == WhereOperand(l) \o Key(op)
           t == b \o WhereOperand(r)
<1>3. b \in Text /\ Len(b) = 2 /\ b[1] = WhereOperand(l)[1] /\ b[2] = Key(op)[1]
  <2>1. /\ Len(b) = Len(WhereOperand(l)) + Len(Key(op))
        /\ \A i \in 1..Len(WhereOperand(l)) : b[i] = WhereOperand(l)[i]
        /\ \A i \in 1..Len(Key(op)) : b[Len(WhereOperand(l)) + i] = Key(op)[i]
    BY <1>1, <1>2, JoinedWords
  <2>2. b \in Text
    BY <1>1, <1>2, Join
  <2> HIDE DEF b
  <2>3. 1 \in 1..Len(Key(op)) /\ 1 \in 1..Len(WhereOperand(l)) /\ Len(WhereOperand(l)) + 1 = 2
    BY <1>1, <1>2
  <2> QED
    BY <1>1, <1>2, <2>1, <2>2, <2>3
<1> HIDE DEF b
<1>4. t \in Text /\ Len(t) = 3 /\ t[1] = b[1] /\ t[2] = b[2] /\ t[3] = WhereOperand(r)[1]
  <2>1. /\ Len(t) = Len(b) + Len(WhereOperand(r))
        /\ \A i \in 1..Len(b) : t[i] = b[i]
        /\ \A i \in 1..Len(WhereOperand(r)) : t[Len(b) + i] = WhereOperand(r)[i]
    BY <1>2, <1>3, JoinedWords
  <2>2. t \in Text
    BY <1>2, <1>3, Join
  <2> HIDE DEF t
  <2>3. 1 \in 1..Len(b) /\ 2 \in 1..Len(b) /\ 1 \in 1..Len(WhereOperand(r)) /\ Len(b) + 1 = 3
    BY <1>2, <1>3
  <2> QED
    BY <1>2, <1>3, <2>1, <2>2, <2>3
<1> HIDE DEF t
<1>5. WhereOperand(l) \o Key(op) \o WhereOperand(r) = t
  BY DEF t, b
<1> QED
  BY <1>1, <1>2, <1>3, <1>4, <1>5

\* IS NULL after an operand.
LEMMA IsNullText ==
    ASSUME NEW e \in Operands
    PROVE  LET t == WhereOperand(e) \o Key("IS NULL") IN
           /\ t \in Text /\ Len(t) = 2
           /\ t[1] = [word |-> "operand", of |-> e]
           /\ t[2].word = "IS NULL"
<1> DEFINE v == WhereOperand(e)
           w == Key("IS NULL")
           t == v \o w
<1>1. w \in Text /\ Len(w) = 1 /\ w[1].word = "IS NULL"
  BY KeyText DEF Words
<1>2. v \in Text /\ Len(v) = 1 /\ v[1] = [word |-> "operand", of |-> e]
  BY OperandText
<1>3. WhereOperand(e) \o Key("IS NULL") = t
  OBVIOUS
<1> HIDE DEF v, w
<1>4. /\ Len(t) = Len(v) + Len(w)
      /\ \A i \in 1..Len(v) : t[i] = v[i]
      /\ \A i \in 1..Len(w) : t[Len(v) + i] = w[i]
  BY <1>1, <1>2, JoinedWords
<1>5. t \in Text
  BY <1>1, <1>2, Join
<1> HIDE DEF t
<1>6. t[1] = v[1] /\ t[2] = w[1] /\ Len(t) = 2
  <2>0. Len(v) = 1 /\ Len(w) = 1
    BY <1>1, <1>2, Zenon
  <2>1. 1 \in 1..Len(v) /\ 1 \in 1..Len(w) /\ Len(v) + 1 = 2 /\ Len(v) + Len(w) = 2
    BY <2>0
  <2>2. t[1] = v[1] /\ t[Len(v) + 1] = w[1]
    BY <1>4, <2>1, Zenon
  <2> QED
    BY <1>4, <2>1, <2>2, Zenon
<1>7. t[1] = [word |-> "operand", of |-> e] /\ t[2].word = "IS NULL"
  BY <1>1, <1>2, <1>6, Zenon
<1> QED
  BY <1>3, <1>5, <1>6, <1>7, Zenon

\* A text that can stand on either side of AND, and that the stray NOT of a closing
\* parenthesis spoils.
Proper(t) ==
    /\ t \in Text /\ Closed(t) /\ Len(t) > 0 /\ Outside(t, "OR") = {}
    /\ \A item \in Items : Sees[t \o Key("NOT")][item] = "invalid"
    /\ \A a \in Text : Closed(a) /\ Outside(a, "OR") = {} =>
          \A item \in Items :
             /\ Sees[AndSql(a, t)][item]
                  = Junction("false", "true", Sees[a][item], Sees[t][item])
             /\ Sees[AndSql(a, t \o Key("NOT"))][item] = "invalid"

\* A stray NOT is outside all parentheses, and adds no connective.
LEMMA StrayNot ==
    ASSUME NEW t \in Text, Closed(t)
    PROVE  /\ t \o Key("NOT") \in Text /\ Closed(t \o Key("NOT"))
           /\ Len(t) \in Nat /\ Len(t \o Key("NOT")) = Len(t) + 1
           /\ \A i \in 1..Len(t) : (t \o Key("NOT"))[i] = t[i]
           /\ (t \o Key("NOT"))[Len(t) + 1].word = "NOT"
           /\ \A k \in Connectives : Outside(t \o Key("NOT"), k) = Outside(t, k)
<1>1. /\ Key("NOT") \in Text /\ Len(Key("NOT")) = 1 /\ Key("NOT")[1].word = "NOT"
  BY KeyText DEF Words
<1>2. Closed(Key("NOT")) /\ \A k, i : i \in Outside(Key("NOT"), k) <=> i = 1 /\ "NOT" = k
  BY <1>1, ClosedWord
<1>3. ASSUME NEW k \in Connectives PROVE Outside(t \o Key("NOT"), k) = Outside(t, k)
  <2>1. \A i \in Nat : i \in Outside(t \o Key("NOT"), k) <=> i \in Outside(t, k)
    BY <1>1, <1>2, OutsideJoined DEF Connectives
  <2>2. Outside(t \o Key("NOT"), k) \subseteq Nat /\ Outside(t, k) \subseteq Nat
    BY DEF Outside
  <2> QED
    BY <2>1, <2>2
<1>4. t \o Key("NOT") \in Text
  BY <1>1, Join
<1>5. Closed(t \o Key("NOT"))
  BY <1>1, <1>2, ClosedJoined
<1>6. /\ Len(t) \in Nat /\ Len(t \o Key("NOT")) = Len(t) + Len(Key("NOT"))
      /\ \A i \in 1..Len(t) : (t \o Key("NOT"))[i] = t[i]
      /\ \A i \in 1..Len(Key("NOT")) : (t \o Key("NOT"))[Len(t) + i] = Key("NOT")[i]
  BY <1>1, JoinedWords
<1>7. 1 \in 1..Len(Key("NOT"))
  BY <1>1
<1>8. (t \o Key("NOT"))[Len(t) + 1].word = "NOT"
  BY <1>1, <1>6, <1>7
<1> QED
  BY <1>1, <1>3, <1>4, <1>5, <1>6, <1>8

\* A text without AND outside parentheses is proper if a stray NOT spoils it.
LEMMA ProperAlone ==
    ASSUME NEW t \in Text, Closed(t), Len(t) > 0, \A k \in Connectives : Outside(t, k) = {},
           \A item \in Items : Sees[t \o Key("NOT")][item] = "invalid"
    PROVE  Proper(t)
<1>1. Outside(t, "OR") = {} /\ Outside(t, "AND") = {}
  BY DEF Connectives
<1>2. /\ t \o Key("NOT") \in Text
      /\ Outside(t \o Key("NOT"), "OR") = {} /\ Outside(t \o Key("NOT"), "AND") = {}
  BY <1>1, StrayNot DEF Connectives
<1>3. ASSUME NEW a \in Text, Closed(a), Outside(a, "OR") = {}, NEW item \in Items
      PROVE  /\ Sees[AndSql(a, t)][item]
                   = Junction("false", "true", Sees[a][item], Sees[t][item])
             /\ Sees[AndSql(a, t \o Key("NOT"))][item] = "invalid"
  <2>1. Sees[AndSql(a, t)][item] = Junction("false", "true", Sees[a][item], Sees[t][item])
    BY <1>1, <1>3, ReadAnd
  <2>2. Sees[AndSql(a, t \o Key("NOT"))][item]
        = Junction("false", "true", Sees[a][item], Sees[t \o Key("NOT")][item])
    BY <1>2, <1>3, ReadAnd
  <2>3. Sees[AndSql(a, t \o Key("NOT"))][item] = "invalid"
    BY <2>2 DEF Junction
  <2> QED
    BY <2>1, <2>3
<1> QED
  BY <1>1, <1>3 DEF Proper
\* It does not matter in which order connectives of one kind are read.
LEMMA JunctionAssociative ==
    ASSUME NEW x \in Readings, NEW y \in Readings, NEW z \in Readings
    PROVE  Junction("false", "true", x, Junction("false", "true", y, z))
           = Junction("false", "true", Junction("false", "true", x, y), z)
BY DEF Junction, Readings

\* What an AND of proper texts is read as, and that it is proper.
LEMMA ProperAnd ==
    ASSUME NEW l, NEW r, Proper(l), Proper(r)
    PROVE  /\ Proper(AndSql(l, r))
           /\ \A item \in Items : Sees[AndSql(l, r)][item]
                 = Junction("false", "true", Sees[l][item], Sees[r][item])
<1>0. /\ l \in Text /\ Closed(l) /\ Len(l) > 0 /\ Outside(l, "OR") = {}
      /\ r \in Text /\ Closed(r) /\ Len(r) > 0 /\ Outside(r, "OR") = {}
  BY DEF Proper
<1>1. /\ Key("AND") \in Text /\ Key("NOT") \in Text /\ "AND" \in Connectives
      /\ "AND" # "OR"
  BY KeyText DEF Words, Connectives
<1> DEFINE Joined(a, b) == a \o Key("AND") \o b
<1>2. ASSUME NEW a \in Text, Closed(a), Outside(a, "OR") = {},
             NEW b \in Text, Closed(b), Outside(b, "OR") = {}
      PROVE  /\ AndSql(a, b) \in Text /\ Closed(AndSql(a, b)) /\ Outside(AndSql(a, b), "OR") = {}
             /\ Len(AndSql(a, b)) > Len(b)
  <2>0. \A i : i \notin Outside(a \o Key("AND") \o b, "OR")
    <3>1. \A m, i : i \in Outside(a \o Key("AND") \o b, m)
             <=> \/ i \in Outside(a, m)
                 \/ i = Len(a) + 1 /\ m = "AND"
                 \/ /\ i \in Nat /\ i > Len(a) + 1
                    /\ i - (Len(a) + 1) \in Outside(b, m)
      BY <1>1, <1>2, Connected, Zenon
    <3> QED
      BY <1>1, <1>2, <3>1
  <2>1. /\ a \o Key("AND") \o b \in Text /\ Len(a) \in Nat /\ Len(b) \in Nat
        /\ Len(a \o Key("AND") \o b) = Len(a) + 1 + Len(b) /\ Closed(a \o Key("AND"))
    BY <1>1, <1>2, Connected
  <2>2. a \o Key("AND") \in Text
    BY <1>1, Join
  <2>3. Closed(a \o Key("AND") \o b)
    BY <1>2, <2>1, <2>2, ClosedJoined
  <2>4. AndSql(a, b) = a \o Key("AND") \o b
    BY DEF AndSql
  <2>5. Outside(AndSql(a, b), "OR") = {}
    BY <2>0, <2>4
  <2>6. Len(AndSql(a, b)) > Len(b)
    BY <2>1, <2>4
  <2> QED
    BY <2>1, <2>3, <2>4, <2>5, <2>6
<1>3. ASSUME NEW a \in Text, NEW b \in Text, NEW c \in Text
      PROVE  AndSql(a, AndSql(b, c)) = AndSql(AndSql(a, b), c)
  <2> DEFINE k == Key("AND")
             x == a \o k
             y == b \o k
  <2>1. k \in Text /\ x \in Text /\ y \in Text
    BY <1>1, Join
  <2>2. AndSql(a, AndSql(b, c)) = x \o (y \o c)
    BY DEF AndSql
  <2>3. AndSql(AndSql(a, b), c) = ((x \o b) \o k) \o c
    BY DEF AndSql
  <2>4. (x \o b) \o k = x \o y
    <3> HIDE DEF x, k
    <3> QED
      BY <2>1, Regroup, SMTT(30)
  <2> HIDE DEF k, x, y
  <2>5. (x \o y) \o c = x \o (y \o c)
    BY <2>1, Regroup, SMTT(30)
  <2> QED
    BY <2>2, <2>3, <2>4, <2>5
<1>4. ASSUME NEW a \in Text, NEW b \in Text
      PROVE  AndSql(a, b) \o Key("NOT") = AndSql(a, b \o Key("NOT"))
  <2>1. a \o Key("AND") \in Text
    BY <1>1, Join
  <2> QED
    BY <1>1, <2>1, Regroup DEF AndSql
<1> DEFINE t == AndSql(l, r)
<1>5. t \in Text /\ Closed(t) /\ Outside(t, "OR") = {} /\ Len(t) > 0
  <2>1. t \in Text /\ Closed(t) /\ Outside(t, "OR") = {} /\ Len(t) > Len(r)
    BY <1>0, <1>2
  <2>2. Len(t) \in Nat /\ Len(r) \in Nat
    BY <1>0, <2>1, LenProperties DEF Text
  <2> HIDE DEF t
  <2> QED
    BY <1>0, <2>1, <2>2
<1>6. \A item \in Items : Sees[t][item] = Junction("false", "true", Sees[l][item], Sees[r][item])
  BY <1>0 DEF Proper
<1>7. ASSUME NEW item \in Items PROVE Sees[t \o Key("NOT")][item] = "invalid"
  <2>1. t \o Key("NOT") = AndSql(l, r \o Key("NOT"))
    BY <1>0, <1>4
  <2>2. \A b \in Text : Closed(b) /\ Outside(b, "OR") = {} =>
            \A i \in Items : Sees[AndSql(b, r \o Key("NOT"))][i] = "invalid"
    BY DEF Proper
  <2>3. Sees[AndSql(l, r \o Key("NOT"))][item] = "invalid"
    BY <1>0, <2>2, Zenon
  <2> HIDE DEF t
  <2> QED
    BY <2>1, <2>3, Zenon
<1>8. ASSUME NEW a \in Text, Closed(a), Outside(a, "OR") = {}, NEW item \in Items
      PROVE  /\ Sees[AndSql(a, t)][item]
                   = Junction("false", "true", Sees[a][item], Sees[t][item])
             /\ Sees[AndSql(a, t \o Key("NOT"))][item] = "invalid"
  <2> DEFINE b == AndSql(a, l)
  <2>1. b \in Text /\ Closed(b) /\ Outside(b, "OR") = {}
    BY <1>0, <1>2, <1>8
  <2>2. Sees[b][item] = Junction("false", "true", Sees[a][item], Sees[l][item])
    BY <1>8 DEF Proper
  <2>3. AndSql(a, t) = AndSql(b, r)
    BY <1>0, <1>3
  <2>4. AndSql(a, t \o Key("NOT")) = AndSql(b, r \o Key("NOT"))
    <3>1. r \o Key("NOT") \in Text
      BY <1>0, <1>1, Join
    <3>2. t \o Key("NOT") = AndSql(l, r \o Key("NOT"))
      BY <1>0, <1>4
    <3>3. AndSql(a, AndSql(l, r \o Key("NOT"))) = AndSql(AndSql(a, l), r \o Key("NOT"))
      BY <1>0, <1>3, <3>1
    <3> HIDE DEF t
    <3> QED
      BY <3>2, <3>3
  <2> HIDE DEF b
  <2>5. /\ Sees[AndSql(b, r)][item] = Junction("false", "true", Sees[b][item], Sees[r][item])
        /\ Sees[AndSql(b, r \o Key("NOT"))][item] = "invalid"
    BY <2>1 DEF Proper
  <2>6. Sees[a][item] \in Readings /\ Sees[l][item] \in Readings /\ Sees[r][item] \in Readings
    BY <1>0, SeesDefined
  <2>7. Sees[t][item] = Junction("false", "true", Sees[l][item], Sees[r][item])
    BY <1>6
  <2> HIDE DEF t
  <2>8. Sees[AndSql(a, t)][item] = Junction("false", "true", Sees[a][item], Sees[t][item])
    BY <2>2, <2>3, <2>5, <2>6, <2>7, JunctionAssociative
  <2> QED
    BY <2>4, <2>5, <2>8
<1> QED
  BY <1>5, <1>6, <1>7, <1>8 DEF Proper

\* What begins with a parenthesis and does not end with one is no SQL.
LEMMA SpoiledParens ==
    ASSUME NEW x \in Text, Closed(x), Len(x) > 0, NEW item \in Items
    PROVE  Sees[Paren(x) \o Key("NOT")][item] = "invalid"
<1> DEFINE y == Paren(x)
           t == y \o Key("NOT")
<1>1. /\ y \in Text /\ Len(x) \in Nat /\ Len(y) = Len(x) + 2 /\ Closed(y)
      /\ y[1].word = "("
      /\ \A k \in Connectives : Outside(y, k) = {}
  BY InParens
<1> HIDE DEF y
<1>2. /\ t \in Text /\ Len(t) = Len(y) + 1 /\ t[Len(y) + 1].word = "NOT"
      /\ \A i \in 1..Len(y) : t[i] = y[i]
      /\ Outside(t, "OR") = {} /\ Outside(t, "AND") = {}
  BY <1>1, StrayNot DEF Connectives
<1> HIDE DEF t
<1>3. t[1].word = "(" /\ t[Len(t)].word = "NOT" /\ Len(t) > 3
  <2>1. 1 \in 1..Len(y)
    BY <1>1
  <2>2. t[1] = y[1]
    BY <1>2, <2>1
  <2>3. Len(t) > 3
    BY <1>1, <1>2
  <2> QED
    BY <1>1, <1>2, <2>2, <2>3
<1>4. Sees[t][item] = Simple(item, t)
  BY <1>2, <1>3, ReadSimple
<1>5. Len(t) # 1 /\ Len(t) # 2 /\ Len(t) # 3
  BY <1>3
<1>6. Simple(item, t) = "invalid"
  BY <1>5, Zenon DEF Simple
<1> QED
  BY <1>4, <1>6 DEF t, y

\* Parentheses make any closed text proper, and mean what is in them.
LEMMA ProperParens ==
    ASSUME NEW x \in Text, Closed(x), Len(x) > 0
    PROVE  /\ Proper(Paren(x))
           /\ \A item \in Items : Sees[Paren(x)][item] = Sees[x][item]
<1>1. /\ Paren(x) \in Text /\ Len(x) \in Nat /\ Len(Paren(x)) = Len(x) + 2 /\ Closed(Paren(x))
      /\ \A k \in Connectives : Outside(Paren(x), k) = {}
  BY InParens
<1>2. Len(Paren(x)) > 0
  BY <1>1
<1>3. \A item \in Items : Sees[Paren(x) \o Key("NOT")][item] = "invalid"
  BY SpoiledParens
<1>4. Proper(Paren(x))
  BY <1>1, <1>2, <1>3, ProperAlone
<1> QED
  BY <1>4, ReadParens

\* So does NOT before them.
LEMMA ProperNot ==
    ASSUME NEW x \in Text, Closed(x), Len(x) > 0
    PROVE  /\ Proper(Key("NOT") \o Paren(x))
           /\ \A item \in Items : Sees[Key("NOT") \o Paren(x)][item] = Negation(Sees[x][item])
<1> DEFINE y == Paren(x)
           t == Key("NOT") \o y
<1>1. /\ y \in Text /\ Len(x) \in Nat /\ Len(y) = Len(x) + 2 /\ Closed(y)
      /\ \A k \in Connectives : Outside(y, k) = {}
  BY InParens
<1>2. \A item \in Items : /\ Sees[y][item] = Sees[x][item]
                          /\ Sees[y \o Key("NOT")][item] = "invalid"
  BY ReadParens, SpoiledParens
<1> HIDE DEF y
<1>3. /\ t \in Text /\ Len(t) = Len(y) + 1 /\ Closed(t)
      /\ \A k \in Connectives : Outside(t, k) = {}
      /\ \A item \in Items : Sees[t][item] = Negation(Sees[y][item])
  BY <1>1, ReadNot
<1>4. /\ y \o Key("NOT") \in Text /\ Len(y \o Key("NOT")) = Len(y) + 1
      /\ \A k \in Connectives : Outside(y \o Key("NOT"), k) = {}
  BY <1>1, StrayNot
<1>5. \A item \in Items : Sees[Key("NOT") \o (y \o Key("NOT"))][item]
                           = Negation(Sees[y \o Key("NOT")][item])
  <2>1. Len(y \o Key("NOT")) > 1
    BY <1>1, <1>4
  <2> QED
    BY <1>4, <2>1, ReadNot
<1>6. t \o Key("NOT") = Key("NOT") \o (y \o Key("NOT"))
  <2>1. Key("NOT") \in Text
    BY KeyText DEF Words
  <2> QED
    BY <1>1, <2>1, Regroup, Zenon
<1>7. \A item \in Items : Sees[t \o Key("NOT")][item] = "invalid"
  BY <1>2, <1>5, <1>6 DEF Negation
<1>8. Len(t) > 0
  BY <1>1, <1>3
<1>9. Proper(t)
  BY <1>3, <1>7, <1>8, ProperAlone
<1>10. \A item \in Items : Sees[t][item] = Negation(Sees[x][item])
  BY <1>2, <1>3
<1> QED
  BY <1>9, <1>10 DEF t, y
\* OR is written in parentheses.
LEMMA ProperOr ==
    ASSUME NEW l, NEW r, Proper(l), Proper(r)
    PROVE  /\ Proper(OrSql(l, r))
           /\ \A item \in Items : Sees[OrSql(l, r)][item]
                 = Junction("true", "false", Sees[l][item], Sees[r][item])
<1>0. /\ l \in Text /\ Closed(l) /\ r \in Text /\ Closed(r) /\ Outside(r, "OR") = {}
  BY DEF Proper
<1>1. Key("(") \in Text /\ Key(")") \in Text /\ Key("OR") \in Text /\ "OR" \in Connectives
  BY KeyText DEF Words, Connectives
<1> DEFINE b == l \o Key("OR")
           x == b \o r
<1>2. /\ b \in Text /\ Closed(b) /\ x \in Text /\ Len(x) > 0
  <2>1. /\ x \in Text /\ Len(l) \in Nat /\ Len(r) \in Nat /\ Len(x) = Len(l) + 1 + Len(r)
        /\ Closed(b)
    BY <1>0, <1>1, Connected
  <2>2. b \in Text
    BY <1>0, <1>1, Join
  <2> HIDE DEF x, b
  <2>3. Len(x) > 0
    BY <2>1
  <2> QED
    BY <2>1, <2>2, <2>3
<1>3. \A item \in Items : Sees[x][item] = Junction("true", "false", Sees[l][item], Sees[r][item])
  BY <1>0, ReadOr
<1>4. Closed(x)
  <2> HIDE DEF b
  <2> QED
    BY <1>0, <1>2, ClosedJoined
<1>5. OrSql(l, r) = Paren(x)
  <2> DEFINE p == Key("(")
             o == Key("OR")
  <2>1. /\ OrSql(l, r) = (((p \o l) \o o) \o r) \o Key(")")
        /\ Paren(x) = (p \o ((l \o o) \o r)) \o Key(")")
    BY DEF OrSql, Paren
  <2>2. p \in Text /\ o \in Text /\ l \o o \in Text
    BY <1>0, <1>1, <1>2
  <2> HIDE DEF p, o
  <2>3. (p \o l) \o o = p \o (l \o o)
    BY <1>0, <2>2, Regroup, SMTT(30)
  <2>4. (p \o (l \o o)) \o r = p \o ((l \o o) \o r)
    BY <1>0, <2>2, Regroup, SMTT(30)
  <2> QED
    BY <2>1, <2>3, <2>4
<1> HIDE DEF x
<1>6. Proper(Paren(x)) /\ \A item \in Items : Sees[Paren(x)][item] = Sees[x][item]
  BY <1>2, <1>4, ProperParens
<1> QED
  BY <1>3, <1>5, <1>6

\* NOT as it is shown.
LEMMA ProperNotShown ==
    ASSUME NEW x, Proper(x)
    PROVE  /\ Proper(NotShown(x))
           /\ \A item \in Items : Sees[NotShown(x)][item] = Negation(Sees[x][item])
<1>0. x \in Text /\ Closed(x) /\ Len(x) > 0
  BY DEF Proper
<1>1. NotShown(x) = Key("NOT") \o Paren(x)
  <2> DEFINE n == Key("NOT")
             p == Key("(")
             c == Key(")")
  <2>1. n \in Text /\ p \in Text /\ c \in Text
    BY KeyText DEF Words
  <2>2. NotShown(x) = ((n \o p) \o x) \o c /\ n \o Paren(x) = n \o ((p \o x) \o c)
    BY DEF NotShown, Paren
  <2> HIDE DEF n, p, c
  <2>3. (n \o p) \o x = n \o (p \o x)
    BY <1>0, <2>1, Regroup, Zenon
  <2>4. p \o x \in Text
    BY <1>0, <2>1, Join
  <2>5. (n \o (p \o x)) \o c = n \o ((p \o x) \o c)
    BY <2>1, <2>4, Regroup, Zenon
  <2> QED
    BY <2>2, <2>3, <2>5 DEF n
<1> QED
  BY <1>0, <1>1, ProperNot

\* NOT as it is in a WHERE clause is no SQL.
LEMMA ProperNotWhere ==
    ASSUME NEW x, Proper(x)
    PROVE  /\ Proper(NotWhere(x))
           /\ \A item \in Items : Sees[NotWhere(x)][item] = "invalid"
<1>0. /\ x \in Text /\ Closed(x) /\ Len(x) > 0
      /\ \A item \in Items : Sees[x \o Key("NOT")][item] = "invalid"
  BY DEF Proper
<1>1. x \o Key("NOT") \in Text /\ Closed(x \o Key("NOT")) /\ Len(x \o Key("NOT")) > 0
  <2>1. /\ x \o Key("NOT") \in Text /\ Closed(x \o Key("NOT")) /\ Len(x) \in Nat
        /\ Len(x \o Key("NOT")) = Len(x) + 1
    BY <1>0, StrayNot
  <2>2. Len(x \o Key("NOT")) > 0
    BY <2>1
  <2> QED
    BY <2>1, <2>2
<1>2. NotWhere(x) = Key("NOT") \o Paren(x \o Key("NOT"))
  <2> DEFINE n == Key("NOT")
             p == Key("(")
             c == Key(")")
  <2>1. n \in Text /\ p \in Text /\ c \in Text
    BY KeyText DEF Words
  <2>2. /\ NotWhere(x) = (((n \o p) \o x) \o n) \o c
        /\ n \o Paren(x \o n) = n \o ((p \o (x \o n)) \o c)
    BY DEF NotWhere, Paren
  <2> HIDE DEF n, p, c
  <2>3. n \o p \in Text /\ x \o n \in Text
    BY <1>0, <2>1, Join
  <2>4. ((n \o p) \o x) \o n = (n \o p) \o (x \o n)
    <3>1. x \in Text
      BY <1>0, Zenon
    <3>2. \A q \in Text : (q \o x) \o n = q \o (x \o n)
      BY <2>1, <3>1, Regroup, SMTT(30)
    <3> QED
      BY <2>3, <3>2
  <2>5. (n \o p) \o (x \o n) = n \o (p \o (x \o n))
    BY <2>1, <2>3, Regroup, Zenon
  <2>6. p \o (x \o n) \in Text
    BY <2>1, <2>3, Join
  <2>7. (n \o (p \o (x \o n))) \o c = n \o ((p \o (x \o n)) \o c)
    BY <2>1, <2>6, Regroup, SMTT(30)
  <2> QED
    BY <2>2, <2>4, <2>5, <2>7 DEF n
<1>3. /\ Proper(Key("NOT") \o Paren(x \o Key("NOT")))
      /\ \A item \in Items : Sees[Key("NOT") \o Paren(x \o Key("NOT"))][item]
                              = Negation(Sees[x \o Key("NOT")][item])
  BY <1>1, ProperNot
<1> QED
  BY <1>0, <1>2, <1>3 DEF Negation

\* Texts of up to three plain words.
LEMMA ProperSimple ==
    ASSUME NEW t \in Text, Len(t) \in 1..3,
           \A i \in 1..Len(t) : t[i].word \notin Connectives \cup {"(", ")", "NOT"},
           Len(t) = 2 => t[2].word \notin Operators
    PROVE  /\ Proper(t)
           /\ \A item \in Items : Sees[t][item] = Simple(item, t)
<1>1. Closed(t) /\ (\A k \in Connectives : Outside(t, k) = {}) /\ 1 \in 1..Len(t)
  BY PlainText
<1>2. \A item \in Items : Sees[t][item] = Simple(item, t)
  <2>1. Outside(t, "OR") = {} /\ Outside(t, "AND") = {}
    BY <1>1 DEF Connectives
  <2>2. t[1].word # "NOT" /\ t[1].word # "("
    BY <1>1
  <2> QED
    BY <2>1, <2>2, ReadSimple
<1>3. ASSUME NEW item \in Items PROVE Sees[t \o Key("NOT")][item] = "invalid"
  <2> DEFINE u == t \o Key("NOT")
  <2>1. /\ u \in Text /\ Len(u) = Len(t) + 1 /\ u[Len(t) + 1].word = "NOT"
        /\ \A i \in 1..Len(t) : u[i] = t[i]
        /\ Outside(u, "OR") = {} /\ Outside(u, "AND") = {}
    BY <1>1, StrayNot DEF Connectives
  <2> HIDE DEF u
  <2>2. u[1].word # "NOT" /\ u[1].word # "("
    BY <1>1, <2>1
  <2>3. Sees[u][item] = Simple(item, u)
    BY <2>1, <2>2, ReadSimple
  <2>4. \/ Len(u) = 2 /\ u[2].word = "NOT"
        \/ Len(u) = 3 /\ u[2].word \notin Operators
        \/ Len(u) = 4
    <3>1. CASE Len(t) = 1
      BY <2>1, <3>1
    <3>2. CASE Len(t) = 2
      BY <2>1, <3>2
    <3>3. CASE Len(t) = 3
      BY <2>1, <3>3
    <3> QED
      BY <3>1, <3>2, <3>3
  <2>5. Simple(item, u) = "invalid"
    <3>1. CASE Len(u) = 2 /\ u[2].word = "NOT"
      <4>1. Len(u) # 1 /\ Len(u) # 3 /\ u[2].word # "IS NULL"
        BY <3>1
      <4> QED
        BY <4>1, Zenon DEF Simple
    <3>2. CASE Len(u) = 3 /\ u[2].word \notin Operators
      <4>1. Len(u) # 1 /\ Len(u) # 2
        BY <3>2
      <4> QED
        BY <3>2, <4>1, Zenon DEF Simple
    <3>3. CASE Len(u) = 4
      <4>1. Len(u) # 1 /\ Len(u) # 2 /\ Len(u) # 3
        BY <3>3
      <4> QED
        BY <4>1, Zenon DEF Simple
    <3> QED
      BY <2>4, <3>1, <3>2, <3>3
  <2> QED
    BY <2>3, <2>5 DEF u
<1>4. Len(t) > 0
  OBVIOUS
<1> QED
  BY <1>1, <1>2, <1>3, <1>4, ProperAlone

Broken(item, l, r) == Value(item, l) = None \/ Value(item, r) = None

\* Comparisons.
LEMMA ProperComparison ==
    ASSUME NEW l \in Operands, NEW r \in Operands, NEW op \in Operators
    PROVE  LET t == WhereOperand(l) \o Key(op) \o WhereOperand(r) IN
           /\ Proper(t)
           /\ \A item \in Items : Sees[t][item] =
                 IF Broken(item, l, r) THEN "null"
                 ELSE Truth(SqlCompare(op, Value(item, l), Value(item, r)))
<1> DEFINE t == WhereOperand(l) \o Key(op) \o WhereOperand(r)
<1>1. /\ t \in Text /\ Len(t) = 3
      /\ t[1] = [word |-> "operand", of |-> l]
      /\ t[2].word = op
      /\ t[3] = [word |-> "operand", of |-> r]
  BY ComparisonText
<1> HIDE DEF t
<1>2. t[1].word = "operand" /\ t[1].of = l /\ t[3].word = "operand" /\ t[3].of = r
  BY <1>1
<1>3. ASSUME NEW i \in 1..Len(t)
      PROVE  t[i].word \notin Connectives \cup {"(", ")", "NOT"}
  <2>1. i = 1 \/ i = 2 \/ i = 3
    <3>1. Len(t) = 3
      BY <1>1, Zenon
    <3> QED
      BY <3>1
  <2>2. t[i].word = "operand" \/ t[i].word = op
    BY <1>1, <1>2, <2>1, Zenon
  <2> QED
    BY <2>2 DEF Connectives, Operators
<1>4. Len(t) \in 1..3 /\ Len(t) # 2
  <2>1. Len(t) = 3
    BY <1>1, Zenon
  <2> QED
    BY <2>1
<1>5. Proper(t) /\ \A item \in Items : Sees[t][item] = Simple(item, t)
  BY <1>1, <1>3, <1>4, ProperSimple
<1>6. ASSUME NEW item \in Items
      PROVE  Simple(item, t) =
                 IF Broken(item, l, r) THEN "null"
                 ELSE Truth(SqlCompare(op, Value(item, l), Value(item, r)))
  <2>1. Len(t) = 3 /\ Len(t) # 1 /\ Len(t) # 2 /\ t[2].word \in Operators
    BY <1>1, <1>4
  <2>2. \A e, k : k.word = "operand" /\ k.of = e =>
            Operand(item, k) = IF Value(item, e) = None THEN "null" ELSE "value"
    BY DEF Operand
  <2>3. /\ Operand(item, t[1]) = IF Value(item, l) = None THEN "null" ELSE "value"
        /\ Operand(item, t[3]) = IF Value(item, r) = None THEN "null" ELSE "value"
    BY <1>2, <2>2
  <2>4. Simple(item, t) =
            IF "invalid" \in {Operand(item, t[1]), Operand(item, t[3])} THEN "invalid"
            ELSE IF "null" \in {Operand(item, t[1]), Operand(item, t[3])} THEN "null"
            ELSE Truth(SqlCompare(t[2].word, Value(item, t[1].of), Value(item, t[3].of)))
    BY <2>1, Zenon DEF Simple
  <2>5. SqlCompare(t[2].word, Value(item, t[1].of), Value(item, t[3].of))
        = SqlCompare(op, Value(item, l), Value(item, r))
    BY <1>1, <1>2, Zenon
  <2> DEFINE c == Truth(SqlCompare(op, Value(item, l), Value(item, r)))
  <2>6. Simple(item, t) =
            IF "invalid" \in {Operand(item, t[1]), Operand(item, t[3])} THEN "invalid"
            ELSE IF "null" \in {Operand(item, t[1]), Operand(item, t[3])} THEN "null"
            ELSE c
    BY <2>4, <2>5, Zenon
  <2> HIDE DEF c
  <2>7. Simple(item, t) = IF Broken(item, l, r) THEN "null" ELSE c
    BY <2>3, <2>6 DEF Broken
  <2> QED
    BY <2>7 DEF c
<1> QED
  BY <1>5, <1>6 DEF t

\* IS NULL.
LEMMA ProperIsNull ==
    ASSUME NEW e \in Operands
    PROVE  LET t == WhereOperand(e) \o Key("IS NULL") IN
           /\ Proper(t)
           /\ \A item \in Items : Sees[t][item] = Truth(Value(item, e) = None)
<1> DEFINE t == WhereOperand(e) \o Key("IS NULL")
<1>1. /\ t \in Text /\ Len(t) = 2
      /\ t[1] = [word |-> "operand", of |-> e]
      /\ t[2].word = "IS NULL"
  BY IsNullText
<1> HIDE DEF t
<1>2. t[1].word = "operand" /\ t[1].of = e
  <2>1. \A k : k = [word |-> "operand", of |-> e] => k.word = "operand" /\ k.of = e
    OBVIOUS
  <2> QED
    BY <1>1, <2>1, Zenon
<1>3. ASSUME NEW i \in 1..Len(t)
      PROVE  t[i].word \notin Connectives \cup {"(", ")", "NOT"}
  <2>1. i = 1 \/ i = 2
    <3>1. Len(t) = 2
      BY <1>1, Zenon
    <3> QED
      BY <3>1
  <2>2. t[i].word = "operand" \/ t[i].word = "IS NULL"
    BY <1>1, <1>2, <2>1, Zenon
  <2> QED
    BY <2>2 DEF Connectives
<1>4. Len(t) \in 1..3 /\ Len(t) = 2 /\ Len(t) # 1
  <2>1. Len(t) = 2
    BY <1>1, Zenon
  <2> QED
    BY <2>1
<1>5. t[2].word \notin Operators
  BY <1>1 DEF Operators
<1>6. Proper(t) /\ \A item \in Items : Sees[t][item] = Simple(item, t)
  BY <1>1, <1>3, <1>4, <1>5, ProperSimple
<1>7. ASSUME NEW item \in Items
      PROVE  Simple(item, t) = Truth(Value(item, e) = None)
  <2>1. Operand(item, t[1]) = IF Value(item, e) = None THEN "null" ELSE "value"
    BY <1>2 DEF Operand
  <2>2. Simple(item, t) = IF Operand(item, t[1]) = "invalid" THEN "invalid"
                          ELSE Truth(Operand(item, t[1]) = "null")
    BY <1>1, <1>4, Zenon DEF Simple
  <2> QED
    BY <2>1, <2>2 DEF Truth
<1> QED
  BY <1>6, <1>7 DEF t

\* TRUE.
LEMMA ProperTrue ==
    Proper(TrueSql) /\ \A item \in Items : Sees[TrueSql][item] = "true"
<1> DEFINE t == Key("TRUE")
<1>1. t \in Text /\ Len(t) = 1 /\ t[1].word = "TRUE"
  BY KeyText DEF Words
<1>2. TrueSql = t
  BY DEF TrueSql
<1> HIDE DEF t
<1>3. \A i \in 1..Len(t) : t[i].word \notin Connectives \cup {"(", ")", "NOT"}
  BY <1>1 DEF Connectives
<1>4. Proper(t) /\ \A item \in Items : Sees[t][item] = Simple(item, t)
  BY <1>1, <1>3, ProperSimple
<1>5. \A item : Simple(item, t) = "true"
  BY <1>1, Zenon DEF Simple
<1> QED
  BY <1>2, <1>4, <1>5
----------------------------------------------------------------------------
\* Predicates by their parts.

\* Which predicates PostgreSQL can be asked.
LEMMA AskableByParts ==
    ASSUME NEW p \in Predicates
    PROVE  /\ p.node = "Comparison" => (Askable(p) <=> ~Foreign(p.left) /\ ~Foreign(p.right))
           /\ p.node = "IsNull" => (Askable(p) <=> ~Foreign(p.of))
           /\ p.node \in {"And", "Or"} => (Askable(p) <=> Askable(p.left) /\ Askable(p.right))
           /\ p.node = "Not" => ~Askable(p)
           /\ p.node = "True" => Askable(p)
<1>1. Parts[p] = PartsIn(p, Parts)
  BY PartsDefined
<1>2. p \in Parts[p]
  BY <1>1 DEF PartsIn
<1>3. CASE p.node = "Comparison"
  BY <1>1, <1>3 DEF Askable, PartsIn, OperandsOf
<1>4. CASE p.node = "IsNull"
  BY <1>1, <1>4 DEF Askable, PartsIn, OperandsOf
<1>5. CASE p.node \in {"And", "Or"}
  <2>1. Parts[p] = {p} \cup (Parts[p.left] \cup Parts[p.right])
    BY <1>1, <1>5 DEF PartsIn
  <2>2. OperandsOf(p) = {} /\ p.node # "Not"
    BY <1>5 DEF OperandsOf
  <2> QED
    BY <1>5, <2>1, <2>2 DEF Askable
<1>6. CASE p.node = "Not"
  BY <1>2, <1>6 DEF Askable
<1>7. CASE p.node = "True"
  BY <1>1, <1>7 DEF Askable, PartsIn, OperandsOf
<1> QED
  BY <1>3, <1>4, <1>5, <1>6, <1>7

\* NOT is not SQL in a WHERE clause.
HasNot(p) == \E q \in Parts[p] : q.node = "Not"

\* Which predicates have a NOT in them.
LEMMA HasNotByParts ==
    ASSUME NEW p \in Predicates
    PROVE  /\ p.node \in {"Comparison", "IsNull", "True"} => ~HasNot(p)
           /\ p.node \in {"And", "Or"} => (HasNot(p) <=> HasNot(p.left) \/ HasNot(p.right))
<1>1. Parts[p] = PartsIn(p, Parts)
  BY PartsDefined
<1>2. CASE p.node \in {"Comparison", "IsNull", "True"}
  BY <1>1, <1>2 DEF HasNot, PartsIn
<1>3. CASE p.node \in {"And", "Or"}
  <2>1. Parts[p] = {p} \cup (Parts[p.left] \cup Parts[p.right]) /\ p.node # "Not"
    BY <1>1, <1>3 DEF PartsIn
  <2> QED
    BY <1>3, <2>1 DEF HasNot
<1> QED
  BY <1>2, <1>3

\* What is so of a predicate is so of its parts: that no comparison depends on the collation, and
\* that an entity lacks nothing.
LEMMA KindsByParts ==
    ASSUME NEW p \in Predicates
    PROVE  /\ p.node \in {"And", "Or"} =>
                 /\ SameOrder(p) => SameOrder(p.left) /\ SameOrder(p.right)
                 /\ Complete(p) \subseteq Complete(p.left) \cap Complete(p.right)
           /\ p.node = "Not" =>
                 (SameOrder(p) => SameOrder(p.pred)) /\ Complete(p) \subseteq Complete(p.pred)
<1>1. Parts[p] = PartsIn(p, Parts)
  BY PartsDefined
<1>2. CASE p.node \in {"And", "Or"}
  <2>1. Parts[p.left] \subseteq Parts[p] /\ Parts[p.right] \subseteq Parts[p]
    BY <1>1, <1>2 DEF PartsIn
  <2>2. SameOrder(p) => SameOrder(p.left) /\ SameOrder(p.right)
    BY <2>1, Zenon DEF SameOrder
  <2>3. Complete(p) \subseteq Complete(p.left) \cap Complete(p.right)
    BY <2>1 DEF Complete
  <2> QED
    BY <1>2, <2>2, <2>3
<1>3. CASE p.node = "Not"
  <2>1. Parts[p.pred] \subseteq Parts[p]
    BY <1>1, <1>3 DEF PartsIn
  <2>2. SameOrder(p) => SameOrder(p.pred)
    BY <2>1, Zenon DEF SameOrder
  <2>3. Complete(p) \subseteq Complete(p.pred)
    BY <2>1 DEF Complete
  <2> QED
    BY <1>3, <2>2, <2>3
<1> QED
  BY <1>2, <1>3

\* A comparison that does not depend on the collation comes out the same.
LEMMA SameComparison ==
    ASSUME NEW p \in Predicates, p.node = "Comparison", SameOrder(p), NEW item \in Items,
           ~Broken(item, p.left, p.right)
    PROVE  Truth(SqlCompare(p.op, Value(item, p.left), Value(item, p.right)))
           = Truth(Compare(p.op, Value(item, p.left), Value(item, p.right)))
<1>1. p \in Parts[p]
  BY PartsDefined DEF PartsIn
<1>2. \/ None \in {Value(item, p.left), Value(item, p.right)}
      \/ SqlCompare(p.op, Value(item, p.left), Value(item, p.right))
         <=> Compare(p.op, Value(item, p.left), Value(item, p.right))
  BY <1>1, Zenon DEF SameOrder
<1> QED
  BY <1>2 DEF Truth, Broken

Legible(e) == ~Foreign(e) /\ ~(e.expr = "Literal" /\ e.val \in Quoted)

\* Which predicates are shown as text that can be read.
LEMMA ReadableByParts ==
    ASSUME NEW p \in Predicates
    PROVE  /\ p.node = "Comparison" => (Readable(p) => Legible(p.left) /\ Legible(p.right))
           /\ p.node = "IsNull" => (Readable(p) => Legible(p.of))
           /\ p.node \in {"And", "Or"} => (Readable(p) => Readable(p.left) /\ Readable(p.right))
           /\ p.node = "Not" => (Readable(p) => Readable(p.pred))
           /\ p.node = "True" => ~Readable(p)
<1>1. Parts[p] = PartsIn(p, Parts)
  BY PartsDefined
<1>2. p \in Parts[p]
  BY <1>1 DEF PartsIn
<1>3. CASE p.node = "Comparison"
  BY <1>2, <1>3 DEF Readable, OperandsOf, Legible
<1>4. CASE p.node = "IsNull"
  BY <1>2, <1>4 DEF Readable, OperandsOf, Legible
<1>5. CASE p.node \in {"And", "Or"}
  <2>1. Parts[p.left] \subseteq Parts[p] /\ Parts[p.right] \subseteq Parts[p]
    BY <1>1, <1>5 DEF PartsIn
  <2> QED
    BY <1>5, <2>1 DEF Readable
<1>6. CASE p.node = "Not"
  <2>1. Parts[p.pred] \subseteq Parts[p]
    BY <1>1, <1>6 DEF PartsIn
  <2> QED
    BY <1>6, <2>1 DEF Readable
<1>7. CASE p.node = "True"
  BY <1>2, <1>7, Shapes DEF Readable
<1> QED
  BY <1>3, <1>4, <1>5, <1>6, <1>7

\* An entity that lacks nothing has a value for every operand of a predicate.
LEMMA CompleteHasValues ==
    ASSUME NEW p \in Predicates, NEW item \in Complete(p),
           NEW e \in OperandsOf(p), e \in Operands
    PROVE  Value(item, e) # None
<1>1. p \in Parts[p]
  BY PartsDefined DEF PartsIn
<1>2. e.expr = "Identifier" => item[e.name] # None
  BY <1>1 DEF Complete
<1> QED
  BY <1>2, OperandsAssumption DEF Value

\* Every WHERE clause is proper.
LEMMA WhereProper == \A p \in Predicates : Proper(Where[p])
<1> DEFINE S == {p \in Predicates : Proper(Where[p])}
<1>1. ASSUME NEW p \in Predicates, Under(p) \subseteq S
      PROVE  p \in S
  <2>0. Where[p] = WhereIn(p, Where)
    BY WhereDefined
  <2>1. CASE /\ p.node = "Comparison"
             /\ p.op \in Operators /\ p.left \in Operands /\ p.right \in Operands
    <3>1. Where[p] = WhereOperand(p.left) \o Key(p.op) \o WhereOperand(p.right)
      BY <2>0, <2>1 DEF WhereIn
    <3>2. Proper(WhereOperand(p.left) \o Key(p.op) \o WhereOperand(p.right))
      BY <2>1, ProperComparison, Zenon
    <3> QED
      BY <3>1, <3>2
  <2>2. CASE p.node = "IsNull" /\ p.of \in Operands
    <3>1. Where[p] = WhereOperand(p.of) \o Key("IS NULL")
      BY <2>0, <2>2 DEF WhereIn
    <3>2. Proper(WhereOperand(p.of) \o Key("IS NULL"))
      BY <2>2, ProperIsNull, Zenon
    <3> QED
      BY <3>1, <3>2
  <2>3. CASE p.node = "True"
    BY <2>0, <2>3, ProperTrue DEF WhereIn
  <2>4. CASE p.node \in {"And", "Or"} /\ p.left \in Under(p) /\ p.right \in Under(p)
    <3>1. Proper(Where[p.left]) /\ Proper(Where[p.right])
      BY <1>1, <2>4
    <3>2. CASE p.node = "And"
      <4>1. Where[p] = AndSql(Where[p.left], Where[p.right])
        BY <2>0, <3>2 DEF WhereIn
      <4> QED
        BY <3>1, <4>1, ProperAnd
    <3>3. CASE p.node = "Or"
      <4>1. Where[p] = OrSql(Where[p.left], Where[p.right])
        BY <2>0, <3>3 DEF WhereIn
      <4> QED
        BY <3>1, <4>1, ProperOr
    <3> QED
      BY <2>4, <3>2, <3>3
  <2>5. CASE p.node = "Not" /\ p.pred \in Under(p)
    <3>1. Proper(Where[p.pred])
      BY <1>1, <2>5
    <3> QED
      BY <2>0, <2>5, <3>1, ProperNotWhere DEF WhereIn
  <2> QED
    BY <2>1, <2>2, <2>3, <2>4, <2>5, Shapes DEF Under
<1> HIDE DEF S
<1>2. Predicates \subseteq S
  BY <1>1, PartsInduction
<1> QED
  BY <1>2 DEF S

\* How what PostgreSQL sees in a predicate and what evaluate_predicate says differ: where the
\* one sees NULL the other fails.
Close(sees, says, complete) ==
    /\ sees \in {"true", "false", "null"}
    /\ (says = sees /\ says # "null") \/ says = "error"
    /\ complete => says = sees

\* AND and OR keep them close.
LEMMA JunctionsClose ==
    ASSUME NEW v, NEW w, NEW e, NEW f, NEW complete, Close(v, e, complete), Close(w, f, complete)
    PROVE  /\ Close(Junction("false", "true", v, w), IF e = "true" THEN f ELSE e, complete)
           /\ Close(Junction("true", "false", v, w), IF e = "false" THEN f ELSE e, complete)
<1>1. CASE v = "true"
  BY <1>1, SMT DEF Close, Junction
<1>2. CASE v = "false"
  BY <1>2, SMT DEF Close, Junction
<1>3. CASE v = "null"
  BY <1>3, SMT DEF Close, Junction
<1> QED
  BY <1>1, <1>2, <1>3 DEF Close

Likeness(p) ==
    \A item \in Items :
        /\ HasNot(p) => Sees[Where[p]][item] = "invalid"
        /\ Askable(p) /\ SameOrder(p) =>
               Close(Sees[Where[p]][item], Evaluate[p][item], item \in Complete(p))

\* For every predicate PostgreSQL sees in the WHERE clause what evaluate_predicate says, if
\* it can be asked and its collation does not matter; with a NOT in it there is no SQL to see.
LEMMA WhereLike == \A p \in Predicates : Likeness(p)
<1> DEFINE S == {p \in Predicates : Likeness(p)}
<1>1. ASSUME NEW p \in Predicates, Under(p) \subseteq S
      PROVE  p \in S
  <2> SUFFICES ASSUME NEW item \in Items
               PROVE  /\ HasNot(p) => Sees[Where[p]][item] = "invalid"
                      /\ Askable(p) /\ SameOrder(p) =>
                             Close(Sees[Where[p]][item], Evaluate[p][item], item \in Complete(p))
    BY DEF Likeness
  <2> DEFINE sees == Sees[Where[p]][item]
             says == Evaluate[p][item]
  <2>0. Where[p] = WhereIn(p, Where) /\ says = EvaluateIn(p, Evaluate)[item]
    BY WhereDefined, EvaluateDefined
  <2>1. CASE /\ p.node = "Comparison"
             /\ p.op \in Operators /\ p.left \in Operands /\ p.right \in Operands
    <3> DEFINE c == Truth(Compare(p.op, Value(item, p.left), Value(item, p.right)))
    <3> DEFINE d == Truth(SqlCompare(p.op, Value(item, p.left), Value(item, p.right)))
    <3>1. sees = IF Broken(item, p.left, p.right) THEN "null" ELSE d
      BY <2>0, <2>1, ProperComparison DEF WhereIn
    <3>2. says = IF Fails(item, p.left) \/ Fails(item, p.right) THEN "error" ELSE c
      BY <2>0, <2>1 DEF EvaluateIn
    <3>3. c \in {"true", "false"}
      BY DEF Truth
    <3>4. item \in Complete(p) => ~Broken(item, p.left, p.right)
      BY <2>1, CompleteHasValues DEF Broken, OperandsOf
    <3>5. Askable(p) <=> ~Foreign(p.left) /\ ~Foreign(p.right)
      BY <2>1, AskableByParts
    <3>6. SameOrder(p) /\ ~Broken(item, p.left, p.right) => c = d
      BY <2>1, SameComparison
    <3>7. ~HasNot(p)
      BY <2>1, HasNotByParts
    <3> HIDE DEF c, d, sees, says
    <3>8. Askable(p) /\ SameOrder(p) => Close(sees, says, item \in Complete(p))
      BY <3>1, <3>2, <3>3, <3>4, <3>5, <3>6 DEF Close, Fails, Broken
    <3> QED
      BY <3>7, <3>8 DEF sees, says
  <2>2. CASE p.node = "IsNull" /\ p.of \in Operands
    <3>1. sees = Truth(Value(item, p.of) = None)
      BY <2>0, <2>2, ProperIsNull DEF WhereIn
    <3>2. says = Truth(Fails(item, p.of))
      BY <2>0, <2>2 DEF EvaluateIn
    <3>3. Askable(p) <=> ~Foreign(p.of)
      BY <2>2, AskableByParts
    <3>4. ~HasNot(p)
      BY <2>2, HasNotByParts
    <3> HIDE DEF sees, says
    <3>5. Askable(p) => Close(sees, says, item \in Complete(p))
      BY <3>1, <3>2, <3>3 DEF Close, Fails, Truth
    <3> QED
      BY <3>4, <3>5 DEF sees, says
  <2>3. CASE p.node = "True"
    <3>1. sees = "true"
      BY <2>0, <2>3, ProperTrue DEF WhereIn
    <3>2. says = "true"
      BY <2>0, <2>3 DEF EvaluateIn
    <3>3. ~HasNot(p)
      BY <2>3, HasNotByParts
    <3> QED
      BY <3>1, <3>2, <3>3 DEF Close
  <2>4. CASE p.node \in {"And", "Or"} /\ p.left \in Under(p) /\ p.right \in Under(p)
    <3> DEFINE v == Sees[Where[p.left]][item]
               w == Sees[Where[p.right]][item]
               e == Evaluate[p.left][item]
               f == Evaluate[p.right][item]
    <3>1. /\ Askable(p) /\ SameOrder(p) =>
                Close(v, e, item \in Complete(p)) /\ Close(w, f, item \in Complete(p))
          /\ HasNot(p) => "invalid" \in {v, w}
      <4>1. /\ HasNot(p.left) => v = "invalid"
            /\ HasNot(p.right) => w = "invalid"
            /\ Askable(p.left) /\ SameOrder(p.left) => Close(v, e, item \in Complete(p.left))
            /\ Askable(p.right) /\ SameOrder(p.right) => Close(w, f, item \in Complete(p.right))
        BY <1>1, <2>4 DEF Likeness
      <4>2. /\ Askable(p) => Askable(p.left) /\ Askable(p.right)
            /\ SameOrder(p) => SameOrder(p.left) /\ SameOrder(p.right)
            /\ item \in Complete(p) => item \in Complete(p.left) /\ item \in Complete(p.right)
            /\ HasNot(p) => HasNot(p.left) \/ HasNot(p.right)
        BY <2>4, AskableByParts, KindsByParts, HasNotByParts
      <4> HIDE DEF v, w, e, f
      <4> QED
        BY <4>1, <4>2 DEF Close
    <3>3. Proper(Where[p.left]) /\ Proper(Where[p.right])
      BY <2>4, WhereProper DEF Under
    <3>4. CASE p.node = "And"
      <4>1. sees = Junction("false", "true", v, w)
        BY <2>0, <3>3, <3>4, ProperAnd DEF WhereIn
      <4>2. says = IF e = "true" THEN f ELSE e
        BY <2>0, <3>4 DEF EvaluateIn
      <4> HIDE DEF v, w, e, f, sees, says
      <4>3. Askable(p) /\ SameOrder(p) => Close(sees, says, item \in Complete(p))
        BY <3>1, <4>1, <4>2, JunctionsClose
      <4>4. HasNot(p) => sees = "invalid"
        BY <3>1, <4>1 DEF Junction
      <4> QED
        BY <4>3, <4>4 DEF sees, says
    <3>5. CASE p.node = "Or"
      <4>1. sees = Junction("true", "false", v, w)
        BY <2>0, <3>3, <3>5, ProperOr DEF WhereIn
      <4>2. says = IF e = "false" THEN f ELSE e
        BY <2>0, <3>5 DEF EvaluateIn
      <4> HIDE DEF v, w, e, f, sees, says
      <4>3. Askable(p) /\ SameOrder(p) => Close(sees, says, item \in Complete(p))
        BY <3>1, <4>1, <4>2, JunctionsClose
      <4>4. HasNot(p) => sees = "invalid"
        BY <3>1, <4>1 DEF Junction
      <4> QED
        BY <4>3, <4>4 DEF sees, says
    <3> QED
      BY <2>4, <3>4, <3>5
  <2>5. CASE p.node = "Not" /\ p.pred \in Under(p)
    <3>1. Proper(Where[p.pred])
      BY <2>5, WhereProper DEF Under
    <3>2. Sees[Where[p]][item] = "invalid"
      BY <2>0, <2>5, <3>1, ProperNotWhere DEF WhereIn
    <3>3. ~Askable(p)
      BY <2>5, AskableByParts
    <3> QED
      BY <3>2, <3>3
  <2> QED
    BY <2>1, <2>2, <2>3, <2>4, <2>5, Shapes DEF Under
<1> HIDE DEF S
<1>2. Predicates \subseteq S
  BY <1>1, PartsInduction
<1> QED
  BY <1>2 DEF S

Truthful(p) ==
    Readable(p) /\ SameOrder(p) =>
        /\ Proper(Shown[p])
        /\ \A item \in Complete(p) : /\ Sees[Shown[p]][item] = Evaluate[p][item]
                                  /\ Evaluate[p][item] \in {"true", "false"}

\* What is shown of a readable predicate means the same, on entities that lack nothing.
LEMMA ShownTruthful == \A p \in Predicates : Truthful(p)
<1> DEFINE S == {p \in Predicates : Truthful(p)}
<1>0. \A p : Complete(p) \subseteq Items
  BY DEF Complete
<1>1. ASSUME NEW p \in Predicates, Under(p) \subseteq S
      PROVE  p \in S
  <2> SUFFICES ASSUME Readable(p), SameOrder(p)
               PROVE  /\ Proper(Shown[p])
                      /\ \A item \in Complete(p) : /\ Sees[Shown[p]][item] = Evaluate[p][item]
                                                /\ Evaluate[p][item] \in {"true", "false"}
    BY DEF Truthful
  <2>0. Shown[p] = ShownIn(p, Shown) /\ Evaluate[p] = EvaluateIn(p, Evaluate)
    BY ShownDefined, EvaluateDefined
  <2>1. CASE /\ p.node = "Comparison"
             /\ p.op \in Operators /\ p.left \in Operands /\ p.right \in Operands
    <3>1. Legible(p.left) /\ Legible(p.right)
      BY <2>1, ReadableByParts
    <3>2. Shown[p] = WhereOperand(p.left) \o Key(p.op) \o WhereOperand(p.right)
      BY <2>0, <2>1, <3>1, OperandText DEF ShownIn, Legible
    <3>3. Proper(Shown[p])
      BY <2>1, <3>2, ProperComparison
    <3>4. ASSUME NEW item \in Complete(p)
          PROVE  /\ Sees[Shown[p]][item] = Evaluate[p][item]
                 /\ Evaluate[p][item] \in {"true", "false"}
      <4> DEFINE c == Truth(Compare(p.op, Value(item, p.left), Value(item, p.right)))
                 d == Truth(SqlCompare(p.op, Value(item, p.left), Value(item, p.right)))
      <4>1. Sees[Shown[p]][item] = IF Broken(item, p.left, p.right) THEN "null" ELSE d
        <5>1. item \in Items
          BY <1>0
        <5> QED
          BY <2>1, <3>2, <5>1, ProperComparison, SMTT(30)
      <4>2. Evaluate[p][item] = IF Fails(item, p.left) \/ Fails(item, p.right) THEN "error" ELSE c
        BY <1>0, <2>0, <2>1 DEF EvaluateIn
      <4>3. c \in {"true", "false"}
        BY DEF Truth
      <4>4. ~Broken(item, p.left, p.right)
        BY <2>1, CompleteHasValues DEF Broken, OperandsOf
      <4>5. c = d
        BY <1>0, <2>1, <4>4, SameComparison
      <4> HIDE DEF c, d
      <4> QED
        BY <3>1, <4>1, <4>2, <4>3, <4>4, <4>5 DEF Fails, Broken, Legible
    <3> QED
      BY <3>3, <3>4
  <2>2. CASE p.node = "IsNull" /\ p.of \in Operands
    <3>1. Legible(p.of)
      BY <2>2, ReadableByParts
    <3>2. Shown[p] = WhereOperand(p.of) \o Key("IS NULL")
      BY <2>0, <2>2, <3>1, OperandText DEF ShownIn, Legible
    <3>3. Proper(Shown[p])
      BY <2>2, <3>2, ProperIsNull
    <3>4. ASSUME NEW item \in Complete(p)
          PROVE  /\ Sees[Shown[p]][item] = Evaluate[p][item]
                 /\ Evaluate[p][item] \in {"true", "false"}
      <4>0. item \in Items
        BY <1>0
      <4>1. Sees[Shown[p]][item] = Truth(Value(item, p.of) = None)
        BY <2>2, <3>2, <4>0, ProperIsNull, Zenon
      <4>2. Evaluate[p][item] = Truth(Fails(item, p.of))
        BY <1>0, <2>0, <2>2 DEF EvaluateIn
      <4> QED
        BY <3>1, <4>1, <4>2 DEF Fails, Legible, Truth
    <3> QED
      BY <3>3, <3>4
  <2>3. CASE p.node = "True"
    BY <2>3, ReadableByParts
  <2>4. CASE p.node \in {"And", "Or"} /\ p.left \in Under(p) /\ p.right \in Under(p)
    <3>1. /\ Proper(Shown[p.left]) /\ Proper(Shown[p.right])
          /\ \A item \in Complete(p) :
                /\ Sees[Shown[p.left]][item] = Evaluate[p.left][item]
                /\ Evaluate[p.left][item] \in {"true", "false"}
                /\ Sees[Shown[p.right]][item] = Evaluate[p.right][item]
                /\ Evaluate[p.right][item] \in {"true", "false"}
      BY <1>1, <2>4, ReadableByParts, KindsByParts DEF Truthful
    <3>2. CASE p.node = "And"
      <4>1. Shown[p] = AndSql(Shown[p.left], Shown[p.right])
        BY <2>0, <3>2 DEF ShownIn
      <4>2. ASSUME NEW item \in Complete(p)
            PROVE  /\ Sees[Shown[p]][item] = Junction("false", "true",
                                Sees[Shown[p.left]][item], Sees[Shown[p.right]][item])
                   /\ Evaluate[p][item] = IF Evaluate[p.left][item] = "true"
                                          THEN Evaluate[p.right][item] ELSE Evaluate[p.left][item]
        BY <1>0, <2>0, <3>1, <3>2, <4>1, ProperAnd DEF EvaluateIn
      <4>3. Proper(Shown[p])
        BY <3>1, <4>1, ProperAnd
      <4> QED
        BY <3>1, <4>2, <4>3 DEF Junction
    <3>3. CASE p.node = "Or"
      <4>1. Shown[p] = OrSql(Shown[p.left], Shown[p.right])
        BY <2>0, <3>3 DEF ShownIn
      <4>2. ASSUME NEW item \in Complete(p)
            PROVE  /\ Sees[Shown[p]][item] = Junction("true", "false",
                                Sees[Shown[p.left]][item], Sees[Shown[p.right]][item])
                   /\ Evaluate[p][item] = IF Evaluate[p.left][item] = "false"
                                          THEN Evaluate[p.right][item] ELSE Evaluate[p.left][item]
        BY <1>0, <2>0, <3>1, <3>3, <4>1, ProperOr DEF EvaluateIn
      <4>3. Proper(Shown[p])
        BY <3>1, <4>1, ProperOr
      <4> QED
        BY <3>1, <4>2, <4>3 DEF Junction
    <3> QED
      BY <2>4, <3>2, <3>3
  <2>5. CASE p.node = "Not" /\ p.pred \in Under(p)
    <3>1. /\ Proper(Shown[p.pred])
          /\ \A item \in Complete(p) : /\ Sees[Shown[p.pred]][item] = Evaluate[p.pred][item]
                                    /\ Evaluate[p.pred][item] \in {"true", "false"}
      BY <1>1, <2>5, ReadableByParts, KindsByParts DEF Truthful
    <3>2. Shown[p] = NotShown(Shown[p.pred])
      BY <2>0, <2>5 DEF ShownIn
    <3>3. ASSUME NEW item \in Complete(p)
          PROVE  /\ Sees[Shown[p]][item] = Negation(Sees[Shown[p.pred]][item])
                 /\ Evaluate[p][item] = IF Evaluate[p.pred][item] = "error" THEN "error"
                                        ELSE Truth(Evaluate[p.pred][item] = "false")
      BY <1>0, <2>0, <2>5, <3>1, <3>2, ProperNotShown DEF EvaluateIn
    <3>4. Proper(Shown[p])
      BY <3>1, <3>2, ProperNotShown
    <3> QED
      BY <3>1, <3>3, <3>4 DEF Negation, Truth
  <2> QED
    BY <2>1, <2>2, <2>3, <2>4, <2>5, Shapes DEF Under
<1> HIDE DEF S
<1>2. Predicates \subseteq S
  BY <1>1, PartsInduction
<1> QED
  BY <1>2 DEF S
----------------------------------------------------------------------------
\* The operands of a predicate are the operands in its WHERE clause.

Term(e) == [word |-> "operand", of |-> e]
Uses(p) == UNION {OperandsOf(q) : q \in Parts[p]}

\* the operands in a text
Terms(t) == {k \in Tokens : k.word = "operand" /\ \E i \in 1..Len(t) : t[i] = k}

\* What is joined has the operands of both.
LEMMA JoinedTerms ==
    ASSUME NEW a \in Text, NEW b \in Text
    PROVE  Terms(a \o b) = Terms(a) \cup Terms(b)
<1>1. /\ Len(a) \in Nat /\ Len(b) \in Nat /\ Len(a \o b) = Len(a) + Len(b)
      /\ \A i \in 1..Len(a) : (a \o b)[i] = a[i]
      /\ \A i \in 1..Len(b) : (a \o b)[Len(a) + i] = b[i]
  BY JoinedWords
<1> DEFINE m == Len(a)  n == Len(b)  c == a \o b
<1>2. ASSUME NEW k, NEW i \in 1..m, a[i] = k PROVE \E h \in 1..Len(c) : c[h] = k
  <2>1. i \in 1..(m + n)
    BY <1>1
  <2> QED
    BY <1>1, <1>2, <2>1, Zenon
<1>3. ASSUME NEW k, NEW i \in 1..n, b[i] = k PROVE \E h \in 1..Len(c) : c[h] = k
  <2>1. m + i \in 1..(m + n)
    BY <1>1
  <2> QED
    BY <1>1, <1>3, <2>1, Zenon
<1>4. ASSUME NEW k, NEW h \in 1..Len(c), c[h] = k
      PROVE  (\E i \in 1..m : a[i] = k) \/ (\E i \in 1..n : b[i] = k)
  <2>0. m \in Nat /\ n \in Nat /\ Len(c) = m + n
    BY <1>1, Zenon
  <2> HIDE DEF m, n
  <2>1. h \in 1..m \/ (h - m \in 1..n /\ m + (h - m) = h)
    BY <2>0
  <2> USE DEF m, n
  <2> QED
    BY <1>1, <1>4, <2>1, Zenon
<1> QED
  BY <1>2, <1>3, <1>4 DEF Terms

\* A word has none.
LEMMA WordTerms ==
    ASSUME NEW k \in Words
    PROVE  Key(k) \in Text /\ Terms(Key(k)) = {}
<1>1. Key(k) \in Text /\ Len(Key(k)) = 1 /\ Key(k)[1].word = k
  BY KeyText
<1>2. k # "operand"
  BY DEF Words, Operators
<1> DEFINE t == Key(k)
<1> HIDE DEF t
<1>3. \A i \in 1..Len(t) : i = 1
  <2>1. Len(t) = 1
    BY <1>1, Zenon DEF t
  <2> QED
    BY <2>1
<1>4. \A i \in 1..Len(t) : t[i].word # "operand"
  BY <1>1, <1>2, <1>3, Zenon DEF t
<1>5. Terms(t) = {}
  BY <1>4 DEF Terms
<1> QED
  BY <1>1, <1>5 DEF t

\* Parentheses and connectives have none.
LEMMA WrittenTerms ==
    ASSUME NEW l \in Text, NEW r \in Text
    PROVE  /\ Terms(AndSql(l, r)) = Terms(l) \cup Terms(r)
           /\ Terms(OrSql(l, r)) = Terms(l) \cup Terms(r)
           /\ Terms(NotWhere(l)) = Terms(l)
<1>1. ASSUME NEW k \in {"(", ")", "AND", "OR", "NOT"}
      PROVE  Key(k) \in Text /\ Terms(Key(k)) = {}
  BY WordTerms DEF Words
<1>2. \A s, t \in Text : s \o t \in Text /\ Terms(s \o t) = Terms(s) \cup Terms(t)
  BY Join, JoinedTerms
<1>3. Terms(AndSql(l, r)) = Terms(l) \cup Terms(r)
  BY <1>1, <1>2 DEF AndSql
<1>4. Terms(OrSql(l, r)) = Terms(l) \cup Terms(r)
  <2>1. Key("(") \o l \in Text /\ Terms(Key("(") \o l) = Terms(l)
    BY <1>1, <1>2
  <2>2. /\ Key("(") \o l \o Key("OR") \in Text
        /\ Terms(Key("(") \o l \o Key("OR")) = Terms(l)
    BY <1>1, <1>2, <2>1
  <2>3. /\ Key("(") \o l \o Key("OR") \o r \in Text
        /\ Terms(Key("(") \o l \o Key("OR") \o r) = Terms(l) \cup Terms(r)
    BY <1>2, <2>2
  <2> QED
    BY <1>1, <1>2, <2>3 DEF OrSql
<1>5. Terms(NotWhere(l)) = Terms(l)
  <2>0. /\ Key("NOT") \in Text /\ Key("(") \in Text /\ Key(")") \in Text
        /\ Terms(Key("NOT")) = {} /\ Terms(Key("(")) = {} /\ Terms(Key(")")) = {}
    BY <1>1
  <2> DEFINE a == Key("NOT") \o Key("(")
  <2>1. a \in Text /\ Terms(a) = {}
    BY <1>2, <2>0
  <2> HIDE DEF a
  <2> DEFINE b == a \o l
  <2>2. b \in Text /\ Terms(b) = Terms(l)
    BY <1>2, <2>1
  <2> HIDE DEF b
  <2> DEFINE c == b \o Key("NOT")
  <2>3. c \in Text /\ Terms(c) = Terms(l)
    BY <1>2, <2>0, <2>2
  <2> HIDE DEF c
  <2>4. Terms(c \o Key(")")) = Terms(l)
    <3>1. Terms(c \o Key(")")) = Terms(c) \cup Terms(Key(")"))
      BY <1>2, <2>0, <2>3, Zenon
    <3> QED
      BY <2>0, <2>3, <3>1
  <2>5. c \o Key(")") = NotWhere(l)
    BY DEF a, b, c, NotWhere
  <2> QED
    BY <2>4, <2>5
<1> QED
  BY <1>3, <1>4, <1>5

\* Which operands a predicate has.
LEMMA UsesByParts ==
    ASSUME NEW p \in Predicates
    PROVE  /\ p.node = "Comparison" => Uses(p) = {p.left, p.right}
           /\ p.node = "IsNull" => Uses(p) = {p.of}
           /\ p.node \in {"And", "Or"} => Uses(p) = Uses(p.left) \cup Uses(p.right)
           /\ p.node = "Not" => Uses(p) = Uses(p.pred)
           /\ p.node = "True" => Uses(p) = {}
<1>1. Parts[p] = PartsIn(p, Parts)
  BY PartsDefined
<1>2. CASE p.node = "Comparison"
  <2>1. Parts[p] = {p} /\ OperandsOf(p) = {p.left, p.right}
    BY <1>1, <1>2 DEF PartsIn, OperandsOf
  <2> QED
    BY <1>2, <2>1 DEF Uses
<1>3. CASE p.node = "IsNull"
  <2>1. Parts[p] = {p} /\ OperandsOf(p) = {p.of}
    BY <1>1, <1>3 DEF PartsIn, OperandsOf
  <2> QED
    BY <1>3, <2>1 DEF Uses
<1>4. CASE p.node \in {"And", "Or"}
  <2>1. Parts[p] = {p} \cup (Parts[p.left] \cup Parts[p.right]) /\ OperandsOf(p) = {}
    BY <1>1, <1>4 DEF PartsIn, OperandsOf
  <2> QED
    BY <1>4, <2>1 DEF Uses
<1>5. CASE p.node = "Not"
  <2>1. Parts[p] = {p} \cup Parts[p.pred] /\ OperandsOf(p) = {}
    BY <1>1, <1>5 DEF PartsIn, OperandsOf
  <2> QED
    BY <1>5, <2>1 DEF Uses
<1>6. CASE p.node = "True"
  <2>1. Parts[p] = {p} /\ OperandsOf(p) = {}
    BY <1>1, <1>6 DEF PartsIn, OperandsOf
  <2> QED
    BY <1>6, <2>1 DEF Uses
<1> QED
  BY <1>2, <1>3, <1>4, <1>5, <1>6

\* The WHERE clause of a predicate has its operands, and no other.
LEMMA WhereTerms == \A p \in Predicates : Terms(Where[p]) = {Term(e) : e \in Uses(p)}
<1> DEFINE S == {p \in Predicates : Terms(Where[p]) = {Term(e) : e \in Uses(p)}}
<1>1. ASSUME NEW p \in Predicates, Under(p) \subseteq S
      PROVE  p \in S
  <2>0. Where[p] = WhereIn(p, Where)
    BY WhereDefined
  <2>1. CASE /\ p.node = "Comparison"
             /\ p.op \in Operators /\ p.left \in Operands /\ p.right \in Operands
    <3> DEFINE t == WhereOperand(p.left) \o Key(p.op) \o WhereOperand(p.right)
    <3>1. /\ t \in Text /\ Len(t) = 3 /\ t[1] = Term(p.left) /\ t[2].word = p.op
          /\ t[3] = Term(p.right)
      BY <2>1, ComparisonText, SMTT(30) DEF Term
    <3>2. Where[p] = t
      BY <2>0, <2>1 DEF WhereIn
    <3>3. Uses(p) = {p.left, p.right}
      BY <2>1, UsesByParts
    <3>4. p.op # "operand"
      BY <2>1 DEF Operators
    <3> HIDE DEF t
    <3>5. 1..Len(t) = {1, 2, 3} /\ t[1] \in Tokens /\ t[3] \in Tokens
      <4>1. Len(t) = 3 /\ t \in Seq(Tokens)
        BY <3>1, Zenon DEF Text
      <4>2. \A n : n = 3 => 1..n = {1, 2, 3}
        OBVIOUS
      <4>3. 1..Len(t) = {1, 2, 3}
        BY <4>1, <4>2, Zenon
      <4>4. \A i \in 1..Len(t) : t[i] \in Tokens
        <5>1. t \in Seq(Tokens)
          BY <4>1, Zenon
        <5> QED
          BY <5>1, ElementOfSeq, Zenon
      <4> QED
        BY <4>3, <4>4
    <3>6. Term(p.left).word = "operand" /\ Term(p.right).word = "operand"
      BY DEF Term
    <3> DEFINE l == Term(p.left)  r == Term(p.right)
    <3> HIDE DEF l, r
    <3>7. Terms(t) = {l, r}
      <4>1. /\ l \in Tokens /\ r \in Tokens /\ l.word = "operand" /\ r.word = "operand"
            /\ t[1] = l /\ t[3] = r /\ t[2].word # "operand"
        BY <3>1, <3>4, <3>5, <3>6 DEF l, r
      <4>2. \A k : (\E i \in 1..Len(t) : t[i] = k) <=> k \in {l, t[2], r}
        BY <3>5, <4>1
      <4>3. t[2] \notin Terms(t)
        BY <4>1 DEF Terms
      <4>4. \A k \in Terms(t) : k \in {l, r}
        BY <4>2, <4>3 DEF Terms
      <4>5. l \in Terms(t) /\ r \in Terms(t)
        BY <4>1, <4>2 DEF Terms
      <4> QED
        BY <4>4, <4>5
    <3>8. {Term(e) : e \in Uses(p)} = {l, r}
      BY <3>3 DEF l, r
    <3> QED
      BY <3>2, <3>7, <3>8
  <2>2. CASE p.node = "IsNull" /\ p.of \in Operands
    <3> DEFINE t == WhereOperand(p.of) \o Key("IS NULL")
    <3>1. t \in Text /\ Len(t) = 2 /\ t[1] = Term(p.of) /\ t[2].word = "IS NULL"
      BY <2>2, IsNullText, Zenon DEF Term
    <3>2. Where[p] = t
      BY <2>0, <2>2 DEF WhereIn
    <3>3. Uses(p) = {p.of}
      BY <2>2, UsesByParts
    <3> HIDE DEF t
    <3>4. 1..Len(t) = {1, 2} /\ t[1] \in Tokens
      <4>1. Len(t) = 2 /\ t \in Seq(Tokens)
        BY <3>1, Zenon DEF Text
      <4> QED
        BY <4>1
    <3>5. Term(p.of).word = "operand"
      BY DEF Term
    <3>6. Terms(t) = {Term(p.of)}
      BY <3>1, <3>4, <3>5 DEF Terms
    <3> QED
      BY <3>2, <3>3, <3>6
  <2>3. CASE p.node = "True"
    <3>1. Where[p] = Key("TRUE")
      BY <2>0, <2>3 DEF WhereIn, TrueSql
    <3>2. Terms(Key("TRUE")) = {}
      BY WordTerms DEF Words
    <3> QED
      BY <2>3, <3>1, <3>2, UsesByParts
  <2>4. CASE p.node \in {"And", "Or"} /\ p.left \in Under(p) /\ p.right \in Under(p)
    <3>1. /\ Terms(Where[p.left]) = {Term(e) : e \in Uses(p.left)}
          /\ Terms(Where[p.right]) = {Term(e) : e \in Uses(p.right)}
      BY <1>1, <2>4
    <3>2. Where[p.left] \in Text /\ Where[p.right] \in Text
      BY <2>4, WhereDefined DEF Under
    <3>3. Where[p] \in {AndSql(Where[p.left], Where[p.right]), OrSql(Where[p.left], Where[p.right])}
      BY <2>0, <2>4 DEF WhereIn
    <3>4. Terms(Where[p]) = Terms(Where[p.left]) \cup Terms(Where[p.right])
      BY <3>2, <3>3, WrittenTerms
    <3>5. Uses(p) = Uses(p.left) \cup Uses(p.right)
      BY <2>4, UsesByParts
    <3> QED
      BY <3>1, <3>4, <3>5
  <2>5. CASE p.node = "Not" /\ p.pred \in Under(p)
    <3>1. Terms(Where[p.pred]) = {Term(e) : e \in Uses(p.pred)}
      BY <1>1, <2>5
    <3>2. Where[p.pred] \in Text
      BY <2>5, WhereDefined DEF Under
    <3>3. Terms(Where[p]) = Terms(Where[p.pred])
      BY <2>0, <2>5, <3>2, WrittenTerms DEF WhereIn
    <3>4. Uses(p) = Uses(p.pred)
      BY <2>5, UsesByParts
    <3> QED
      BY <3>1, <3>3, <3>4
  <2> QED
    BY <2>1, <2>2, <2>3, <2>4, <2>5, Shapes DEF Under
<1> HIDE DEF S
<1>2. Predicates \subseteq S
  BY <1>1, PartsInduction
<1> QED
  BY <1>2 DEF S

\* So what the WHERE clause has parameters for are the literals, and what it names the properties.
LEMMA WhereUses ==
    ASSUME NEW p \in Predicates
    PROVE  /\ HasArgs(Where[p]) <=> \E e \in Uses(p) : e.expr = "Literal"
           /\ Unknowns(Where[p]) = {} <=>
                 \A e \in Uses(p) :
                     e.expr = "Identifier" => ~Foreign(e) /\ e.name \in Columns
<1> DEFINE t == Where[p]
<1>1. t \in Text /\ Terms(t) = {Term(e) : e \in Uses(p)}
  BY WhereDefined, WhereTerms
<1>2. \A i \in 1..Len(t) : t[i] \in Tokens
  BY <1>1 DEF Text
<1>3. \A e : Term(e).word = "operand" /\ Term(e).of = e
  BY DEF Term
<1> HIDE DEF t
<1>4. \A i \in 1..Len(t) : t[i].word = "operand" => \E e \in Uses(p) : t[i] = Term(e)
  <2> SUFFICES ASSUME NEW i \in 1..Len(t), t[i].word = "operand"
               PROVE  \E e \in Uses(p) : t[i] = Term(e)
    OBVIOUS
  <2>1. t[i] \in Terms(t)
    BY <1>2 DEF Terms
  <2> QED
    BY <1>1, <2>1
<1>5. \A e \in Uses(p) : \E i \in 1..Len(t) : t[i] = Term(e)
  BY <1>1 DEF Terms
<1>6. HasArgs(t) <=> \E e \in Uses(p) : e.expr = "Literal"
  <2>1. ASSUME NEW i \in 1..Len(t), IsArg(t[i])
        PROVE  \E e \in Uses(p) : e.expr = "Literal"
    <3>1. t[i].word = "operand" /\ t[i].of.expr = "Literal"
      BY <2>1 DEF IsArg
    <3>2. PICK e \in Uses(p) : t[i] = Term(e)
      BY <1>4, <3>1
    <3> QED
      BY <1>3, <3>1, <3>2
  <2>2. ASSUME NEW e \in Uses(p), e.expr = "Literal" PROVE HasArgs(t)
    <3>1. PICK i \in 1..Len(t) : t[i] = Term(e)
      BY <1>5
    <3>2. IsArg(t[i])
      BY <1>3, <2>2, <3>1 DEF IsArg
    <3> QED
      BY <3>2 DEF HasArgs
  <2> QED
    BY <2>1, <2>2 DEF HasArgs
<1>7. Unknowns(t) = {} <=>
          \A e \in Uses(p) : e.expr = "Identifier" => ~Foreign(e) /\ e.name \in Columns
  <2>1. Unknowns(t) = {} <=> \A i \in 1..Len(t) : ~Unknown(t[i])
    BY DEF Unknowns
  <2> DEFINE Known(e) == e.expr = "Identifier" => ~Foreign(e) /\ e.name \in Columns
  <2>2. \A e : Unknown(Term(e)) <=> ~Known(e)
    BY <1>3 DEF Unknown
  <2>3. \A i \in 1..Len(t) : Unknown(t[i]) => t[i].word = "operand"
    BY DEF Unknown
  <2> HIDE DEF Known
  <2>4. ASSUME NEW i \in 1..Len(t), Unknown(t[i]) PROVE \E e \in Uses(p) : ~Known(e)
    BY <1>4, <2>2, <2>3, <2>4
  <2>5. ASSUME NEW e \in Uses(p), ~Known(e) PROVE \E i \in 1..Len(t) : Unknown(t[i])
    <3>1. PICK i \in 1..Len(t) : t[i] = Term(e)
      BY <1>5
    <3>2. Unknown(t[i])
      BY <2>2, <2>5, <3>1
    <3> QED
      BY <3>2
  <2>6. Unknowns(t) = {} <=> \A e \in Uses(p) : Known(e)
    BY <2>1, <2>4, <2>5
  <2> QED
    BY <2>6 DEF Known
<1> QED
  BY <1>6, <1>7 DEF t
----------------------------------------------------------------------------
\* A parameter has a type, unless only IS NULL follows it.

\* Such a text, and what is written before it.
Tidy(t) == Len(t) > 0 /\ t[1].word # "IS NULL" /\ ~Untyped(t)

\* Joined texts are like that if both are.
LEMMA TidyJoined ==
    ASSUME NEW a \in Text, NEW b \in Text, Tidy(a), Tidy(b)
    PROVE  Tidy(a \o b)
<1> DEFINE m == Len(a)  n == Len(b)  c == a \o b
<1>1. /\ m \in Nat /\ n \in Nat /\ Len(c) = m + n
      /\ \A i \in 1..m : c[i] = a[i]
      /\ \A i \in 1..n : c[m + i] = b[i]
  BY JoinedWords
<1>2. m > 0 /\ n > 0
  BY DEF Tidy
<1>3. c[1].word # "IS NULL"
  <2>1. 1 \in 1..m
    BY <1>1, <1>2
  <2> QED
    BY <1>1, <2>1 DEF Tidy
<1>4. ASSUME NEW i \in 1..(Len(c) - 1), IsArg(c[i]), c[i + 1].word = "IS NULL"
      PROVE  FALSE
  <2>0. m \in Nat /\ n \in Nat /\ m > 0 /\ n > 0 /\ Len(c) = m + n
    BY <1>1, <1>2, Zenon
  <2> HIDE DEF m, n, c
  <2>1. \/ i \in 1..(m - 1) /\ i \in 1..m /\ i + 1 \in 1..m
        \/ i + 1 = m + 1 /\ 1 \in 1..n
        \/ /\ i - m \in 1..(n - 1) /\ i - m \in 1..n /\ (i - m) + 1 \in 1..n
           /\ m + (i - m) = i /\ m + ((i - m) + 1) = i + 1
    BY <2>0
  <2> USE DEF m, n
  <2>2. CASE i \in 1..(m - 1) /\ i \in 1..m /\ i + 1 \in 1..m
    <3>1. IsArg(a[i]) /\ a[i + 1].word = "IS NULL"
      BY <1>1, <1>4, <2>2, Zenon
    <3> QED
      BY <2>2, <3>1, Zenon DEF Tidy, Untyped
  <2>3. CASE i + 1 = m + 1 /\ 1 \in 1..n
    <3>1. b[1].word = "IS NULL"
      BY <1>1, <1>4, <2>3, Zenon
    <3> QED
      BY <3>1, Zenon DEF Tidy
  <2>4. CASE /\ i - m \in 1..(n - 1) /\ i - m \in 1..n /\ (i - m) + 1 \in 1..n
             /\ m + (i - m) = i /\ m + ((i - m) + 1) = i + 1
    <3>1. IsArg(b[i - m]) /\ b[(i - m) + 1].word = "IS NULL"
      BY <1>1, <1>4, <2>4, Zenon
    <3> QED
      BY <2>4, <3>1, Zenon DEF Tidy, Untyped
  <2> QED
    BY <2>1, <2>2, <2>3, <2>4
<1>5. Len(c) > 0
  BY <1>1, <1>2
<1> QED
  BY <1>3, <1>4, <1>5 DEF Tidy, Untyped

\* In a text of one word nothing follows.
LEMMA OneWord ==
    ASSUME NEW t \in Text, Len(t) = 1
    PROVE  Len(t) > 0 /\ ~Untyped(t)
<1>1. \A i : i \notin 1..(Len(t) - 1)
  OBVIOUS
<1> QED
  BY <1>1 DEF Untyped

\* A word alone is.
LEMMA TidyWord ==
    ASSUME NEW k \in Words \ {"IS NULL"}
    PROVE  Key(k) \in Text /\ Tidy(Key(k))
<1>1. Key(k) \in Text /\ Len(Key(k)) = 1 /\ Key(k)[1].word = k
  BY KeyText
<1> DEFINE t == Key(k)
<1> HIDE DEF t
<1>2. Len(t) > 0 /\ ~Untyped(t)
  BY <1>1, OneWord, Zenon DEF t
<1>3. t[1].word # "IS NULL"
  BY <1>1, Zenon DEF t
<1>4. Tidy(t)
  BY <1>2, <1>3, Zenon DEF Tidy
<1> QED
  BY <1>1, <1>4 DEF t

\* IS NULL of properties only.
Named(p) == \A q \in Parts[p] : q.node = "IsNull" => q.of.expr = "Identifier"

\* The WHERE clause of a predicate that asks IS NULL of nothing but properties has types for its
\* parameters.
LEMMA WhereTidy == \A p \in Predicates : Named(p) => Tidy(Where[p])
<1> DEFINE S == {p \in Predicates : Named(p) => Tidy(Where[p])}
<1>1. ASSUME NEW p \in Predicates, Under(p) \subseteq S
      PROVE  p \in S
  <2> SUFFICES ASSUME Named(p) PROVE Tidy(Where[p])
    OBVIOUS
  <2>0. Where[p] = WhereIn(p, Where) /\ Parts[p] = PartsIn(p, Parts)
    BY WhereDefined, PartsDefined
  <2>k. \A k \in {"(", ")", "AND", "OR", "NOT"} : Key(k) \in Text /\ Tidy(Key(k))
    BY TidyWord DEF Words
  <2>j. \A s, t \in Text : Tidy(s) /\ Tidy(t) => s \o t \in Text /\ Tidy(s \o t)
    BY Join, TidyJoined
  <2>1. CASE /\ p.node = "Comparison"
             /\ p.op \in Operators /\ p.left \in Operands /\ p.right \in Operands
    <3> DEFINE t == WhereOperand(p.left) \o Key(p.op) \o WhereOperand(p.right)
    <3>1. /\ Len(t) = 3 /\ t[1] = Term(p.left) /\ t[2].word = p.op
          /\ t[3] = Term(p.right)
      BY <2>1, ComparisonText, SMTT(30) DEF Term
    <3>2. Where[p] = t
      BY <2>0, <2>1 DEF WhereIn
    <3>3. p.op # "IS NULL"
      BY <2>1 DEF Operators
    <3>4. \A e : Term(e).word = "operand"
      BY DEF Term
    <3> HIDE DEF t
    <3>5. Len(t) > 0 /\ \A i \in 1..(Len(t) - 1) : i + 1 = 2 \/ i + 1 = 3
      <4>1. Len(t) = 3
        BY <3>1, Zenon
      <4> QED
        BY <4>1
    <3>6. t[1].word # "IS NULL" /\ t[2].word # "IS NULL" /\ t[3].word # "IS NULL"
      BY <3>1, <3>3, <3>4
    <3> QED
      BY <3>2, <3>5, <3>6, Zenon DEF Tidy, Untyped
  <2>2. CASE p.node = "IsNull" /\ p.of \in Operands
    <3> DEFINE t == WhereOperand(p.of) \o Key("IS NULL")
    <3>1. Len(t) = 2 /\ t[1] = Term(p.of)
      BY <2>2, IsNullText, Zenon DEF Term
    <3>2. Where[p] = t
      BY <2>0, <2>2 DEF WhereIn
    <3>3. p.of.expr = "Identifier"
      BY <2>0, <2>2 DEF Named, PartsIn
    <3> HIDE DEF t
    <3>4. Len(t) > 0 /\ \A i \in 1..(Len(t) - 1) : i = 1
      <4>1. Len(t) = 2
        BY <3>1, Zenon
      <4> QED
        BY <4>1
    <3>5. t[1].word # "IS NULL" /\ ~IsArg(t[1])
      BY <3>1, <3>3 DEF Term, IsArg
    <3> QED
      BY <3>2, <3>4, <3>5, Zenon DEF Tidy, Untyped
  <2>3. CASE p.node = "True"
    BY <2>0, <2>3, TidyWord DEF WhereIn, TrueSql, Words
  <2>4. CASE p.node \in {"And", "Or"} /\ p.left \in Under(p) /\ p.right \in Under(p)
    <3>1. Named(p.left) /\ Named(p.right)
      BY <2>0, <2>4 DEF Named, PartsIn
    <3>2. Tidy(Where[p.left]) /\ Tidy(Where[p.right])
      BY <1>1, <2>4, <3>1
    <3>3. Where[p.left] \in Text /\ Where[p.right] \in Text
      BY <2>4, WhereDefined DEF Under
    <3> DEFINE l == Where[p.left]  r == Where[p.right]
    <3>4. Where[p] = AndSql(l, r) \/ Where[p] = OrSql(l, r)
      BY <2>0, <2>4 DEF WhereIn
    <3> HIDE DEF l, r
    <3>5. l \in Text /\ r \in Text /\ Tidy(l) /\ Tidy(r)
      BY <3>2, <3>3 DEF l, r
    <3>6. Tidy(AndSql(l, r))
      <4>1. l \o Key("AND") \in Text /\ Tidy(l \o Key("AND"))
        BY <2>k, <2>j, <3>5
      <4> QED
        BY <2>j, <3>5, <4>1 DEF AndSql
    <3>7. Tidy(OrSql(l, r))
      <4>1. Key("(") \o l \in Text /\ Tidy(Key("(") \o l)
        BY <2>k, <2>j, <3>5
      <4>2. Key("(") \o l \o Key("OR") \in Text /\ Tidy(Key("(") \o l \o Key("OR"))
        BY <2>k, <2>j, <4>1
      <4>3. Key("(") \o l \o Key("OR") \o r \in Text /\ Tidy(Key("(") \o l \o Key("OR") \o r)
        BY <2>j, <3>5, <4>2
      <4> QED
        BY <2>k, <2>j, <4>3 DEF OrSql
    <3> QED
      BY <3>4, <3>6, <3>7
  <2>5. CASE p.node = "Not" /\ p.pred \in Under(p)
    <3>1. Named(p.pred)
      BY <2>0, <2>5 DEF Named, PartsIn
    <3> DEFINE l == Where[p.pred]
    <3>2. l \in Text /\ Tidy(l)
      BY <1>1, <2>5, <3>1, WhereDefined DEF Under
    <3>3. Where[p] = NotWhere(l)
      BY <2>0, <2>5 DEF WhereIn
    <3> HIDE DEF l
    <3>4. Key("NOT") \o Key("(") \in Text /\ Tidy(Key("NOT") \o Key("("))
      BY <2>k, <2>j
    <3>5. Key("NOT") \o Key("(") \o l \in Text /\ Tidy(Key("NOT") \o Key("(") \o l)
      BY <2>j, <3>2, <3>4
    <3>6. /\ Key("NOT") \o Key("(") \o l \o Key("NOT") \in Text
          /\ Tidy(Key("NOT") \o Key("(") \o l \o Key("NOT"))
      BY <2>k, <2>j, <3>5
    <3>7. Tidy(NotWhere(l))
      BY <2>k, <2>j, <3>6 DEF NotWhere
    <3> QED
      BY <3>3, <3>7
  <2> QED
    BY <2>1, <2>2, <2>3, <2>4, <2>5, Shapes DEF Under
<1> HIDE DEF S
<1>2. Predicates \subseteq S
  BY <1>1, PartsInduction
<1> QED
  BY <1>2 DEF S
----------------------------------------------------------------------------
(* The theorems *)

\* What is shown and what is fetched are of the predicate, which stays the same.
Inv ==
    /\ predicate \in Predicates
    /\ shown # None => shown = Shown[predicate]
    /\ fetched # None => fetched = Rows(Where[predicate])

THEOREM Invariant == Spec => []Inv
<1>1. Init => Inv
  BY DEF Init, Inv
<1>2. Inv /\ [Next]_vars => Inv'
  <2> SUFFICES ASSUME Inv, [Next]_vars PROVE Inv'
    OBVIOUS
  <2>1. CASE Show
    BY <2>1 DEF Show, Inv
  <2>2. CASE FetchStates
    BY <2>2 DEF FetchStates, Inv
  <2>3. CASE UNCHANGED vars
    BY <2>3 DEF vars, Inv
  <2> QED
    BY <2>1, <2>2, <2>3 DEF Next
<1> QED
  BY <1>1, <1>2, PTL DEF Spec

\* Of a predicate of any depth what is shown is a text of words and operands, and what is fetched
\* is rows or an error (ankql/src/selection/sql.rs, fetch_states of storage/postgres/src/lib.rs).
THEOREM TypeCorrect == Spec => []TypeOK
<1>1. Inv => TypeOK
  <2> SUFFICES ASSUME Inv PROVE TypeOK
    OBVIOUS
  <2>1. shown # None => shown \in Seq(Tokens)
    BY ShownDefined DEF Inv, Text
  <2>2. \A sql : Rows(sql) \in [kind : {"ok", "error", "panic"}, rows : SUBSET Items]
    BY DEF Rows
  <2> QED
    BY <2>1, <2>2 DEF Inv, TypeOK
<1> QED
  BY <1>1, Invariant, PTL

\* Whatever evaluate_predicate passes is fetched from Postgres: AND, OR and TRUE of the WHERE clause
\* of predicate.rs:64-97 say what filter.rs says, at any depth, and the query does not fail, as long
\* as it names columns there are, asks IS NULL only of them, and has no comparison that the
\* collation of the database decides differently (fetch_states, storage/postgres/src/lib.rs:64-108).
THEOREM PassedFetched == Spec => []PassedIsFetched
<1>1. Inv => PassedIsFetched
  <2> SUFFICES ASSUME Inv, fetched # None,
                      HasLiteral(predicate) => Accepted(predicate) /\ SameOrder(predicate)
               PROVE  /\ fetched.kind = "ok"
                      /\ \A i \in Items : Evaluate[predicate][i] = "true" => i \in fetched.rows
    BY DEF PassedIsFetched
  <2> DEFINE sql == Where[predicate]
  <2>0. predicate \in Predicates
    BY DEF Inv
  <2>1. fetched = Rows(sql)
    BY DEF Inv
  <2>2. HasArgs(sql) <=> HasLiteral(predicate)
    BY <2>0, WhereUses DEF HasLiteral, Uses
  <2>3. CASE ~HasLiteral(predicate)
    <3> HIDE DEF sql
    <3> QED
      BY <2>1, <2>2, <2>3 DEF Rows
  <2>4. CASE HasLiteral(predicate)
    <3>1. \A i \in Items : Close(Sees[sql][i], Evaluate[predicate][i], i \in Complete(predicate))
      BY <2>0, <2>4, WhereLike DEF Likeness, Accepted
    <3>2. \A i \in Items : /\ Sees[sql][i] # "invalid"
                           /\ Evaluate[predicate][i] = "true" => Sees[sql][i] = "true"
      BY <3>1 DEF Close
    <3>3. Unknowns(sql) = {}
      <4>1. \A e \in Uses(predicate) : e.expr = "Identifier" => ~Foreign(e) /\ e.name \in Columns
        BY <2>4 DEF Accepted, Askable, Uses
      <4> QED
        BY <2>0, <4>1, WhereUses
    <3>4. ~Untyped(sql)
      BY <2>0, <2>4, WhereTidy DEF Accepted, Named, Tidy
    <3> HIDE DEF sql
    <3> QED
      BY <2>1, <2>2, <2>4, <3>2, <3>3, <3>4 DEF Rows
  <2> QED
    BY <2>3, <2>4
<1> QED
  BY <1>1, Invariant, PTL

\* Whatever is fetched for a predicate with a literal passes evaluate_predicate, or lacks a property
\* it is asked for: a literal at any depth makes fetch_states add the WHERE clause
\* (storage/postgres/src/lib.rs:77-81).  No more is said where the collation of the database decides
\* a comparison differently.
THEOREM FetchedPasses == Spec => []FetchedIsPassed
<1>1. Inv => FetchedIsPassed
  <2> SUFFICES ASSUME Inv, fetched # None, fetched.kind = "ok", HasLiteral(predicate),
                      SameOrder(predicate), NEW i \in fetched.rows
               PROVE  Evaluate[predicate][i]
                          \in (IF i \in Complete(predicate) THEN {"true"} ELSE {"true", "error"})
    BY DEF FetchedIsPassed
  <2> DEFINE sql == Where[predicate]
  <2>0. predicate \in Predicates
    BY DEF Inv
  <2>1. fetched = Rows(sql) /\ HasArgs(sql)
    BY <2>0, WhereUses DEF Inv, HasLiteral, Uses
  <2> HIDE DEF sql
  <2>2. i \in Items /\ Sees[sql][i] = "true" /\ Unknowns(sql) = {}
    BY <2>1 DEF Rows
  <2> USE DEF sql
  <2>3. Askable(predicate)
    <3>1. ~HasNot(predicate)
      BY <2>0, <2>2, WhereLike DEF Likeness
    <3>2. \A e \in Uses(predicate) : ~Foreign(e)
      BY <2>0, <2>2, WhereUses DEF Foreign
    <3> QED
      BY <3>1, <3>2 DEF Askable, HasNot, Uses
  <2>4. Close(Sees[sql][i], Evaluate[predicate][i], i \in Complete(predicate))
    BY <2>0, <2>2, <2>3, WhereLike DEF Likeness
  <2> QED
    BY <2>2, <2>4 DEF Close
<1> QED
  BY <1>1, Invariant, PTL

\* What a readable predicate is shown as means what the predicate means, however deep it nests
\* (ankql/src/selection/sql.rs:33-48).
THEOREM ShownIsMeant == Spec => []ShownMeans
<1>1. Inv => ShownMeans
  BY ShownTruthful DEF Inv, ShownMeans, Truthful
<1> QED
  BY <1>1, Invariant, PTL
============================================================================
