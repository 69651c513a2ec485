----------------------- MODULE ComparisonIndexProofs -----------------------
(***************************************************************************)
(* The index of one field.  First comparison by comparison: for all        *)
(* strings, what a comparison accepts is found under a key the comparison  *)
(* is entered under, for the comparisons called reliable, and nothing else *)
(* is, for those called precise.  Then with its subscriptions: what is     *)
(* entered and taken out stays exact, and so the index offers the          *)
(* subscriptions it should and no others, for every set of predicates of   *)
(* any depth.                                                              *)
(***************************************************************************)
EXTENDS ComparisonIndex, Recursion, SequenceTheorems, FiniteSetTheorems

Bytes == Seq(Nat)

\* The values for which find_matching finds what the comparison was entered as.
Offered(leaf, v) == \E slot \in Entry(leaf) : Found(slot[1], slot[2], v)

----------------------------------------------------------------------------
\* The order of byte strings.

\* Two strings that agree on all positions are the same.
LEMMA SameString ==
    ASSUME NEW a \in Bytes, NEW b \in Bytes, Len(a) = Len(b),
           \A k \in 1..Len(a) : a[k] = b[k]
    PROVE  a = b
BY SeqEqual, Zenon DEF Bytes

\* A zero byte is added.
LEMMA Appended ==
    ASSUME NEW a \in Bytes
    PROVE  /\ Append(a, 0) \in Bytes
           /\ Len(Append(a, 0)) = Len(a) + 1
           /\ Append(a, 0)[Len(a) + 1] = 0
           /\ \A k \in 1..Len(a) : Append(a, 0)[k] = a[k]
           /\ Len(a) \in Nat
           /\ \A k \in 1..Len(a) : a[k] \in Nat
BY AppendProperties DEF Bytes

\* What is above a is at least the next string, a with a zero byte.
LEMMA AboveIsSuccessor ==
    ASSUME NEW a \in Bytes, NEW b \in Bytes, Less(a, b)
    PROVE  AtMost(Append(a, 0), b)
<1> DEFINE c == Append(a, 0)
<1>1. /\ Len(c) = Len(a) + 1 /\ Len(a) \in Nat /\ c[Len(a) + 1] = 0
      /\ \A k \in 1..Len(a) : c[k] = a[k]
      /\ c \in Bytes
  BY Appended
<1> HIDE DEF c
<1>2. PICK n \in 1..Len(b) : DecidedAt(a, b, n)
  BY DEF Less
<1>3. /\ n \in Nat /\ Len(b) \in Nat /\ n <= Len(b) /\ n >= 1
      /\ \A k \in 1..Len(b) : b[k] \in Nat
  BY DEF Bytes
<1>4. n <= Len(a) + 1 /\ \A k \in 1..(n - 1) : c[k] = b[k]
  BY <1>1, <1>2, <1>3 DEF DecidedAt
<1>5. CASE n <= Len(a) \/ b[n] # 0
  <2>1. n <= Len(c) => c[n] < b[n]
    BY <1>1, <1>2, <1>3, <1>4, <1>5 DEF DecidedAt
  <2>2. DecidedAt(c, b, n)
    BY <1>1, <1>3, <1>4, <2>1 DEF DecidedAt
  <2> QED
    BY <2>2 DEF c, Less, AtMost
<1>6. CASE n = Len(a) + 1 /\ b[n] = 0 /\ n = Len(b)
  <2>1. Len(c) = Len(b) /\ \A k \in 1..Len(c) : c[k] = b[k]
    BY <1>1, <1>3, <1>4, <1>6
  <2>2. c = b
    BY <1>1, <2>1, SameString
  <2> QED
    BY <2>2 DEF c, AtMost
<1>7. CASE n = Len(a) + 1 /\ b[n] = 0 /\ n # Len(b)
  <2>1. n + 1 \in 1..Len(b) /\ n + 1 <= Len(c) + 1 /\ ~(n + 1 <= Len(c))
    BY <1>1, <1>3, <1>7
  <2>2. \A k \in 1..((n + 1) - 1) : c[k] = b[k]
    BY <1>1, <1>3, <1>4, <1>7
  <2>3. DecidedAt(c, b, n + 1)
    BY <2>1, <2>2 DEF DecidedAt
  <2> QED
    BY <2>1, <2>3 DEF c, Less, AtMost
<1>8. n <= Len(a) \/ n = Len(a) + 1
  BY <1>1, <1>3, <1>4
<1> QED
  BY <1>5, <1>6, <1>7, <1>8

\* And the other way round.
LEMMA SuccessorIsAbove ==
    ASSUME NEW a \in Bytes, NEW b \in Bytes, AtMost(Append(a, 0), b)
    PROVE  Less(a, b)
<1> DEFINE c == Append(a, 0)
<1>1. /\ Len(c) = Len(a) + 1 /\ Len(a) \in Nat /\ c[Len(a) + 1] = 0
      /\ \A k \in 1..Len(a) : c[k] = a[k]
  BY Appended
<1>0. Len(b) \in Nat
  BY DEF Bytes
<1> HIDE DEF c
<1>2. CASE c = b
  <2>1. /\ Len(a) + 1 \in 1..Len(b) /\ \A k \in 1..((Len(a) + 1) - 1) : a[k] = b[k]
        /\ Len(a) + 1 <= Len(a) + 1 /\ ~(Len(a) + 1 <= Len(a))
    BY <1>1, <1>2
  <2>2. DecidedAt(a, b, Len(a) + 1)
    BY <2>1 DEF DecidedAt
  <2> QED
    BY <2>1, <2>2 DEF Less
<1>3. CASE Less(c, b)
  <2>1. PICK n \in 1..Len(b) : DecidedAt(c, b, n)
    BY <1>3 DEF Less
  <2>2. n \in Nat /\ n <= Len(b) /\ n >= 1
    BY <1>0
  <2>3. CASE n <= Len(a) + 1
    <3>1. \A k \in 1..(n - 1) : a[k] = b[k]
      BY <1>1, <2>1, <2>2, <2>3 DEF DecidedAt
    <3>2. n <= Len(a) => a[n] < b[n]
      BY <1>1, <2>1, <2>2 DEF DecidedAt
    <3>3. DecidedAt(a, b, n)
      BY <2>3, <3>1, <3>2 DEF DecidedAt
    <3> QED
      BY <3>3 DEF Less
  <2>4. CASE n > Len(a) + 1
    <3>1. Len(a) + 1 \in 1..Len(b) /\ Len(a) + 1 <= Len(a) + 1 /\ ~(Len(a) + 1 <= Len(a))
      BY <1>0, <1>1, <2>2, <2>4
    <3>2. \A k \in 1..((Len(a) + 1) - 1) : a[k] = b[k]
      BY <1>1, <2>1, <2>2, <2>4 DEF DecidedAt
    <3>3. DecidedAt(a, b, Len(a) + 1)
      BY <3>1, <3>2 DEF DecidedAt
    <3> QED
      BY <3>1, <3>3 DEF Less
  <2> QED
    BY <1>1, <2>2, <2>3, <2>4
<1> QED
  BY <1>2, <1>3 DEF AtMost, c

\* A zero byte after both makes no difference.
LEMMA SuccessorsOrdered ==
    ASSUME NEW a \in Bytes, NEW b \in Bytes
    PROVE  AtMost(Append(a, 0), Append(b, 0)) <=> AtMost(a, b)
<1> DEFINE d == Append(b, 0)
<1>1. /\ Len(d) = Len(b) + 1 /\ Len(b) \in Nat /\ d[Len(b) + 1] = 0
      /\ \A k \in 1..Len(b) : d[k] = b[k]
      /\ d \in Bytes
  BY Appended
<1>0. Len(a) \in Nat /\ \A k \in 1..Len(a) : a[k] \in Nat
  BY DEF Bytes
<1>6. AtMost(Append(a, 0), d) <=> Less(a, d)
  BY <1>1, AboveIsSuccessor, SuccessorIsAbove
<1> HIDE DEF d
<1>3. ASSUME Less(a, b)
      PROVE  Less(a, d)
  <2>1. PICK n \in 1..Len(b) : DecidedAt(a, b, n)
    BY <1>3 DEF Less
  <2>2. n \in 1..Len(d) /\ d[n] = b[n] /\ \A k \in 1..(n - 1) : b[k] = d[k]
    BY <1>1
  <2>3. DecidedAt(a, d, n)
    BY <2>1, <2>2 DEF DecidedAt
  <2> QED
    BY <2>2, <2>3 DEF Less
<1>4. ASSUME Less(a, d)
      PROVE  AtMost(a, b)
  <2>1. PICK n \in 1..Len(d) : DecidedAt(a, d, n)
    BY <1>4 DEF Less
  <2>2. n \in Nat /\ n >= 1 /\ n <= Len(b) + 1
    BY <1>1
  <2>3. CASE n <= Len(b)
    <3>1. n \in 1..Len(b) /\ d[n] = b[n] /\ \A k \in 1..(n - 1) : d[k] = b[k]
      BY <1>1, <2>2, <2>3
    <3>2. DecidedAt(a, b, n)
      BY <2>1, <3>1 DEF DecidedAt
    <3> QED
      BY <3>1, <3>2 DEF AtMost, Less
  <2>4. CASE n = Len(b) + 1
    <3>1. ~(n <= Len(a))
      <4> SUFFICES ASSUME n <= Len(a) PROVE FALSE
        OBVIOUS
      <4>1. a[n] < d[n] /\ d[n] = 0 /\ a[n] \in Nat
        BY <1>0, <1>1, <2>1, <2>2, <2>4 DEF DecidedAt
      <4> QED
        BY <4>1
    <3>2. Len(a) = Len(b)
      BY <1>0, <1>1, <2>1, <2>4, <3>1 DEF DecidedAt
    <3>3. \A k \in 1..Len(a) : a[k] = b[k]
      BY <1>1, <2>1, <2>4, <3>2 DEF DecidedAt
    <3> QED
      BY <3>2, <3>3, SameString DEF AtMost
  <2> QED
    BY <1>1, <2>2, <2>3, <2>4
<1>5. ASSUME a = b
      PROVE  Less(a, d)
  <2>1. /\ Len(b) + 1 \in 1..Len(d) /\ \A k \in 1..((Len(b) + 1) - 1) : b[k] = d[k]
        /\ Len(b) + 1 <= Len(b) + 1 /\ ~(Len(b) + 1 <= Len(b))
    BY <1>1
  <2>2. DecidedAt(b, d, Len(b) + 1)
    BY <2>1 DEF DecidedAt
  <2> QED
    BY <1>5, <2>1, <2>2 DEF Less
<1> QED
  BY <1>3, <1>4, <1>5, <1>6 DEF d, AtMost

\* What is left of a string that is cut off.
LEMMA Shortened ==
    ASSUME NEW a \in Bytes, NEW n \in Nat, n <= Len(a)
    PROVE  /\ Len(SubSeq(a, 1, n)) = n
           /\ \A k \in 1..n : SubSeq(a, 1, n)[k] = a[k]
<1>1. 1 \in Int /\ n \in Int /\ \A k \in 1..n : a[k] \in Nat
  BY DEF Bytes
<1>2. /\ Len(SubSeq(a, 1, n)) = IF 1 <= n THEN n - 1 + 1 ELSE 0
      /\ \A k \in 1..(n - 1 + 1) : SubSeq(a, 1, n)[k] = a[1 + k - 1]
  BY <1>1, SubSeqProperties
<1> QED
  BY <1>2

\* Without its last byte a string is below whatever the string is at most.
LEMMA PrefixIsBelow ==
    ASSUME NEW a \in Bytes, NEW b \in Bytes, a # <<>>, AtMost(a, b)
    PROVE  Less(SubSeq(a, 1, Len(a) - 1), b)
<1> DEFINE c == SubSeq(a, 1, Len(a) - 1)
<1>1. /\ Len(a) \in Nat \ {0} /\ Len(c) = Len(a) - 1
      /\ \A k \in 1..(Len(a) - 1) : c[k] = a[k]
      /\ Len(b) \in Nat
  <2>1. Len(a) \in Nat \ {0} /\ Len(b) \in Nat
    BY EmptySeq DEF Bytes
  <2>2. Len(a) - 1 \in Nat /\ Len(a) - 1 <= Len(a)
    BY <2>1
  <2>3. Len(c) = Len(a) - 1 /\ \A k \in 1..(Len(a) - 1) : c[k] = a[k]
    BY <2>2, Shortened
  <2> QED
    BY <2>1, <2>3
<1> HIDE DEF c
<1>2. CASE a = b
  <2>1. /\ Len(a) \in 1..Len(b) /\ \A k \in 1..(Len(a) - 1) : c[k] = b[k]
        /\ Len(a) <= Len(c) + 1 /\ ~(Len(a) <= Len(c))
    BY <1>1, <1>2
  <2>2. DecidedAt(c, b, Len(a))
    BY <2>1 DEF DecidedAt
  <2> QED
    BY <2>1, <2>2 DEF c, Less
<1>3. CASE Less(a, b)
  <2>1. PICK n \in 1..Len(b) : DecidedAt(a, b, n)
    BY <1>3 DEF Less
  <2>2. n \in Nat /\ n <= Len(b) /\ n >= 1
    BY <1>1
  <2>3. CASE n < Len(a)
    <3>1. /\ n <= Len(c) + 1 /\ \A k \in 1..(n - 1) : c[k] = a[k]
          /\ c[n] = a[n] /\ n <= Len(a)
      BY <1>1, <2>2, <2>3
    <3>2. DecidedAt(c, b, n)
      BY <2>1, <3>1 DEF DecidedAt
    <3> QED
      BY <3>2 DEF c, Less
  <2>4. CASE n >= Len(a)
    <3>1. /\ Len(a) \in 1..Len(b) /\ Len(a) <= Len(c) + 1 /\ ~(Len(a) <= Len(c))
      BY <1>1, <2>2, <2>4
    <3>2. \A k \in 1..(Len(a) - 1) : c[k] = b[k]
      BY <1>1, <2>1, <2>2, <2>4 DEF DecidedAt
    <3>3. DecidedAt(c, b, Len(a))
      BY <3>1, <3>2 DEF DecidedAt
    <3> QED
      BY <3>1, <3>3 DEF c, Less
  <2> QED
    BY <1>1, <2>2, <2>3, <2>4
<1> QED
  BY <1>2, <1>3 DEF AtMost

\* A text that is at least one that starts above a key, is above the key.
LEMMA AboveKey ==
    ASSUME NEW c \in Nat, NEW m, NEW w \in Bytes, w # <<>>, c < w[1],
           NEW k, k = <<c, m>> \/ k = <<c>>, NEW v \in Bytes, AtMost(w, v)
    PROVE  Less(k, v)
<1>1. /\ Len(k) \in {1, 2} /\ k[1] = c
      /\ Len(w) \in Nat \ {0} /\ Len(v) \in Nat /\ \A n \in 1..Len(v) : v[n] \in Nat
      /\ w[1] \in Nat
  BY EmptySeq DEF Bytes
<1>2. 1 \in 1..Len(v) /\ c < v[1]
  <2>1. CASE w = v
    BY <1>1, <2>1
  <2>2. CASE Less(w, v)
    <3>1. PICK n \in 1..Len(v) : DecidedAt(w, v, n)
      BY <2>2 DEF Less
    <3>2. CASE n = 1
      BY <1>1, <3>1, <3>2 DEF DecidedAt
    <3>3. CASE n > 1
      BY <1>1, <3>1, <3>3 DEF DecidedAt
    <3> QED
      BY <1>1, <3>1, <3>2, <3>3
  <2> QED
    BY <2>1, <2>2 DEF AtMost
<1>3. DecidedAt(k, v, 1)
  BY <1>1, <1>2 DEF DecidedAt
<1> QED
  BY <1>2, <1>3 DEF Less

\* A text that is at most one that starts below a key, is below the key.
LEMMA BelowKey ==
    ASSUME NEW c \in Nat, NEW m \in Nat, NEW w \in Bytes, w # <<>>, w[1] < c,
           NEW v \in Bytes, AtMost(v, w)
    PROVE  Less(v, <<c, m>>)
<1>1. /\ Len(w) \in Nat \ {0} /\ Len(v) \in Nat /\ \A n \in 1..Len(v) : v[n] \in Nat
      /\ w[1] \in Nat
  BY EmptySeq DEF Bytes
<1>2. Len(v) = 0 \/ v[1] < c
  <2>1. CASE w = v
    BY <2>1
  <2>2. CASE Less(v, w)
    <3>1. PICK n \in 1..Len(w) : DecidedAt(v, w, n)
      BY <2>2 DEF Less
    <3>2. CASE n = 1
      BY <1>1, <3>1, <3>2 DEF DecidedAt
    <3>3. CASE n > 1
      BY <1>1, <3>1, <3>3 DEF DecidedAt
    <3> QED
      BY <1>1, <3>1, <3>2, <3>3
  <2> QED
    BY <2>1, <2>2 DEF AtMost
<1>3. DecidedAt(v, <<c, m>>, 1)
  BY <1>1, <1>2 DEF DecidedAt
<1> QED
  BY <1>3 DEF Less

\* Every text but the empty one is above the empty key.
LEMMA AboveEmpty ==
    ASSUME NEW v \in Bytes, v # <<>>
    PROVE  Less(<<>>, v)
<1>1. 1 \in 1..Len(v)
  BY EmptySeq DEF Bytes
<1>2. DecidedAt(<<>>, v, 1)
  BY DEF DecidedAt
<1> QED
  BY <1>1, <1>2 DEF Less

----------------------------------------------------------------------------
\* What is offered when a comparison has one key.
LEMMA OneKey ==
    ASSUME NEW leaf, NEW k, NEW v
    PROVE  /\ Entry(leaf) = {<<"eq", k>>} => (Offered(leaf, v) <=> k = v)
           /\ Entry(leaf) = {<<"gt", k>>} => (Offered(leaf, v) <=> Less(k, v))
           /\ Entry(leaf) = {<<"lt", k>>} => (Offered(leaf, v) <=> AtMost(Append(v, 0), k))
<1>1. ASSUME NEW m, Entry(leaf) = {<<m, k>>}
      PROVE  Offered(leaf, v) <=> Found(m, k, v)
  BY <1>1 DEF Offered
<1>2. Found("eq", k, v) <=> k = v
  BY DEF Found
<1>3. Found("gt", k, v) <=> Less(k, v)
  BY DEF Found
<1>4. Found("lt", k, v) <=> AtMost(Append(v, 0), k)
  <2>1. SuccessorBytes(Str(v)) = {Append(v, 0)}
    BY DEF SuccessorBytes, Str
  <2> QED
    BY <2>1 DEF Found
<1> QED
  BY <1>1, <1>2, <1>3, <1>4

\* The key of a comparison with a string.
LEMMA StringKey ==
    ASSUME NEW op \in Ops, NEW b \in Bytes, NEW leaf, leaf.op = op, leaf.lit = Str(b)
    PROVE  /\ op = "="  => Entry(leaf) = {<<"eq", b>>}
           /\ op = ">"  => Entry(leaf) = {<<"gt", b>>}
           /\ op = "<"  => Entry(leaf) = {<<"lt", b>>}
           /\ op = "<=" => Entry(leaf) = {<<"lt", Append(b, 0)>>}
           /\ op = ">=" /\ b # <<>> => Entry(leaf) = {<<"gt", SubSeq(b, 1, Len(b) - 1)>>}
<1>1. /\ ToBytes(Str(b)) = b
      /\ SuccessorBytes(Str(b)) = {Append(b, 0)}
      /\ PredecessorBytes(Str(b)) = IF b = <<>> THEN {} ELSE {SubSeq(b, 1, Len(b) - 1)}
  BY DEF ToBytes, SuccessorBytes, PredecessorBytes, Str
<1>2. /\ op = "="  => Entry(leaf) = {<<"eq", b>>}
      /\ op = ">"  => Entry(leaf) = {<<"gt", b>>}
      /\ op = "<"  => Entry(leaf) = {<<"lt", b>>}
  BY <1>1 DEF Entry
<1>3. op = "<=" => Entry(leaf) = {<<"lt", Append(b, 0)>>}
  BY <1>1 DEF Entry
<1>4. op = ">=" /\ b # <<>> => Entry(leaf) = {<<"gt", SubSeq(b, 1, Len(b) - 1)>>}
  BY <1>1 DEF Entry
<1> QED
  BY <1>2, <1>3, <1>4

\* What is offered for a comparison with a string.
LEMMA StringOffered ==
    ASSUME NEW op \in Ops, NEW b \in Bytes, NEW leaf, leaf.op = op, leaf.lit = Str(b),
           NEW v \in Bytes
    PROVE  /\ op = "="  => (Offered(leaf, v) <=> b = v)
           /\ op = ">"  => (Offered(leaf, v) <=> Less(b, v))
           /\ op = "<"  => (Offered(leaf, v) <=> Less(v, b))
           /\ op = "<=" => (Offered(leaf, v) <=> AtMost(v, b))
           /\ op = ">=" /\ b # <<>> => (Offered(leaf, v) <=> Less(SubSeq(b, 1, Len(b) - 1), v))
<1>1. ASSUME op = "=" PROVE Offered(leaf, v) <=> b = v
  <2>1. Entry(leaf) = {<<"eq", b>>}
    BY <1>1, StringKey
  <2> QED
    BY <2>1, OneKey
<1>2. ASSUME op = ">" PROVE Offered(leaf, v) <=> Less(b, v)
  <2>1. Entry(leaf) = {<<"gt", b>>}
    BY <1>2, StringKey
  <2> QED
    BY <2>1, OneKey
<1>3. ASSUME op = "<" PROVE Offered(leaf, v) <=> Less(v, b)
  <2>1. Entry(leaf) = {<<"lt", b>>}
    BY <1>3, StringKey
  <2>2. Offered(leaf, v) <=> AtMost(Append(v, 0), b)
    BY <2>1, OneKey
  <2> QED
    BY <2>2, AboveIsSuccessor, SuccessorIsAbove
<1>4. ASSUME op = "<=" PROVE Offered(leaf, v) <=> AtMost(v, b)
  <2>1. Entry(leaf) = {<<"lt", Append(b, 0)>>}
    BY <1>4, StringKey
  <2>2. Offered(leaf, v) <=> AtMost(Append(v, 0), Append(b, 0))
    BY <2>1, OneKey
  <2> QED
    BY <2>2, SuccessorsOrdered
<1>5. ASSUME op = ">=", b # <<>>
      PROVE  Offered(leaf, v) <=> Less(SubSeq(b, 1, Len(b) - 1), v)
  <2>1. Entry(leaf) = {<<"gt", SubSeq(b, 1, Len(b) - 1)>>}
    BY <1>5, StringKey
  <2> QED
    BY <2>1, OneKey
<1> QED
  BY <1>1, <1>2, <1>3, <1>4, <1>5

\* What a comparison of a value with a string on its right says.
LEMMA StringHolds ==
    ASSUME NEW leaf, ~leaf.literalLeft, NEW b \in Bytes, leaf.lit = Str(b), NEW v \in Bytes
    PROVE  Holds(leaf, v) <=> Compare(leaf.op, v, b)
BY DEF Holds, Str, Text

\* The three kinds of literals.
LEMMA Kinds ==
    ASSUME NEW leaf \in Comparisons
    PROVE  /\ leaf.op \in Ops
           /\ \/ leaf.lit.type = "String" /\ leaf.lit.val \in Bytes /\ leaf.lit = Str(leaf.lit.val)
              \/ leaf.lit.type = "Integer" /\ leaf.lit.val \in MinInt..MaxInt
              \/ leaf.lit.type = "Boolean" /\ leaf.lit.val \in BOOLEAN
<1>1. leaf.op \in Ops /\ leaf.lit \in Literals
  BY DEF Comparisons
<1>2. \/ leaf.lit \in [type : {"String"}, val : Bytes]
      \/ leaf.lit \in [type : {"Integer"}, val : MinInt..MaxInt]
      \/ leaf.lit \in [type : {"Boolean"}, val : BOOLEAN]
  BY <1>1, Zenon DEF Literals, Bytes
<1> HIDE DEF Bytes
<1>3. leaf.lit \in [type : {"String"}, val : Bytes]
      => leaf.lit.type = "String" /\ leaf.lit.val \in Bytes /\ leaf.lit = Str(leaf.lit.val)
  BY DEF Str
<1> QED
  BY <1>1, <1>2, <1>3

\* The text of an integer starts with a sign or a digit.
LEMMA IntegerText ==
    ASSUME NEW lit, lit.type = "Integer", lit.val \in MinInt..MaxInt
    PROVE  /\ Text(lit) \in Bytes /\ Text(lit) # <<>>
           /\ Text(lit)[1] \in Minus..Digit(-MinInt)
<1>1. PICK i \in MinInt..MaxInt : lit.val = i
  OBVIOUS
<1>2. CASE i < 0
  <2>1. Text(lit) = <<Minus, Digit(-i)>> /\ Minus \in Nat /\ Digit(-i) \in Nat
    BY <1>1, <1>2 DEF Text, Minus, Digit, MinInt, MaxInt
  <2> QED
    BY <2>1 DEF Bytes, Minus, Digit, MinInt
<1>3. CASE i >= 0
  <2>1. Text(lit) = <<Digit(i)>> /\ Digit(i) \in Minus..Digit(-MinInt) /\ Digit(i) \in Nat
    BY <1>1, <1>3 DEF Text, Minus, Digit, MinInt, MaxInt
  <2> QED
    BY <2>1 DEF Bytes
<1> QED
  BY <1>2, <1>3 DEF MinInt, MaxInt

\* The first byte of an integer is a byte.
LEMMA LeadIsByte ==
    ASSUME NEW i \in MinInt..MaxInt
    PROVE  Lead(i) \in Nat
<1>1. i \in 0..3 \/ i \in 4..5 \/ i \in 6..MaxInt \/ i \in MinInt..-7 \/ i \in -6..-1
  BY DEF MinInt, MaxInt
<1> QED
  BY <1>1 DEF Lead, Digit, X7F, X80, XFF, MinInt, MaxInt

\* Whatever is at least such a text is above the key of an integer that starts low ...
LEMMA LowKey ==
    ASSUME NEW i \in MinInt..MaxInt, Low(i),
           NEW w \in Bytes, w # <<>>, w[1] \in Minus..Digit(-MinInt),
           NEW v \in Bytes, AtMost(w, v)
    PROVE  Less(BigEndian(i), v)
<1>1. Lead(i) \in Nat /\ Lead(i) < w[1]
  <2>1. Lead(i) \in Nat
    BY LeadIsByte
  <2>2. Lead(i) < Minus /\ Minus <= w[1] /\ w[1] \in Int
    BY DEF Low, Minus, Digit, MinInt
  <2> QED
    BY <2>1, <2>2 DEF Minus
<1> QED
  BY <1>1, AboveKey DEF BigEndian

\* ... and whatever is at most such a text is below one that starts high.
LEMMA HighKey ==
    ASSUME NEW i \in MinInt..MaxInt, High(i),
           NEW w \in Bytes, w # <<>>, w[1] \in Minus..Digit(-MinInt),
           NEW v \in Bytes, AtMost(v, w)
    PROVE  AtMost(Append(v, 0), BigEndian(i))
<1> DEFINE m == i % (MaxInt - MinInt + 1)
<1>1. Lead(i) \in Nat /\ w[1] < Lead(i) /\ m \in Nat
  <2>1. Lead(i) \in Nat
    BY LeadIsByte
  <2>2. Lead(i) > Digit(-MinInt) /\ w[1] <= Digit(-MinInt) /\ w[1] \in Int
    BY DEF High, Minus, Digit, MinInt
  <2>3. m \in Nat
    BY DEF MinInt, MaxInt
  <2> QED
    BY <2>1, <2>2, <2>3 DEF Digit, MinInt
<1>2. Less(v, <<Lead(i), m>>)
  BY <1>1, BelowKey
<1>3. <<Lead(i), m>> \in Bytes
  BY <1>1 DEF Bytes
<1> QED
  BY <1>2, <1>3, AboveIsSuccessor DEF BigEndian

\* A comparison that the index can be relied on for is found by every value it
\* accepts: what IndexCompleteFor needs of each comparison, for strings of every
\* length (comparision_index.rs:40-98, collation.rs).
THEOREM AcceptedIsFound ==
    ASSUME NEW leaf \in Comparisons, Reliable(leaf), NEW v \in Bytes, Holds(leaf, v)
    PROVE  Offered(leaf, v)
<1> DEFINE op == leaf.op
           lit == leaf.lit
<1>1. op \in Ops
  BY Kinds
<1>2. ~leaf.literalLeft
  BY DEF Reliable
<1>3. CASE lit.type = "String" /\ lit.val \in Bytes /\ lit = Str(lit.val)
  <2>1. PICK b \in Bytes : lit = Str(b)
    BY <1>3
  <2>2. Compare(op, v, b) /\ op \in Ops
    BY <1>1, <1>2, <2>1, StringHolds
  <2>3. CASE op = "="
    BY <2>1, <2>2, <2>3, StringOffered DEF Compare
  <2>4. CASE op = ">"
    BY <2>1, <2>2, <2>4, StringOffered DEF Compare
  <2>5. CASE op = "<"
    BY <2>1, <2>2, <2>5, StringOffered DEF Compare
  <2>6. CASE op = "<="
    BY <2>1, <2>2, <2>6, StringOffered DEF Compare
  <2>7. CASE op = ">="
    <3>1. b # <<>>
      BY <2>1, <2>7 DEF Reliable, Str
    <3>2. Less(SubSeq(b, 1, Len(b) - 1), v)
      BY <2>2, <2>7, <3>1, PrefixIsBelow DEF Compare
    <3> QED
      BY <2>1, <2>2, <2>7, <3>1, <3>2, StringOffered
  <2> QED
    BY <1>1, <2>3, <2>4, <2>5, <2>6, <2>7 DEF Ops
<1>4. CASE lit.type = "Integer" /\ lit.val \in MinInt..MaxInt
  <2>1. PICK i \in MinInt..MaxInt : lit.val = i
    BY <1>4
  <2>2. Compare(op, v, Text(lit))
    BY <1>2 DEF Holds
  <2>3. Text(lit) \in Bytes /\ Text(lit) # <<>> /\ Text(lit)[1] \in Minus..Digit(-MinInt)
    BY <1>4, <2>1, IntegerText
  <2>4. \/ op = ">"  /\ Low(i)
        \/ op = ">=" /\ Low(i - 1)
        \/ op = ">=" /\ i = MinInt
        \/ op = "<"  /\ High(i)
        \/ op = "<=" /\ High(i + 1)
    <3>1. lit.type # "String" /\ lit.type # "Boolean"
      BY <1>4
    <3> QED
      BY <2>1, <3>1, Zenon DEF Reliable
  <2>5. CASE op = ">" /\ Low(i)
    <3>1. Entry(leaf) = {<<"gt", BigEndian(i)>>}
      BY <1>4, <2>1, <2>5 DEF Entry, ToBytes
    <3>2. AtMost(Text(lit), v)
      BY <2>2, <2>5 DEF Compare, AtMost
    <3>3. Less(BigEndian(i), v)
      BY <2>3, <2>5, <3>2, LowKey
    <3> QED
      BY <3>1, <3>3, OneKey
  <2>6. CASE op = ">=" /\ Low(i - 1)
    <3>1. PredecessorBytes(lit) = {BigEndian(i - 1)}
      BY <1>4, <2>1, <2>6 DEF PredecessorBytes, Low, MinInt, MaxInt
    <3>2. Entry(leaf) = {<<"gt", BigEndian(i - 1)>>}
      BY <2>6, <3>1 DEF Entry
    <3>3. AtMost(Text(lit), v)
      BY <2>2, <2>6 DEF Compare
    <3>4. i - 1 \in MinInt..MaxInt
      BY <2>6 DEF Low
    <3>5. Less(BigEndian(i - 1), v)
      BY <2>3, <2>6, <3>3, <3>4, LowKey
    <3> QED
      BY <3>2, <3>5, OneKey
  <2>7. CASE op = ">=" /\ i = MinInt
    <3>1. AtMost(Text(lit), v)
      BY <2>2, <2>7 DEF Compare
    <3>2. v # <<>>
      <4>1. Less(Text(lit), v) => Len(v) # 0
        BY DEF Less
      <4>2. Len(<<>>) = 0
        OBVIOUS
      <4> QED
        BY <2>3, <3>1, <4>1, <4>2 DEF AtMost
    <3>3. PredecessorBytes(lit) = {}
      BY <1>4, <2>1, <2>7 DEF PredecessorBytes
    <3>4. Entry(leaf) = {<<"gt", <<>>>>}
      BY <2>7, <3>3 DEF Entry
    <3> QED
      BY <3>2, <3>4, OneKey, AboveEmpty
  <2>8. CASE op = "<" /\ High(i)
    <3>1. Entry(leaf) = {<<"lt", BigEndian(i)>>}
      BY <1>4, <2>1, <2>8 DEF Entry, ToBytes
    <3>2. AtMost(v, Text(lit))
      BY <2>2, <2>8 DEF Compare, AtMost
    <3>3. AtMost(Append(v, 0), BigEndian(i))
      BY <2>3, <2>8, <3>2, HighKey
    <3> QED
      BY <3>1, <3>3, OneKey
  <2>9. CASE op = "<=" /\ High(i + 1)
    <3>1. SuccessorBytes(lit) = {BigEndian(i + 1)}
      BY <1>4, <2>1, <2>9 DEF SuccessorBytes, High, MinInt, MaxInt
    <3>2. Entry(leaf) = {<<"lt", BigEndian(i + 1)>>}
      BY <2>9, <3>1 DEF Entry
    <3>3. AtMost(v, Text(lit))
      BY <2>2, <2>9 DEF Compare
    <3>4. i + 1 \in MinInt..MaxInt
      BY <2>9 DEF High
    <3>5. AtMost(Append(v, 0), BigEndian(i + 1))
      BY <2>3, <2>9, <3>3, <3>4, HighKey
    <3> QED
      BY <3>2, <3>5, OneKey
  <2> QED
    BY <2>4, <2>5, <2>6, <2>7, <2>8, <2>9
<1>5. CASE lit.type = "Boolean" /\ lit.val \in BOOLEAN
  <2>1. Compare(op, v, Text(lit)) /\ op \in {">", ">="}
    BY <1>2, <1>5 DEF Holds, Reliable
  <2>2. PICK w \in Bytes : w = Text(lit) /\ w # <<>> /\ w[1] > 1
    <3>1. Text(lit) \in {<<LetterT>>, <<LetterF>>}
      BY <1>5 DEF Text
    <3>2. ASSUME NEW n \in {LetterT, LetterF}
          PROVE  <<n>> \in Bytes /\ <<n>> # <<>> /\ <<n>>[1] > 1
      BY DEF Bytes, LetterT, LetterF
    <3> QED
      BY <3>1, <3>2
  <2>3. AtMost(w, v)
    BY <2>1, <2>2 DEF Compare, AtMost
  <2>4. ASSUME NEW c \in {0, 1}
        PROVE  Less(<<c>>, v)
    <3>1. \A n \in Nat : n > 1 => c < n
      OBVIOUS
    <3>2. 1 \in 1..Len(w) /\ w[1] \in Nat
      BY <2>2, EmptySeq DEF Bytes
    <3>3. c \in Nat /\ c < w[1] /\ w # <<>>
      BY <2>2, <3>1, <3>2
    <3> QED
      BY <2>3, <3>3, AboveKey
  <2>5. CASE op = ">"
    <3>1. PICK c \in {0, 1} : ToBytes(lit) = <<c>>
      BY <1>5 DEF ToBytes
    <3>2. Entry(leaf) = {<<"gt", <<c>>>>}
      BY <2>5, <3>1 DEF Entry
    <3> QED
      BY <2>4, <3>2, OneKey
  <2>6. CASE op = ">=" /\ lit.val
    <3>1. PredecessorBytes(lit) = {<<0>>}
      BY <1>5, <2>6 DEF PredecessorBytes
    <3>2. Entry(leaf) = {<<"gt", <<0>>>>}
      BY <2>6, <3>1 DEF Entry
    <3> QED
      BY <2>4, <3>2, OneKey
  <2>7. CASE op = ">=" /\ ~lit.val
    <3>1. PredecessorBytes(lit) = {}
      BY <1>5, <2>7 DEF PredecessorBytes
    <3>2. Entry(leaf) = {<<"gt", <<>>>>}
      BY <2>7, <3>1 DEF Entry
    <3>3. v # <<>>
      <4>1. Less(<<0>>, v) => Len(v) # 0
        BY DEF Less
      <4>2. Len(<<>>) = 0
        OBVIOUS
      <4> QED
        BY <2>4, <4>1, <4>2
    <3> QED
      BY <3>2, <3>3, OneKey, AboveEmpty
  <2> QED
    BY <2>1, <2>5, <2>6, <2>7
<1> QED
  BY <1>3, <1>4, <1>5, Kinds

\* What the index of strings finds for a comparison, but for >=, the comparison
\* accepts: nobody is asked about a value that none of the comparisons wants
\* (IndexPrecise, for strings of every length).
THEOREM FoundIsAccepted ==
    ASSUME NEW leaf \in Comparisons, Precise(leaf), NEW v \in Bytes, Offered(leaf, v)
    PROVE  Holds(leaf, v)
<1> DEFINE op == leaf.op
<1>1. op \in Ops
  BY Kinds
<1>2. ~leaf.literalLeft /\ op # ">=" /\ leaf.lit.type = "String"
  BY DEF Precise
<1>3. PICK b \in Bytes : leaf.lit = Str(b)
  BY <1>2, Kinds
<1>4. op \in Ops /\ leaf.lit = Str(b)
  BY <1>1, <1>3
<1>5. Compare(op, v, b)
  <2>1. CASE op = "="
    <3>1. b = v
      BY <1>4, <2>1, StringOffered
    <3> QED
      BY <2>1, <3>1 DEF Compare
  <2>2. CASE op = ">"
    BY <1>4, <2>2, StringOffered DEF Compare
  <2>3. CASE op = "<"
    BY <1>4, <2>3, StringOffered DEF Compare
  <2>4. CASE op = "<="
    BY <1>4, <2>4, StringOffered DEF Compare
  <2> QED
    BY <1>1, <1>2, <2>1, <2>2, <2>3, <2>4 DEF Ops
<1> QED
  BY <1>2, <1>4, <1>5, StringHolds

----------------------------------------------------------------------------
\* Predicates are finite trees.

\* What a predicate may be.
LEMMA Shapes ==
    ASSUME NEW p \in Predicates
    PROVE  \/ p.node = "Comparison" /\ p \in Comparisons
           \/ p.node = "True" /\ p = True_
           \/ p.node \in {"And", "Or"} /\ p.left \in Below(p) /\ p.right \in Below(p)
           \/ p.node = "Not" /\ p.pred \in Below(p)
<1>1. CASE p \in Comparisons
  BY <1>1 DEF Comparisons
<1>2. CASE p = True_
  BY <1>2 DEF True_
<1>3. CASE p \in [node : {"And", "Or"}, left : Below(p), right : Below(p)]
  BY <1>3
<1>4. CASE p \in [node : {"Not"}, pred : Below(p)]
  BY <1>4
<1> QED
  BY <1>1, <1>2, <1>3, <1>4, TreesAssumption

\* Its parts are less deep.
LEMMA Deeper ==
    ASSUME NEW p \in Predicates, NEW q \in Below(p)
    PROVE  q \in Predicates /\ Depth[q] < Depth[p]
BY DEF Below

\* So the depth is a rank.
LEMMA DepthsAreRanks == IsRank(Predicates, Depth)
BY TreesAssumption DEF IsRank

\* What holds of every predicate whose parts it holds of, holds of all.
LEMMA PartsInduction ==
    ASSUME NEW S, \A p \in Predicates : Below(p) \subseteq S => p \in S
    PROVE  Predicates \subseteq S
<1>1. ASSUME NEW p \in Predicates, \A q \in Predicates : Depth[q] < Depth[p] => q \in S
      PROVE  p \in S
  BY <1>1, Deeper
<1>2. Depth \in [Predicates -> Nat]
  BY TreesAssumption
<1> QED
  BY <1>1, <1>2, RankInduction

\* A rule that asks only for the parts of a predicate has a solution.
LEMMA PartsRecursion ==
    ASSUME NEW V, V # {}, NEW rule, IsRule(Predicates, V, rule),
           \A p \in Predicates : \A g, h \in [Predicates -> V] :
               (\A q \in Below(p) : g[q] = h[q]) => rule[p][g] = rule[p][h]
    PROVE  \E f : Solves(f, Predicates, V, rule)
<1>1. ASSUME NEW p \in Predicates, NEW g \in [Predicates -> V], NEW h \in [Predicates -> V],
             Agree(g, h, Predicates, Depth, Depth[p])
      PROVE  rule[p][g] = rule[p][h]
  <2>1. \A q \in Below(p) : g[q] = h[q]
    BY <1>1, Deeper DEF Agree
  <2> QED
    BY <2>1
<1>2. Local(Predicates, V, Depth, rule)
  BY <1>1 DEF Local
<1> QED
  BY <1>2, DepthsAreRanks, RankRecursion

----------------------------------------------------------------------------
\* The recursive definitions, one by one: the body as an operator of the function
\* that it asks for the parts, the type of the body, and that the function is what
\* its body says, and of which type.

\* The comparisons that may be entered.
Entered == Predicates \cap Comparisons

LeavesOf(p, f) ==
    IF p.node = "Comparison" THEN <<p>>
    ELSE IF p.node \in {"And", "Or"} THEN f[p.left] \o f[p.right]
    ELSE IF p.node = "Not" THEN f[p.pred]
    ELSE <<>>

\* The type of the body.
LEMMA LeavesOfType ==
    ASSUME NEW p \in Predicates, NEW g, \A q \in Below(p) : g[q] \in Seq(Entered)
    PROVE  LeavesOf(p, g) \in Seq(Entered)
<1> DEFINE V == Seq(Entered)
<1>1. CASE p.node = "Comparison" /\ p \in Comparisons
  <2>1. p \in Entered
    BY <1>1 DEF Entered
  <2> QED
    BY <1>1, <2>1 DEF LeavesOf
<1>2. CASE p.node \in {"And", "Or"} /\ p.left \in Below(p) /\ p.right \in Below(p)
  <2>1. g[p.left] \in V /\ g[p.right] \in V
    BY <1>2
  <2> QED
    BY <1>2, <2>1, ConcatProperties DEF LeavesOf
<1>3. CASE p.node = "Not" /\ p.pred \in Below(p)
  BY <1>3 DEF LeavesOf
<1>4. CASE p.node = "True"
  BY <1>4, EmptySeq DEF LeavesOf
<1> QED
  BY <1>1, <1>2, <1>3, <1>4, Shapes

\* There is such a function: Leaves is it.
LEMMA LeavesDefined ==
    /\ Leaves \in [Predicates -> Seq(Entered)]
    /\ \A p \in Predicates : Leaves[p] = LeavesOf(p, Leaves)
<1> DEFINE V == Seq(Entered)
           rule == [p \in Predicates |-> [g \in [Predicates -> V] |-> LeavesOf(p, g)]]
<1>1. V # {}
  BY EmptySeq
<1>2. ASSUME NEW p \in Predicates, NEW g \in [Predicates -> V]
      PROVE  LeavesOf(p, g) \in V
  BY Deeper, LeavesOfType
<1>3. IsRule(Predicates, V, rule)
  BY <1>2 DEF IsRule
<1>4. ASSUME NEW p \in Predicates, NEW g, NEW h, \A q \in Below(p) : g[q] = h[q]
      PROVE  LeavesOf(p, g) = LeavesOf(p, h)
  BY <1>4, Shapes DEF LeavesOf
<1>5. \A p \in Predicates : \A g, h \in [Predicates -> V] :
          (\A q \in Below(p) : g[q] = h[q]) => rule[p][g] = rule[p][h]
  BY <1>4
<1>6. \A f : Solves(f, Predicates, V, rule)
             => f = [p \in Predicates |-> LeavesOf(p, f)]
  BY DEF Solves
<1> HIDE DEF V, rule
<1>7. PICK f : f = [p \in Predicates |-> LeavesOf(p, f)]
  BY <1>1, <1>3, <1>5, <1>6, PartsRecursion
<1>8. Leaves = CHOOSE g : g = [p \in Predicates |-> LeavesOf(p, g)]
  BY DEF Leaves, LeavesOf
<1>9. Leaves = [p \in Predicates |-> LeavesOf(p, Leaves)]
  BY <1>7, <1>8
<1>10. \A p \in Predicates : Leaves[p] = LeavesOf(p, Leaves)
  BY <1>9
<1> DEFINE S == {p \in Predicates : Leaves[p] \in V}
<1>11. Predicates \subseteq S
  <2>1. ASSUME NEW p \in Predicates, Below(p) \subseteq S
        PROVE  p \in S
    BY <1>10, <2>1, LeavesOfType DEF V
  <2> HIDE DEF S
  <2> QED
    BY <2>1, PartsInduction
<1> QED
  BY <1>9, <1>10, <1>11 DEF V

HasTrueOf(p, f) ==
    IF p.node \in {"And", "Or"} THEN f[p.left] \/ f[p.right]
    ELSE IF p.node = "Not" THEN f[p.pred]
    ELSE p = True_

\* The type of the body.
LEMMA HasTrueOfType ==
    ASSUME NEW p \in Predicates, NEW g, \A q \in Below(p) : g[q] \in BOOLEAN
    PROVE  HasTrueOf(p, g) \in BOOLEAN
<1>1. CASE p.node = "Comparison"
  BY <1>1 DEF HasTrueOf
<1>2. CASE p.node \in {"And", "Or"} /\ p.left \in Below(p) /\ p.right \in Below(p)
  BY <1>2 DEF HasTrueOf
<1>3. CASE p.node = "Not" /\ p.pred \in Below(p)
  BY <1>3 DEF HasTrueOf
<1>4. CASE p.node = "True"
  BY <1>4 DEF HasTrueOf
<1> QED
  BY <1>1, <1>2, <1>3, <1>4, Shapes

\* There is such a function: HasTrue is it.
LEMMA HasTrueDefined ==
    /\ HasTrue \in [Predicates -> BOOLEAN]
    /\ \A p \in Predicates : HasTrue[p] = HasTrueOf(p, HasTrue)
<1> DEFINE V == BOOLEAN
           rule == [p \in Predicates |-> [g \in [Predicates -> V] |-> HasTrueOf(p, g)]]
<1>1. V # {}
  OBVIOUS
<1>2. ASSUME NEW p \in Predicates, NEW g \in [Predicates -> V]
      PROVE  HasTrueOf(p, g) \in V
  BY Deeper, HasTrueOfType
<1>3. IsRule(Predicates, V, rule)
  BY <1>2 DEF IsRule
<1>4. ASSUME NEW p \in Predicates, NEW g, NEW h, \A q \in Below(p) : g[q] = h[q]
      PROVE  HasTrueOf(p, g) = HasTrueOf(p, h)
  BY <1>4, Shapes DEF HasTrueOf
<1>5. \A p \in Predicates : \A g, h \in [Predicates -> V] :
          (\A q \in Below(p) : g[q] = h[q]) => rule[p][g] = rule[p][h]
  BY <1>4
<1>6. \A f : Solves(f, Predicates, V, rule)
             => f = [p \in Predicates |-> HasTrueOf(p, f)]
  BY DEF Solves
<1> HIDE DEF V, rule
<1>7. PICK f : f = [p \in Predicates |-> HasTrueOf(p, f)]
  BY <1>1, <1>3, <1>5, <1>6, PartsRecursion
<1>8. HasTrue = CHOOSE g : g = [p \in Predicates |-> HasTrueOf(p, g)]
  BY DEF HasTrue, HasTrueOf
<1>9. HasTrue = [p \in Predicates |-> HasTrueOf(p, HasTrue)]
  BY <1>7, <1>8
<1>10. \A p \in Predicates : HasTrue[p] = HasTrueOf(p, HasTrue)
  BY <1>9
<1> DEFINE S == {p \in Predicates : HasTrue[p] \in V}
<1>11. Predicates \subseteq S
  <2>1. ASSUME NEW p \in Predicates, Below(p) \subseteq S
        PROVE  p \in S
    BY <1>10, <2>1, HasTrueOfType DEF V
  <2> HIDE DEF S
  <2> QED
    BY <2>1, PartsInduction
<1> QED
  BY <1>9, <1>10, <1>11 DEF V

PositiveOf(p, f) ==
    IF p.node = "Comparison" THEN Reliable(p)
    ELSE IF p.node \in {"And", "Or"} THEN f[p.left] /\ f[p.right]
    ELSE p = True_

\* The type of the body.
LEMMA PositiveOfType ==
    ASSUME NEW p \in Predicates, NEW g, \A q \in Below(p) : g[q] \in BOOLEAN
    PROVE  PositiveOf(p, g) \in BOOLEAN
<1>1. CASE p.node = "Comparison"
  BY <1>1 DEF PositiveOf, Reliable
<1>2. CASE p.node \in {"And", "Or"} /\ p.left \in Below(p) /\ p.right \in Below(p)
  BY <1>2 DEF PositiveOf
<1>3. CASE p.node = "Not" /\ p.pred \in Below(p)
  BY <1>3 DEF PositiveOf
<1>4. CASE p.node = "True"
  BY <1>4 DEF PositiveOf
<1> QED
  BY <1>1, <1>2, <1>3, <1>4, Shapes

\* There is such a function: Positive is it.
LEMMA PositiveDefined ==
    /\ Positive \in [Predicates -> BOOLEAN]
    /\ \A p \in Predicates : Positive[p] = PositiveOf(p, Positive)
<1> DEFINE V == BOOLEAN
           rule == [p \in Predicates |-> [g \in [Predicates -> V] |-> PositiveOf(p, g)]]
<1>1. V # {}
  OBVIOUS
<1>2. ASSUME NEW p \in Predicates, NEW g \in [Predicates -> V]
      PROVE  PositiveOf(p, g) \in V
  BY Deeper, PositiveOfType
<1>3. IsRule(Predicates, V, rule)
  BY <1>2 DEF IsRule
<1>4. ASSUME NEW p \in Predicates, NEW g, NEW h, \A q \in Below(p) : g[q] = h[q]
      PROVE  PositiveOf(p, g) = PositiveOf(p, h)
  BY <1>4, Shapes DEF PositiveOf
<1>5. \A p \in Predicates : \A g, h \in [Predicates -> V] :
          (\A q \in Below(p) : g[q] = h[q]) => rule[p][g] = rule[p][h]
  BY <1>4
<1>6. \A f : Solves(f, Predicates, V, rule)
             => f = [p \in Predicates |-> PositiveOf(p, f)]
  BY DEF Solves
<1> HIDE DEF V, rule
<1>7. PICK f : f = [p \in Predicates |-> PositiveOf(p, f)]
  BY <1>1, <1>3, <1>5, <1>6, PartsRecursion
<1>8. Positive = CHOOSE g : g = [p \in Predicates |-> PositiveOf(p, g)]
  BY DEF Positive, PositiveOf
<1>9. Positive = [p \in Predicates |-> PositiveOf(p, Positive)]
  BY <1>7, <1>8
<1>10. \A p \in Predicates : Positive[p] = PositiveOf(p, Positive)
  BY <1>9
<1> DEFINE S == {p \in Predicates : Positive[p] \in V}
<1>11. Predicates \subseteq S
  <2>1. ASSUME NEW p \in Predicates, Below(p) \subseteq S
        PROVE  p \in S
    BY <1>10, <2>1, PositiveOfType DEF V
  <2> HIDE DEF S
  <2> QED
    BY <2>1, PartsInduction
<1> QED
  BY <1>9, <1>10, <1>11 DEF V

\* What Evaluate may say, and of what.
Verdicts == {"true", "false", "error"}

Values == Texts \cup {None}

EvaluateOf(p, f) ==
    [v \in Texts \cup {None} |->
        IF p.node = "Comparison" THEN
             IF v = None THEN "error" ELSE IF Holds(p, v) THEN "true" ELSE "false"
        ELSE IF p.node = "And" THEN
             IF f[p.left][v] = "true" THEN f[p.right][v] ELSE f[p.left][v]
        ELSE IF p.node = "Or" THEN
             IF f[p.left][v] = "false" THEN f[p.right][v] ELSE f[p.left][v]
        ELSE IF p.node = "Not" THEN
             IF f[p.pred][v] = "error" THEN "error"
             ELSE IF f[p.pred][v] = "true" THEN "false" ELSE "true"
        ELSE "true"]

\* The type of the body.
LEMMA EvaluateOfType ==
    ASSUME NEW p \in Predicates, NEW g, \A q \in Below(p) : g[q] \in [Values -> Verdicts]
    PROVE  EvaluateOf(p, g) \in [Values -> Verdicts]
<1>1. CASE p.node = "Comparison"
  BY <1>1 DEF EvaluateOf, Values, Verdicts
<1>2. CASE p.node \in {"And", "Or"} /\ p.left \in Below(p) /\ p.right \in Below(p)
  BY <1>2 DEF EvaluateOf, Values, Verdicts
<1>3. CASE p.node = "Not" /\ p.pred \in Below(p)
  BY <1>3 DEF EvaluateOf, Values, Verdicts
<1>4. CASE p.node = "True"
  BY <1>4 DEF EvaluateOf, Values, Verdicts
<1> QED
  BY <1>1, <1>2, <1>3, <1>4, Shapes

\* There is such a function: Evaluate is it.
LEMMA EvaluateDefined ==
    /\ Evaluate \in [Predicates -> [Values -> Verdicts]]
    /\ \A p \in Predicates : Evaluate[p] = EvaluateOf(p, Evaluate)
<1> DEFINE V == [Values -> Verdicts]
           rule == [p \in Predicates |-> [g \in [Predicates -> V] |-> EvaluateOf(p, g)]]
<1>1. V # {}
  <2>1. [v \in Values |-> "true"] \in V
    BY DEF Verdicts
  <2> QED
    BY <2>1
<1>2. ASSUME NEW p \in Predicates, NEW g \in [Predicates -> V]
      PROVE  EvaluateOf(p, g) \in V
  BY Deeper, EvaluateOfType
<1>3. IsRule(Predicates, V, rule)
  BY <1>2 DEF IsRule
<1>4. ASSUME NEW p \in Predicates, NEW g, NEW h, \A q \in Below(p) : g[q] = h[q]
      PROVE  EvaluateOf(p, g) = EvaluateOf(p, h)
  BY <1>4, Shapes DEF EvaluateOf
<1>5. \A p \in Predicates : \A g, h \in [Predicates -> V] :
          (\A q \in Below(p) : g[q] = h[q]) => rule[p][g] = rule[p][h]
  BY <1>4
<1>6. \A f : Solves(f, Predicates, V, rule)
             => f = [p \in Predicates |-> EvaluateOf(p, f)]
  BY DEF Solves
<1> HIDE DEF V, rule
<1>7. PICK f : f = [p \in Predicates |-> EvaluateOf(p, f)]
  BY <1>1, <1>3, <1>5, <1>6, PartsRecursion
<1>8. Evaluate = CHOOSE g : g = [p \in Predicates |-> EvaluateOf(p, g)]
  BY DEF Evaluate, EvaluateOf
<1>9. Evaluate = [p \in Predicates |-> EvaluateOf(p, Evaluate)]
  BY <1>7, <1>8
<1>10. \A p \in Predicates : Evaluate[p] = EvaluateOf(p, Evaluate)
  BY <1>9
<1> DEFINE S == {p \in Predicates : Evaluate[p] \in V}
<1>11. Predicates \subseteq S
  <2>1. ASSUME NEW p \in Predicates, Below(p) \subseteq S
        PROVE  p \in S
    BY <1>10, <2>1, EvaluateOfType DEF V
  <2> HIDE DEF S
  <2> QED
    BY <2>1, PartsInduction
<1> QED
  BY <1>9, <1>10, <1>11 DEF V

----------------------------------------------------------------------------
\* How often a predicate is entered under a key.

\* The comparisons of a predicate.
LEMMA LeavesType ==
    ASSUME NEW p \in Predicates
    PROVE  /\ Leaves[p] \in Seq(Entered)
           /\ DOMAIN Leaves[p] = 1..Len(Leaves[p]) /\ Len(Leaves[p]) \in Nat
           /\ \A n \in 1..Len(Leaves[p]) :
                 Leaves[p][n] \in Predicates /\ Leaves[p][n] \in Comparisons
<1>1. Leaves[p] \in Seq(Entered)
  BY LeavesDefined
<1>2. \A n \in 1..Len(Leaves[p]) : Leaves[p][n] \in Entered
  BY <1>1
<1> QED
  BY <1>1, <1>2 DEF Entered

\* It is a number, and above zero where a comparison is entered.
LEMMA TimesEntered ==
    ASSUME NEW p \in Predicates, NEW slot
    PROVE  /\ Times(p, slot) \in Nat
           /\ Times(p, slot) > 0 <=> \E n \in 1..Len(Leaves[p]) : slot \in Entry(Leaves[p][n])
<1> DEFINE T == {n \in 1..Len(Leaves[p]) : slot \in Entry(Leaves[p][n])}
<1>1. IsFiniteSet(1..Len(Leaves[p]))
  BY LeavesType, FS_Interval
<1>2. IsFiniteSet(T)
  BY <1>1, FS_Subset
<1>3. T = {} <=> ~ \E n \in 1..Len(Leaves[p]) : slot \in Entry(Leaves[p][n])
  OBVIOUS
<1>4. Times(p, slot) = Cardinality(T)
  BY DEF Times
<1> HIDE DEF T
<1>5. Cardinality(T) \in Nat /\ (Cardinality(T) = 0 <=> T = {})
  BY <1>2, FS_CardinalityType, FS_EmptySet
<1> QED
  BY <1>3, <1>4, <1>5

\* Where a comparison of a predicate is entered is a key that the index knows.
LEMMA EntrySlots ==
    ASSUME NEW p \in Predicates, NEW n \in 1..Len(Leaves[p]), NEW slot \in Entry(Leaves[p][n])
    PROVE  slot \in Slots
BY LeavesType DEF Slots

----------------------------------------------------------------------------
\* Every variable has its type at all times.
THEOREM TypeCorrect == Spec => []TypeOK
<1>1. Init => TypeOK
  BY DEF Init, TypeOK
<1>2. TypeOK /\ [Next]_vars => TypeOK'
  <2> SUFFICES ASSUME TypeOK, [Next]_vars
               PROVE  TypeOK'
    OBVIOUS
  <2>1. ASSUME NEW s \in Subs, NEW p \in Predicates, Watch(s, p)
        PROVE  TypeOK'
    <3>1. \A slot \in Slots : index[slot] \in [Subs -> Nat] /\ Times(p, slot) \in Nat
      BY TimesEntered DEF TypeOK
    <3>2. \A slot \in Slots : [index[slot] EXCEPT ![s] = @ + Times(p, slot)] \in [Subs -> Nat]
      BY <3>1
    <3>3. index' \in [Slots -> [Subs -> Nat]]
      BY <2>1, <3>2 DEF Watch, Added
    <3>4. wildcard' \subseteq Subs
      BY <2>1 DEF Watch, TypeOK
    <3>5. preds' \in [Subs -> Predicates \cup {None}]
      BY <2>1 DEF Watch, TypeOK
    <3> QED
      BY <3>3, <3>4, <3>5 DEF TypeOK
  <2>2. ASSUME NEW s \in Subs, Unwatch(s)
        PROVE  TypeOK'
    <3>1. PICK p \in Predicates : p = preds[s]
      BY <2>2 DEF Unwatch, TypeOK
    <3>2. \A slot \in Slots : index[slot] \in [Subs -> Nat] /\ Times(p, slot) \in Nat
      BY TimesEntered DEF TypeOK
    <3>3. \A slot \in Slots :
            [index[slot] EXCEPT ![s] = IF @ >= Times(p, slot) THEN @ - Times(p, slot) ELSE 0]
            \in [Subs -> Nat]
      BY <3>2
    <3>4. index' \in [Slots -> [Subs -> Nat]]
      BY <2>2, <3>1, <3>3 DEF Unwatch, Removed
    <3>5. wildcard' \subseteq Subs
      BY <2>2 DEF Unwatch, TypeOK
    <3>6. preds' \in [Subs -> Predicates \cup {None}]
      BY <2>2 DEF Unwatch, TypeOK
    <3> QED
      BY <3>4, <3>5, <3>6 DEF TypeOK
  <2>3. CASE UNCHANGED vars
    BY <2>3 DEF vars, TypeOK
  <2> QED
    BY <2>1, <2>2, <2>3 DEF Next
<1> QED
  BY <1>1, <1>2, PTL DEF Spec

\* Under each key a subscription is exactly as often as comparisons of its
\* predicate are entered there: an entry taken out is the subscription's own,
\* also where others share the key (comparision_index.rs:68-74).
THEOREM IndexRight == Spec => []IndexExact
<1>1. Init => IndexExact
  BY DEF Init, IndexExact
<1>2. TypeOK /\ IndexExact /\ [Next]_vars => IndexExact'
  <2> SUFFICES ASSUME TypeOK, IndexExact, [Next]_vars
               PROVE  IndexExact'
    OBVIOUS
  <2>1. ASSUME NEW s \in Subs, NEW p \in Predicates, Watch(s, p)
        PROVE  IndexExact'
    <3>1. /\ preds[s] = None /\ preds' = [preds EXCEPT ![s] = p]
          /\ index' = Added(index, p, s)
          /\ wildcard' = IF HasTrue[p] THEN wildcard \cup {s} ELSE wildcard
      BY <2>1, Zenon DEF Watch
    <3>2. \A t \in Subs : preds'[t] = IF t = s THEN p ELSE preds[t]
      BY <3>1 DEF TypeOK
    <3>3. ASSUME NEW t \in Subs, NEW slot \in Slots
          PROVE  index'[slot][t] = IF t = s THEN index[slot][t] + Times(p, slot) ELSE index[slot][t]
      BY <3>1 DEF Added, TypeOK
    <3>4. ASSUME NEW t \in Subs, NEW slot \in Slots
          PROVE  index'[slot][t] = IF preds'[t] = None THEN 0 ELSE Times(preds'[t], slot)
      BY <3>1, <3>2, <3>3, TimesEntered, NoneAssumption DEF IndexExact
    <3>5. ASSUME NEW t \in Subs
          PROVE  t \in wildcard' <=> preds'[t] # None /\ HasTrue[preds'[t]]
      BY <3>1, <3>2, NoneAssumption DEF IndexExact
    <3> QED
      BY <3>4, <3>5 DEF IndexExact
  <2>2. ASSUME NEW s \in Subs, Unwatch(s)
        PROVE  IndexExact'
    <3>0. PICK p \in Predicates : p = preds[s]
      BY <2>2 DEF Unwatch, TypeOK
    <3>1. /\ preds[s] = p /\ p # None /\ preds' = [preds EXCEPT ![s] = None]
          /\ index' = Removed(index, p, s)
          /\ wildcard' = IF HasTrue[p] THEN wildcard \ {s} ELSE wildcard
      BY <2>2, <3>0, Zenon DEF Unwatch
    <3>2. \A t \in Subs : preds'[t] = IF t = s THEN None ELSE preds[t]
      BY <3>1 DEF TypeOK
    <3>3. ASSUME NEW t \in Subs, NEW slot \in Slots
          PROVE  index'[slot][t] = IF t = s THEN IF index[slot][t] >= Times(p, slot)
                                                 THEN index[slot][t] - Times(p, slot) ELSE 0
                                   ELSE index[slot][t]
      BY <3>1 DEF Removed, TypeOK
    <3>4. ASSUME NEW t \in Subs, NEW slot \in Slots
          PROVE  index'[slot][t] = IF preds'[t] = None THEN 0 ELSE Times(preds'[t], slot)
      BY <3>1, <3>2, <3>3, TimesEntered DEF IndexExact
    <3>5. ASSUME NEW t \in Subs
          PROVE  t \in wildcard' <=> preds'[t] # None /\ HasTrue[preds'[t]]
      BY <3>1, <3>2 DEF IndexExact
    <3> QED
      BY <3>4, <3>5 DEF IndexExact
  <2>3. CASE UNCHANGED vars
    BY <2>3 DEF vars, IndexExact
  <2> QED
    BY <2>1, <2>2, <2>3 DEF Next
<1> QED
  BY <1>1, <1>2, TypeCorrect, PTL DEF Spec

----------------------------------------------------------------------------
\* What the index offers.

\* The index has something to offer p for: a True, or a reliable comparison that
\* accepts the value.
Wanted(p, v) ==
    \/ HasTrue[p]
    \/ v # None /\ \E n \in 1..Len(Leaves[p]) : Reliable(Leaves[p][n]) /\ Holds(Leaves[p][n], v)

\* The positions of two sequences in one.
LEMMA Positions ==
    ASSUME NEW i \in Nat, NEW j \in Nat
    PROVE  /\ \A n \in 1..i : n \in 1..(i + j)
           /\ \A n \in 1..j : i + n \in 1..(i + j)
OBVIOUS

\* What is wanted by an operand of And and Or is wanted by the whole.
LEMMA WantedByPart ==
    ASSUME NEW p \in Predicates, p.node \in {"And", "Or"},
           p.left \in Predicates, p.right \in Predicates, NEW v, Wanted(p.left, v) \/ Wanted(p.right, v)
    PROVE  Wanted(p, v)
<1>1. PICK l \in Predicates, r \in Predicates : l = p.left /\ r = p.right
  OBVIOUS
<1>2. Leaves[p] = Leaves[l] \o Leaves[r] /\ HasTrue[p] = (HasTrue[l] \/ HasTrue[r])
  BY <1>1, LeavesDefined, HasTrueDefined DEF LeavesOf, HasTrueOf
<1>3. /\ Leaves[l] \in Seq(Entered) /\ Leaves[r] \in Seq(Entered)
      /\ Len(Leaves[l]) \in Nat /\ Len(Leaves[r]) \in Nat
  BY LeavesType
<1>4. /\ Len(Leaves[p]) = Len(Leaves[l]) + Len(Leaves[r])
      /\ \A n \in 1..Len(Leaves[l]) : Leaves[p][n] = Leaves[l][n]
      /\ \A n \in 1..Len(Leaves[r]) : Leaves[p][Len(Leaves[l]) + n] = Leaves[r][n]
  <2> DEFINE a == Leaves[l]
             b == Leaves[r]
  <2>1. /\ Len(a \o b) = Len(a) + Len(b)
        /\ \A n \in 1..(Len(a) + Len(b)) : (a \o b)[n] = IF n <= Len(a) THEN a[n] ELSE b[n - Len(a)]
    <3> HIDE DEF a, b
    <3> QED
      BY <1>3, ConcatProperties DEF a, b
  <2>2. /\ a \in Seq(Entered) /\ b \in Seq(Entered) /\ Leaves[p] = a \o b
        /\ Len(a) \in Nat /\ Len(b) \in Nat
    BY <1>2, <1>3
  <2> HIDE DEF a, b
  <2>3. /\ \A n \in 1..Len(a) : (a \o b)[n] = a[n]
        /\ \A n \in 1..Len(b) : (a \o b)[Len(a) + n] = b[n]
    BY <2>1, <2>2
  <2> QED
    BY <2>1, <2>2, <2>3 DEF a, b
<1>5. PICK i \in Nat, j \in Nat : i = Len(Leaves[l]) /\ j = Len(Leaves[r]) /\ Len(Leaves[p]) = i + j
  BY <1>3, <1>4
<1>6. \A n \in 1..i : n \in 1..(i + j)
  BY Positions
<1>7. \A n \in 1..j : i + n \in 1..(i + j)
  BY Positions
<1>8. CASE HasTrue[l] \/ HasTrue[r]
  BY <1>2, <1>8 DEF Wanted
<1>9. CASE v # None /\ \E n \in 1..Len(Leaves[l]) : Reliable(Leaves[l][n]) /\ Holds(Leaves[l][n], v)
  <2>1. PICK n \in 1..Len(Leaves[l]) : Reliable(Leaves[l][n]) /\ Holds(Leaves[l][n], v)
    BY <1>9
  <2>2. n \in 1..Len(Leaves[p]) /\ Leaves[p][n] = Leaves[l][n]
    BY <1>4, <1>5, <1>6, Zenon
  <2> QED
    BY <1>9, <2>1, <2>2 DEF Wanted
<1>10. CASE /\ v # None
            /\ \E n \in 1..Len(Leaves[r]) : Reliable(Leaves[r][n]) /\ Holds(Leaves[r][n], v)
  <2>1. PICK n \in 1..Len(Leaves[r]) : Reliable(Leaves[r][n]) /\ Holds(Leaves[r][n], v)
    BY <1>10
  <2>2. PICK m : m = Len(Leaves[l]) + n
    OBVIOUS
  <2>3. m \in 1..Len(Leaves[p]) /\ Leaves[p][m] = Leaves[r][n]
    BY <1>4, <1>5, <1>7, <2>2, Zenon
  <2> QED
    BY <1>10, <2>1, <2>3 DEF Wanted
<1> QED
  BY <1>1, <1>8, <1>9, <1>10 DEF Wanted

\* A positive predicate that holds is wanted, however it is put together.
LEMMA HoldsIsWanted ==
    ASSUME NEW p \in Predicates, Positive[p], NEW v \in Values, Evaluate[p][v] = "true"
    PROVE  Wanted(p, v)
<1> DEFINE S == {q \in Predicates :
                   \A w \in Values : Positive[q] /\ Evaluate[q][w] = "true" => Wanted(q, w)}
<1>1. ASSUME NEW q \in Predicates, Below(q) \subseteq S
      PROVE  q \in S
  <2> SUFFICES ASSUME NEW w \in Values, Positive[q], Evaluate[q][w] = "true"
               PROVE  Wanted(q, w)
    OBVIOUS
  <2>1. /\ Leaves[q] = LeavesOf(q, Leaves) /\ HasTrue[q] = HasTrueOf(q, HasTrue)
        /\ PositiveOf(q, Positive) /\ Evaluate[q] = EvaluateOf(q, Evaluate)
    BY LeavesDefined, HasTrueDefined, PositiveDefined, EvaluateDefined
  <2>2. EvaluateOf(q, Evaluate)[w] = "true"
    BY <2>1
  <2>3. CASE q.node = "Comparison" /\ q \in Comparisons
    <3>1. w # None /\ Holds(q, w)
      BY <2>2, <2>3 DEF EvaluateOf, Values
    <3>2. Reliable(q) /\ Leaves[q] = <<q>>
      BY <2>1, <2>3 DEF PositiveOf, LeavesOf
    <3>3. 1 \in 1..Len(Leaves[q]) /\ Leaves[q][1] = q
      BY <3>2
    <3> QED
      BY <3>1, <3>2, <3>3 DEF Wanted
  <2>4. CASE q.node \in {"And", "Or"} /\ q.left \in Below(q) /\ q.right \in Below(q)
    <3>1. Positive[q.left] /\ Positive[q.right] /\ q.left \in S /\ q.right \in S
      BY <1>1, <2>1, <2>4 DEF PositiveOf
    <3>2. Evaluate[q.left][w] = "true" \/ Evaluate[q.right][w] = "true"
      BY <2>2, <2>4 DEF EvaluateOf, Values
    <3>3. Wanted(q.left, w) \/ Wanted(q.right, w)
      BY <3>1, <3>2
    <3> QED
      BY <2>4, <3>3, Deeper, WantedByPart
  <2>5. CASE q.node = "Not"
    BY <2>1, <2>5 DEF PositiveOf, True_
  <2>6. CASE q.node = "True" /\ q = True_
    BY <2>1, <2>6 DEF HasTrueOf, Wanted
  <2> QED
    BY <2>3, <2>4, <2>5, <2>6, Shapes
<1> HIDE DEF S
<1>2. p \in S
  BY <1>1, PartsInduction
<1> QED
  BY <1>2 DEF S

\* Where the index is exact, it offers a subscription for what its comparisons are
\* entered under, and for nothing else.
LEMMA OffersWhatIsEntered ==
    ASSUME TypeOK, IndexExact, NEW s \in Subs, NEW p \in Predicates, p = preds[s], NEW v
    PROVE  s \in FindMatching(v) <=> \E n \in 1..Len(Leaves[p]) : Offered(Leaves[p][n], v)
<1>1. p # None
  BY NoneAssumption
<1>2. \A slot \in Slots : index[slot][s] = Times(p, slot)
  BY <1>1 DEF IndexExact
<1>3. ASSUME s \in FindMatching(v)
      PROVE  \E n \in 1..Len(Leaves[p]) : Offered(Leaves[p][n], v)
  <2>1. PICK slot \in Slots : index[slot][s] > 0 /\ Found(slot[1], slot[2], v)
    BY <1>3 DEF FindMatching
  <2>2. Times(p, slot) > 0
    BY <1>2, <2>1
  <2>3. PICK n \in 1..Len(Leaves[p]) : slot \in Entry(Leaves[p][n])
    BY <2>2, TimesEntered
  <2> QED
    BY <2>1, <2>3 DEF Offered
<1>4. ASSUME NEW n \in 1..Len(Leaves[p]), Offered(Leaves[p][n], v)
      PROVE  s \in FindMatching(v)
  <2>1. PICK slot \in Entry(Leaves[p][n]) : Found(slot[1], slot[2], v)
    BY <1>4 DEF Offered
  <2>2. slot \in Slots /\ Times(p, slot) > 0
    BY EntrySlots, TimesEntered
  <2>3. index[slot][s] > 0
    BY <1>2, <2>2
  <2> QED
    BY <2>1, <2>2, <2>3 DEF FindMatching
<1> QED
  BY <1>3, <1>4

\* A value that satisfies a predicate of reliable comparisons, And, Or and True
\* makes the index offer the subscription (reactor.rs:27), whatever was added and
\* removed before, for predicates of every depth and strings of every length.
THEOREM IndexFinds == Spec => []IndexCompleteFor
<1>1. TypeOK /\ IndexExact => IndexCompleteFor
  <2> SUFFICES ASSUME TypeOK, IndexExact, NEW s \in Subs, preds[s] # None, Positive[preds[s]],
                      NEW v \in Values, Evaluate[preds[s]][v] = "true"
               PROVE  s \in Interested(v)
    BY DEF IndexCompleteFor, Offers, Satisfied, Values
  <2>1. PICK p \in Predicates : p = preds[s]
    BY DEF TypeOK
  <2>2. Wanted(p, v)
    BY <2>1, HoldsIsWanted
  <2>3. CASE HasTrue[p]
    <3>1. s \in wildcard
      BY <2>1, <2>3 DEF IndexExact
    <3> QED
      BY <3>1 DEF Interested
  <2>4. CASE /\ v # None
             /\ \E n \in 1..Len(Leaves[p]) : Reliable(Leaves[p][n]) /\ Holds(Leaves[p][n], v)
    <3>1. PICK n \in 1..Len(Leaves[p]) : Reliable(Leaves[p][n]) /\ Holds(Leaves[p][n], v)
      BY <2>4
    <3>2. v \in Bytes /\ Leaves[p][n] \in Comparisons
      BY <2>4, TextsAssumption, LeavesType DEF Values, Bytes
    <3>3. Offered(Leaves[p][n], v)
      BY <3>1, <3>2, AcceptedIsFound
    <3>4. s \in FindMatching(v)
      BY <2>1, <3>3, OffersWhatIsEntered
    <3> QED
      BY <2>4, <3>4 DEF Interested
  <2> QED
    BY <2>2, <2>3, <2>4 DEF Wanted
<1> QED
  BY <1>1, TypeCorrect, IndexRight, PTL

\* And a value that none of the comparisons accepts does not, if they are all
\* precise (collation.rs:117-126).
THEOREM IndexFindsOnly == Spec => []IndexPrecise
<1>1. TypeOK /\ IndexExact => IndexPrecise
  <2> SUFFICES ASSUME TypeOK, IndexExact, NEW s \in Subs, preds[s] # None,
                      \A n \in DOMAIN Leaves[preds[s]] : Precise(Leaves[preds[s]][n]),
                      NEW v \in Texts, s \in FindMatching(v)
               PROVE  \E n \in DOMAIN Leaves[preds[s]] : Holds(Leaves[preds[s]][n], v)
    BY DEF IndexPrecise
  <2>1. PICK p \in Predicates : p = preds[s]
    BY DEF TypeOK
  <2>2. PICK n \in 1..Len(Leaves[p]) : Offered(Leaves[p][n], v)
    BY <2>1, OffersWhatIsEntered
  <2>3. n \in DOMAIN Leaves[p] /\ Leaves[p][n] \in Comparisons /\ v \in Bytes
    BY TextsAssumption, LeavesType DEF Bytes
  <2>4. Precise(Leaves[p][n])
    BY <2>1, <2>3
  <2>5. Holds(Leaves[p][n], v)
    BY <2>2, <2>3, <2>4, FoundIsAccepted
  <2> QED
    BY <2>1, <2>3, <2>5
<1> QED
  BY <1>1, TypeCorrect, IndexRight, PTL
============================================================================
