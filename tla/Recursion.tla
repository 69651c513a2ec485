----------------------------- MODULE Recursion -----------------------------
(***************************************************************************)
(* Induction and recursion over the elements of a set that have a rank.    *)
(* The prover takes a recursive function for what it is written as and     *)
(* does not ask whether there is such a function: RankRecursion says when  *)
(* there is, and the modules that reason about recursive functions cite it *)
(* for each of them.                                                       *)
(***************************************************************************)
EXTENDS Integers, WellFoundedInduction, TLAPS

\* A set of numbers that is not empty has a least one.
LEMMA LeastNumber ==
    ASSUME NEW S, S \subseteq Nat, S # {}
    PROVE  \E n \in S : \A m \in S : n <= m
<1>1. PICK n \in S : \A m \in S : <<m, n>> \notin OpToRel(<, Nat)
  BY WFMin, NatLessThanWellFounded, Zenon
<1>2. \A m \in S : ~(m < n)
  BY <1>1, Zenon DEF OpToRel
<1> QED
  BY <1>2

\* What an element has if those of a lower rank have it, all elements have.
LEMMA RankInduction ==
    ASSUME NEW F, NEW rank \in [F -> Nat], NEW S,
           \A p \in F : (\A q \in F : rank[q] < rank[p] => q \in S) => p \in S
    PROVE  F \subseteq S
<1> DEFINE Bad == {n \in Nat : \E p \in F : rank[p] = n /\ p \notin S}
<1> SUFFICES ASSUME NEW p \in F, p \notin S PROVE FALSE
  OBVIOUS
<1>1. rank[p] \in Bad
  OBVIOUS
<1>2. Bad \subseteq Nat /\ Bad # {}
  BY <1>1
<1> HIDE DEF Bad
<1>3. PICK n \in Bad : \A m \in Bad : n <= m
  BY <1>2, LeastNumber
<1>4. PICK q \in F : rank[q] = n /\ q \notin S
  BY <1>3 DEF Bad
<1>5. PICK r \in F : rank[r] < rank[q] /\ r \notin S
  BY <1>4
<1>6. rank[r] \in Bad
  BY <1>5 DEF Bad
<1> QED
  BY <1>2, <1>3, <1>4, <1>5, <1>6

\* A rule says what a function has for an element: rule[p][g] is the value for p if the
\* function is g.  g follows the rule on the elements of a rank below n.
Follows(g, F, rank, rule, n) == \A p \in F : rank[p] < n => g[p] = rule[p][g]

Agree(g, h, F, rank, n) == \A p \in F : rank[p] < n => g[p] = h[p]

\* The rule asks only for elements of a lower rank.
Local(F, V, rank, rule) ==
    \A p \in F : \A g, h \in [F -> V] : Agree(g, h, F, rank, rank[p]) => rule[p][g] = rule[p][h]

\* Up to a rank the rule leaves no choice ...
LEMMA FollowersAgree ==
    ASSUME NEW F, NEW V, NEW rank \in [F -> Nat], NEW rule, Local(F, V, rank, rule),
           NEW g \in [F -> V], NEW h \in [F -> V], NEW n,
           Follows(g, F, rank, rule, n), Follows(h, F, rank, rule, n), n \in Nat
    PROVE  Agree(g, h, F, rank, n)
<1> DEFINE S == {p \in F : rank[p] < n => g[p] = h[p]}
<1>1. ASSUME NEW p \in F, \A q \in F : rank[q] < rank[p] => q \in S
      PROVE  p \in S
  <2> SUFFICES ASSUME rank[p] < n PROVE g[p] = h[p]
    OBVIOUS
  <2>1. \A q \in F : rank[q] < rank[p] => rank[q] < n
    OBVIOUS
  <2>2. Agree(g, h, F, rank, rank[p])
    BY <1>1, <2>1 DEF Agree
  <2>3. rule[p][g] = rule[p][h]
    BY <2>2 DEF Local
  <2> QED
    BY <2>3 DEF Follows
<1> HIDE DEF S
<1>2. F \subseteq S
  BY <1>1, RankInduction
<1> QED
  BY <1>2 DEF S, Agree

\* ... and can be followed.
LEMMA FollowersExist ==
    ASSUME NEW F, NEW V, V # {}, NEW rank \in [F -> Nat],
           NEW rule \in [F -> [[F -> V] -> V]], Local(F, V, rank, rule), NEW n \in Nat
    PROVE  \E g \in [F -> V] : Follows(g, F, rank, rule, n)
<1> DEFINE Bad == {m \in Nat : ~ \E g \in [F -> V] : Follows(g, F, rank, rule, m)}
<1> SUFFICES ASSUME n \in Bad PROVE FALSE
  OBVIOUS
<1>1. Bad \subseteq Nat /\ Bad # {}
  OBVIOUS
<1> HIDE DEF Bad
<1>2. PICK m \in Bad : \A k \in Bad : m <= k
  BY <1>1, LeastNumber
<1>3. m # 0
  <2>1. PICK v \in V : TRUE
    OBVIOUS
  <2>2. [p \in F |-> v] \in [F -> V]
    OBVIOUS
  <2>3. Follows([p \in F |-> v], F, rank, rule, 0)
    BY DEF Follows
  <2> QED
    BY <2>2, <2>3 DEF Bad
<1>4. m - 1 \in Nat /\ m - 1 \notin Bad
  BY <1>1, <1>2, <1>3
<1>5. PICK g \in [F -> V] : Follows(g, F, rank, rule, m - 1)
  BY <1>4 DEF Bad
<1> DEFINE h == [p \in F |-> rule[p][g]]
<1>6. h \in [F -> V]
  OBVIOUS
<1>7. \A p \in F : h[p] = rule[p][g]
  OBVIOUS
<1> HIDE DEF h
<1>8. ASSUME NEW p \in F, rank[p] < m
      PROVE  h[p] = rule[p][h]
  <2>1. \A q \in F : rank[q] < rank[p] => h[q] = g[q]
    BY <1>1, <1>5, <1>7, <1>8 DEF Follows
  <2>2. Agree(h, g, F, rank, rank[p])
    BY <2>1 DEF Agree
  <2>3. rule[p][h] = rule[p][g]
    BY <1>6, <2>2 DEF Local
  <2> QED
    BY <1>7, <2>3
<1>9. Follows(h, F, rank, rule, m)
  BY <1>8 DEF Follows
<1> QED
  BY <1>6, <1>9 DEF Bad

IsRank(F, rank) == rank \in [F -> Nat]

IsRule(F, V, rule) == rule \in [F -> [[F -> V] -> V]]

Solves(f, F, V, rule) == f \in [F -> V] /\ \A p \in F : f[p] = rule[p][f]

\* So there is a function that follows it everywhere.
LEMMA RankRecursion ==
    ASSUME NEW F, NEW V, V # {}, NEW rank, IsRank(F, rank),
           NEW rule, IsRule(F, V, rule), Local(F, V, rank, rule)
    PROVE  \E f : Solves(f, F, V, rule)
<1>0. rank \in [F -> Nat] /\ rule \in [F -> [[F -> V] -> V]]
  BY DEF IsRank, IsRule
<1> DEFINE G(n) == CHOOSE g \in [F -> V] : Follows(g, F, rank, rule, n)
<1>1. \A n \in Nat : G(n) \in [F -> V] /\ Follows(G(n), F, rank, rule, n)
  BY <1>0, FollowersExist
<1> DEFINE f == [p \in F |-> G(rank[p] + 1)[p]]
<1>2. \A p \in F : rank[p] \in Nat /\ rank[p] + 1 \in Nat
  BY <1>0
<1> HIDE DEF G
<1>3. f \in [F -> V]
  BY <1>1, <1>2
<1>4. \A p \in F : f[p] = G(rank[p] + 1)[p]
  OBVIOUS
<1> HIDE DEF f
<1>5. ASSUME NEW p \in F PROVE f[p] = rule[p][f]
  <2> DEFINE g == G(rank[p] + 1)
  <2>0. g \in [F -> V] /\ Follows(g, F, rank, rule, rank[p] + 1)
    BY <1>1, <1>2
  <2> HIDE DEF g
  <2>1. g[p] = rule[p][g]
    BY <1>2, <2>0 DEF Follows
  <2>2. ASSUME NEW q \in F, rank[q] < rank[p] PROVE f[q] = g[q]
    <3> DEFINE h == G(rank[q] + 1)
    <3>1. h \in [F -> V] /\ Follows(h, F, rank, rule, rank[q] + 1)
      BY <1>1, <1>2
    <3> HIDE DEF h
    <3>2. Follows(g, F, rank, rule, rank[q] + 1)
      BY <1>2, <2>0, <2>2 DEF Follows
    <3>3. Agree(h, g, F, rank, rank[q] + 1)
      BY <1>0, <1>2, <2>0, <3>1, <3>2, FollowersAgree
    <3>4. h[q] = g[q]
      BY <1>2, <3>3 DEF Agree
    <3> QED
      BY <1>4, <3>4 DEF h
  <2>3. Agree(f, g, F, rank, rank[p])
    BY <2>2 DEF Agree
  <2>4. rule[p][f] = rule[p][g]
    BY <1>3, <2>0, <2>3 DEF Local
  <2> QED
    BY <1>4, <2>1, <2>4 DEF g
<1> QED
  BY <1>3, <1>5 DEF Solves
============================================================================
