-------------------------- MODULE ComparisonIndex --------------------------
(***************************************************************************)
(* The index the reactor keeps for one field of a collection               *)
(* (core/src/comparision_index.rs, with collation.rs and value.rs), how    *)
(* subscribe and unsubscribe enter a predicate in it                       *)
(* (reactor.rs, manage_watchers_recurse), and the evaluation of the        *)
(* predicate (ankql/src/selection/filter.rs) that the index anticipates.   *)
(*                                                                         *)
(* Reactor.tla assumes that the index never withholds a subscription whose *)
(* predicate the value satisfies.  Here is for which predicates that holds.*)
(***************************************************************************)
EXTENDS Collation, FiniteSets

CONSTANTS
    Subs,        \* subscription ids
    Predicates,  \* the predicates subscriptions may have, and their parts
    Depth,       \* how deep a predicate is
    Texts,       \* the values a property may have, as strings of bytes
    None         \* no predicate, no property

\* Predicates.
And(p, q) == [node |-> "And", left |-> p, right |-> q]
Or(p, q)  == [node |-> "Or", left |-> p, right |-> q]
Not(p)    == [node |-> "Not", pred |-> p]
True_     == [node |-> "True"]

\* Predicates are trees of comparisons and True.
Below(p) == {q \in Predicates : Depth[q] < Depth[p]}

ASSUME TreesAssumption ==
    /\ Depth \in [Predicates -> Nat]
    /\ \A p \in Predicates :
          \/ p \in Comparisons
          \/ p = True_
          \/ p \in [node : {"And", "Or"}, left : Below(p), right : Below(p)]
          \/ p \in [node : {"Not"}, pred : Below(p)]

ASSUME TextsAssumption == Texts \subseteq Seq(Nat)

ASSUME NoneAssumption == None \notin Predicates /\ None \notin Texts

VARIABLES
    index,     \* index[<<m, k>>][s]: how often s is under key k of eq, gt or lt
    wildcard,  \* wildcard_watchers
    preds      \* preds[s]: the predicate of a present subscription, or None

vars == <<index, wildcard, preds>>

----------------------------------------------------------------------------
\* manage_watchers_recurse visits the comparisons of a predicate in order.
Leaves[p \in Predicates] ==
    IF p.node = "Comparison" THEN <<p>>
    ELSE IF p.node \in {"And", "Or"} THEN Leaves[p.left] \o Leaves[p.right]
    ELSE IF p.node = "Not" THEN Leaves[p.pred]
    ELSE <<>>

HasTrue[p \in Predicates] ==
    IF p.node \in {"And", "Or"} THEN HasTrue[p.left] \/ HasTrue[p.right]
    ELSE IF p.node = "Not" THEN HasTrue[p.pred]
    ELSE p = True_

\* The maps and keys that occur.
Slots == UNION {Entry(leaf) : leaf \in Predicates \cap Comparisons}

\* How many comparisons of a predicate are entered under a key.  The code keeps
\* a Vec of subscriptions per key, of which nobody sees the order.
Times(p, slot) == Cardinality({n \in 1..Len(Leaves[p]) : slot \in Entry(Leaves[p][n])})

Added(ix, p, s) ==
    [slot \in Slots |-> [ix[slot] EXCEPT ![s] = @ + Times(p, slot)]]

\* RemovedBlindly and RemovedForAll are slips the code might have had.
\* A subscription is taken from every key once per comparison.
RemovedBlindly(ix, p, s) ==
    [slot \in Slots |-> [ix[slot] EXCEPT ![s] = @ - Len(Leaves[p])]]

\* The whole key goes, also for others that are under it.
RemovedForAll(ix, p, s) ==
    [slot \in Slots |-> IF Times(p, slot) > 0 THEN [t \in Subs |-> 0] ELSE ix[slot]]

\* Each comparison takes away one occurrence, if there is one.
Removed(ix, p, s) ==
    [slot \in Slots |->
        [ix[slot] EXCEPT ![s] = IF @ >= Times(p, slot) THEN @ - Times(p, slot) ELSE 0]]

Init ==
    /\ index = [slot \in Slots |-> [s \in Subs |-> 0]]
    /\ wildcard = {}
    /\ preds = [s \in Subs |-> None]

Watch(s, p) ==
    /\ preds[s] = None
    /\ preds' = [preds EXCEPT ![s] = p]
    /\ index' = Added(index, p, s)
    /\ wildcard' = IF HasTrue[p] THEN wildcard \cup {s} ELSE wildcard

Unwatch(s) ==
    LET p == preds[s] IN
    /\ p # None
    /\ preds' = [preds EXCEPT ![s] = None]
    /\ index' = Removed(index, p, s)
    /\ wildcard' = IF HasTrue[p] THEN wildcard \ {s} ELSE wildcard

Next == \E s \in Subs : (\E p \in Predicates : Watch(s, p)) \/ Unwatch(s)

Spec == Init /\ [][Next]_vars

----------------------------------------------------------------------------
\* find_matching, for the text of a property.

FindMatching(v) ==
    {s \in Subs : \E slot \in Slots : index[slot][s] > 0 /\ Found(slot[1], slot[2], v)}

\* What notify_change finds without the entity watchers; an entity that lacks
\* the property is not looked up.
Interested(v) == wildcard \cup IF v = None THEN {} ELSE FindMatching(v)

----------------------------------------------------------------------------
\* evaluate_predicate.
\* "error" is PropertyNotFound; And and Or stop at the first operand that
\* decides, and at an error.
Evaluate[p \in Predicates] ==
    [v \in Texts \cup {None} |->
        IF p.node = "Comparison" THEN
             IF v = None THEN "error" ELSE IF Holds(p, v) THEN "true" ELSE "false"
        ELSE IF p.node = "And" THEN
             IF Evaluate[p.left][v] = "true" THEN Evaluate[p.right][v] ELSE Evaluate[p.left][v]
        ELSE IF p.node = "Or" THEN
             IF Evaluate[p.left][v] = "false" THEN Evaluate[p.right][v] ELSE Evaluate[p.left][v]
        ELSE IF p.node = "Not" THEN
             IF Evaluate[p.pred][v] = "error" THEN "error"
             ELSE IF Evaluate[p.pred][v] = "true" THEN "false" ELSE "true"
        ELSE "true"]

Satisfied(s) == {v \in Texts \cup {None} : preds[s] # None /\ Evaluate[preds[s]][v] = "true"}

----------------------------------------------------------------------------
\* Every variable has its type.
TypeOK ==
    /\ index \in [Slots -> [Subs -> Nat]]
    /\ wildcard \subseteq Subs
    /\ preds \in [Subs -> Predicates \cup {None}]

\* A predicate made of comparisons the index can be relied on for; what is negated
\* cannot be.
Positive[p \in Predicates] ==
    IF p.node = "Comparison" THEN Reliable(p)
    ELSE IF p.node \in {"And", "Or"} THEN Positive[p.left] /\ Positive[p.right]
    ELSE p = True_

Offers(S) == \A s \in S : \A v \in Satisfied(s) : s \in Interested(v)

\* The index finds every subscription that cares if a given value changes
\* (reactor.rs:27): a value that satisfies the predicate of a subscription makes
\* the index offer it ...
IndexComplete == Offers(Subs)

\* ... as it does if the predicate has only reliable comparisons, whatever was
\* added and removed before (comparision_index.rs:24-98, reactor.rs:111-168).
IndexCompleteFor == Offers({s \in Subs : preds[s] # None /\ Positive[preds[s]]})

\* Nor does the index of strings offer a subscription for a value that none of
\* its comparisons accepts, but for >= with its rough predecessor
\* (collation.rs:117-126): dropping the last byte gives a lower key, not the
\* next lower one.
IndexPrecise ==
    \A s \in Subs :
        preds[s] # None /\ (\A n \in DOMAIN Leaves[preds[s]] : Precise(Leaves[preds[s]][n]))
        => \A v \in Texts : s \in FindMatching(v) =>
               \E n \in DOMAIN Leaves[preds[s]] : Holds(Leaves[preds[s]][n], v)

\* Under each key a subscription is as often as comparisons of its predicate are
\* entered there, also when they share the key with each other or with those of
\* others, and when it is removed it is nowhere (comparision_index.rs:68-74).
IndexExact ==
    \A s \in Subs :
        /\ \A slot \in Slots :
              index[slot][s] = IF preds[s] = None THEN 0 ELSE Times(preds[s], slot)
        /\ s \in wildcard <=> preds[s] # None /\ HasTrue[preds[s]]
============================================================================
