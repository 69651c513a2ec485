---------------------------- MODULE MCNodeCommit ----------------------------
(* Small instances of NodeCommit for TLC. *)
EXTENDS NodeCommit

CONSTANTS e1, e2, t1, t2, r1

\* The second transaction may create e2; e1 is stored at the start.
MCNewId == [t \in Txns |-> IF t = t2 THEN e2 ELSE None]

\* The second transaction touches two entities, the first one.
MCMaxEdits == [t \in Txns |-> IF t = t2 THEN 2 ELSE 1]
MCOneEdit == [t \in Txns |-> 1]

\* A peer brings an event of its own and one that this node committed before.
MCCarried ==
    [r \in Requests |-> <<[by |-> "peer", ent |-> e1], [by |-> t1, ent |-> e1]>>]
============================================================================
