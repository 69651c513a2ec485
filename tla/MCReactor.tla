----------------------------- MODULE MCReactor -----------------------------
(* Small instances of Reactor for TLC. *)
EXTENDS Reactor, TLC

MCValues == {0, 1}

\* s1 asks for the value that a commit brings, and its index entry finds that
\* value only.  s2 asks for the value entities start with, and the index offers
\* it for every value, as a wildcard or an imprecise range entry does.
MCMatches == [s \in Subs |-> IF s = "s1" THEN {1} ELSE {0}]
MCIndexHits == [s \in Subs |-> IF s = "s1" THEN {1} ELSE {0, 1}]

\* Commits and entities are interchangeable in the safety properties.
Symmetry == Permutations(Tasks) \cup Permutations(Entities)
============================================================================
