------------------------------ MODULE Storage ------------------------------
(***************************************************************************)
(* Concurrent calls of one of the two engines, and what they promise their *)
(* callers.                                                                *)
(***************************************************************************)
EXTENDS PostgresBucket, IndexedDBBucket

VARIABLE engine

vars == <<engine, callVars, pgVars, idbVars>>

Init ==
    \/ /\ engine = "postgres" /\ PgInit
       /\ mutex = [t \in Tabs |-> None] /\ txn = None /\ aborts = 0
    \/ /\ engine = "indexeddb" /\ IdbInit
       /\ table = TRUE /\ columns = {} /\ opened = TRUE /\ held = [p \in Callers |-> {}]

Next ==
    \/ engine = "postgres" /\ PgNext /\ UNCHANGED <<engine, idbVars>>
    \/ engine = "indexeddb" /\ IdbNext /\ UNCHANGED <<engine, pgVars>>

Fairness ==
    /\ \A p \in Callers : WF_vars(engine = "postgres" /\ PgStep(p) /\ UNCHANGED <<engine, idbVars>>)
    /\ \A p \in Callers : WF_vars(engine = "indexeddb" /\ IdbStep(p) /\ UNCHANGED <<engine, pgVars>>)

Spec == Init /\ [][Next]_vars /\ Fairness

-----------------------------------------------------------------------------
(* Properties *)

\* Rows hold states that were set; a connection of the pool is held by one call at a time and by
\* none that has ended, also when a set_state took one more for each thing it found missing
\* (lib.rs:282 and 293); the mutex of a tab's bucket is held by a call of that tab.
TypeOK ==
    /\ rows \in [Ids -> States \cup {None}]
    /\ \A p \in Callers : /\ call[p].op \in {"none", "open", "set", "get", "fetch"}
                          /\ held[p] \subseteq Connections
                          /\ Active(p) \/ held[p] = {}
                          /\ \A q \in Callers \ {p} : held[p] \cap held[q] = {}
                          /\ seen[p] \subseteq States \cup {None}
    /\ columns \subseteq AllColumns
    /\ \A t \in Tabs : mutex[t] = None \/ Tab[mutex[t]] = t
    /\ txn \in Callers \cup {None}

NoRows == [i \in Ids |-> None]
NotSeen == [p \in Callers |-> {}]
NoCalls == [p \in Callers |-> [op |-> "none", id |-> None, arg |-> None, st |-> "idle", result |-> None]]

Whole(s) == s
PgRows == IF engine = "postgres" THEN rows ELSE NoRows
PgCalls == IF engine = "postgres" THEN Shown(Whole) ELSE NoCalls
PgSeen == IF engine = "postgres" THEN seen ELSE NotSeen
PgStore == INSTANCE StateStore WITH Eager <- FALSE, rows <- PgRows, call <- PgCalls, seen <- PgSeen

\* Each call of the Postgres engine takes effect once, at one moment, or fails without effect,
\* whatever tables, columns and connections it had to wait or try again for; set_state's answer
\* is right about a state the row had during the call (PostgresBucket implements StateStore).
PgImplements == PgStore!Spec

HeadOf(s) == IF s = None THEN None ELSE [head |-> s.head, docs |-> {}]

ASSUME StorageAssumption == None \notin States \cup {HeadOf(s) : s \in States}

Heads == {HeadOf(s) : s \in States}
IdbRows == IF engine = "indexeddb" THEN [i \in Ids |-> HeadOf(rows[i])] ELSE NoRows
IdbCalls == IF engine = "indexeddb" THEN Shown(HeadOf) ELSE NoCalls
IdbSeen == IF engine = "indexeddb" THEN [p \in Callers |-> {HeadOf(s) : s \in seen[p]}] ELSE NotSeen
IdbStore == INSTANCE StateStore WITH
    Eager <- TRUE, States <- Heads, rows <- IdbRows, call <- IdbCalls, seen <- IdbSeen

\* The same of the IndexedDB engine, of the heads of the states alone: a state whose head is the
\* stored one is not written (indexeddb.rs:227-249), and set_state always answers true.
IdbImplements == IdbStore!Spec

\* A set_state or get_state of Postgres that runs alone succeeds, whatever table and columns are
\* missing, on a pool of two connections more than there are columns; fewer and set_state waits
\* for a connection that it holds itself (lib.rs:282 and 293 retry before they return theirs).
AloneSucceeds ==
    \A p \in Callers :
        engine = "postgres" /\ call[p].pc = "ended" /\ p \notin overlapped
            /\ call[p].op \in {"set", "get"}
        => call[p].result.kind = "ok"

Hung(p) == call[p].pc = "hung" \/ (call[p].pc = "lock" /\ mutex[Tab[p]] # None
                                    /\ call[mutex[Tab[p]]].pc = "hung")

\* Every call ends, except a set_state of IndexedDB whose transaction is aborted without an
\* error event, and those behind it on the bucket's mutex (indexeddb.rs:206 and 275).
CallsEnd == []<>(\A p \in Callers : ~Active(p) \/ Hung(p))
=============================================================================
