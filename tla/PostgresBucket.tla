--------------------------- MODULE PostgresBucket ---------------------------
(***************************************************************************)
(* The Postgres storage engine (storage/postgres/src/lib.rs) under         *)
(* concurrent calls: connections of the pool, one statement at a time,     *)
(* tables and columns that are made when a statement misses them, and      *)
(* Node::collection (core/src/node.rs), which opens the collection.        *)
(*                                                                         *)
(* PostgreSQL itself is external: a statement reads the rows as they were  *)
(* when it started and updates them as they are.                           *)
(***************************************************************************)
EXTENDS StorageCalls

CONSTANTS
    Connections, \* of the bb8 pool
    Columns      \* the properties of the collection's model, in order, one column each

ASSUME PostgresAssumption ==
    /\ Columns \in Seq(STRING) /\ IsFiniteSet(Connections)

VARIABLES
    table,   \* BOOLEAN: the table exists
    columns, \* the materialized columns it has
    opened,  \* Node::collections has the collection
    held     \* held[p]: the connections call p holds

pgVars == <<table, columns, opened, held>>

AllColumns == {Columns[i] : i \in 1..Len(Columns)}
Free == Connections \ UNION {held[p] : p \in Callers}
\* Mutant: an upsert that found a row is no news
ChangedInsertOnly(old, new) == old = None

\* set_state answers true for a new row, and for an old head that is not the new one
Changed(old, new) == old = None \/ old.head # new.head

\* A new database, one that was used before, and one that lost its table while in use
PgInit ==
    /\ CallsInit
    /\ held = [p \in Callers |-> {}]
    /\ table \in BOOLEAN /\ opened \in BOOLEAN
    /\ columns \in {{}, AllColumns} /\ (~table => columns = {})

\* set_state and get_state are calls on what collection has returned
PgBegin(p) ==
    /\ \/ Begin(p, "open", None, None, "lookup")
       \/ Begin(p, "fetch", None, None, "connect")
       \/ opened /\ \E i \in Ids : \/ Begin(p, "get", i, None, "connect")
                                   \/ \E s \in States : Begin(p, "set", i, s, "connect")
    /\ UNCHANGED pgVars

\* Mutant: a call that fails leaks its connections
PgEndLeaks(p, result) ==
    End(p, result) /\ held' = [held EXCEPT ![p] = IF result.kind = "ok" THEN {} ELSE @]

\* connections go back to the pool when the call returns, panics included
PgEnd(p, result) == End(p, result) /\ held' = [held EXCEPT ![p] = {}]

\* pool.get(), and its timeout while every connection is in use
Connect(p) ==
    /\ call[p].pc = "connect" /\ Free # {}
    /\ held' = [held EXCEPT ![p] = @ \cup {CHOOSE c \in Free : TRUE}]
    /\ Goto(p, "execute")
    /\ UNCHANGED <<rows, seen, overlapped, table, columns, opened>>

TimeOut(p) ==
    /\ call[p].pc = "connect" /\ Free = {}
    /\ PgEnd(p, IF call[p].op = "open" THEN Panic ELSE Error)
    /\ UNCHANGED <<rows, seen, overlapped, table, columns, opened>>

-----------------------------------------------------------------------------
(* Node::collection *)

Lookup(p) ==
    /\ At(p, "open", "lookup")
    /\ IF opened THEN End(p, Ok(None)) ELSE Goto(p, "connect")
    /\ UNCHANGED <<rows, seen, overlapped, pgVars>>

\* CREATE TABLE fails if there is one, and Node::collection unwraps the error
CreateOnOpen(p) ==
    /\ At(p, "open", "execute")
    /\ IF table THEN PgEnd(p, Panic) /\ UNCHANGED <<table, columns>>
       ELSE /\ table' = TRUE /\ columns' = {}
            /\ Goto(p, "insert") /\ held' = [held EXCEPT ![p] = {}]
    /\ UNCHANGED <<rows, seen, overlapped, opened>>

\* assert!(collections.insert(..).is_none())
Insert(p) ==
    /\ At(p, "open", "insert")
    /\ End(p, IF opened THEN Panic ELSE Ok(None))
    /\ opened' = TRUE
    /\ UNCHANGED <<rows, seen, overlapped, table, columns, held>>

-----------------------------------------------------------------------------
(* set_state *)

Missing == {i \in 1..Len(Columns) : Columns[i] \notin columns}
FirstMissing == Columns[CHOOSE i \in Missing : \A j \in Missing : i <= j]

\* the statement starts: an error for what it misses, or the old head
ExecuteSet(p) ==
    /\ At(p, "set", "execute")
    /\ call' = [call EXCEPT ![p] =
            IF ~table THEN [@ EXCEPT !.pc = "create"]
            ELSE IF Missing # {} THEN [@ EXCEPT !.pc = "alter", !.col = FirstMissing]
            ELSE [@ EXCEPT !.pc = "write", !.old = rows[call[p].id]]]
    /\ UNCHANGED <<rows, seen, overlapped, pgVars>>

\* the statement ends: the row is the new one, whatever it was by now
Write(p) ==
    LET c == call[p] IN
    /\ At(p, "set", "write")
    /\ Store(p)
    /\ PgEnd(p, Ok(Changed(c.old, c.arg)))
    /\ UNCHANGED <<overlapped, table, columns, opened>>

\* Mutant: the table is created, the statement that missed it is not retried
CreateTableOnly(p) ==
    /\ call[p].pc = "create"
    /\ IF table THEN UNCHANGED <<table, columns>> ELSE table' = TRUE /\ columns' = {}
    /\ PgEnd(p, IF ~table /\ call[p].op = "get" THEN Ok(None) ELSE Error)
    /\ UNCHANGED <<rows, seen, overlapped, opened>>

\* create_table after UndefinedTable: set_state retries, and holds its connection
CreateTable(p) ==
    /\ call[p].pc = "create"
    /\ IF table THEN PgEnd(p, Error) /\ UNCHANGED <<table, columns>>
       ELSE /\ table' = TRUE /\ columns' = {}
            /\ IF call[p].op = "get" THEN PgEnd(p, Ok(None))
               ELSE Goto(p, "connect") /\ UNCHANGED held
    /\ UNCHANGED <<rows, seen, overlapped, opened>>

\* add_missing_columns after UndefinedColumn, likewise, one column at a time
AddMissingColumn(p) ==
    /\ At(p, "set", "alter")
    /\ IF call[p].col \in columns THEN PgEnd(p, Error) /\ UNCHANGED columns
       ELSE /\ columns' = columns \cup {call[p].col}
            /\ Goto(p, "connect") /\ UNCHANGED held
    /\ UNCHANGED <<rows, seen, overlapped, table, opened>>

-----------------------------------------------------------------------------
(* get_state and fetch_states *)

ExecuteGet(p) ==
    /\ At(p, "get", "execute")
    /\ IF table THEN PgEnd(p, Ok(rows[call[p].id])) ELSE Goto(p, "create") /\ UNCHANGED held
    /\ UNCHANGED <<rows, seen, overlapped, table, columns, opened>>

\* A WHERE on a column that is missing: error_kind takes the table's name from between the
\* third and the fourth quote of a message that has two, and panics.
ExecuteFetch(p) ==
    /\ At(p, "fetch", "execute")
    /\ PgEnd(p, IF table /\ Missing # {} THEN Panic ELSE Ok(Contents))
    /\ UNCHANGED <<rows, seen, overlapped, table, columns, opened>>

PgStep(p) ==
    \/ Connect(p) \/ TimeOut(p) \/ Lookup(p) \/ CreateOnOpen(p) \/ Insert(p)
    \/ ExecuteSet(p) \/ Write(p) \/ CreateTable(p) \/ AddMissingColumn(p)
    \/ ExecuteGet(p) \/ ExecuteFetch(p)

PgNext == \E p \in Callers : PgBegin(p) \/ PgStep(p)
PgFairness == \A p \in Callers : WF_<<callVars, pgVars>>(PgStep(p))
PgSpec == PgInit /\ [][PgNext]_<<callVars, pgVars>> /\ PgFairness
=============================================================================
