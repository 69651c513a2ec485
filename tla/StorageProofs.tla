--------------------------- MODULE StorageProofs ---------------------------
(***************************************************************************)
(* What Storage.tla promises for any callers, entities, states, tabs,      *)
(* columns and connections: each engine implements the storage that the    *)
(* nodes rely on, and a call of Postgres that runs alone succeeds.         *)
(***************************************************************************)
EXTENDS Storage, FiniteSetTheorems, TLAPS

Steps == {"idle", "ended", "lookup", "connect", "execute", "insert", "create", "alter", "write",
          "read", "lock", "begin", "compare", "put", "complete", "hung"}

Results == [kind : {"ok", "error", "panic"},
            value : BOOLEAN \cup States \cup {None} \cup SUBSET (Ids \X States)]

Calls == [op : {"none", "open", "set", "get", "fetch"}, id : Ids \cup {None},
          arg : States \cup {None}, pc : Steps, col : AllColumns \cup {None},
          old : States \cup {None}, result : Results \cup {None}]

\* The calls of either engine: the state that a row has is among those seen by the calls
\* that are about to set it.
CallTypes ==
    /\ rows \in [Ids -> States \cup {None}]
    /\ call \in [Callers -> Calls]
    /\ seen \in [Callers -> SUBSET (States \cup {None})]

ArgumentsOf(p) ==
    Active(p) =>
        /\ call[p].op = "get" => call[p].id \in Ids
        /\ call[p].op = "set" => /\ call[p].id \in Ids /\ call[p].arg \in States
                                 /\ rows[call[p].id] \in seen[p]

CallsInv == CallTypes /\ \A p \in Callers : ArgumentsOf(p)

\* The pool: a connection is held by one call, and only between connect and the end.
PoolInv ==
    /\ held \in [Callers -> SUBSET Connections]
    /\ \A p, q \in Callers : p # q => held[p] \cap held[q] = {}
    /\ \A p \in Callers : call[p].pc \in {"idle", "ended", "lookup", "insert"} => held[p] = {}
    /\ engine = "indexeddb" => \A p \in Callers : held[p] = {}

\* The table: there is no row without it, a call that writes has found it, and the old state
\* the call compares with is one that it has seen.
TableInv ==
    /\ table \in BOOLEAN /\ columns \subseteq AllColumns
    /\ ~table => columns = {} /\ \A i \in Ids : rows[i] = None
    /\ engine = "indexeddb" => table
    /\ \A p \in Callers :
        /\ call[p].pc = "write" /\ call[p].op = "set" => table /\ call[p].old \in seen[p]
        /\ call[p].pc = "alter" => table /\ call[p].col \in AllColumns

\* The mutexes of the tabs and the database's readwrite transaction
LocksInv ==
    /\ mutex \in [Tabs -> Callers \cup {None}]
    /\ \A t \in Tabs : mutex[t] = None \/ Tab[mutex[t]] = t
    /\ txn \in Callers \cup {None}

Inv == /\ engine \in {"postgres", "indexeddb"}
       /\ CallsInv /\ PoolInv /\ TableInv /\ LocksInv

USE PostgresAssumption, IndexedDBAssumption, StorageAssumption

-----------------------------------------------------------------------------
(* Data *)

LEMMA Least ==
    ASSUME NEW S, S \subseteq Nat, S # {}
    PROVE  \E n \in S : \A m \in S : n <= m
<1> DEFINE R == StrictSubsetOrdering(Nat)
           T == {1..n : n \in S}
<1>1. T \subseteq FiniteSubsetsOf(Nat) /\ T # {}
  <2>1. \A n \in S : 1..n \subseteq Nat /\ IsFiniteSet(1..n)
    BY FS_Interval
  <2> QED
    BY <2>1 DEF FiniteSubsetsOf
<1>2. PICK x \in T : \A y \in T : ~(<<y, x>> \in R)
  <2>1. IsWellFoundedOn(R, FiniteSubsetsOf(Nat))
    BY FS_StrictSubsetOrderingWellFounded
  <2> HIDE DEF R, T
  <2> QED
    BY <1>1, <2>1, WFMin
<1>3. PICK n \in S : x = 1..n
  OBVIOUS
<1>4. ASSUME NEW m \in S, m < n PROVE FALSE
  <2>1. m \in Nat /\ n \in Nat
    OBVIOUS
  <2>2. 1..m \subseteq 1..n /\ n \in 1..n /\ n \notin 1..m /\ 1..m \in SUBSET Nat /\ 1..n \in SUBSET Nat
    BY <1>4, <2>1
  <2>3. <<1..m, 1..n>> \in StrictSubsetOrdering(Nat)
    BY <2>2 DEF StrictSubsetOrdering
  <2> QED
    BY <1>2, <1>3, <2>3
<1> QED
  BY <1>4

\* The column a statement misses first
LEMMA MissingColumn ==
    ASSUME Missing # {}
    PROVE  FirstMissing \in AllColumns /\ FirstMissing \notin columns
<1>1. Missing \subseteq Nat
  BY DEF Missing
<1>2. PICK n \in Missing : \A m \in Missing : n <= m
  BY <1>1, Least
<1>3. (CHOOSE i \in Missing : \A j \in Missing : i <= j) \in Missing
  BY <1>2
<1> QED
  BY <1>3 DEF FirstMissing, Missing, AllColumns

-----------------------------------------------------------------------------
(* The calls *)

LEMMA Conversions ==
    /\ \A v \in BOOLEAN \cup States \cup {None} \cup SUBSET (Ids \X States) : Ok(v) \in Results
    /\ Error \in Results /\ Panic \in Results
BY DEF Ok, Error, Panic, Results

LEMMA ContentsTyped == ASSUME CallTypes PROVE Contents \in SUBSET (Ids \X States)
BY DEF CallTypes, Contents

LEMMA BeginCalls ==
    ASSUME CallsInv, NEW p \in Callers, NEW op \in {"open", "set", "get", "fetch"},
           NEW id \in Ids \cup {None}, NEW arg \in States \cup {None}, NEW pc \in Steps,
           op \in {"set", "get"} => id \in Ids, op = "set" => arg \in States, Begin(p, op, id, arg, pc)
    PROVE  /\ CallsInv' /\ rows' = rows /\ call[p].pc = "idle" /\ call'[p].pc = pc
           /\ \A q \in Callers \ {p} : call'[q] = call[q] /\ seen'[q] = seen[q]
<1> DEFINE new == [Idle EXCEPT !.op = op, !.id = id, !.arg = arg, !.pc = pc]
           old == IF op = "set" THEN {rows[id]} ELSE {}
<1>1. /\ call' = [call EXCEPT ![p] = new] /\ seen' = [seen EXCEPT ![p] = old]
      /\ rows' = rows /\ call[p].pc = "idle"
  BY DEF Begin
<1>2. new \in Calls /\ new.op = op /\ new.id = id /\ new.arg = arg /\ new.pc = pc
  BY DEF Idle, Calls
<1>3. old \in SUBSET (States \cup {None}) /\ (op = "set" => rows[id] \in old)
  BY DEF CallsInv, CallTypes
<1> HIDE DEF new, old
<1>4. CallTypes' /\ call'[p] = new /\ seen'[p] = old
      /\ \A q \in Callers \ {p} : call'[q] = call[q] /\ seen'[q] = seen[q]
  BY <1>1, <1>2, <1>3 DEF CallsInv, CallTypes
<1>5. \A q \in Callers : ArgumentsOf(q)'
  BY <1>1, <1>2, <1>3, <1>4 DEF CallsInv, ArgumentsOf, Active
<1> QED
  BY <1>1, <1>2, <1>4, <1>5 DEF CallsInv

\* A step within a call: new is what the call is then.
LEMMA MoveCalls ==
    ASSUME CallsInv, NEW p \in Callers, Active(p), NEW new \in Calls,
           new.op = call[p].op, new.id = call[p].id, new.arg = call[p].arg,
           call' = [call EXCEPT ![p] = new], UNCHANGED <<rows, seen>>
    PROVE  CallsInv' /\ call'[p] = new /\ \A q \in Callers \ {p} : call'[q] = call[q]
<1>1. CallTypes' /\ call'[p] = new /\ \A q \in Callers \ {p} : call'[q] = call[q]
  BY DEF CallsInv, CallTypes
<1>2. \A q \in Callers : ArgumentsOf(q)'
  BY <1>1 DEF CallsInv, ArgumentsOf, Active
<1> QED
  BY <1>1, <1>2 DEF CallsInv

LEMMA GotoCalls ==
    ASSUME CallsInv, NEW p \in Callers, Active(p), NEW pc \in Steps, Goto(p, pc),
           UNCHANGED <<rows, seen>>
    PROVE  /\ CallsInv' /\ call'[p] = [call[p] EXCEPT !.pc = pc] /\ call'[p].pc = pc
           /\ \A q \in Callers \ {p} : call'[q] = call[q]
<1> DEFINE new == [call[p] EXCEPT !.pc = pc]
<1>1. call[p] \in Calls
  BY DEF CallsInv, CallTypes
<1>2. new \in Calls /\ new.op = call[p].op /\ new.id = call[p].id /\ new.arg = call[p].arg
      /\ new.pc = pc
  BY <1>1 DEF Calls
<1>3. call' = [call EXCEPT ![p] = new]
  BY <1>1 DEF Goto
<1> HIDE DEF new
<1> QED
  BY <1>2, <1>3, MoveCalls DEF new

LEMMA EndCalls ==
    ASSUME CallsInv, NEW p \in Callers, Active(p), NEW result \in Results, End(p, result),
           UNCHANGED <<rows, seen>>
    PROVE  /\ CallsInv' /\ call'[p] = [call[p] EXCEPT !.pc = "ended", !.result = result]
           /\ call'[p].pc = "ended" /\ \A q \in Callers \ {p} : call'[q] = call[q]
<1> DEFINE new == [call[p] EXCEPT !.pc = "ended", !.result = result]
<1>1. call[p] \in Calls
  BY DEF CallsInv, CallTypes
<1>2. new \in Calls /\ new.op = call[p].op /\ new.id = call[p].id /\ new.arg = call[p].arg
      /\ new.pc = "ended"
  BY <1>1 DEF Calls, Steps
<1>3. call' = [call EXCEPT ![p] = new]
  BY <1>1 DEF End
<1> HIDE DEF new
<1> QED
  BY <1>2, <1>3, MoveCalls DEF new

\* The state is stored, and the call ends.
LEMMA StoreCalls ==
    ASSUME CallsInv, NEW p \in Callers, Active(p), call[p].op = "set", NEW result \in Results,
           Store(p), End(p, result)
    PROVE  /\ CallsInv' /\ call'[p] = [call[p] EXCEPT !.pc = "ended", !.result = result]
           /\ call'[p].pc = "ended" /\ \A q \in Callers \ {p} : call'[q] = call[q]
           /\ rows' = [rows EXCEPT ![call[p].id] = call[p].arg]
           /\ \A q \in Callers : seen[q] \subseteq seen'[q]
<1> DEFINE new == [call[p] EXCEPT !.pc = "ended", !.result = result]
           c == call[p]
<1>1. call[p] \in Calls /\ c.id \in Ids /\ c.arg \in States
  BY DEF CallsInv, CallTypes, ArgumentsOf
<1>2. new \in Calls /\ new.pc = "ended"
  BY <1>1 DEF Calls, Steps
<1>3. call' = [call EXCEPT ![p] = new]
  BY <1>1 DEF End
<1>4. /\ rows' = [rows EXCEPT ![c.id] = c.arg]
      /\ seen' = [q \in Callers |-> IF Active(q) /\ call[q].op = "set" /\ call[q].id = c.id
                                    THEN seen[q] \cup {c.arg} ELSE seen[q]]
  BY DEF Store
<1> HIDE DEF new, c
<1>5. call'[p] = new /\ \A q \in Callers \ {p} : call'[q] = call[q]
  BY <1>2, <1>3 DEF CallsInv, CallTypes
<1>6. CallTypes'
  <2>1. seen' \in [Callers -> SUBSET (States \cup {None})]
    BY <1>1, <1>4 DEF CallsInv, CallTypes
  <2> QED
    BY <1>1, <1>2, <1>3, <1>4, <2>1 DEF CallsInv, CallTypes
<1>7. ASSUME NEW q \in Callers PROVE ArgumentsOf(q)' /\ seen[q] \subseteq seen'[q]
  <2>1. seen'[q] = IF Active(q) /\ call[q].op = "set" /\ call[q].id = c.id
                   THEN seen[q] \cup {c.arg} ELSE seen[q]
    BY <1>4
  <2>2. \A i \in Ids : rows'[i] = IF i = c.id THEN c.arg ELSE rows[i]
    BY <1>1, <1>4 DEF CallsInv, CallTypes
  <2>3. CASE q = p
    BY <1>2, <1>5, <2>1, <2>3 DEF ArgumentsOf, Active
  <2>4. CASE q # p
    BY <1>5, <2>1, <2>2, <2>4 DEF CallsInv, ArgumentsOf, Active
  <2> QED
    BY <2>3, <2>4
<1> QED
  BY <1>2, <1>4, <1>5, <1>6, <1>7 DEF CallsInv, new, c

\* What a step of p does to its call, in either engine
Begins(p) ==
    \E op \in {"open", "set", "get", "fetch"}, id \in Ids \cup {None}, arg \in States \cup {None} :
        \E pc \in Steps \ {"idle", "ended"} :
            /\ op \in {"set", "get"} => id \in Ids
            /\ op = "set" => arg \in States
            /\ op # "set" => arg = None
            /\ op \in {"open", "fetch"} => id = None
            /\ Begin(p, op, id, arg, pc)

Moves(p) ==
    /\ Active(p) /\ UNCHANGED <<rows, seen>>
    /\ \E new \in Calls :
        /\ new.op = call[p].op /\ new.id = call[p].id /\ new.arg = call[p].arg
        /\ new.pc \notin {"idle", "ended"}
        /\ call' = [call EXCEPT ![p] = new]

Answer(p, v) ==
    \/ call[p].op = "open" /\ v = None
    \/ call[p].op = "get" /\ v = rows[call[p].id]
    \/ call[p].op = "fetch" /\ v = Contents

Right(p, result) == result.kind = "ok" => \E v : Answer(p, v) /\ result = Ok(v)

Answered(p) ==
    /\ Active(p) /\ UNCHANGED <<rows, seen>>
    /\ \E result \in Results : Right(p, result) /\ End(p, result)

Stores(p) ==
    /\ Active(p) /\ call[p].op = "set" /\ Store(p)
    /\ \E b \in BOOLEAN : End(p, Ok(b)) /\ \E old \in seen[p] : b = Changed(old, call[p].arg)

Keeps(p) ==
    \A q \in Callers \ {p} : call'[q] = call[q] /\ seen[q] \subseteq seen'[q]

-----------------------------------------------------------------------------
(* The pool and the table *)

LEMMA PoolFrom ==
    ASSUME PoolInv, NEW p \in Callers, NEW H \in SUBSET Connections,
           held' = [held EXCEPT ![p] = H], \A q \in Callers \ {p} : H \cap held[q] = {},
           \A q \in Callers \ {p} : call'[q] = call[q],
           call'[p].pc \in {"idle", "ended", "lookup", "insert"} => H = {},
           engine = "postgres", engine' = engine
    PROVE  PoolInv'
<1>1. held'[p] = H /\ \A q \in Callers \ {p} : held'[q] = held[q]
  BY DEF PoolInv
<1>2. held' \in [Callers -> SUBSET Connections]
  BY DEF PoolInv
<1>3. \A q, r \in Callers : q # r => held'[q] \cap held'[r] = {}
  BY <1>1 DEF PoolInv
<1> QED
  BY <1>1, <1>2, <1>3 DEF PoolInv

LEMMA PoolSame ==
    ASSUME PoolInv, NEW p \in Callers, held' = held, engine' = engine,
           \A q \in Callers \ {p} : call'[q] = call[q],
           call'[p].pc \in {"idle", "ended", "lookup", "insert"} => held[p] = {}
    PROVE  PoolInv'
BY DEF PoolInv

LEMMA TableFrom ==
    ASSUME TableInv, NEW p \in Callers, engine' = engine, Keeps(p),
           table' \in BOOLEAN, columns' \subseteq AllColumns, table => table',
           ~table' => columns' = {} /\ rows' = rows,
           call'[p].pc = "write" /\ call'[p].op = "set" => table' /\ call'[p].old \in seen'[p],
           call'[p].pc = "alter" => table' /\ call'[p].col \in AllColumns
    PROVE  TableInv'
<1>1. ASSUME NEW q \in Callers
      PROVE  /\ call'[q].pc = "write" /\ call'[q].op = "set" => table' /\ call'[q].old \in seen'[q]
             /\ call'[q].pc = "alter" => table' /\ call'[q].col \in AllColumns
  <2>1. CASE q = p
    BY <2>1
  <2>2. CASE q # p
    BY <2>2 DEF TableInv, Keeps
  <2> QED
    BY <2>1, <2>2
<1> QED
  BY <1>1 DEF TableInv

-----------------------------------------------------------------------------
(* Postgres *)

\* What is shown of each action
Fine(p) == /\ Begins(p) \/ Moves(p) \/ Answered(p) \/ Stores(p)
           /\ CallsInv' /\ PoolInv' /\ TableInv'

\* A step that does not end the call and leaves rows and table alone
LEMMA PgGoto ==
    ASSUME Inv, engine = "postgres", engine' = engine, NEW p \in Callers, Active(p),
           NEW pc \in Steps \ {"idle", "ended", "lookup", "insert", "write", "alter"}, Goto(p, pc),
           UNCHANGED <<rows, seen>>, table' \in BOOLEAN, columns' \subseteq AllColumns, table => table',
           ~table' => columns' = {},
           NEW H \in SUBSET Connections, held' = [held EXCEPT ![p] = H],
           \A q \in Callers \ {p} : H \cap held[q] = {}
    PROVE  Fine(p)
<1>1. /\ CallsInv' /\ call'[p] = [call[p] EXCEPT !.pc = pc] /\ call'[p].pc = pc
      /\ \A q \in Callers \ {p} : call'[q] = call[q]
  BY GotoCalls DEF Inv
<1>2. Moves(p)
  <2> DEFINE new == [call[p] EXCEPT !.pc = pc]
  <2>1. call[p] \in Calls
    BY DEF Inv, CallsInv, CallTypes
  <2>2. new \in Calls /\ new.op = call[p].op /\ new.id = call[p].id /\ new.arg = call[p].arg
        /\ new.pc \notin {"idle", "ended"}
    BY <2>1 DEF Calls
  <2>3. call' = [call EXCEPT ![p] = new]
    BY DEF Goto
  <2> HIDE DEF new
  <2> QED
    BY <2>2, <2>3 DEF Moves
<1>3. PoolInv'
  BY <1>1, PoolFrom DEF Inv
<1>4. Keeps(p)
  BY <1>1 DEF Keeps
<1>5. TableInv'
  BY <1>1, <1>4, TableFrom DEF Inv
<1> QED
  BY <1>1, <1>2, <1>3, <1>5 DEF Fine

\* The call ends and gives its connections back.
LEMMA PgEnds ==
    ASSUME Inv, engine = "postgres", engine' = engine, NEW p \in Callers, Active(p),
           NEW result \in Results, End(p, result), held' = [held EXCEPT ![p] = {}],
           Right(p, result),
           UNCHANGED <<rows, seen>>, table' \in BOOLEAN, columns' \subseteq AllColumns, table => table',
           ~table' => columns' = {}
    PROVE  Fine(p)
<1>1. /\ CallsInv' /\ call'[p].pc = "ended" /\ \A q \in Callers \ {p} : call'[q] = call[q]
  BY EndCalls DEF Inv
<1>2. Answered(p)
  BY DEF Answered
<1>3. PoolInv'
  <2>1. {} \in SUBSET Connections /\ \A q \in Callers \ {p} : {} \cap held[q] = {}
    OBVIOUS
  <2> QED
    BY <1>1, <2>1, PoolFrom DEF Inv
<1>4. Keeps(p)
  BY <1>1 DEF Keeps
<1>5. TableInv'
  BY <1>1, <1>4, TableFrom DEF Inv
<1> QED
  BY <1>1, <1>2, <1>3, <1>5 DEF Fine

LEMMA PgTypes ==
    ASSUME Inv, engine = "postgres", NEW p \in Callers
    PROVE  /\ table \in BOOLEAN /\ columns \subseteq AllColumns /\ (~table => columns = {})
           /\ call[p] \in Calls /\ held[p] \in SUBSET Connections /\ held = [held EXCEPT ![p] = held[p]]
           /\ \A q \in Callers \ {p} : held[p] \cap held[q] = {}
           /\ rows \in [Ids -> States \cup {None}]
BY DEF Inv, TableInv, CallsInv, CallTypes, PoolInv

LEMMA PgBeginFine ==
    ASSUME Inv, engine = "postgres", engine' = engine, NEW p \in Callers, PgBegin(p)
    PROVE  Fine(p)
<1>1. PICK op \in {"open", "set", "get", "fetch"}, id \in Ids \cup {None}, arg \in States \cup {None},
           pc \in {"lookup", "connect"} :
        /\ op \in {"set", "get"} => id \in Ids
        /\ op = "set" => arg \in States
        /\ op # "set" => arg = None
        /\ op \in {"open", "fetch"} => id = None
        /\ Begin(p, op, id, arg, pc)
  <2>1. CASE Begin(p, "open", None, None, "lookup")
    BY <2>1
  <2>2. CASE Begin(p, "fetch", None, None, "connect")
    BY <2>2
  <2>3. ASSUME NEW i \in Ids,
               \/ Begin(p, "get", i, None, "connect")
               \/ \E s \in States : Begin(p, "set", i, s, "connect")
        PROVE  \E op \in {"open", "set", "get", "fetch"}, id \in Ids \cup {None},
                  arg \in States \cup {None}, pc \in {"lookup", "connect"} :
                 /\ op \in {"set", "get"} => id \in Ids
                 /\ op = "set" => arg \in States
                 /\ op # "set" => arg = None
                 /\ op \in {"open", "fetch"} => id = None
                 /\ Begin(p, op, id, arg, pc)
    BY <2>3
  <2> QED
    BY <2>1, <2>2, <2>3 DEF PgBegin
<1>2. /\ CallsInv' /\ rows' = rows /\ call[p].pc = "idle" /\ call'[p].pc = pc
      /\ \A q \in Callers \ {p} : call'[q] = call[q] /\ seen'[q] = seen[q]
  BY <1>1, BeginCalls DEF Inv, Steps
<1>3. Begins(p)
  BY <1>1 DEF Begins, Steps
<1>4. UNCHANGED <<table, columns, held>>
  BY DEF PgBegin, pgVars
<1>5. PoolInv'
  BY <1>2, <1>4, PoolSame DEF Inv, PoolInv
<1>6. TableInv'
  <2>1. Keeps(p)
    BY <1>2 DEF Keeps
  <2> QED
    BY <1>2, <1>4, <2>1, PgTypes, TableFrom DEF Inv
<1> QED
  BY <1>2, <1>3, <1>5, <1>6 DEF Fine

LEMMA PgConnectFine ==
    ASSUME Inv, engine = "postgres", engine' = engine, NEW p \in Callers,
           Connect(p) \/ TimeOut(p) \/ Lookup(p)
    PROVE  Fine(p)
<1>1. CASE Connect(p)
  <2> DEFINE c == CHOOSE c \in Free : TRUE
             H == held[p] \cup {c}
  <2>1. c \in Free /\ Active(p)
    BY <1>1 DEF Connect, Active
  <2>2. c \in Connections /\ \A q \in Callers : c \notin held[q]
    BY <2>1 DEF Free
  <2>3. held' = [held EXCEPT ![p] = H] /\ Goto(p, "execute")
        /\ UNCHANGED <<rows, seen>> /\ table' = table /\ columns' = columns
    BY <1>1 DEF Connect
  <2> HIDE DEF c
  <2>4. H \in SUBSET Connections /\ \A q \in Callers \ {p} : H \cap held[q] = {}
    BY <2>2, PgTypes
  <2> QED
    BY <2>1, <2>3, <2>4, PgTypes, PgGoto DEF Steps
<1>2. CASE TimeOut(p)
  <2> DEFINE r == IF call[p].op = "open" THEN Panic ELSE Error
  <2>1. /\ Active(p) /\ End(p, r) /\ held' = [held EXCEPT ![p] = {}]
        /\ UNCHANGED <<rows, seen>> /\ table' = table /\ columns' = columns
    BY <1>2 DEF TimeOut, Active, PgEnd
  <2>2. r \in Results /\ r.kind # "ok"
    BY Conversions DEF Error, Panic
  <2> HIDE DEF r
  <2> QED
    BY <2>1, <2>2, PgTypes, PgEnds DEF Right
<1>3. CASE Lookup(p)
  <2>1. Active(p) /\ call[p].pc = "lookup" /\ call[p].op = "open" /\ UNCHANGED <<rows, seen>>
        /\ table' = table /\ columns' = columns /\ held' = held
    BY <1>3 DEF Lookup, At, Active, pgVars
  <2>2. held[p] = {}
    BY <2>1 DEF Inv, PoolInv
  <2>3. CASE opened
    <3>1. End(p, Ok(None)) /\ Ok(None) \in Results
      BY <1>3, <2>3, Conversions DEF Lookup
    <3>2. Right(p, Ok(None))
      BY <2>1 DEF Right, Answer
    <3> QED
      BY <2>1, <2>2, <3>1, <3>2, PgTypes, PgEnds
  <2>4. CASE ~opened
    <3>1. Goto(p, "connect")
      BY <1>3, <2>4 DEF Lookup
    <3> QED
      BY <2>1, <3>1, PgTypes, PgGoto DEF Steps
  <2> QED
    BY <2>3, <2>4
<1> QED
  BY <1>1, <1>2, <1>3

LEMMA PgOpenFine ==
    ASSUME Inv, engine = "postgres", engine' = engine, NEW p \in Callers,
           CreateOnOpen(p) \/ Insert(p)
    PROVE  Fine(p)
<1>1. CASE CreateOnOpen(p)
  <2>1. Active(p) /\ call[p].op = "open" /\ UNCHANGED <<rows, seen>>
    BY <1>1 DEF CreateOnOpen, At, Active
  <2>2. CASE table
    <3>1. End(p, Panic) /\ held' = [held EXCEPT ![p] = {}] /\ table' = table /\ columns' = columns
      BY <1>1, <2>2 DEF CreateOnOpen, PgEnd
    <3>2. Panic \in Results /\ Right(p, Panic)
      BY Conversions DEF Right, Panic
    <3> QED
      BY <2>1, <3>1, <3>2, PgTypes, PgEnds
  <2>3. CASE ~table
    <3>1. table' = TRUE /\ columns' = {} /\ Goto(p, "insert") /\ held' = [held EXCEPT ![p] = {}]
      BY <1>1, <2>3 DEF CreateOnOpen
    <3>2. /\ CallsInv' /\ call'[p] = [call[p] EXCEPT !.pc = "insert"] /\ call'[p].pc = "insert"
          /\ \A q \in Callers \ {p} : call'[q] = call[q]
      BY <2>1, <3>1, GotoCalls DEF Inv, Steps
    <3>3. Moves(p)
      <4> DEFINE new == [call[p] EXCEPT !.pc = "insert"]
      <4>1. new \in Calls /\ new.op = call[p].op /\ new.id = call[p].id /\ new.arg = call[p].arg
            /\ new.pc \notin {"idle", "ended"}
        BY PgTypes DEF Calls, Steps
      <4>2. call' = [call EXCEPT ![p] = new]
        BY <3>1 DEF Goto
      <4> HIDE DEF new
      <4> QED
        BY <2>1, <4>1, <4>2 DEF Moves
    <3>4. PoolInv'
      <4>1. {} \in SUBSET Connections /\ \A q \in Callers \ {p} : {} \cap held[q] = {}
        OBVIOUS
      <4> QED
        BY <3>1, <3>2, <4>1, PoolFrom DEF Inv
    <3>5. TableInv'
      <4>1. Keeps(p)
        BY <2>1, <3>2 DEF Keeps
      <4> QED
        BY <2>1, <3>1, <3>2, <4>1, TableFrom DEF Inv
    <3> QED
      BY <3>2, <3>3, <3>4, <3>5 DEF Fine
  <2> QED
    BY <2>2, <2>3
<1>2. CASE Insert(p)
  <2> DEFINE r == IF opened THEN Panic ELSE Ok(None)
  <2>1. /\ Active(p) /\ call[p].op = "open" /\ call[p].pc = "insert" /\ UNCHANGED <<rows, seen>>
        /\ End(p, r) /\ table' = table /\ columns' = columns /\ held' = held
    BY <1>2 DEF Insert, At, Active
  <2>2. held[p] = {}
    BY <2>1 DEF Inv, PoolInv
  <2>3. r \in Results /\ Right(p, r)
    BY <2>1, Conversions DEF Right, Answer, Panic
  <2> HIDE DEF r
  <2> QED
    BY <2>1, <2>2, <2>3, PgTypes, PgEnds
<1> QED
  BY <1>1, <1>2

LEMMA PgExecuteSetFine ==
    ASSUME Inv, engine = "postgres", engine' = engine, NEW p \in Callers, ExecuteSet(p)
    PROVE  Fine(p)
<1> DEFINE c == call[p]
           new == IF ~table THEN [c EXCEPT !.pc = "create"]
                  ELSE IF Missing # {} THEN [c EXCEPT !.pc = "alter", !.col = FirstMissing]
                  ELSE [c EXCEPT !.pc = "write", !.old = rows[c.id]]
<1>1. /\ Active(p) /\ c.op = "set" /\ call' = [call EXCEPT ![p] = new] /\ UNCHANGED <<rows, seen>>
      /\ table' = table /\ columns' = columns /\ held' = held
  BY DEF ExecuteSet, At, Active, pgVars
<1>2. c \in Calls /\ c.id \in Ids /\ rows[c.id] \in seen[p] /\ rows[c.id] \in States \cup {None}
  BY <1>1 DEF Inv, CallsInv, CallTypes, ArgumentsOf
<1>3. Missing # {} => FirstMissing \in AllColumns
  BY MissingColumn
<1>4. /\ new \in Calls /\ new.op = c.op /\ new.id = c.id /\ new.arg = c.arg
      /\ new.pc \in {"create", "alter", "write"}
      /\ new.pc = "write" => table /\ new.old \in seen[p]
      /\ new.pc = "alter" => table /\ new.col \in AllColumns
  <2>1. CASE ~table
    BY <1>2, <2>1 DEF Calls, Steps
  <2>2. CASE table /\ Missing # {}
    <3> DEFINE f == FirstMissing
    <3>1. f \in AllColumns /\ new = [c EXCEPT !.pc = "alter", !.col = f]
      BY <1>3, <2>2
    <3> HIDE DEF f, new, c
    <3> QED
      BY <1>2, <2>2, <3>1 DEF Calls, Steps
  <2>3. CASE table /\ Missing = {}
    <3>1. new = [c EXCEPT !.pc = "write", !.old = rows[c.id]]
      BY <2>3
    <3> HIDE DEF new, c
    <3> QED
      BY <1>2, <2>3, <3>1 DEF Calls, Steps
  <2> QED
    BY <2>1, <2>2, <2>3
<1> HIDE DEF new
<1>5. CallsInv' /\ call'[p] = new /\ \A q \in Callers \ {p} : call'[q] = call[q]
  BY <1>1, <1>4, MoveCalls DEF Inv
<1>6. Moves(p)
  BY <1>1, <1>4 DEF Moves
<1>7. PoolInv'
  BY <1>1, <1>4, <1>5, PoolSame DEF Inv
<1>8. TableInv'
  <2>1. Keeps(p)
    BY <1>1, <1>5 DEF Keeps
  <2> QED
    BY <1>1, <1>4, <1>5, <2>1, PgTypes, TableFrom DEF Inv
<1> QED
  BY <1>5, <1>6, <1>7, <1>8 DEF Fine

LEMMA PgWriteFine ==
    ASSUME Inv, engine = "postgres", engine' = engine, NEW p \in Callers, Write(p)
    PROVE  Fine(p)
<1> DEFINE b == Changed(call[p].old, call[p].arg)
           r == Ok(b)
<1>1. /\ Active(p) /\ call[p].op = "set" /\ call[p].pc = "write" /\ Store(p) /\ End(p, r)
      /\ held' = [held EXCEPT ![p] = {}] /\ table' = table /\ columns' = columns
  BY DEF Write, At, Active, PgEnd
<1>2. call[p].old \in seen[p] /\ table /\ b \in BOOLEAN /\ r \in Results
  BY <1>1, Conversions DEF Inv, TableInv, Changed
<1>3. Stores(p)
  BY <1>1, <1>2 DEF Stores
<1> HIDE DEF r, b
<1>4. /\ CallsInv' /\ call'[p].pc = "ended" /\ \A q \in Callers \ {p} : call'[q] = call[q]
      /\ \A q \in Callers : seen[q] \subseteq seen'[q]
  BY <1>1, <1>2, StoreCalls DEF Inv
<1>5. PoolInv'
  <2>1. {} \in SUBSET Connections /\ \A q \in Callers \ {p} : {} \cap held[q] = {}
    OBVIOUS
  <2> QED
    BY <1>1, <1>4, <2>1, PoolFrom DEF Inv
<1>6. TableInv'
  <2>1. Keeps(p)
    BY <1>4 DEF Keeps
  <2> QED
    BY <1>1, <1>2, <1>4, <2>1, PgTypes, TableFrom DEF Inv
<1> QED
  BY <1>3, <1>4, <1>5, <1>6 DEF Fine

LEMMA PgCreateFine ==
    ASSUME Inv, engine = "postgres", engine' = engine, NEW p \in Callers, CreateTable(p)
    PROVE  Fine(p)
<1>1. Active(p) /\ UNCHANGED <<rows, seen>>
  BY DEF CreateTable, Active
<1>2. CASE table
  <2>1. End(p, Error) /\ held' = [held EXCEPT ![p] = {}] /\ table' = table /\ columns' = columns
    BY <1>2 DEF CreateTable, PgEnd
  <2>2. Error \in Results /\ Right(p, Error)
    BY Conversions DEF Right, Error
  <2> QED
    BY <1>1, <2>1, <2>2, PgTypes, PgEnds
<1>3. CASE ~table /\ call[p].op = "get"
  <2>1. End(p, Ok(None)) /\ held' = [held EXCEPT ![p] = {}] /\ table' = TRUE /\ columns' = {}
    BY <1>3 DEF CreateTable, PgEnd
  <2>2. rows[call[p].id] = None
    BY <1>1, <1>3 DEF Inv, TableInv, CallsInv, ArgumentsOf
  <2>3. Ok(None) \in Results /\ Right(p, Ok(None))
    BY <1>3, <2>2, Conversions DEF Right, Answer
  <2> QED
    BY <1>1, <2>1, <2>3, PgEnds
<1>4. CASE ~table /\ call[p].op # "get"
  <2>1. Goto(p, "connect") /\ held' = held /\ table' = TRUE /\ columns' = {}
    BY <1>4 DEF CreateTable
  <2> QED
    BY <1>1, <2>1, PgTypes, PgGoto DEF Steps
<1> QED
  BY <1>2, <1>3, <1>4

LEMMA PgAlterFine ==
    ASSUME Inv, engine = "postgres", engine' = engine, NEW p \in Callers, AddMissingColumn(p)
    PROVE  Fine(p)
<1>1. Active(p) /\ UNCHANGED <<rows, seen>> /\ table' = table /\ call[p].pc = "alter"
  BY DEF AddMissingColumn, At, Active
<1>2. table /\ call[p].col \in AllColumns
  BY <1>1 DEF Inv, TableInv
<1>3. CASE call[p].col \in columns
  <2>1. End(p, Error) /\ held' = [held EXCEPT ![p] = {}] /\ columns' = columns
    BY <1>3 DEF AddMissingColumn, PgEnd
  <2>2. Error \in Results /\ Right(p, Error)
    BY Conversions DEF Right, Error
  <2> QED
    BY <1>1, <2>1, <2>2, PgTypes, PgEnds
<1>4. CASE call[p].col \notin columns
  <2>1. Goto(p, "connect") /\ held' = held /\ columns' = columns \cup {call[p].col}
    BY <1>4 DEF AddMissingColumn
  <2> QED
    BY <1>1, <1>2, <2>1, PgTypes, PgGoto DEF Steps
<1> QED
  BY <1>3, <1>4

LEMMA PgReadFine ==
    ASSUME Inv, engine = "postgres", engine' = engine, NEW p \in Callers,
           ExecuteGet(p) \/ ExecuteFetch(p)
    PROVE  Fine(p)
<1>1. CASE ExecuteGet(p)
  <2>1. Active(p) /\ call[p].op = "get" /\ UNCHANGED <<rows, seen>> /\ table' = table /\ columns' = columns
    BY <1>1 DEF ExecuteGet, At, Active
  <2>2. CASE table
    <3> DEFINE r == Ok(rows[call[p].id])
    <3>1. End(p, r) /\ held' = [held EXCEPT ![p] = {}]
      BY <1>1, <2>2 DEF ExecuteGet, PgEnd
    <3>2. call[p].id \in Ids /\ rows[call[p].id] \in States \cup {None}
      BY <2>1 DEF Inv, CallsInv, CallTypes, ArgumentsOf
    <3>3. r \in Results /\ Right(p, r)
      BY <2>1, <3>2, Conversions DEF Right, Answer
    <3> HIDE DEF r
    <3> QED
      BY <2>1, <3>1, <3>3, PgTypes, PgEnds
  <2>3. CASE ~table
    <3>1. Goto(p, "create") /\ held' = held
      BY <1>1, <2>3 DEF ExecuteGet
    <3> QED
      BY <2>1, <3>1, PgTypes, PgGoto DEF Steps
  <2> QED
    BY <2>2, <2>3
<1>2. CASE ExecuteFetch(p)
  <2> DEFINE r == IF table /\ Missing # {} THEN Panic ELSE Ok(Contents)
  <2>1. /\ Active(p) /\ call[p].op = "fetch" /\ UNCHANGED <<rows, seen>>
        /\ table' = table /\ columns' = columns /\ End(p, r) /\ held' = [held EXCEPT ![p] = {}]
    BY <1>2 DEF ExecuteFetch, At, Active, PgEnd
  <2>2. Contents \in SUBSET (Ids \X States)
    BY ContentsTyped DEF Inv, CallsInv
  <2>3. r \in Results /\ Right(p, r)
    BY <2>1, <2>2, Conversions DEF Right, Answer, Panic
  <2> HIDE DEF r
  <2> QED
    BY <2>1, <2>3, PgTypes, PgEnds
<1> QED
  BY <1>1, <1>2

\* Every step of a call of Postgres
LEMMA PgFine ==
    ASSUME Inv, engine = "postgres", engine' = engine, NEW p \in Callers, PgBegin(p) \/ PgStep(p)
    PROVE  Fine(p)
BY PgBeginFine, PgConnectFine, PgOpenFine, PgExecuteSetFine, PgWriteFine, PgCreateFine, PgAlterFine,
   PgReadFine DEF PgStep

-----------------------------------------------------------------------------
(* IndexedDB *)

\* set_state stores, or finds the head that it was to store; it answers true either way.
StoresNews(p) == Active(p) /\ call[p].op = "set" /\ Store(p) /\ End(p, Ok(TRUE))

FindsStored(p) ==
    /\ Active(p) /\ call[p].op = "set" /\ UNCHANGED <<rows, seen>>
    /\ SameHead(rows[call[p].id], call[p].arg) /\ End(p, Ok(TRUE))

IdbFine(p) == /\ Begins(p) \/ Moves(p) \/ Answered(p) \/ StoresNews(p) \/ FindsStored(p)
              /\ CallsInv' /\ PoolInv' /\ TableInv' /\ LocksInv'

LEMMA IdbRest ==
    ASSUME Inv, engine = "indexeddb", engine' = engine, UNCHANGED pgVars, NEW p \in Callers, Keeps(p),
           call'[p].pc \notin {"write", "alter"},
           \/ mutex' = mutex
           \/ mutex' = [mutex EXCEPT ![Tab[p]] = p]
           \/ mutex' = [mutex EXCEPT ![Tab[p]] = None],
           txn' \in {txn, None, p}
    PROVE  PoolInv' /\ TableInv' /\ LocksInv'
<1>1. /\ \A q \in Callers \ {p} : call'[q] = call[q]
      /\ \A q \in Callers : held[q] = {}
      /\ table = TRUE /\ columns \subseteq AllColumns
  BY DEF Inv, PoolInv, TableInv, Keeps
<1>2. PoolInv'
  BY <1>1 DEF Inv, PoolInv, pgVars
<1>3. TableInv'
  BY <1>1, TableFrom DEF Inv, pgVars
<1>4. LocksInv'
  <2>1. mutex \in [Tabs -> Callers \cup {None}] /\ txn \in Callers \cup {None}
        /\ \A t \in Tabs : mutex[t] = None \/ Tab[mutex[t]] = t
    BY DEF Inv, LocksInv
  <2>2. mutex' \in [Tabs -> Callers \cup {None}] /\ txn' \in Callers \cup {None}
    BY <2>1
  <2>3. ASSUME NEW t \in Tabs PROVE mutex'[t] = None \/ Tab[mutex'[t]] = t
    BY <2>1
  <2> QED
    BY <2>2, <2>3 DEF LocksInv
<1> QED
  BY <1>2, <1>3, <1>4

LEMMA IdbGoto ==
    ASSUME Inv, engine = "indexeddb", engine' = engine, UNCHANGED pgVars, NEW p \in Callers, Active(p),
           NEW pc \in Steps \ {"idle", "ended", "write", "alter"}, Goto(p, pc), UNCHANGED <<rows, seen>>,
           \/ mutex' = mutex
           \/ mutex' = [mutex EXCEPT ![Tab[p]] = p],
           txn' \in {txn, None, p}
    PROVE  IdbFine(p)
<1>1. /\ CallsInv' /\ call'[p] = [call[p] EXCEPT !.pc = pc] /\ call'[p].pc = pc
      /\ \A q \in Callers \ {p} : call'[q] = call[q]
  BY GotoCalls DEF Inv
<1>2. Moves(p)
  <2> DEFINE new == [call[p] EXCEPT !.pc = pc]
  <2>1. call[p] \in Calls
    BY DEF Inv, CallsInv, CallTypes
  <2>2. new \in Calls /\ new.op = call[p].op /\ new.id = call[p].id /\ new.arg = call[p].arg
        /\ new.pc \notin {"idle", "ended"}
    BY <2>1 DEF Calls
  <2>3. call' = [call EXCEPT ![p] = new]
    BY DEF Goto
  <2> HIDE DEF new
  <2> QED
    BY <2>2, <2>3 DEF Moves
<1>3. Keeps(p)
  BY <1>1 DEF Keeps
<1>4. PoolInv' /\ TableInv' /\ LocksInv'
  BY <1>1, <1>3, IdbRest
<1> QED
  BY <1>1, <1>2, <1>4 DEF IdbFine

LEMMA IdbAnswers ==
    ASSUME Inv, engine = "indexeddb", engine' = engine, UNCHANGED pgVars, NEW p \in Callers, Active(p),
           NEW result \in Results, End(p, result), UNCHANGED <<rows, seen>>,
           \/ Right(p, result)
           \/ /\ call[p].op = "set" /\ SameHead(rows[call[p].id], call[p].arg)
              /\ result = Ok(TRUE),
           \/ mutex' = mutex
           \/ mutex' = [mutex EXCEPT ![Tab[p]] = None],
           txn' \in {txn, None, p}
    PROVE  IdbFine(p)
<1>1. /\ CallsInv' /\ call'[p].pc = "ended" /\ \A q \in Callers \ {p} : call'[q] = call[q]
  BY EndCalls DEF Inv
<1>2. Answered(p) \/ FindsStored(p)
  BY DEF Answered, FindsStored
<1>3. Keeps(p)
  BY <1>1 DEF Keeps
<1>4. PoolInv' /\ TableInv' /\ LocksInv'
  BY <1>1, <1>3, IdbRest
<1> QED
  BY <1>1, <1>2, <1>4 DEF IdbFine

LEMMA IdbBeginFine ==
    ASSUME Inv, engine = "indexeddb", engine' = engine, UNCHANGED pgVars, NEW p \in Callers, IdbBegin(p)
    PROVE  IdbFine(p)
<1>1. PICK op \in {"open", "set", "get", "fetch"}, id \in Ids \cup {None}, arg \in States \cup {None},
           pc \in {"read", "lock"} :
        /\ op \in {"set", "get"} => id \in Ids
        /\ op = "set" => arg \in States
        /\ op # "set" => arg = None
        /\ op \in {"open", "fetch"} => id = None
        /\ Begin(p, op, id, arg, pc)
  <2>1. CASE Begin(p, "fetch", None, None, "read")
    BY <2>1
  <2>2. ASSUME NEW i \in Ids, Begin(p, "get", i, None, "read")
        PROVE  \E op \in {"open", "set", "get", "fetch"}, id \in Ids \cup {None},
                  arg \in States \cup {None}, pc \in {"read", "lock"} :
                 /\ op \in {"set", "get"} => id \in Ids
                 /\ op = "set" => arg \in States
                 /\ op # "set" => arg = None
                 /\ op \in {"open", "fetch"} => id = None
                 /\ Begin(p, op, id, arg, pc)
    BY <2>2
  <2>3. ASSUME NEW i \in Ids, NEW s \in States, Begin(p, "set", i, s, "lock")
        PROVE  \E op \in {"open", "set", "get", "fetch"}, id \in Ids \cup {None},
                  arg \in States \cup {None}, pc \in {"read", "lock"} :
                 /\ op \in {"set", "get"} => id \in Ids
                 /\ op = "set" => arg \in States
                 /\ op # "set" => arg = None
                 /\ op \in {"open", "fetch"} => id = None
                 /\ Begin(p, op, id, arg, pc)
    BY <2>3
  <2> QED
    BY <2>1, <2>2, <2>3 DEF IdbBegin
<1>2. /\ CallsInv' /\ rows' = rows /\ call[p].pc = "idle" /\ call'[p].pc = pc
      /\ \A q \in Callers \ {p} : call'[q] = call[q] /\ seen'[q] = seen[q]
  BY <1>1, BeginCalls DEF Inv, Steps
<1>3. Begins(p)
  BY <1>1 DEF Begins, Steps
<1>4. Keeps(p)
  BY <1>2 DEF Keeps
<1>5. mutex' = mutex /\ txn' = txn
  BY DEF IdbBegin, idbVars
<1>6. PoolInv' /\ TableInv' /\ LocksInv'
  BY <1>2, <1>4, <1>5, IdbRest
<1> QED
  BY <1>2, <1>3, <1>6 DEF IdbFine

LEMMA IdbLockFine ==
    ASSUME Inv, engine = "indexeddb", engine' = engine, UNCHANGED pgVars, NEW p \in Callers,
           Lock(p) \/ BeginTransaction(p) \/ Put(p) \/ CommitFails(p)
    PROVE  IdbFine(p)
<1>1. Active(p) /\ UNCHANGED <<rows, seen>>
  BY DEF Lock, BeginTransaction, Put, CommitFails, At, Active
<1>2. \E pc \in {"begin", "compare", "complete", "hung"} : Goto(p, pc)
  BY DEF Lock, BeginTransaction, Put, CommitFails
<1>3. /\ \/ mutex' = mutex
         \/ mutex' = [mutex EXCEPT ![Tab[p]] = p]
      /\ txn' \in {txn, None, p}
  BY DEF Lock, BeginTransaction, Put, CommitFails, idbVars
<1> QED
  BY <1>1, <1>2, <1>3, IdbGoto DEF Steps

LEMMA IdbReadFine ==
    ASSUME Inv, engine = "indexeddb", engine' = engine, UNCHANGED pgVars, NEW p \in Callers,
           Read(p) \/ ReadFails(p) \/ RequestFails(p)
    PROVE  IdbFine(p)
<1>1. Active(p) /\ UNCHANGED <<rows, seen>>
  BY DEF Read, ReadFails, RequestFails, Active
<1>2. /\ \/ mutex' = mutex
         \/ mutex' = [mutex EXCEPT ![Tab[p]] = None]
      /\ txn' \in {txn, None, p}
  BY DEF Read, ReadFails, RequestFails, IdbEnd, idbVars
<1>3. CASE Read(p)
  <2> DEFINE v == IF call[p].op = "get" THEN rows[call[p].id] ELSE Contents
             r == Ok(v)
  <2>1. End(p, r) /\ call[p].op \in {"get", "fetch"}
    BY <1>3 DEF Read
  <2>2. Contents \in SUBSET (Ids \X States)
    BY ContentsTyped DEF Inv, CallsInv
  <2>3. call[p].op = "get" => rows[call[p].id] \in States \cup {None}
    BY <1>1 DEF Inv, CallsInv, CallTypes, ArgumentsOf
  <2>4. r \in Results /\ Right(p, r)
    BY <2>1, <2>2, <2>3, Conversions DEF Right, Answer
  <2> HIDE DEF r
  <2> QED
    BY <1>1, <1>2, <2>1, <2>4, IdbAnswers
<1>4. CASE ReadFails(p) \/ RequestFails(p)
  <2>1. End(p, Error)
    BY <1>4 DEF ReadFails, RequestFails, IdbEnd
  <2>2. Error \in Results /\ Right(p, Error)
    BY Conversions DEF Right, Error
  <2> QED
    BY <1>1, <1>2, <2>1, <2>2, IdbAnswers
<1> QED
  BY <1>3, <1>4

LEMMA IdbCompareFine ==
    ASSUME Inv, engine = "indexeddb", engine' = engine, UNCHANGED pgVars, NEW p \in Callers, Compare(p)
    PROVE  IdbFine(p)
<1>1. Active(p) /\ UNCHANGED <<rows, seen>> /\ call[p].op = "set"
  BY DEF Compare, At, Active
<1>2. CASE SameHead(rows[call[p].id], call[p].arg)
  <2>1. End(p, Ok(TRUE)) /\ mutex' = [mutex EXCEPT ![Tab[p]] = None] /\ txn' = None
    BY <1>2 DEF Compare, IdbEnd
  <2> QED
    BY <1>1, <1>2, <2>1, Conversions, IdbAnswers
<1>3. CASE ~SameHead(rows[call[p].id], call[p].arg)
  <2>1. Goto(p, "put") /\ mutex' = mutex /\ txn' = txn
    BY <1>3 DEF Compare
  <2> QED
    BY <1>1, <2>1, IdbGoto DEF Steps
<1> QED
  BY <1>2, <1>3

LEMMA IdbCompleteFine ==
    ASSUME Inv, engine = "indexeddb", engine' = engine, UNCHANGED pgVars, NEW p \in Callers, Complete(p)
    PROVE  IdbFine(p)
<1>1. /\ Active(p) /\ call[p].op = "set" /\ Store(p) /\ End(p, Ok(TRUE))
      /\ mutex' = [mutex EXCEPT ![Tab[p]] = None] /\ txn' = None
  BY DEF Complete, At, Active, IdbEnd
<1>2. /\ CallsInv' /\ call'[p].pc = "ended" /\ \A q \in Callers \ {p} : call'[q] = call[q]
      /\ \A q \in Callers : seen[q] \subseteq seen'[q]
  BY <1>1, StoreCalls, Conversions DEF Inv
<1>3. Keeps(p)
  BY <1>2 DEF Keeps
<1>4. PoolInv' /\ TableInv' /\ LocksInv'
  BY <1>1, <1>2, <1>3, IdbRest
<1> QED
  BY <1>1, <1>2, <1>4 DEF IdbFine, StoresNews

LEMMA IdbFineStep ==
    ASSUME Inv, engine = "indexeddb", engine' = engine, UNCHANGED pgVars, NEW p \in Callers,
           IdbBegin(p) \/ IdbStep(p)
    PROVE  IdbFine(p)
BY IdbBeginFine, IdbLockFine, IdbReadFine, IdbCompareFine, IdbCompleteFine DEF IdbStep

-----------------------------------------------------------------------------
(* The invariant *)

LEMMA InvInit == Init => Inv
<1> SUFFICES ASSUME Init PROVE Inv
  OBVIOUS
<1>1. CallsInit /\ engine \in {"postgres", "indexeddb"}
  BY DEF Init, PgInit, IdbInit
<1>2. CallsInv
  <2>1. Idle \in Calls
    BY DEF Idle, Calls, Steps
  <2>2. CallTypes
    BY <1>1, <2>1 DEF CallsInit, CallTypes
  <2>3. \A p \in Callers : ~Active(p)
    BY <1>1 DEF CallsInit, Active, Idle
  <2> QED
    BY <2>2, <2>3 DEF CallsInv, ArgumentsOf
<1>3. held = [p \in Callers |-> {}] /\ \A p \in Callers : call[p].pc = "idle"
  BY <1>1 DEF Init, PgInit, IdbInit, CallsInit, Idle
<1>4. PoolInv
  BY <1>3 DEF PoolInv
<1>5. TableInv
  <2>1. /\ table \in BOOLEAN /\ columns \subseteq AllColumns
        /\ ~table => columns = {}
        /\ engine = "indexeddb" => table
    BY DEF Init, PgInit
  <2>2. \A i \in Ids : rows[i] = None
    BY <1>1 DEF CallsInit
  <2> QED
    BY <1>3, <2>1, <2>2 DEF TableInv
<1>6. LocksInv
  BY DEF Init, IdbInit, LocksInv, Tabs
<1> QED
  BY <1>1, <1>2, <1>4, <1>5, <1>6 DEF Inv

\* A step of one call of the engine
LEMMA OneStep ==
    ASSUME Inv, Next
    PROVE  /\ engine' = engine
           /\ \/ /\ engine = "postgres" /\ UNCHANGED idbVars
                 /\ \E p \in Callers : Fine(p) /\ (PgBegin(p) \/ PgStep(p))
              \/ /\ engine = "indexeddb" /\ UNCHANGED pgVars
                 /\ \E p \in Callers : IdbFine(p)
<1>1. CASE engine = "postgres" /\ PgNext /\ UNCHANGED <<engine, idbVars>>
  BY <1>1, PgFine DEF PgNext
<1>2. CASE engine = "indexeddb" /\ IdbNext /\ UNCHANGED <<engine, pgVars>>
  BY <1>2, IdbFineStep DEF IdbNext
<1> QED
  BY <1>1, <1>2 DEF Next

LEMMA InvNext == Inv /\ [Next]_vars => Inv'
<1> SUFFICES ASSUME Inv, [Next]_vars PROVE Inv'
  OBVIOUS
<1>1. CASE Next
  <2>1. engine' = engine /\ CallsInv' /\ PoolInv' /\ TableInv' /\ (LocksInv' \/ UNCHANGED idbVars)
    BY <1>1, OneStep DEF Fine, IdbFine
  <2>2. LocksInv'
    BY <2>1 DEF Inv, LocksInv, idbVars
  <2> QED
    BY <2>1, <2>2 DEF Inv
<1>2. CASE UNCHANGED vars
  BY <1>2 DEF vars, callVars, pgVars, idbVars, Inv, CallsInv, CallTypes, ArgumentsOf, Active, PoolInv,
              TableInv, LocksInv
<1> QED
  BY <1>1, <1>2

\* The invariant holds in every state of either engine.
THEOREM Invariance == Spec => []Inv
BY InvInit, InvNext, PTL DEF Spec

-----------------------------------------------------------------------------
(* Postgres implements the storage *)

\* What is shown of one call
Outcome(c) ==
    IF c.pc # "ended" THEN None
    ELSE IF c.result.kind # "ok" THEN [kind |-> "failed", value |-> None]
    ELSE [kind |-> "ok", value |->
            CASE c.op = "get" /\ c.result.value # None -> c.result.value
              [] c.op = "fetch" -> {<<r[1], r[2]>> : r \in c.result.value}
              [] OTHER -> c.result.value]

Standing(c) == IF c.pc = "idle" THEN "idle" ELSE IF c.pc = "ended" THEN "ended" ELSE "called"

Row(c) == [op |-> c.op, id |-> c.id, arg |-> IF c.arg = None THEN None ELSE c.arg,
           st |-> Standing(c), result |-> Outcome(c)]

LEMMA ShownRow == Shown(Whole) = [p \in Callers |-> Row(call[p])]
BY DEF Shown, Whole, Row, Standing, Outcome

LEMMA RowEnds ==
    ASSUME NEW c \in Calls, c.pc \notin {"idle", "ended"}, NEW r \in Results,
           c.op = "fetch" /\ r.kind = "ok" => r.value \in SUBSET (Ids \X States)
    PROVE  LET e == [c EXCEPT !.pc = "ended", !.result = r]
           IN  /\ r.kind # "ok" =>
                    Row(e) = [Row(c) EXCEPT !.st = "ended", !.result = [kind |-> "failed", value |-> None]]
               /\ r.kind = "ok" =>
                    Row(e) = [Row(c) EXCEPT !.st = "ended", !.result = [kind |-> "ok", value |-> r.value]]
<1> DEFINE e == [c EXCEPT !.pc = "ended", !.result = r]
<1>1. /\ e.op = c.op /\ e.id = c.id /\ e.arg = c.arg /\ e.pc = "ended" /\ e.result = r
  BY DEF Calls
<1> HIDE DEF e
<1>2. r.kind # "ok" => Outcome(e) = [kind |-> "failed", value |-> None]
  BY <1>1 DEF Outcome
<1>3. r.kind = "ok" => Outcome(e) = [kind |-> "ok", value |-> r.value]
  <2>1. CASE r.kind = "ok" /\ c.op = "fetch"
    <3> DEFINE V == {<<x[1], x[2]>> : x \in r.value}
    <3>1. V = r.value
      BY <2>1
    <3>2. Outcome(e) = [kind |-> "ok", value |-> V]
      BY <1>1, <2>1 DEF Outcome
    <3> QED
      BY <3>1, <3>2
  <2>2. CASE r.kind = "ok" /\ c.op # "fetch"
    BY <1>1, <2>2 DEF Outcome
  <2> QED
    BY <2>1, <2>2
<1>4. Standing(e) = "ended"
  BY <1>1 DEF Standing
<1>5. ASSUME NEW o, Outcome(e) = o PROVE Row(e) = [Row(c) EXCEPT !.st = "ended", !.result = o]
  <2> DEFINE a == IF c.arg = None THEN None ELSE c.arg
             s == Standing(c)
             u == Outcome(c)
  <2>1. Row(c) = [op |-> c.op, id |-> c.id, arg |-> a, st |-> s, result |-> u]
    BY DEF Row
  <2>2. Row(e) = [op |-> c.op, id |-> c.id, arg |-> a, st |-> "ended", result |-> o]
    BY <1>1, <1>4, <1>5 DEF Row
  <2> HIDE DEF a, s, u
  <2> DEFINE R == Row(c)
             R1 == [R EXCEPT !.st = "ended"]
             R2 == [R1 EXCEPT !.result = o]
  <2>3. R = [op |-> c.op, id |-> c.id, arg |-> a, st |-> s, result |-> u]
    BY <2>1
  <2>4. [R EXCEPT !.st = "ended", !.result = o] = R2
    OBVIOUS
  <2> HIDE DEF R
  <2>5. R1 = [op |-> c.op, id |-> c.id, arg |-> a, st |-> "ended", result |-> u]
    BY <2>3
  <2> HIDE DEF R1
  <2>6. R2 = [op |-> c.op, id |-> c.id, arg |-> a, st |-> "ended", result |-> o]
    BY <2>5
  <2> QED
    BY <2>2, <2>4, <2>6 DEF R
<1>6. r.kind # "ok" =>
        Row(e) = [Row(c) EXCEPT !.st = "ended", !.result = [kind |-> "failed", value |-> None]]
  BY <1>2, <1>5
<1>7. r.kind = "ok" =>
        Row(e) = [Row(c) EXCEPT !.st = "ended", !.result = [kind |-> "ok", value |-> r.value]]
  BY <1>3, <1>5
<1> QED
  BY <1>6, <1>7 DEF e

\* What is shown, as a function of what the calls are
LEMMA PgShown ==
    engine = "postgres" =>
        /\ PgRows = rows /\ PgSeen = seen
        /\ \A c : call = c => PgCalls = [p \in Callers |-> Row(c[p])]
BY ShownRow DEF PgRows, PgSeen, PgCalls

LEMMA PgShownNext ==
    engine' = "postgres" =>
        /\ PgRows' = rows' /\ PgSeen' = seen'
        /\ \A c : call' = c => PgCalls' = [p \in Callers |-> Row(c[p])]
<1>1. (engine = "postgres" =>
        /\ PgRows = rows /\ PgSeen = seen
        /\ \A c : call = c => PgCalls = [p \in Callers |-> Row(c[p])])'
  BY PgShown, PTL
<1> QED
  BY <1>1

\* Only what is shown of p changes.
LEMMA PgChange ==
    ASSUME Inv, engine = "postgres", engine' = engine, NEW p \in Callers, Keeps(p), CallsInv'
    PROVE  /\ PgRows = rows /\ PgSeen = seen /\ PgCalls = [q \in Callers |-> Row(call[q])]
           /\ PgRows' = rows' /\ PgSeen' = seen'
           /\ \A r : Row(call'[p]) = r => PgCalls' = [PgCalls EXCEPT ![p] = r]
<1> DEFINE c == call
           d == call'
<1>1. PgRows = rows /\ PgSeen = seen /\ PgCalls = [q \in Callers |-> Row(c[q])]
  BY PgShown
<1>2. PgRows' = rows' /\ PgSeen' = seen' /\ PgCalls' = [q \in Callers |-> Row(d[q])]
  BY PgShownNext
<1>3. \A q \in Callers \ {p} : d[q] = c[q]
  BY DEF Keeps
<1> HIDE DEF c, d
<1>4. [q \in Callers |-> Row(d[q])] = [[q \in Callers |-> Row(c[q])] EXCEPT ![p] = Row(d[p])]
  BY <1>3
<1> QED
  BY <1>1, <1>2, <1>4 DEF c, d

LEMMA PgBeginMaps ==
    ASSUME Inv, engine = "postgres", engine' = engine, NEW p \in Callers, Begins(p), CallsInv'
    PROVE  PgStore!Next
<1>1. PICK op \in {"open", "set", "get", "fetch"}, id \in Ids \cup {None}, arg \in States \cup {None},
           pc \in Steps \ {"idle", "ended"} :
        /\ op \in {"set", "get"} => id \in Ids
        /\ op = "set" => arg \in States
        /\ op # "set" => arg = None
        /\ op \in {"open", "fetch"} => id = None
        /\ Begin(p, op, id, arg, pc)
  BY DEF Begins
<1> DEFINE new == [Idle EXCEPT !.op = op, !.id = id, !.arg = arg, !.pc = pc]
           row == [op |-> op, id |-> id, arg |-> arg, st |-> "called", result |-> None]
<1>2. /\ rows' = rows /\ call[p].pc = "idle"
      /\ \A q \in Callers \ {p} : call'[q] = call[q] /\ seen'[q] = seen[q]
  BY <1>1, BeginCalls DEF Inv
<1>3. call' = [call EXCEPT ![p] = new] /\ seen' = [seen EXCEPT ![p] = IF op = "set" THEN {rows[id]} ELSE {}]
  BY <1>1 DEF Begin
<1>4. Row(new) = row
  <2>1. new.op = op /\ new.id = id /\ new.arg = arg /\ new.pc = pc
    BY DEF Idle
  <2> HIDE DEF new
  <2> QED
    BY <1>1, <2>1 DEF Row, Outcome, Standing
<1>5. Keeps(p)
  BY <1>2 DEF Keeps
<1> HIDE DEF new, row
<1>12. call'[p] = new
  BY <1>3 DEF Inv, CallsInv, CallTypes
<1>6. /\ PgRows = rows /\ PgSeen = seen /\ PgCalls[p] = Row(call[p])
      /\ PgRows' = rows' /\ PgSeen' = seen' /\ PgCalls' = [PgCalls EXCEPT ![p] = row]
  BY <1>4, <1>5, <1>12, PgChange
<1>7. PgCalls[p].st = "idle"
  BY <1>2, <1>6 DEF Row, Standing
<1>8. PgStore!Begin(p, op, id, arg)
  BY <1>2, <1>3, <1>6, <1>7 DEF PgStore!Begin, row
<1>9. CASE op = "set"
  BY <1>1, <1>8, <1>9 DEF PgStore!Next
<1>10. CASE op = "get"
  BY <1>1, <1>8, <1>10 DEF PgStore!Next
<1>11. CASE op \in {"open", "fetch"}
  BY <1>1, <1>8, <1>11 DEF PgStore!Next
<1> QED
  BY <1>9, <1>10, <1>11

LEMMA PgMoveMaps ==
    ASSUME Inv, engine = "postgres", engine' = engine, NEW p \in Callers, Moves(p), CallsInv'
    PROVE  UNCHANGED PgStore!vars
<1>1. PICK new \in Calls :
        /\ new.op = call[p].op /\ new.id = call[p].id /\ new.arg = call[p].arg
        /\ new.pc \notin {"idle", "ended"}
        /\ call' = [call EXCEPT ![p] = new]
  BY DEF Moves
<1>2. Active(p) /\ UNCHANGED <<rows, seen>>
  BY DEF Moves
<1>3. call'[p] = new /\ \A q \in Callers \ {p} : call'[q] = call[q]
  BY <1>1, <1>2, MoveCalls DEF Inv
<1>4. Row(new) = Row(call[p])
  BY <1>1, <1>2 DEF Row, Standing, Outcome, Active
<1>5. Keeps(p)
  BY <1>2, <1>3 DEF Keeps
<1>6. /\ PgRows = rows /\ PgSeen = seen /\ PgCalls = [q \in Callers |-> Row(call[q])]
      /\ PgRows' = rows' /\ PgSeen' = seen' /\ PgCalls' = [PgCalls EXCEPT ![p] = Row(call[p])]
  BY <1>3, <1>4, <1>5, PgChange
<1>7. [PgCalls EXCEPT ![p] = Row(call[p])] = PgCalls
  BY <1>6
<1> QED
  BY <1>2, <1>6, <1>7 DEF PgStore!vars

\* The call ends, as seen from the storage.
LEMMA PgEndMaps ==
    ASSUME Inv, engine = "postgres", engine' = engine, NEW p \in Callers, Active(p),
           NEW result \in Results, End(p, result), Keeps(p), CallsInv',
           call[p].op = "fetch" /\ result.kind = "ok" => result.value \in SUBSET (Ids \X States)
    PROVE  /\ PgCalls[p].st = "called" /\ PgCalls[p].op = call[p].op
           /\ PgCalls[p].id = call[p].id /\ (call[p].arg # None => PgCalls[p].arg = call[p].arg)
           /\ result.kind # "ok" => PgStore!End(p, [kind |-> "failed", value |-> None])
           /\ result.kind = "ok" => PgStore!End(p, [kind |-> "ok", value |-> result.value])
<1> DEFINE new == [call[p] EXCEPT !.pc = "ended", !.result = result]
           c == call[p]
<1>1. c \in Calls /\ c.pc \notin {"idle", "ended"} /\ call'[p] = new
  BY DEF Inv, CallsInv, CallTypes, End, Active
<1>2. /\ result.kind # "ok" => Row(new) =
            [Row(c) EXCEPT !.st = "ended", !.result = [kind |-> "failed", value |-> None]]
      /\ result.kind = "ok" => Row(new) =
            [Row(c) EXCEPT !.st = "ended", !.result = [kind |-> "ok", value |-> result.value]]
  BY <1>1, RowEnds
<1> HIDE DEF new
<1>3. PgCalls[p] = Row(c) /\ PgCalls' = [PgCalls EXCEPT ![p] = Row(new)] /\ DOMAIN PgCalls = Callers
  BY <1>1, PgChange
<1>4. ASSUME NEW o, Row(new) = [Row(c) EXCEPT !.st = "ended", !.result = o]
      PROVE  PgStore!End(p, o)
  <2>1. PgCalls' = [PgCalls EXCEPT ![p] = [PgCalls[p] EXCEPT !.st = "ended", !.result = o]]
    BY <1>3, <1>4
  <2> QED
    BY <2>1, <1>3 DEF PgStore!End
<1>5. Row(c).st = "called" /\ Row(c).op = c.op /\ Row(c).id = c.id /\ (c.arg # None => Row(c).arg = c.arg)
  BY <1>1 DEF Row, Standing
<1> QED
  BY <1>2, <1>3, <1>4, <1>5

LEMMA PgAnswerMaps ==
    ASSUME Inv, engine = "postgres", engine' = engine, NEW p \in Callers, Answered(p), CallsInv'
    PROVE  PgStore!Next
<1>1. PICK result \in Results : Right(p, result) /\ End(p, result)
  BY DEF Answered
<1>2. Active(p) /\ UNCHANGED <<rows, seen>>
  BY DEF Answered
<1>3. Keeps(p)
  <2>1. \A q \in Callers \ {p} : call'[q] = call[q]
    BY <1>1, <1>2, EndCalls DEF Inv
  <2> QED
    BY <1>2, <2>1 DEF Keeps
<1>4. /\ PgRows = rows /\ PgSeen = seen /\ PgRows' = rows' /\ PgSeen' = seen'
  BY <1>3, PgChange
<1>5. call[p].op = "fetch" /\ result.kind = "ok" => result.value \in SUBSET (Ids \X States)
  <2>1. Contents \in SUBSET (Ids \X States)
    BY ContentsTyped DEF Inv, CallsInv
  <2> QED
    BY <1>1, <2>1 DEF Right, Answer, Ok
<1>6. /\ PgCalls[p].st = "called" /\ PgCalls[p].op = call[p].op /\ PgCalls[p].id = call[p].id
      /\ result.kind # "ok" => PgStore!End(p, [kind |-> "failed", value |-> None])
      /\ result.kind = "ok" => PgStore!End(p, [kind |-> "ok", value |-> result.value])
  BY <1>1, <1>2, <1>3, <1>5, PgEndMaps
<1>7. CASE result.kind # "ok"
  <2>1. PgStore!Fail(p)
    BY <1>2, <1>4, <1>6, <1>7 DEF PgStore!Fail, PgStore!Failed
  <2> QED
    BY <2>1 DEF PgStore!Next
<1>8. CASE result.kind = "ok"
  <2>1. PICK v : Answer(p, v) /\ result = Ok(v)
    BY <1>1, <1>8 DEF Right
  <2>2. PgStore!End(p, PgStore!Ok(v))
    BY <1>6, <1>8, <2>1 DEF Ok, PgStore!Ok
  <2>3. CASE call[p].op = "open" /\ v = None
    <3>1. PgStore!Collection(p)
      BY <1>2, <1>4, <1>6, <2>2, <2>3 DEF PgStore!Collection
    <3> QED
      BY <3>1 DEF PgStore!Next
  <2>4. CASE call[p].op = "get" /\ v = rows[call[p].id]
    <3>1. PgStore!GetState(p)
      BY <1>2, <1>4, <1>6, <2>2, <2>4 DEF PgStore!GetState
    <3> QED
      BY <3>1 DEF PgStore!Next
  <2>5. CASE call[p].op = "fetch" /\ v = Contents
    <3>1. PgStore!Contents(PgRows) = Contents
      BY <1>4 DEF PgStore!Contents, Contents
    <3>2. PgStore!FetchStates(p)
      BY <1>2, <1>4, <1>6, <2>2, <2>5, <3>1 DEF PgStore!FetchStates
    <3> QED
      BY <3>2 DEF PgStore!Next
  <2> QED
    BY <2>1, <2>3, <2>4, <2>5 DEF Answer
<1> QED
  BY <1>7, <1>8

LEMMA PgStoreMaps ==
    ASSUME Inv, engine = "postgres", engine' = engine, NEW p \in Callers, Stores(p), CallsInv'
    PROVE  PgStore!Next
<1>1. PICK b \in BOOLEAN : End(p, Ok(b)) /\ \E old \in seen[p] : b = Changed(old, call[p].arg)
  BY DEF Stores
<1>2. Active(p) /\ call[p].op = "set" /\ Store(p)
  BY DEF Stores
<1> DEFINE c == call[p]
<1>3. c.id \in Ids /\ c.arg \in States /\ c.arg # None
  BY <1>2 DEF Inv, CallsInv, ArgumentsOf
<1>4. Ok(b) \in Results /\ Ok(b).kind = "ok" /\ Ok(b).value = b
  BY Conversions DEF Ok
<1>5. Keeps(p)
  <2>1. /\ \A q \in Callers \ {p} : call'[q] = call[q]
        /\ \A q \in Callers : seen[q] \subseteq seen'[q]
    BY <1>1, <1>2, <1>4, StoreCalls DEF Inv
  <2> QED
    BY <2>1 DEF Keeps
<1>6. /\ PgRows = rows /\ PgSeen = seen /\ PgRows' = rows' /\ PgSeen' = seen'
      /\ PgCalls = [q \in Callers |-> Row(call[q])]
  BY <1>5, PgChange
<1>7. /\ PgCalls[p].st = "called" /\ PgCalls[p].op = "set" /\ PgCalls[p].id = c.id /\ PgCalls[p].arg = c.arg
      /\ PgStore!End(p, [kind |-> "ok", value |-> b])
  BY <1>1, <1>2, <1>3, <1>4, <1>5, PgEndMaps
<1>8. \A q \in Callers : /\ (PgCalls[q].st = "called") <=> Active(q)
                         /\ PgCalls[q].op = call[q].op /\ PgCalls[q].id = call[q].id
  <2>1. ASSUME NEW q \in Callers PROVE /\ (Row(call[q]).st = "called") <=> Active(q)
                                       /\ Row(call[q]).op = call[q].op /\ Row(call[q]).id = call[q].id
    BY DEF Row, Standing, Active
  <2> QED
    BY <1>6, <2>1
<1>9. PgRows' = [PgRows EXCEPT ![c.id] = c.arg]
  BY <1>2, <1>6 DEF Store
<1>10. PgSeen' = [q \in Callers |-> IF PgCalls[q].st = "called" /\ PgCalls[q].op = "set" /\ PgCalls[q].id = c.id
                                    THEN PgSeen[q] \cup {c.arg} ELSE PgSeen[q]]
  <2>1. seen' = [q \in Callers |-> IF Active(q) /\ call[q].op = "set" /\ call[q].id = c.id
                                   THEN seen[q] \cup {c.arg} ELSE seen[q]]
    BY <1>2 DEF Store
  <2> QED
    BY <1>6, <1>8, <2>1
<1>11. b \in {PgStore!Changed(old, PgCalls[p].arg) : old \in PgSeen[p]}
  BY <1>1, <1>6, <1>7 DEF PgStore!Changed, Changed
<1>12. PgStore!SetState(p)
  <2>1. PgStore!End(p, PgStore!Ok(b))
    BY <1>7 DEF PgStore!Ok
  <2> HIDE DEF c
  <2> QED
    BY <1>7, <1>9, <1>10, <1>11, <2>1 DEF PgStore!SetState
<1> QED
  BY <1>12 DEF PgStore!Next

LEMMA PgMapsInit == Init => PgStore!Init
<1> SUFFICES ASSUME Init PROVE PgStore!Init
  OBVIOUS
<1>1. CASE engine = "postgres"
  <2>1. /\ rows = [i \in Ids |-> None] /\ seen = [p \in Callers |-> {}]
        /\ call = [p \in Callers |-> Idle]
    BY <1>1 DEF Init, PgInit, CallsInit
  <2>2. Row(Idle) = [op |-> "none", id |-> None, arg |-> None, st |-> "idle", result |-> None]
    BY DEF Row, Standing, Outcome, Idle
  <2>3. PgCalls = [p \in Callers |-> Row(Idle)] /\ PgRows = rows /\ PgSeen = seen
    BY <1>1, <2>1, PgShown
  <2> QED
    BY <2>1, <2>2, <2>3 DEF PgStore!Init, PgStore!Idle
<1>2. CASE engine # "postgres"
  BY <1>2 DEF PgRows, PgCalls, PgSeen, NoRows, NoCalls, NotSeen, PgStore!Init, PgStore!Idle
<1> QED
  BY <1>1, <1>2

LEMMA PgMapsNext == Inv /\ Inv' /\ [Next]_vars => [PgStore!Next]_PgStore!vars
<1> SUFFICES ASSUME Inv, Inv', [Next]_vars PROVE [PgStore!Next]_PgStore!vars
  OBVIOUS
<1>1. CASE Next /\ engine = "postgres"
  <2>1. engine' = engine /\ \E p \in Callers : Fine(p)
    BY <1>1, OneStep
  <2>2. PICK p \in Callers : Fine(p)
    BY <2>1
  <2>3. CallsInv'
    BY <2>2 DEF Fine
  <2> QED
    BY <1>1, <2>1, <2>2, <2>3, PgBeginMaps, PgMoveMaps, PgAnswerMaps, PgStoreMaps DEF Fine
<1>2. CASE Next /\ engine # "postgres"
  <2>1. engine' = engine
    BY <1>2, OneStep
  <2> QED
    BY <1>2, <2>1 DEF PgStore!vars, PgRows, PgCalls, PgSeen, NoRows, NoCalls, NotSeen
<1>3. CASE UNCHANGED vars
  <2>1. engine' = engine /\ rows' = rows /\ call' = call /\ seen' = seen
    BY <1>3 DEF vars, callVars
  <2>2. CASE engine = "postgres"
    <3>1. PgRows = rows /\ PgSeen = seen /\ PgCalls = [p \in Callers |-> Row(call[p])]
      BY <2>2, PgShown
    <3>2. PgRows' = rows /\ PgSeen' = seen /\ PgCalls' = [p \in Callers |-> Row(call[p])]
      BY <2>1, <2>2, PgShownNext
    <3> QED
      BY <3>1, <3>2 DEF PgStore!vars
  <2>3. CASE engine # "postgres"
    BY <2>1, <2>3 DEF PgStore!vars, PgRows, PgCalls, PgSeen, NoRows, NoCalls, NotSeen
  <2> QED
    BY <2>2, <2>3
<1> QED
  BY <1>1, <1>2, <1>3

\* Each call of the Postgres engine takes effect once, at one moment between its start and its
\* end, or fails without effect, and answers right: for any callers, entities, states, columns
\* and connections.
THEOREM PostgresImplements == Spec => PgImplements
BY Invariance, PgMapsInit, PgMapsNext, PTL DEF Spec, PgImplements, PgStore!Spec

-----------------------------------------------------------------------------
(* IndexedDB implements the storage, as far as heads go *)

HeadOutcome(c) ==
    IF c.pc # "ended" THEN None
    ELSE IF c.result.kind # "ok" THEN [kind |-> "failed", value |-> None]
    ELSE [kind |-> "ok", value |->
            CASE c.op = "get" /\ c.result.value # None -> HeadOf(c.result.value)
              [] c.op = "fetch" -> {<<r[1], HeadOf(r[2])>> : r \in c.result.value}
              [] OTHER -> c.result.value]

HeadRow(c) == [op |-> c.op, id |-> c.id, arg |-> IF c.arg = None THEN None ELSE HeadOf(c.arg),
               st |-> Standing(c), result |-> HeadOutcome(c)]

\* What the storage is to answer for the value that the engine answers
HeadsIn(c, v) ==
    IF c.op = "get" THEN HeadOf(v)
    ELSE IF c.op = "fetch" THEN {<<r[1], HeadOf(r[2])>> : r \in v} ELSE v

LEMMA HeadFacts ==
    /\ HeadOf(None) = None
    /\ \A s \in States : s # None /\ HeadOf(s) = [head |-> s.head, docs |-> {}] /\ HeadOf(s) # None
    /\ \A s \in States \cup {None}, t \in States : SameHead(s, t) => HeadOf(s) = HeadOf(t)
<1>1. HeadOf(None) = None
  BY DEF HeadOf
<1>2. ASSUME NEW s \in States
      PROVE  s # None /\ HeadOf(s) = [head |-> s.head, docs |-> {}] /\ HeadOf(s) # None
  <2>1. s # None /\ HeadOf(s) # None
    OBVIOUS
  <2> QED
    BY <2>1 DEF HeadOf
<1>3. ASSUME NEW s \in States \cup {None}, NEW t \in States, SameHead(s, t)
      PROVE  HeadOf(s) = HeadOf(t)
  <2>1. s \in States /\ s.head = t.head
    BY <1>3 DEF SameHead
  <2> QED
    BY <1>2, <2>1
<1> QED
  BY <1>1, <1>2, <1>3

LEMMA ShownHeadRow == Shown(HeadOf) = [p \in Callers |-> HeadRow(call[p])]
BY DEF Shown, HeadRow, Standing, HeadOutcome

LEMMA HeadRowEnds ==
    ASSUME NEW c \in Calls, c.pc \notin {"idle", "ended"}, NEW r \in Results
    PROVE  LET e == [c EXCEPT !.pc = "ended", !.result = r]
           IN  /\ r.kind # "ok" => HeadRow(e) =
                    [HeadRow(c) EXCEPT !.st = "ended", !.result = [kind |-> "failed", value |-> None]]
               /\ r.kind = "ok" => HeadRow(e) =
                    [HeadRow(c) EXCEPT !.st = "ended", !.result = [kind |-> "ok", value |-> HeadsIn(c, r.value)]]
<1> DEFINE e == [c EXCEPT !.pc = "ended", !.result = r]
<1>1. /\ e.op = c.op /\ e.id = c.id /\ e.arg = c.arg /\ e.pc = "ended" /\ e.result = r
  BY DEF Calls
<1> HIDE DEF e
<1>2. r.kind # "ok" => HeadOutcome(e) = [kind |-> "failed", value |-> None]
  BY <1>1 DEF HeadOutcome
<1>3. r.kind = "ok" => HeadOutcome(e) = [kind |-> "ok", value |-> HeadsIn(c, r.value)]
  <2>1. CASE r.kind = "ok" /\ c.op = "fetch"
    BY <1>1, <2>1 DEF HeadOutcome, HeadsIn
  <2>2. CASE r.kind = "ok" /\ c.op = "get"
    <3>1. r.value = None => HeadOf(r.value) = r.value
      BY HeadFacts
    <3> QED
      BY <1>1, <2>2, <3>1 DEF HeadOutcome, HeadsIn
  <2>3. CASE r.kind = "ok" /\ c.op \notin {"get", "fetch"}
    BY <1>1, <2>3 DEF HeadOutcome, HeadsIn
  <2> QED
    BY <2>1, <2>2, <2>3
<1>4. Standing(e) = "ended"
  BY <1>1 DEF Standing
<1>5. ASSUME NEW o, HeadOutcome(e) = o PROVE HeadRow(e) = [HeadRow(c) EXCEPT !.st = "ended", !.result = o]
  <2> DEFINE a == IF c.arg = None THEN None ELSE HeadOf(c.arg)
             s == Standing(c)
             u == HeadOutcome(c)
  <2>1. HeadRow(c) = [op |-> c.op, id |-> c.id, arg |-> a, st |-> s, result |-> u]
    BY DEF HeadRow
  <2>2. HeadRow(e) = [op |-> c.op, id |-> c.id, arg |-> a, st |-> "ended", result |-> o]
    BY <1>1, <1>4, <1>5 DEF HeadRow
  <2> HIDE DEF a, s, u
  <2> DEFINE R == HeadRow(c)
             R1 == [R EXCEPT !.st = "ended"]
             R2 == [R1 EXCEPT !.result = o]
  <2>3. R = [op |-> c.op, id |-> c.id, arg |-> a, st |-> s, result |-> u]
    BY <2>1
  <2>4. [R EXCEPT !.st = "ended", !.result = o] = R2
    OBVIOUS
  <2> HIDE DEF R
  <2>5. R1 = [op |-> c.op, id |-> c.id, arg |-> a, st |-> "ended", result |-> u]
    BY <2>3
  <2> HIDE DEF R1
  <2>6. R2 = [op |-> c.op, id |-> c.id, arg |-> a, st |-> "ended", result |-> o]
    BY <2>5
  <2> QED
    BY <2>2, <2>4, <2>6 DEF R
<1>6. r.kind # "ok" => HeadRow(e) =
        [HeadRow(c) EXCEPT !.st = "ended", !.result = [kind |-> "failed", value |-> None]]
  BY <1>2, <1>5
<1>7. r.kind = "ok" => HeadRow(e) =
        [HeadRow(c) EXCEPT !.st = "ended", !.result = [kind |-> "ok", value |-> HeadsIn(c, r.value)]]
  BY <1>3, <1>5
<1> QED
  BY <1>6, <1>7 DEF e

HeadRows(r) == [i \in Ids |-> HeadOf(r[i])]
HeadsSeen(s) == [p \in Callers |-> {HeadOf(t) : t \in s[p]}]

LEMMA IdbShown ==
    engine = "indexeddb" =>
        /\ \A r : rows = r => IdbRows = HeadRows(r)
        /\ \A s : seen = s => IdbSeen = HeadsSeen(s)
        /\ \A c : call = c => IdbCalls = [p \in Callers |-> HeadRow(c[p])]
BY ShownHeadRow DEF IdbRows, IdbSeen, IdbCalls, HeadRows, HeadsSeen

LEMMA IdbShownNext ==
    engine' = "indexeddb" =>
        /\ \A r : rows' = r => IdbRows' = HeadRows(r)
        /\ \A s : seen' = s => IdbSeen' = HeadsSeen(s)
        /\ \A c : call' = c => IdbCalls' = [p \in Callers |-> HeadRow(c[p])]
<1>1. (engine = "indexeddb" =>
        /\ \A r : rows = r => IdbRows = HeadRows(r)
        /\ \A s : seen = s => IdbSeen = HeadsSeen(s)
        /\ \A c : call = c => IdbCalls = [p \in Callers |-> HeadRow(c[p])])'
  BY IdbShown, PTL
<1> QED
  BY <1>1

LEMMA IdbChange ==
    ASSUME Inv, engine = "indexeddb", engine' = engine, NEW p \in Callers, Keeps(p), CallsInv'
    PROVE  /\ \A r : rows = r => IdbRows = HeadRows(r)
           /\ \A r : rows' = r => IdbRows' = HeadRows(r)
           /\ \A s : seen = s => IdbSeen = HeadsSeen(s)
           /\ \A s : seen' = s => IdbSeen' = HeadsSeen(s)
           /\ IdbCalls = [q \in Callers |-> HeadRow(call[q])]
           /\ \A r : HeadRow(call'[p]) = r => IdbCalls' = [IdbCalls EXCEPT ![p] = r]
<1> DEFINE c == call
           d == call'
<1>1. /\ \A r : rows = r => IdbRows = HeadRows(r)
      /\ \A s : seen = s => IdbSeen = HeadsSeen(s)
      /\ IdbCalls = [q \in Callers |-> HeadRow(c[q])]
  BY IdbShown
<1>2. /\ \A r : rows' = r => IdbRows' = HeadRows(r)
      /\ \A s : seen' = s => IdbSeen' = HeadsSeen(s)
      /\ IdbCalls' = [q \in Callers |-> HeadRow(d[q])]
  BY IdbShownNext
<1>3. \A q \in Callers \ {p} : d[q] = c[q]
  BY DEF Keeps
<1> HIDE DEF c, d
<1>4. [q \in Callers |-> HeadRow(d[q])] = [[q \in Callers |-> HeadRow(c[q])] EXCEPT ![p] = HeadRow(d[p])]
  BY <1>3
<1> QED
  BY <1>1, <1>2, <1>4 DEF c, d

LEMMA IdbBeginMaps ==
    ASSUME Inv, engine = "indexeddb", engine' = engine, NEW p \in Callers, Begins(p), CallsInv'
    PROVE  IdbStore!Next
<1>1. PICK op \in {"open", "set", "get", "fetch"}, id \in Ids \cup {None}, arg \in States \cup {None},
           pc \in Steps \ {"idle", "ended"} :
        /\ op \in {"set", "get"} => id \in Ids
        /\ op = "set" => arg \in States
        /\ op # "set" => arg = None
        /\ op \in {"open", "fetch"} => id = None
        /\ Begin(p, op, id, arg, pc)
  BY DEF Begins
<1> DEFINE new == [Idle EXCEPT !.op = op, !.id = id, !.arg = arg, !.pc = pc]
           shown == IF arg = None THEN None ELSE HeadOf(arg)
           row == [op |-> op, id |-> id, arg |-> shown, st |-> "called", result |-> None]
           old == IF op = "set" THEN {rows[id]} ELSE {}
<1>2. /\ rows' = rows /\ call[p].pc = "idle"
      /\ \A q \in Callers \ {p} : call'[q] = call[q] /\ seen'[q] = seen[q]
  BY <1>1, BeginCalls DEF Inv
<1>3. call' = [call EXCEPT ![p] = new] /\ seen' = [seen EXCEPT ![p] = old]
  BY <1>1 DEF Begin
<1>4. HeadRow(new) = row
  <2>1. new.op = op /\ new.id = id /\ new.arg = arg /\ new.pc = pc
    BY DEF Idle
  <2> HIDE DEF new
  <2> QED
    BY <1>1, <2>1 DEF HeadRow, HeadOutcome, Standing
<1>5. Keeps(p)
  BY <1>2 DEF Keeps
<1> HIDE DEF new, row
<1>6. call'[p] = new
  BY <1>3 DEF Inv, CallsInv, CallTypes
<1>7. /\ IdbRows = HeadRows(rows) /\ IdbRows' = HeadRows(rows)
      /\ IdbSeen = HeadsSeen(seen) /\ \A s : seen' = s => IdbSeen' = HeadsSeen(s)
      /\ IdbCalls[p] = HeadRow(call[p]) /\ IdbCalls' = [IdbCalls EXCEPT ![p] = row]
  BY <1>2, <1>4, <1>5, <1>6, IdbChange
<1>8. IdbCalls[p].st = "idle"
  BY <1>2, <1>7 DEF HeadRow, Standing
<1>9. IdbSeen' = [IdbSeen EXCEPT ![p] = IF op = "set" THEN {IdbRows[id]} ELSE {}]
  <2>1. op = "set" => IdbRows[id] = HeadOf(rows[id])
    BY <1>1, <1>7 DEF HeadRows
  <2>2. {HeadOf(t) : t \in old} = IF op = "set" THEN {IdbRows[id]} ELSE {}
    BY <2>1
  <2> HIDE DEF old
  <2>3. HeadsSeen([seen EXCEPT ![p] = old]) = [HeadsSeen(seen) EXCEPT ![p] = {HeadOf(t) : t \in old}]
    BY DEF HeadsSeen, Inv, CallsInv, CallTypes
  <2> QED
    BY <1>3, <1>7, <2>2, <2>3
<1>10. IdbStore!Begin(p, op, id, shown)
  BY <1>7, <1>8, <1>9 DEF IdbStore!Begin, row
<1>11. CASE op = "set"
  <2>1. shown \in Heads
    BY <1>1, <1>11, HeadFacts DEF Heads
  <2> QED
    BY <1>1, <1>10, <1>11, <2>1 DEF IdbStore!Next
<1>12. CASE op = "get"
  BY <1>1, <1>10, <1>12 DEF IdbStore!Next
<1>13. CASE op \in {"open", "fetch"}
  BY <1>1, <1>10, <1>13 DEF IdbStore!Next
<1> QED
  BY <1>11, <1>12, <1>13

LEMMA IdbMoveMaps ==
    ASSUME Inv, engine = "indexeddb", engine' = engine, NEW p \in Callers, Moves(p), CallsInv'
    PROVE  UNCHANGED IdbStore!vars
<1>1. PICK new \in Calls :
        /\ new.op = call[p].op /\ new.id = call[p].id /\ new.arg = call[p].arg
        /\ new.pc \notin {"idle", "ended"}
        /\ call' = [call EXCEPT ![p] = new]
  BY DEF Moves
<1>2. Active(p) /\ UNCHANGED <<rows, seen>>
  BY DEF Moves
<1>3. call'[p] = new /\ \A q \in Callers \ {p} : call'[q] = call[q]
  BY <1>1, <1>2, MoveCalls DEF Inv
<1>4. HeadRow(new) = HeadRow(call[p])
  BY <1>1, <1>2 DEF HeadRow, Standing, HeadOutcome, Active
<1>5. Keeps(p)
  BY <1>2, <1>3 DEF Keeps
<1>6. /\ IdbRows = HeadRows(rows) /\ IdbSeen = HeadsSeen(seen)
      /\ IdbRows' = HeadRows(rows) /\ IdbSeen' = HeadsSeen(seen)
      /\ IdbCalls = [q \in Callers |-> HeadRow(call[q])]
      /\ IdbCalls' = [IdbCalls EXCEPT ![p] = HeadRow(call[p])]
  BY <1>2, <1>3, <1>4, <1>5, IdbChange
<1>7. [IdbCalls EXCEPT ![p] = HeadRow(call[p])] = IdbCalls
  BY <1>6
<1> QED
  BY <1>6, <1>7 DEF IdbStore!vars

LEMMA IdbEndMaps ==
    ASSUME Inv, engine = "indexeddb", engine' = engine, NEW p \in Callers, Active(p),
           NEW result \in Results, End(p, result), Keeps(p), CallsInv'
    PROVE  /\ IdbCalls[p].st = "called" /\ IdbCalls[p].op = call[p].op
           /\ IdbCalls[p].id = call[p].id
           /\ call[p].arg # None => IdbCalls[p].arg = HeadOf(call[p].arg)
           /\ result.kind # "ok" => IdbStore!End(p, [kind |-> "failed", value |-> None])
           /\ result.kind = "ok" => IdbStore!End(p, [kind |-> "ok", value |-> HeadsIn(call[p], result.value)])
<1> DEFINE new == [call[p] EXCEPT !.pc = "ended", !.result = result]
           c == call[p]
<1>1. c \in Calls /\ c.pc \notin {"idle", "ended"} /\ call'[p] = new
  BY DEF Inv, CallsInv, CallTypes, End, Active
<1>2. /\ result.kind # "ok" => HeadRow(new) =
            [HeadRow(c) EXCEPT !.st = "ended", !.result = [kind |-> "failed", value |-> None]]
      /\ result.kind = "ok" => HeadRow(new) =
            [HeadRow(c) EXCEPT !.st = "ended", !.result = [kind |-> "ok", value |-> HeadsIn(c, result.value)]]
  BY <1>1, HeadRowEnds
<1> HIDE DEF new
<1>3. IdbCalls[p] = HeadRow(c) /\ IdbCalls' = [IdbCalls EXCEPT ![p] = HeadRow(new)]
      /\ DOMAIN IdbCalls = Callers
  BY <1>1, IdbChange
<1>4. ASSUME NEW o, HeadRow(new) = [HeadRow(c) EXCEPT !.st = "ended", !.result = o]
      PROVE  IdbStore!End(p, o)
  <2>1. IdbCalls' = [IdbCalls EXCEPT ![p] = [IdbCalls[p] EXCEPT !.st = "ended", !.result = o]]
    BY <1>3, <1>4
  <2> QED
    BY <2>1, <1>3 DEF IdbStore!End
<1>5. /\ HeadRow(c).st = "called" /\ HeadRow(c).op = c.op /\ HeadRow(c).id = c.id
      /\ c.arg # None => HeadRow(c).arg = HeadOf(c.arg)
  BY <1>1 DEF HeadRow, Standing
<1> QED
  BY <1>2, <1>3, <1>4, <1>5

LEMMA IdbAnswerMaps ==
    ASSUME Inv, engine = "indexeddb", engine' = engine, NEW p \in Callers, Answered(p), CallsInv'
    PROVE  IdbStore!Next
<1>1. PICK result \in Results : Right(p, result) /\ End(p, result)
  BY DEF Answered
<1>2. Active(p) /\ UNCHANGED <<rows, seen>>
  BY DEF Answered
<1>3. Keeps(p)
  <2>1. \A q \in Callers \ {p} : call'[q] = call[q]
    BY <1>1, <1>2, EndCalls DEF Inv
  <2> QED
    BY <1>2, <2>1 DEF Keeps
<1>4. /\ IdbRows = HeadRows(rows) /\ IdbSeen = HeadsSeen(seen)
      /\ IdbRows' = IdbRows /\ IdbSeen' = IdbSeen
  BY <1>2, <1>3, IdbChange
<1>5. /\ IdbCalls[p].st = "called" /\ IdbCalls[p].op = call[p].op /\ IdbCalls[p].id = call[p].id
      /\ result.kind # "ok" => IdbStore!End(p, [kind |-> "failed", value |-> None])
      /\ result.kind = "ok" => IdbStore!End(p, [kind |-> "ok", value |-> HeadsIn(call[p], result.value)])
  BY <1>1, <1>2, <1>3, IdbEndMaps
<1>6. CASE result.kind # "ok"
  <2>1. IdbStore!Fail(p)
    BY <1>4, <1>5, <1>6 DEF IdbStore!Fail, IdbStore!Failed
  <2> QED
    BY <2>1 DEF IdbStore!Next
<1>7. CASE result.kind = "ok"
  <2>1. PICK v : Answer(p, v) /\ result = Ok(v)
    BY <1>1, <1>7 DEF Right
  <2>2. IdbStore!End(p, IdbStore!Ok(HeadsIn(call[p], v)))
    BY <1>5, <1>7, <2>1 DEF Ok, IdbStore!Ok
  <2>3. CASE call[p].op = "open" /\ v = None
    <3>1. HeadsIn(call[p], v) = None
      BY <2>3 DEF HeadsIn
    <3>2. IdbStore!Collection(p)
      BY <1>4, <1>5, <2>2, <2>3, <3>1 DEF IdbStore!Collection
    <3> QED
      BY <3>2 DEF IdbStore!Next
  <2>4. CASE call[p].op = "get" /\ v = rows[call[p].id]
    <3>1. call[p].id \in Ids
      BY <1>2, <2>4 DEF Inv, CallsInv, ArgumentsOf
    <3>2. HeadsIn(call[p], v) = IdbRows[IdbCalls[p].id]
      BY <1>4, <1>5, <2>4, <3>1 DEF HeadsIn, HeadRows
    <3>3. IdbStore!GetState(p)
      BY <1>4, <1>5, <2>2, <2>4, <3>2 DEF IdbStore!GetState
    <3> QED
      BY <3>3 DEF IdbStore!Next
  <2>5. CASE call[p].op = "fetch" /\ v = Contents
    <3>1. IdbStore!Contents(IdbRows) = {<<r[1], HeadOf(r[2])>> : r \in Contents}
      <4>1. \A i \in Ids : rows[i] \in States \cup {None}
        BY DEF Inv, CallsInv, CallTypes
      <4>2. \A i \in Ids : IdbRows[i] = HeadOf(rows[i]) /\ (IdbRows[i] # None <=> rows[i] # None)
        BY <1>4, <4>1, HeadFacts DEF HeadRows
      <4> DEFINE A == {i \in Ids : rows[i] # None}
      <4>3. {i \in Ids : IdbRows[i] # None} = A
        BY <4>2
      <4>4. IdbStore!Contents(IdbRows) = {<<i, IdbRows[i]>> : i \in A}
        BY <4>3 DEF IdbStore!Contents
      <4>5. Contents = {<<i, rows[i]>> : i \in A}
        BY DEF Contents
      <4>6. {<<r[1], HeadOf(r[2])>> : r \in {<<i, rows[i]>> : i \in A}} = {<<i, HeadOf(rows[i])>> : i \in A}
        <5> DEFINE B == {<<i, rows[i]>> : i \in A}
                   f(r) == <<r[1], HeadOf(r[2])>>
                   g(i) == <<i, HeadOf(rows[i])>>
        <5>1. \A r \in B : \E i \in A : f(r) = g(i)
          OBVIOUS
        <5>2. \A i \in A : \E r \in B : f(r) = g(i)
          <6> TAKE i \in A
          <6>1. <<i, rows[i]>> \in B
            OBVIOUS
          <6>2. f(<<i, rows[i]>>) = g(i)
            OBVIOUS
          <6> QED
            BY <6>1, <6>2
        <5>3. ASSUME \A r \in B : \E i \in A : f(r) = g(i), \A i \in A : \E r \in B : f(r) = g(i)
              PROVE  {f(r) : r \in B} = {g(i) : i \in A}
          <6> HIDE DEF A, B, f, g
          <6> QED
            BY <5>3
        <5> QED
          BY <5>1, <5>2, <5>3
      <4>7. {<<i, HeadOf(rows[i])>> : i \in A} = {<<i, IdbRows[i]>> : i \in A}
        BY <4>2
      <4> HIDE DEF A
      <4> QED
        BY <4>4, <4>5, <4>6, <4>7
    <3>2. HeadsIn(call[p], v) = IdbStore!Contents(IdbRows)
      BY <2>5, <3>1 DEF HeadsIn
    <3>3. IdbStore!FetchStates(p)
      BY <1>4, <1>5, <2>2, <2>5, <3>2 DEF IdbStore!FetchStates
    <3> QED
      BY <3>3 DEF IdbStore!Next
  <2> QED
    BY <2>1, <2>3, <2>4, <2>5 DEF Answer
<1> QED
  BY <1>6, <1>7

\* Storing, or finding the head stored, is the one step of set_state.
LEMMA IdbStoreMaps ==
    ASSUME Inv, engine = "indexeddb", engine' = engine, NEW p \in Callers,
           StoresNews(p) \/ FindsStored(p), CallsInv'
    PROVE  IdbStore!Next
<1> DEFINE c == call[p]
<1>1. Active(p) /\ c.op = "set" /\ End(p, Ok(TRUE))
  BY DEF StoresNews, FindsStored
<1>2. c.id \in Ids /\ c.arg \in States /\ c.arg # None /\ c.arg \in States \cup {None}
      /\ rows \in [Ids -> States \cup {None}] /\ seen \in [Callers -> SUBSET (States \cup {None})]
  BY <1>1 DEF Inv, CallsInv, CallTypes, ArgumentsOf
<1>3. Ok(TRUE) \in Results /\ Ok(TRUE).kind = "ok" /\ Ok(TRUE).value = TRUE
  BY Conversions DEF Ok
<1>4. Keeps(p)
  <2>1. CASE StoresNews(p)
    <3>1. Store(p)
      BY <2>1 DEF StoresNews
    <3>2. /\ \A q \in Callers \ {p} : call'[q] = call[q]
          /\ \A q \in Callers : seen[q] \subseteq seen'[q]
      BY <1>1, <1>3, <3>1, StoreCalls DEF Inv
    <3> QED
      BY <3>2 DEF Keeps
  <2>2. CASE FindsStored(p)
    <3>1. UNCHANGED <<rows, seen>>
      BY <2>2 DEF FindsStored
    <3>2. \A q \in Callers \ {p} : call'[q] = call[q]
      BY <1>1, <1>3, <3>1, EndCalls DEF Inv
    <3> QED
      BY <3>1, <3>2 DEF Keeps
  <2> QED
    BY <2>1, <2>2
<1>5. /\ IdbRows = HeadRows(rows) /\ IdbSeen = HeadsSeen(seen)
      /\ \A r : rows' = r => IdbRows' = HeadRows(r)
      /\ \A s : seen' = s => IdbSeen' = HeadsSeen(s)
      /\ IdbCalls = [q \in Callers |-> HeadRow(call[q])]
  BY <1>4, IdbChange
<1>6. /\ IdbCalls[p].st = "called" /\ IdbCalls[p].op = "set" /\ IdbCalls[p].id = c.id
      /\ IdbCalls[p].arg = HeadOf(c.arg) /\ IdbStore!End(p, [kind |-> "ok", value |-> HeadsIn(c, TRUE)])
  BY <1>1, <1>2, <1>3, <1>4, IdbEndMaps
<1>7. HeadsIn(c, TRUE) = TRUE
  BY <1>1 DEF HeadsIn
<1>8. \A q \in Callers : /\ (IdbCalls[q].st = "called") <=> Active(q)
                         /\ IdbCalls[q].op = call[q].op /\ IdbCalls[q].id = call[q].id
  <2>1. ASSUME NEW q \in Callers PROVE /\ (HeadRow(call[q]).st = "called") <=> Active(q)
                                       /\ HeadRow(call[q]).op = call[q].op /\ HeadRow(call[q]).id = call[q].id
    BY DEF HeadRow, Standing, Active
  <2> QED
    BY <1>5, <2>1
<1> DEFINE waits(q) == Active(q) /\ call[q].op = "set" /\ call[q].id = c.id
<1>9. /\ IdbRows' = [IdbRows EXCEPT ![c.id] = HeadOf(c.arg)]
      /\ IdbSeen' = [q \in Callers |-> IF waits(q) THEN IdbSeen[q] \cup {HeadOf(c.arg)} ELSE IdbSeen[q]]
  <2>1. CASE StoresNews(p)
    <3> DEFINE later == [q \in Callers |-> IF waits(q) THEN seen[q] \cup {c.arg} ELSE seen[q]]
    <3>1. rows' = [rows EXCEPT ![c.id] = c.arg] /\ seen' = later
      BY <2>1 DEF StoresNews, Store
    <3>2. HeadRows([rows EXCEPT ![c.id] = c.arg]) = [HeadRows(rows) EXCEPT ![c.id] = HeadOf(c.arg)]
      BY <1>2 DEF HeadRows
    <3>3. ASSUME NEW q \in Callers
          PROVE  HeadsSeen(later)[q] = IF waits(q) THEN HeadsSeen(seen)[q] \cup {HeadOf(c.arg)} 
                                           ELSE HeadsSeen(seen)[q]
      <4>1. later[q] = IF waits(q) THEN seen[q] \cup {c.arg} ELSE seen[q]
        OBVIOUS
      <4> HIDE DEF later, waits, c
      <4>2. HeadsSeen(later)[q] = {HeadOf(t) : t \in later[q]} /\ HeadsSeen(seen)[q] = {HeadOf(t) : t \in seen[q]}
        BY DEF HeadsSeen
      <4>3. {HeadOf(t) : t \in seen[q] \cup {c.arg}} = {HeadOf(t) : t \in seen[q]} \cup {HeadOf(c.arg)}
        OBVIOUS
      <4> QED
        BY <4>1, <4>2, <4>3
    <3> HIDE DEF later, waits
    <3>4. HeadsSeen(later) = [q \in Callers |-> HeadsSeen(later)[q]]
      BY DEF HeadsSeen
    <3> QED
      BY <1>5, <3>1, <3>2, <3>3, <3>4
  <2>2. CASE FindsStored(p)
    <3>1. UNCHANGED <<rows, seen>> /\ HeadOf(rows[c.id]) = HeadOf(c.arg)
      BY <1>2, <2>2, HeadFacts DEF FindsStored
    <3>2. IdbRows' = IdbRows /\ IdbSeen' = IdbSeen /\ IdbRows[c.id] = HeadOf(c.arg)
      BY <1>2, <1>5, <3>1 DEF HeadRows
    <3>3. IdbRows = [IdbRows EXCEPT ![c.id] = HeadOf(c.arg)]
      BY <1>5, <3>2 DEF HeadRows
    <3>4. ASSUME NEW q \in Callers, waits(q) PROVE HeadOf(c.arg) \in IdbSeen[q]
      <4>1. rows[c.id] \in seen[q]
        BY <3>4 DEF Inv, CallsInv, ArgumentsOf
      <4>2. IdbSeen[q] = {HeadOf(t) : t \in seen[q]}
        BY <1>5 DEF HeadsSeen
      <4> QED
        BY <3>1, <4>1, <4>2
    <3>5. \A q \in Callers : waits(q) => IdbSeen[q] \cup {HeadOf(c.arg)} = IdbSeen[q]
      BY <3>4
    <3> HIDE DEF waits
    <3>6. IdbSeen = [q \in Callers |-> IdbSeen[q]]
      BY <1>5 DEF HeadsSeen
    <3> QED
      BY <3>2, <3>3, <3>5, <3>6
  <2> QED
    BY <2>1, <2>2
<1>10. IdbSeen' = [q \in Callers |-> IF IdbCalls[q].st = "called" /\ IdbCalls[q].op = "set" /\ IdbCalls[q].id = c.id
                                     THEN IdbSeen[q] \cup {HeadOf(c.arg)} ELSE IdbSeen[q]]
  BY <1>8, <1>9
<1>11. IdbStore!SetState(p)
  <2>1. IdbStore!End(p, IdbStore!Ok(TRUE))
    BY <1>6, <1>7 DEF IdbStore!Ok
  <2>2. IdbRows' = [IdbRows EXCEPT ![c.id] = HeadOf(c.arg)]
    BY <1>9
  <2> HIDE DEF c
  <2> QED
    BY <1>6, <2>1, <2>2, <1>10 DEF IdbStore!SetState
<1> QED
  BY <1>11 DEF IdbStore!Next

LEMMA IdbMapsInit == Init => IdbStore!Init
<1> SUFFICES ASSUME Init PROVE IdbStore!Init
  OBVIOUS
<1>1. CASE engine = "indexeddb"
  <2> DEFINE r == [i \in Ids |-> None]
             s == [p \in Callers |-> {}]
             c == [p \in Callers |-> Idle]
  <2>1. rows = r /\ seen = s /\ call = c
    BY <1>1 DEF Init, IdbInit, CallsInit
  <2>2. HeadRow(Idle) = [op |-> "none", id |-> None, arg |-> None, st |-> "idle", result |-> None]
    BY DEF HeadRow, Standing, HeadOutcome, Idle
  <2>3. IdbCalls = [p \in Callers |-> HeadRow(Idle)] /\ IdbRows = HeadRows(r) /\ IdbSeen = HeadsSeen(s)
    BY <1>1, <2>1, IdbShown
  <2>4. HeadRows(r) = r /\ HeadsSeen(s) = s
    BY HeadFacts DEF HeadRows, HeadsSeen
  <2> QED
    BY <2>2, <2>3, <2>4 DEF IdbStore!Init, IdbStore!Idle
<1>2. CASE engine # "indexeddb"
  BY <1>2 DEF IdbRows, IdbCalls, IdbSeen, NoRows, NoCalls, NotSeen, IdbStore!Init, IdbStore!Idle
<1> QED
  BY <1>1, <1>2

LEMMA IdbMapsNext == Inv /\ Inv' /\ [Next]_vars => [IdbStore!Next]_IdbStore!vars
<1> SUFFICES ASSUME Inv, Inv', [Next]_vars PROVE [IdbStore!Next]_IdbStore!vars
  OBVIOUS
<1>1. CASE Next /\ engine = "indexeddb"
  <2>1. engine' = engine /\ \E p \in Callers : IdbFine(p)
    BY <1>1, OneStep
  <2>2. PICK p \in Callers : IdbFine(p)
    BY <2>1
  <2>3. CallsInv'
    BY <2>2 DEF IdbFine
  <2> QED
    BY <1>1, <2>1, <2>2, <2>3, IdbBeginMaps, IdbMoveMaps, IdbAnswerMaps, IdbStoreMaps DEF IdbFine
<1>2. CASE Next /\ engine # "indexeddb"
  <2>1. engine' = engine
    BY <1>2, OneStep
  <2> QED
    BY <1>2, <2>1 DEF IdbStore!vars, IdbRows, IdbCalls, IdbSeen, NoRows, NoCalls, NotSeen
<1>3. CASE UNCHANGED vars
  <2>1. engine' = engine /\ rows' = rows /\ call' = call /\ seen' = seen
    BY <1>3 DEF vars, callVars
  <2>2. CASE engine = "indexeddb"
    <3>1. IdbRows = HeadRows(rows) /\ IdbSeen = HeadsSeen(seen) /\ IdbCalls = [p \in Callers |-> HeadRow(call[p])]
      BY <2>2, IdbShown
    <3>2. IdbRows' = HeadRows(rows) /\ IdbSeen' = HeadsSeen(seen) /\ IdbCalls' = [p \in Callers |-> HeadRow(call[p])]
      BY <2>1, <2>2, IdbShownNext
    <3> QED
      BY <3>1, <3>2 DEF IdbStore!vars
  <2>3. CASE engine # "indexeddb"
    BY <2>1, <2>3 DEF IdbStore!vars, IdbRows, IdbCalls, IdbSeen, NoRows, NoCalls, NotSeen
  <2> QED
    BY <2>2, <2>3
<1> QED
  BY <1>1, <1>2, <1>3

\* The same of the IndexedDB engine and the heads of the states, for any tabs and any number of
\* transactions that fail: the mutex of a tab and the transactions of the browser are enough.
THEOREM IndexedDBImplements == Spec => IdbImplements
BY Invariance, IdbMapsInit, IdbMapsNext, PTL DEF Spec, IdbImplements, IdbStore!Spec

-----------------------------------------------------------------------------
(* A call of Postgres that runs alone *)

\* What a set_state may still find missing, each at the price of one connection
Debt == Cardinality(Missing) + (IF table THEN 0 ELSE 1)

Lone(p) == engine = "postgres" /\ call[p].op \in {"set", "get"} /\ p \notin overlapped

\* Calls that are active together are overlapped; a lone call still finds missing what it has
\* found missing, and has connections left for what is missing yet.
AloneInv ==
    /\ engine = "postgres" =>
            \A p, q \in Callers : p # q /\ Active(p) /\ Active(q) => p \in overlapped
    /\ \A p \in Callers : Lone(p) =>
            /\ call[p].pc = "connect" => Cardinality(held[p]) + Debt <= Len(Columns) + 1
            /\ Active(p) => Cardinality(held[p]) + Debt <= Len(Columns) + 2
            /\ call[p].pc = "create" => ~table
            /\ call[p].pc = "alter" => call[p].col \notin columns
            /\ call[p].pc = "ended" => call[p].result.kind = "ok"

LEMMA DebtTyped ==
    /\ IsFiniteSet(Missing) /\ Cardinality(Missing) \in Nat /\ Debt \in Nat
    /\ Debt <= Len(Columns) + 1 /\ Len(Columns) \in Nat
<1>1. Len(Columns) \in Nat
  OBVIOUS
<1>2. IsFiniteSet(1..Len(Columns)) /\ Cardinality(1..Len(Columns)) = Len(Columns)
  <2> DEFINE n == Len(Columns)
  <2>1. 1 \in Int /\ n \in Int /\ (1 > n => n = 0)
    BY <1>1
  <2> HIDE DEF n
  <2>2. IsFiniteSet(1..n) /\ Cardinality(1..n) = IF 1 > n THEN 0 ELSE n - 1 + 1
    BY <2>1, FS_Interval
  <2>3. Cardinality(1..n) = n
    BY <2>1, <2>2
  <2> QED
    BY <2>2, <2>3 DEF n
<1>3. Missing \subseteq 1..Len(Columns)
  BY DEF Missing
<1>4. /\ IsFiniteSet(Missing) /\ Cardinality(Missing) \in Nat
      /\ Cardinality(Missing) <= Len(Columns)
  BY <1>1, <1>2, <1>3, FS_Subset, FS_CardinalityType
<1> QED
  BY <1>1, <1>4 DEF Debt

LEMMA HeldTyped ==
    ASSUME Inv, NEW p \in Callers
    PROVE  IsFiniteSet(held[p]) /\ Cardinality(held[p]) \in Nat
<1>1. held[p] \subseteq Connections
  BY DEF Inv, PoolInv
<1> QED
  BY <1>1, FS_Subset, FS_CardinalityType

LEMMA AloneBegin ==
    ASSUME Inv, Inv', AloneInv, engine = "postgres", engine' = engine, NEW p \in Callers, PgBegin(p)
    PROVE  AloneInv'
<1>1. PICK op, id, arg, pc : pc \in {"lookup", "connect"} /\ Begin(p, op, id, arg, pc)
  <2>1. ASSUME NEW op, NEW id, NEW arg, NEW pc, pc \in {"lookup", "connect"}, Begin(p, op, id, arg, pc)
        PROVE  \E o, i, a, c : c \in {"lookup", "connect"} /\ Begin(p, o, i, a, c)
    BY <2>1
  <2>2. \/ Begin(p, "open", None, None, "lookup")
        \/ Begin(p, "fetch", None, None, "connect")
        \/ \E i \in Ids : Begin(p, "get", i, None, "connect")
        \/ \E i \in Ids, s \in States : Begin(p, "set", i, s, "connect")
    BY DEF PgBegin
  <2> QED
    BY <2>1, <2>2
<1> DEFINE others == {q \in Callers \ {p} : Active(q)}
           new == [Idle EXCEPT !.op = op, !.id = id, !.arg = arg, !.pc = pc]
<1>2. /\ call' = [call EXCEPT ![p] = new] /\ call[p].pc = "idle"
      /\ overlapped' = overlapped \cup (IF others = {} THEN {} ELSE others \cup {p})
      /\ UNCHANGED <<table, columns, held>>
  BY <1>1 DEF Begin, PgBegin, pgVars
<1>3. new.pc = pc
  BY DEF Idle
<1> HIDE DEF new
<1>4. call'[p] = new /\ \A q \in Callers \ {p} : call'[q] = call[q]
  BY <1>2 DEF Inv, CallsInv, CallTypes
<1>5. ASSUME NEW q \in Callers, NEW r \in Callers, q # r, Active(q)', Active(r)'
      PROVE  q \in overlapped'
  BY <1>2, <1>4, <1>5 DEF AloneInv, Active
<1>6. ASSUME NEW q \in Callers, Lone(q)'
      PROVE  /\ call'[q].pc = "connect" => Cardinality(held'[q]) + Debt' <= Len(Columns) + 1
             /\ Active(q)' => Cardinality(held'[q]) + Debt' <= Len(Columns) + 2
             /\ call'[q].pc = "create" => ~table'
             /\ call'[q].pc = "alter" => call'[q].col \notin columns'
             /\ call'[q].pc = "ended" => call'[q].result.kind = "ok"
  <2>1. Debt' = Debt
    BY <1>2 DEF Debt, Missing
  <2>2. CASE q = p
    <3>1. held[p] = {}
      BY <1>2 DEF Inv, PoolInv
    <3>2. Cardinality(held'[p]) = 0
      BY <1>2, <3>1, FS_EmptySet
    <3> QED
      BY <1>1, <1>2, <1>3, <1>4, <2>1, <2>2, <3>2, DebtTyped
  <2>3. CASE q # p
    <3>1. Lone(q) /\ call'[q] = call[q] /\ Active(q)' = Active(q)
      BY <1>2, <1>4, <1>6, <2>3 DEF Lone, Active
    <3> QED
      BY <1>2, <2>1, <3>1 DEF AloneInv
  <2> QED
    BY <2>2, <2>3
<1> QED
  BY <1>5, <1>6 DEF AloneInv

\* What is to be shown of a step of p's own call
LEMMA AloneOwn ==
    ASSUME Inv, Inv', AloneInv, engine = "postgres", engine' = engine, NEW p \in Callers, Active(p),
           overlapped' = overlapped, \A q \in Callers \ {p} : call'[q] = call[q],
           Lone(p) /\ Lone(p)' =>
              /\ call'[p].pc = "connect" => Cardinality(held'[p]) + Debt' <= Len(Columns) + 1
              /\ Active(p)' => Cardinality(held'[p]) + Debt' <= Len(Columns) + 2
              /\ call'[p].pc = "create" => ~table'
              /\ call'[p].pc = "alter" => call'[p].col \notin columns'
              /\ call'[p].pc = "ended" => call'[p].result.kind = "ok",
           call'[p].op = call[p].op
    PROVE  AloneInv'
<1>1. \A q, r \in Callers : q # r /\ Active(q)' /\ Active(r)' => q \in overlapped'
  BY DEF AloneInv, Active
<1>2. ASSUME NEW q \in Callers, Lone(q)'
      PROVE  /\ call'[q].pc = "connect" => Cardinality(held'[q]) + Debt' <= Len(Columns) + 1
             /\ Active(q)' => Cardinality(held'[q]) + Debt' <= Len(Columns) + 2
             /\ call'[q].pc = "create" => ~table'
             /\ call'[q].pc = "alter" => call'[q].col \notin columns'
             /\ call'[q].pc = "ended" => call'[q].result.kind = "ok"
  <2>1. CASE q = p
    BY <1>2, <2>1 DEF Lone
  <2>2. CASE q # p
    <3>1. ~Active(q)
      BY <1>2, <2>2 DEF Lone, AloneInv
    <3>2. Lone(q) /\ call'[q] = call[q]
      BY <1>2, <2>2 DEF Lone
    <3> QED
      BY <3>1, <3>2 DEF AloneInv, Active
  <2> QED
    BY <2>1, <2>2
<1> QED
  BY <1>1, <1>2 DEF AloneInv

LEMMA AlonePool ==
    ASSUME Inv, Inv', AloneInv, engine = "postgres", engine' = engine, NEW p \in Callers,
           Connect(p) \/ TimeOut(p), Cardinality(Connections) >= Len(Columns) + 2
    PROVE  AloneInv'
<1>1. Active(p) /\ overlapped' = overlapped /\ table' = table /\ columns' = columns
      /\ call[p].pc = "connect"
  BY DEF Connect, TimeOut, Active
<1>2. call[p] \in Calls /\ DOMAIN call = Callers /\ held[p] \in SUBSET Connections
  BY PgTypes DEF Inv, CallsInv, CallTypes
<1>3. Debt' = Debt
  BY <1>1 DEF Debt, Missing
<1>4. CASE Connect(p)
  <2> DEFINE c == CHOOSE c \in Free : TRUE
  <2>1. call' = [call EXCEPT ![p].pc = "execute"] /\ held' = [held EXCEPT ![p] = @ \cup {c}]
    BY <1>4 DEF Connect, Goto
  <2> HIDE DEF c
  <2>2. /\ call'[p].pc = "execute" /\ call'[p].op = call[p].op
        /\ \A q \in Callers \ {p} : call'[q] = call[q]
    BY <1>2, <2>1 DEF Calls
  <2>3. held'[p] = held[p] \cup {c}
    BY <2>1 DEF Inv, PoolInv
  <2>4. Cardinality(held'[p]) \in Nat /\ Cardinality(held'[p]) <= Cardinality(held[p]) + 1
    <3>1. IsFiniteSet(held[p]) /\ Cardinality(held[p]) \in Nat
      BY HeldTyped
    <3>2. Cardinality(held[p] \cup {c}) =
            IF c \in held[p] THEN Cardinality(held[p]) ELSE Cardinality(held[p]) + 1
      BY <3>1, FS_AddElement
    <3> QED
      BY <2>3, <3>1, <3>2
  <2>5. ASSUME Lone(p)
        PROVE  Cardinality(held'[p]) + Debt' <= Len(Columns) + 2
    <3>1. Cardinality(held[p]) + Debt <= Len(Columns) + 1
      BY <1>1, <2>5 DEF AloneInv
    <3> QED
      BY <1>3, <2>4, <3>1, HeldTyped, DebtTyped
  <2> QED
    BY <1>1, <2>2, <2>5, AloneOwn
<1>5. CASE TimeOut(p)
  <2>1. Free = {}
    BY <1>5 DEF TimeOut
  <2>2. ~Lone(p)
    <3> SUFFICES ASSUME Lone(p) PROVE FALSE
      OBVIOUS
    <3>1. \A q \in Callers \ {p} : held[q] = {}
      BY <1>1 DEF Lone, AloneInv, Active, Inv, PoolInv
    <3>2. held[p] = Connections
      BY <1>2, <2>1, <3>1 DEF Free
    <3>3. Cardinality(held[p]) + Debt <= Len(Columns) + 1
      BY <1>1 DEF AloneInv
    <3>4. Cardinality(Connections) \in Nat
      BY FS_CardinalityType
    <3> QED
      BY <3>2, <3>3, <3>4, DebtTyped
  <2>3. call'[p].op = call[p].op /\ \A q \in Callers \ {p} : call'[q] = call[q]
    BY <1>2, <1>5 DEF TimeOut, PgEnd, End, Calls
  <2> QED
    BY <1>1, <2>2, <2>3, AloneOwn
<1> QED
  BY <1>4, <1>5

LEMMA AloneOpen ==
    ASSUME Inv, Inv', AloneInv, engine = "postgres", engine' = engine, NEW p \in Callers,
           Lookup(p) \/ CreateOnOpen(p) \/ Insert(p) \/ ExecuteFetch(p)
    PROVE  AloneInv'
<1>1. Active(p) /\ overlapped' = overlapped /\ call[p].op \in {"open", "fetch"}
  BY DEF Lookup, CreateOnOpen, Insert, ExecuteFetch, At, Active, pgVars
<1>2. call[p] \in Calls /\ DOMAIN call = Callers
  BY PgTypes DEF Inv, CallsInv, CallTypes
<1>3. \/ \E r : End(p, r)
      \/ \E pc : Goto(p, pc)
  BY DEF Lookup, CreateOnOpen, Insert, ExecuteFetch, PgEnd
<1>4. call'[p].op = call[p].op /\ \A q \in Callers \ {p} : call'[q] = call[q]
  BY <1>2, <1>3 DEF End, Goto, Calls
<1> QED
  BY <1>1, <1>4, AloneOwn DEF Lone

LEMMA AloneExecuteSet ==
    ASSUME Inv, Inv', AloneInv, engine = "postgres", engine' = engine, NEW p \in Callers, ExecuteSet(p)
    PROVE  AloneInv'
<1> DEFINE c == call[p]
           new == IF ~table THEN [c EXCEPT !.pc = "create"]
                  ELSE IF Missing # {} THEN [c EXCEPT !.pc = "alter", !.col = FirstMissing]
                  ELSE [c EXCEPT !.pc = "write", !.old = rows[c.id]]
<1>1. /\ Active(p) /\ call' = [call EXCEPT ![p] = new]
      /\ overlapped' = overlapped /\ table' = table /\ columns' = columns /\ held' = held
  BY DEF ExecuteSet, At, Active, pgVars
<1>2. c \in Calls /\ DOMAIN call = Callers
  BY DEF Inv, CallsInv, CallTypes
<1>3. /\ new.op = c.op /\ new.pc \in {"create", "alter", "write"}
      /\ new.pc = "create" => ~table
      /\ new.pc = "alter" => new.col \notin columns
  <2>1. CASE ~table
    BY <1>2, <2>1 DEF Calls
  <2>2. CASE table /\ Missing # {}
    <3> DEFINE f == FirstMissing
    <3>1. f \notin columns /\ new = [c EXCEPT !.pc = "alter", !.col = f]
      BY <2>2, MissingColumn
    <3> HIDE DEF f, new, c
    <3> QED
      BY <1>2, <2>2, <3>1 DEF Calls
  <2>3. CASE table /\ Missing = {}
    <3>1. new = [c EXCEPT !.pc = "write", !.old = rows[c.id]]
      BY <2>3
    <3> HIDE DEF new, c
    <3> QED
      BY <1>2, <2>3, <3>1 DEF Calls
  <2> QED
    BY <2>1, <2>2, <2>3
<1> HIDE DEF new
<1>4. call'[p] = new /\ \A q \in Callers \ {p} : call'[q] = call[q]
  BY <1>1, <1>2
<1>5. Debt' = Debt
  BY <1>1 DEF Debt, Missing
<1>6. Lone(p) => Cardinality(held'[p]) + Debt' <= Len(Columns) + 2
  BY <1>1, <1>5 DEF AloneInv
<1> QED
  BY <1>1, <1>3, <1>4, <1>6, AloneOwn

LEMMA AloneCreate ==
    ASSUME Inv, Inv', AloneInv, engine = "postgres", engine' = engine, NEW p \in Callers, CreateTable(p)
    PROVE  AloneInv'
<1>1. Active(p) /\ overlapped' = overlapped /\ call[p].pc = "create"
  BY DEF CreateTable, Active
<1>2. call[p] \in Calls /\ DOMAIN call = Callers
  BY DEF Inv, CallsInv, CallTypes
<1>3. \/ \E r : End(p, r)
      \/ \E pc : Goto(p, pc)
  BY DEF CreateTable, PgEnd
<1>4. call'[p].op = call[p].op /\ \A q \in Callers \ {p} : call'[q] = call[q]
  BY <1>2, <1>3 DEF End, Goto, Calls
<1>5. ASSUME Lone(p)
      PROVE  /\ call'[p].pc = "connect" => Cardinality(held'[p]) + Debt' <= Len(Columns) + 1
             /\ Active(p)' => Cardinality(held'[p]) + Debt' <= Len(Columns) + 2
             /\ call'[p].pc \in {"connect", "ended"}
             /\ call'[p].pc = "ended" => call'[p].result.kind = "ok"
  <2>1. ~table
    BY <1>1, <1>5 DEF AloneInv
  <2>2. CASE call[p].op = "get"
    <3>1. End(p, Ok(None))
      BY <2>1, <2>2 DEF CreateTable, PgEnd
    <3>2. call'[p].pc = "ended" /\ call'[p].result = Ok(None)
      BY <1>2, <3>1 DEF End, Calls
    <3> QED
      BY <3>2 DEF Ok, Active
  <2>3. CASE call[p].op # "get"
    <3>1. Goto(p, "connect") /\ held' = held /\ table' = TRUE /\ columns' = {}
      BY <2>1, <2>3 DEF CreateTable
    <3>2. call'[p].pc = "connect"
      BY <1>2, <3>1 DEF Goto, Calls
    <3>3. columns = {}
      BY <2>1 DEF Inv, TableInv
    <3>4. Debt' = Debt - 1
      <4>1. Missing' = Missing
        BY <3>1, <3>3 DEF Missing
      <4> QED
        BY <2>1, <3>1, <4>1, DebtTyped DEF Debt
    <3>5. Cardinality(held[p]) + Debt <= Len(Columns) + 2
      BY <1>1, <1>5 DEF AloneInv
    <3> QED
      BY <3>1, <3>2, <3>4, <3>5, HeldTyped, DebtTyped
  <2> QED
    BY <2>2, <2>3
<1> QED
  BY <1>1, <1>4, <1>5, AloneOwn

LEMMA AloneAlter ==
    ASSUME Inv, Inv', AloneInv, engine = "postgres", engine' = engine, NEW p \in Callers,
           AddMissingColumn(p)
    PROVE  AloneInv'
<1>1. Active(p) /\ overlapped' = overlapped /\ call[p].pc = "alter" /\ table' = table
  BY DEF AddMissingColumn, At, Active
<1>2. call[p] \in Calls /\ DOMAIN call = Callers
  BY DEF Inv, CallsInv, CallTypes
<1>3. \/ \E r : End(p, r)
      \/ \E pc : Goto(p, pc)
  BY DEF AddMissingColumn, PgEnd
<1>4. call'[p].op = call[p].op /\ \A q \in Callers \ {p} : call'[q] = call[q]
  BY <1>2, <1>3 DEF End, Goto, Calls
<1>5. ASSUME Lone(p)
      PROVE  /\ call'[p].pc = "connect"
             /\ Cardinality(held'[p]) + Debt' <= Len(Columns) + 1
  <2> DEFINE col == call[p].col
  <2>1. col \notin columns /\ col \in AllColumns
    BY <1>1, <1>5 DEF AloneInv, Inv, TableInv
  <2>2. Goto(p, "connect") /\ held' = held /\ columns' = columns \cup {col}
    BY <2>1 DEF AddMissingColumn
  <2>3. call'[p].pc = "connect"
    BY <1>2, <2>2 DEF Goto, Calls
  <2>4. Cardinality(Missing') \in Nat /\ Cardinality(Missing') < Cardinality(Missing)
    <3>1. PICK i \in Missing : Columns[i] = col
      BY <2>1 DEF AllColumns, Missing
    <3>2. Missing' \subseteq Missing /\ i \notin Missing'
      BY <2>2, <3>1 DEF Missing
    <3>3. IsFiniteSet(Missing') /\ Cardinality(Missing') <= Cardinality(Missing)
          /\ Cardinality(Missing) # Cardinality(Missing')
      BY <3>1, <3>2, DebtTyped, FS_Subset
    <3> QED
      BY <3>3, DebtTyped, FS_CardinalityType
  <2>5. Debt' \in Nat /\ Debt' < Debt
    BY <1>1, <2>4, DebtTyped DEF Debt
  <2>6. Cardinality(held[p]) + Debt <= Len(Columns) + 2
    BY <1>1, <1>5 DEF AloneInv
  <2> QED
    BY <2>2, <2>3, <2>5, <2>6, HeldTyped, DebtTyped
<1>6. Lone(p) => Cardinality(held'[p]) + Debt' <= Len(Columns) + 2
  <2>1. Cardinality(held'[p]) \in Nat /\ Debt' \in Nat /\ Len(Columns) \in Nat
    <3>1. (Debt \in Nat)'
      BY DebtTyped, PTL
    <3>2. IsFiniteSet(held'[p])
      <4>1. held'[p] \subseteq Connections
        BY DEF Inv, PoolInv
      <4> QED
        BY <4>1, FS_Subset
    <3> QED
      BY <3>1, <3>2, DebtTyped, FS_CardinalityType
  <2> QED
    BY <1>5, <2>1
<1> QED
  BY <1>1, <1>4, <1>5, <1>6, AloneOwn

LEMMA AloneAnswer ==
    ASSUME Inv, Inv', AloneInv, engine = "postgres", engine' = engine, NEW p \in Callers,
           Write(p) \/ ExecuteGet(p)
    PROVE  AloneInv'
<1>1. Active(p) /\ overlapped' = overlapped /\ table' = table /\ columns' = columns
  BY DEF Write, ExecuteGet, At, Active
<1>2. call[p] \in Calls /\ DOMAIN call = Callers
  BY DEF Inv, CallsInv, CallTypes
<1>3. \/ \E v : End(p, Ok(v))
      \/ ~table /\ Goto(p, "create") /\ held' = held
  BY DEF Write, ExecuteGet, PgEnd
<1>4. CASE \E v : End(p, Ok(v))
  <2>1. PICK v : End(p, Ok(v))
    BY <1>4
  <2>2. /\ call'[p].pc = "ended" /\ call'[p].result = Ok(v) /\ call'[p].op = call[p].op
        /\ \A q \in Callers \ {p} : call'[q] = call[q]
    BY <1>2, <2>1 DEF End, Calls
  <2>3. call'[p].result.kind = "ok" /\ ~Active(p)'
    BY <2>2 DEF Ok, Active
  <2> QED
    BY <1>1, <2>2, <2>3, AloneOwn
<1>5. CASE ~table /\ Goto(p, "create") /\ held' = held
  <2>1. /\ call'[p].pc = "create" /\ call'[p].op = call[p].op
        /\ \A q \in Callers \ {p} : call'[q] = call[q]
    BY <1>2, <1>5 DEF Goto, Calls
  <2>2. Debt' = Debt
    BY <1>1 DEF Debt, Missing
  <2>3. Lone(p) => Cardinality(held'[p]) + Debt' <= Len(Columns) + 2
    BY <1>1, <1>5, <2>2 DEF AloneInv
  <2> QED
    BY <1>1, <1>5, <2>1, <2>3, AloneOwn
<1> QED
  BY <1>3, <1>4, <1>5

LEMMA AloneInit == Init => AloneInv
<1> SUFFICES ASSUME Init PROVE AloneInv
  OBVIOUS
<1>1. call = [p \in Callers |-> Idle]
  BY DEF Init, PgInit, IdbInit, CallsInit
<1>2. \A p \in Callers : call[p].pc = "idle" /\ call[p].op = "none"
  BY <1>1 DEF Idle
<1> QED
  BY <1>2 DEF AloneInv, Lone, Active

LEMMA AloneNext ==
    ASSUME Cardinality(Connections) >= Len(Columns) + 2
    PROVE  Inv /\ Inv' /\ AloneInv /\ [Next]_vars => AloneInv'
<1> SUFFICES ASSUME Inv, Inv', AloneInv, [Next]_vars PROVE AloneInv'
  OBVIOUS
<1>1. CASE Next /\ engine = "postgres"
  <2>1. PICK p \in Callers : PgBegin(p) \/ PgStep(p)
    BY <1>1, OneStep
  <2>2. engine' = engine
    BY <1>1, OneStep
  <2> QED
    BY <1>1, <2>1, <2>2, AloneBegin, AlonePool, AloneOpen, AloneExecuteSet, AloneCreate, AloneAlter,
       AloneAnswer DEF PgStep
<1>2. CASE Next /\ engine # "postgres"
  <2>1. engine' = engine
    BY <1>2, OneStep
  <2> QED
    BY <1>2, <2>1 DEF AloneInv, Lone
<1>3. CASE UNCHANGED vars
  <2>1. /\ engine' = engine /\ call' = call /\ held' = held /\ table' = table /\ columns' = columns
        /\ overlapped' = overlapped
    BY <1>3 DEF vars, callVars, pgVars
  <2>2. Debt' = Debt
    BY <2>1 DEF Debt, Missing
  <2> QED
    BY <2>1, <2>2 DEF AloneInv, Lone, Active
<1> QED
  BY <1>1, <1>2, <1>3

\* A set_state or get_state of Postgres that runs alone succeeds on any pool of two connections
\* more than the collection has columns, whatever table and columns it finds missing.
THEOREM AloneEnough ==
    ASSUME Cardinality(Connections) >= Len(Columns) + 2
    PROVE  Spec => []AloneSucceeds
<1>1. AloneInv => AloneSucceeds
  BY DEF AloneInv, AloneSucceeds, Lone
<1> QED
  BY <1>1, Invariance, AloneInit, AloneNext, PTL DEF Spec

\* The calls, the pool, the table and the locks are what the properties take them for: no call
\* that has ended holds a connection, and no connection is held by two.
THEOREM TypeCorrect == Spec => []TypeOK
<1>1. Inv => TypeOK
  <2> SUFFICES ASSUME Inv PROVE TypeOK
    OBVIOUS
  <2>1. ASSUME NEW p \in Callers
        PROVE  /\ call[p].op \in {"none", "open", "set", "get", "fetch"}
               /\ held[p] \subseteq Connections
               /\ Active(p) \/ held[p] = {}
               /\ \A q \in Callers \ {p} : held[p] \cap held[q] = {}
               /\ seen[p] \subseteq States \cup {None}
    <3>1. call[p] \in Calls /\ seen[p] \in SUBSET (States \cup {None})
      BY DEF Inv, CallsInv, CallTypes
    <3> QED
      BY <3>1 DEF Inv, PoolInv, Active, Calls
  <2>2. rows \in [Ids -> States \cup {None}] /\ columns \subseteq AllColumns
    BY DEF Inv, CallsInv, CallTypes, TableInv
  <2> QED
    BY <2>1, <2>2 DEF TypeOK, Inv, LocksInv
<1> QED
  BY <1>1, Invariance, PTL
=============================================================================
