---------------------------- MODULE StorageCalls ----------------------------
(***************************************************************************)
(* The calls of a storage engine (core/src/storage.rs) as far as the       *)
(* engines share them: what is called, where a call is, what it answered,  *)
(* and the rows the engine has.  PostgresBucket and IndexedDBBucket have   *)
(* the steps of the two engines.                                           *)
(***************************************************************************)
EXTENDS Naturals, Sequences, FiniteSets

CONSTANTS
    Callers,  \* calls, one each
    Ids,      \* entity ids of one collection
    States,   \* the states that are stored: [head, docs], docs the events merged in
    None      \* no row, no argument, no result, no column, nobody

VARIABLES
    rows,     \* rows[id]: the stored state, or None
    call,     \* call[p]: what p calls, where it is and what it answered
    seen,     \* seen[p]: the states the row of a set_state has had since the call began
    overlapped \* calls that were in progress while another one was

callVars == <<rows, call, seen, overlapped>>

Idle == [op |-> "none", id |-> None, arg |-> None, pc |-> "idle", col |-> None,
         old |-> None, result |-> None]
Ok(v) == [kind |-> "ok", value |-> v]
Error == [kind |-> "error", value |-> None]
Panic == [kind |-> "panic", value |-> None]

Active(p) == call[p].pc \notin {"idle", "ended"}
Contents == {<<i, rows[i]>> : i \in {j \in Ids : rows[j] # None}}

CallsInit ==
    /\ rows = [i \in Ids |-> None]
    /\ call = [p \in Callers |-> Idle]
    /\ seen = [p \in Callers |-> {}]
    /\ overlapped = {}

\* the call op(id, arg) starts at step pc
Begin(p, op, id, arg, pc) ==
    LET others == {q \in Callers \ {p} : Active(q)} IN
    /\ call[p].pc = "idle"
    /\ call' = [call EXCEPT ![p] = [Idle EXCEPT !.op = op, !.id = id, !.arg = arg, !.pc = pc]]
    /\ seen' = [seen EXCEPT ![p] = IF op = "set" THEN {rows[id]} ELSE {}]
    /\ overlapped' = overlapped \cup (IF others = {} THEN {} ELSE others \cup {p})
    /\ UNCHANGED rows

At(p, op, pc) == call[p].op = op /\ call[p].pc = pc
Goto(p, pc) == call' = [call EXCEPT ![p].pc = pc]
End(p, result) == call' = [call EXCEPT ![p].pc = "ended", ![p].result = result]

Store(p) ==
    LET c == call[p] IN
    /\ rows' = [rows EXCEPT ![c.id] = c.arg]
    /\ seen' = [q \in Callers |-> IF Active(q) /\ call[q].op = "set" /\ call[q].id = c.id
                                  THEN seen[q] \cup {c.arg} ELSE seen[q]]

\* What StateStore shows of a call
Shown(Abs(_)) ==
    [p \in Callers |->
        LET c == call[p] IN
        [op |-> c.op, id |-> c.id, arg |-> IF c.arg = None THEN None ELSE Abs(c.arg),
         st |-> IF c.pc = "idle" THEN "idle" ELSE IF c.pc = "ended" THEN "ended" ELSE "called",
         result |-> IF c.pc # "ended" THEN None
                    ELSE IF c.result.kind # "ok" THEN [kind |-> "failed", value |-> None]
                    ELSE [kind |-> "ok", value |->
                            CASE c.op = "get" /\ c.result.value # None -> Abs(c.result.value)
                              [] c.op = "fetch" -> {<<r[1], Abs(r[2])>> : r \in c.result.value}
                              [] OTHER -> c.result.value]]]
=============================================================================
