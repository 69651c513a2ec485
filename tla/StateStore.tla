----------------------------- MODULE StateStore -----------------------------
(***************************************************************************)
(* What core/src/storage.rs asks of a storage engine, as its callers in    *)
(* node.rs rely on it: a row per entity, and calls that each take effect   *)
(* at one moment between their start and their end, or fail and have none. *)
(* set_state answers whether the state it was given is news.               *)
(***************************************************************************)
CONSTANTS
    Callers,  \* calls of a StorageCollection or StorageEngine, one each
    Ids,      \* entity ids of one collection
    States,   \* states, with a head
    Eager,    \* BOOLEAN: set_state may call news what is not
    None      \* no row, no argument, no result

VARIABLES
    rows,     \* rows[id]: the stored state, or None
    call,     \* call[p]: what p calls, and its result when it has ended
    seen      \* seen[p]: the states the row of a set_state has had since the call began

vars == <<rows, call, seen>>

Idle == [op |-> "none", id |-> None, arg |-> None, st |-> "idle", result |-> None]
Ok(v) == [kind |-> "ok", value |-> v]
Failed == [kind |-> "failed", value |-> None]

\* set_state answers true for a new entity and for a head that differs
Changed(old, new) == old = None \/ old.head # new.head
Contents(r) == {<<i, r[i]>> : i \in {j \in Ids : r[j] # None}}

Init ==
    /\ rows = [i \in Ids |-> None]
    /\ call = [p \in Callers |-> Idle]
    /\ seen = [p \in Callers |-> {}]

Begin(p, op, id, arg) ==
    /\ call[p].st = "idle"
    /\ call' = [call EXCEPT ![p] = [op |-> op, id |-> id, arg |-> arg, st |-> "called", result |-> None]]
    /\ seen' = [seen EXCEPT ![p] = IF op = "set" THEN {rows[id]} ELSE {}]
    /\ UNCHANGED rows

End(p, result) == call' = [call EXCEPT ![p].st = "ended", ![p].result = result]

SetState(p) ==
    LET c == call[p] IN
    /\ c.st = "called" /\ c.op = "set"
    /\ rows' = [rows EXCEPT ![c.id] = c.arg]
    /\ \E changed \in {Changed(old, c.arg) : old \in seen[p]} \cup (IF Eager THEN {TRUE} ELSE {}) :
            End(p, Ok(changed))
    /\ seen' = [q \in Callers |-> IF call[q].st = "called" /\ call[q].op = "set" /\ call[q].id = c.id
                                  THEN seen[q] \cup {c.arg} ELSE seen[q]]

\* get_state of a row that is not there ends with NotFound, None here
GetState(p) ==
    /\ call[p].st = "called" /\ call[p].op = "get"
    /\ End(p, Ok(rows[call[p].id]))
    /\ UNCHANGED <<rows, seen>>

FetchStates(p) ==
    /\ call[p].st = "called" /\ call[p].op = "fetch"
    /\ End(p, Ok(Contents(rows)))
    /\ UNCHANGED <<rows, seen>>

Collection(p) ==
    /\ call[p].st = "called" /\ call[p].op = "open"
    /\ End(p, Ok(None))
    /\ UNCHANGED <<rows, seen>>

Fail(p) ==
    /\ call[p].st = "called"
    /\ End(p, Failed)
    /\ UNCHANGED <<rows, seen>>

Next ==
    \E p \in Callers :
        \/ \E i \in Ids : Begin(p, "get", i, None) \/ \E s \in States : Begin(p, "set", i, s)
        \/ Begin(p, "fetch", None, None) \/ Begin(p, "open", None, None)
        \/ SetState(p) \/ GetState(p) \/ FetchStates(p) \/ Collection(p) \/ Fail(p)

Spec == Init /\ [][Next]_vars
=============================================================================
