-------------------------- MODULE IndexedDBBucket --------------------------
(***************************************************************************)
(* The IndexedDB storage engine (storage/indexeddb-wasm/src/indexeddb.rs,  *)
(* cb_future.rs, cb_stream.rs): calls of nodes in several tabs on one      *)
(* database.  A bucket's mutex orders the set_state calls of its tab, the  *)
(* readwrite transactions of the browser those of all tabs.                *)
(*                                                                         *)
(* IndexedDB itself is external: requests and transactions fire success,   *)
(* complete, error and abort events, and CBFuture waits for some of them.  *)
(***************************************************************************)
EXTENDS StorageCalls

CONSTANTS
    Tab,       \* Tab[p]: the tab call p is made in
    MaxAborts  \* bound: transactions that fail

ASSUME IndexedDBAssumption == DOMAIN Tab = Callers /\ MaxAborts \in Nat

Tabs == {Tab[p] : p \in Callers}

VARIABLES
    mutex,   \* mutex[t]: the call that holds the bucket's mutex, or None
    txn,     \* the call whose readwrite transaction is active, or None
    aborts

idbVars == <<mutex, txn, aborts>>

IdbInit ==
    /\ CallsInit
    /\ mutex = [t \in Tabs |-> None] /\ txn = None /\ aborts = 0

\* collection makes a bucket without touching the database
IdbBegin(p) ==
    /\ \/ Begin(p, "fetch", None, None, "read")
       \/ \E i \in Ids : \/ Begin(p, "get", i, None, "read")
                         \/ \E s \in States : Begin(p, "set", i, s, "lock")
    /\ UNCHANGED idbVars

Lock(p) ==
    /\ At(p, "set", "lock") /\ mutex[Tab[p]] = None
    /\ mutex' = [mutex EXCEPT ![Tab[p]] = p]
    /\ Goto(p, "begin")
    /\ UNCHANGED <<rows, seen, overlapped, txn, aborts>>

\* the transaction waits for the one that is active, in whatever tab
BeginTransaction(p) ==
    /\ At(p, "set", "begin") /\ txn = None
    /\ txn' = p
    /\ Goto(p, "compare")
    /\ UNCHANGED <<rows, seen, overlapped, mutex, aborts>>

\* Mutant: a call that fails keeps the mutex
IdbEndLocked(p, result) ==
    /\ End(p, result)
    /\ mutex' = [mutex EXCEPT ![Tab[p]] = IF result.kind = "ok" THEN None ELSE @]
    /\ txn' = None

\* the call returns: the guard of the mutex goes, and the transaction is over
IdbEnd(p, result) ==
    /\ End(p, result)
    /\ mutex' = [mutex EXCEPT ![Tab[p]] = None]
    /\ txn' = None

\* Mutant: an entity that is there has the head
SameHeadAny(old, new) == old # None

\* the old entity has been read: equal heads end the call with true, and nothing is written
SameHead(old, new) == old # None /\ old.head = new.head

Compare(p) ==
    LET c == call[p] IN
    /\ At(p, "set", "compare")
    /\ IF SameHead(rows[c.id], c.arg) THEN IdbEnd(p, Ok(TRUE))
       ELSE Goto(p, "put") /\ UNCHANGED <<mutex, txn>>
    /\ UNCHANGED <<rows, seen, overlapped, aborts>>

\* the put request succeeds, and then the transaction completes
Put(p) ==
    /\ At(p, "set", "put")
    /\ Goto(p, "complete")
    /\ UNCHANGED <<rows, seen, overlapped, idbVars>>

Complete(p) ==
    /\ At(p, "set", "complete")
    /\ Store(p)
    /\ IdbEnd(p, Ok(TRUE))
    /\ UNCHANGED <<overlapped, aborts>>

\* a request fires "error", CBFuture resolves with it, the transaction is rolled back
RequestFails(p) ==
    /\ call[p].op = "set" /\ call[p].pc \in {"compare", "put"}
    /\ aborts < MaxAborts /\ aborts' = aborts + 1
    /\ IdbEnd(p, Error)
    /\ UNCHANGED <<rows, seen, overlapped>>

\* The commit fails (the disk, the quota): the transaction fires "abort", and CBFuture, which
\* listens for "complete" and "error", is never resolved.  The mutex stays locked.
CommitFails(p) ==
    /\ At(p, "set", "complete")
    /\ aborts < MaxAborts /\ aborts' = aborts + 1
    /\ txn' = None
    /\ Goto(p, "hung")
    /\ UNCHANGED <<rows, seen, overlapped, mutex>>

\* get_state, and fetch_states with its cursor: one readonly transaction
Read(p) ==
    /\ call[p].op \in {"get", "fetch"} /\ call[p].pc = "read" /\ txn = None
    /\ End(p, Ok(IF call[p].op = "get" THEN rows[call[p].id] ELSE Contents))
    /\ UNCHANGED <<rows, seen, overlapped, idbVars>>

ReadFails(p) ==
    /\ call[p].op \in {"get", "fetch"} /\ call[p].pc = "read"
    /\ aborts < MaxAborts /\ aborts' = aborts + 1
    /\ End(p, Error)
    /\ UNCHANGED <<rows, seen, overlapped, mutex, txn>>

IdbStep(p) ==
    \/ Lock(p) \/ BeginTransaction(p) \/ Compare(p) \/ Put(p) \/ Complete(p)
    \/ RequestFails(p) \/ CommitFails(p) \/ Read(p) \/ ReadFails(p)

IdbNext == \E p \in Callers : IdbBegin(p) \/ IdbStep(p)
IdbFairness == \A p \in Callers : WF_<<callVars, idbVars>>(IdbStep(p))
IdbSpec == IdbInit /\ [][IdbNext]_<<callVars, idbVars>> /\ IdbFairness
=============================================================================
