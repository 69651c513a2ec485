----------------------------- MODULE NodeCommit -----------------------------
(***************************************************************************)
(* The resident entities of one node and the paths that change them        *)
(* (core/src/node.rs, model.rs, transaction.rs): transactions that edit or *)
(* create entities and commit, CommitEvents requests from peers, get and   *)
(* fetch, the storage engine, application handles that come and go, failed *)
(* storage calls and restarts.                                             *)
(*                                                                         *)
(* A step is what a task does between two awaits, the awaits of a lock     *)
(* included.  The property backend is a CRDT: a state is the set of events *)
(* merged into it, with the head that Backends keeps beside it.            *)
(***************************************************************************)
EXTENDS Naturals, FiniteSets, Sequences, SequencesExt

CONSTANTS
    Entities,    \* entity ids of one collection
    Known,       \* the entities that are stored at the start
    NewId,       \* NewId[t]: the id next_entity_id hands t, if it creates an entity
    Objects,     \* bound: the Entity objects that may be alive at once
    Txns,        \* transactions
    Requests,    \* CommitEvents requests of peers
    Readers,     \* get and fetch calls of the application
    Carried,     \* Carried[r]: the events request r brings, in order
    MaxEdits,    \* MaxEdits[t], a bound: the entities transaction t touches
    MaxRestarts, \* bound: restarts of the node
    Faults,      \* {"storage"} if storage calls may fail, or {}
    None         \* no event, no entity, no object

Processes == Txns \cup Requests \cup Readers
Foreign == {ev \in UNION {ToSet(Carried[r]) : r \in Requests} : ev.by \notin Txns}
Events == [by : Txns, ent : Entities] \cup Foreign

ASSUME NodeAssumption ==
    /\ Known \subseteq Entities
    /\ NewId \in [Txns -> (Entities \ Known) \cup {None}]
    /\ \A t, u \in Txns : t # u /\ NewId[t] = NewId[u] => NewId[t] = None
    /\ MaxEdits \in [Txns -> Nat] /\ MaxRestarts \in Nat
    /\ \A r \in Requests : /\ Carried[r] \in Seq(Events)
                           /\ \A n \in DOMAIN Carried[r] : Carried[r][n].ent \in Entities
    /\ IsFiniteSet(Entities) /\ IsFiniteSet(Txns) /\ IsFiniteSet(Objects)
    /\ Cardinality(Objects) >= Cardinality(Entities) + Cardinality(Txns)
    /\ Txns \cap Requests = {} /\ Txns \cap Readers = {} /\ Requests \cap Readers = {}

VARIABLES
    entities,  \* EntityMap: an object, None (vacant), or "dead" (a dangling Weak)
    heap,      \* heap[o]: the Entity object o, or None
    stored,    \* stored[e]: the state in the storage engine, or None
    pc,        \* what each process is doing
    created,   \* the ids next_entity_id has handed out
    list,      \* list[t]: Transaction::entities, each with its upstream
    want,      \* want[p]: the entity p is fetching, or storing
    got,       \* got[p]: the states the storage has answered p with
    events,    \* events[p]: what p commits, in order
    current,   \* current[p]: the number of the event p is at
    writing,   \* writing[p]: the state p hands to set_state
    changes,   \* changes[p]: the events p will notify
    notified,  \* events the reactor has been told of
    acked,     \* events of commits that returned Ok
    dropped,   \* events stored by a commit that then ended without notifying
    regressed, \* entities put back, while in memory or on the way there, to an old state
    raced,     \* entities of which two states were on their way to storage at once
    restarts

procVars == <<pc, list, want, got, events, current, writing, changes>>
history == <<created, notified, acked, dropped, regressed, raced>>
vars == <<entities, heap, stored, procVars, history, restarts>>

Nothing == [e \in {} |-> None]
State == [docs : SUBSET Events, head : Events \cup {None}]
Object == [ent : Entities, docs : SUBSET Events, head : Events \cup {None}, new : BOOLEAN]

ASSUME NoneAssumption ==
    /\ None \notin Entities \cup Objects \cup Events \cup State \cup Object
    /\ "dead" \notin Objects \cup {None}

Init ==
    /\ entities = [e \in Entities |-> None]
    /\ heap = [o \in Objects |-> None]
    /\ stored = [e \in Entities |->
                    IF e \in Known THEN [docs |-> {}, head |-> None] ELSE None]
    /\ pc = [p \in Processes |-> "start"]
    /\ list = [t \in Txns |-> <<>>]
    /\ want = [p \in Processes |-> None]
    /\ got = [p \in Processes |-> Nothing]
    /\ events = [p \in Processes |-> IF p \in Requests THEN Carried[p] ELSE <<>>]
    /\ current = [p \in Processes |-> 1]
    /\ writing = [p \in Processes |-> None]
    /\ changes = [p \in Processes |-> {}]
    /\ created = {}
    /\ notified = {} /\ acked = {} /\ dropped = {} /\ regressed = {} /\ raced = {}
    /\ restarts = 0

----------------------------------------------------------------------------
\* Entity and Backends

DocsOf(st) == IF st = None THEN {} ELSE st.docs

FromState(e, st) ==
    [ent |-> e, docs |-> DocsOf(st), new |-> FALSE,
     head |-> IF st = None THEN None ELSE st.head]

\* Stomps on the backends that the state has; State::default() has none, but
\* its empty head is taken all the same.
ApplyState(obj, st) ==
    IF st = None THEN [obj EXCEPT !.head = None]
    ELSE [obj EXCEPT !.docs = st.docs, !.head = st.head]

ApplyEvent(obj, ev) == [obj EXCEPT !.docs = @ \cup {ev}, !.head = ev]

ToState(obj) == [docs |-> obj.docs, head |-> obj.head]

\* The map of resident entities.

Alive(e) == entities[e] \in Objects

\* Variants of single definitions, as slips in the code would have them; each
\* breaks one of the properties below.  Here assert_entity does not look.
TargetNew(e) == CHOOSE o \in Objects : heap[o] = None

\* Where assert_entity leaves e: the object there is, or a new one.
Target(e) == IF Alive(e) THEN entities[e] ELSE CHOOSE o \in Objects : heap[o] = None

Asserted(e, st) ==
    IF Alive(e) THEN ApplyState(heap[Target(e)], st) ELSE FromState(e, st)

Resident(e, obj) ==
    /\ heap' = [heap EXCEPT ![Target(e)] = obj]
    /\ entities' = [entities EXCEPT ![e] = Target(e)]

\* Did asserting st take away from e what was there already?
Regress(e, st) ==
    LET had == DocsOf(stored[e]) \cup IF Alive(e) THEN heap[Target(e)].docs ELSE {} IN
    regressed' = IF had \subseteq Asserted(e, st).docs THEN regressed
                 ELSE regressed \cup {e}

\* A commit that does not keep the entity over the await of set_state.
HoldsListed(p, o) == p \in Txns /\ \E n \in DOMAIN list[p] : list[p][n].obj = o

\* The processes that own a reference to object o: a transaction to what it
\* has edited, a commit to the entity it is storing and, until it has notified
\* them, to the entities of its changes.
Holds(p, o) ==
    \/ p \in Txns /\ \E n \in DOMAIN list[p] : list[p][n].obj = o
    \/ pc[p] = "set" /\ entities[want[p]] = o
    \/ \E ev \in changes[p] : entities[ev.ent] = o

----------------------------------------------------------------------------
\* fetch_entity: the resident entity if there is one, else what storage has.

\* The storage answers get_state; NotFound becomes State::default().
GetState(p) ==
    /\ pc[p] = "load"
    /\ got' = [got EXCEPT ![p] = [e \in {want[p]} |-> stored[e]]]
    /\ pc' = [pc EXCEPT ![p] = "loaded"]
    /\ UNCHANGED <<entities, heap, stored, list, want, events, current, writing,
                   changes, history, restarts>>

\* A transaction edits one more entity: it keeps a snapshot and the upstream.
Entry(e, o) == [ent |-> e, obj |-> o]

Listed(t) == {list[t][n].ent : n \in DOMAIN list[t]}

\* The ids that can be known.
Ids == created \cup (Entities \ {NewId[t] : t \in Txns})

Edit(t, e) ==
    /\ pc[t] = "start"
    /\ Len(list[t]) < MaxEdits[t]
    /\ e \in Ids \ Listed(t)
    /\ \/ /\ Alive(e)
          /\ list' = [list EXCEPT ![t] = Append(@, Entry(e, entities[e]))]
          /\ UNCHANGED <<pc, want>>
       \/ /\ ~Alive(e)
          /\ pc' = [pc EXCEPT ![t] = "load"]
          /\ want' = [want EXCEPT ![t] = e]
          /\ UNCHANGED list
    /\ UNCHANGED <<entities, heap, stored, got, events, current, writing, changes,
                   history, restarts>>

EditLoaded(t) ==
    LET e == want[t] IN
    /\ pc[t] = "loaded"
    /\ Resident(e, Asserted(e, got[t][e]))
    /\ Regress(e, got[t][e])
    /\ list' = [list EXCEPT ![t] = Append(@, Entry(e, Target(e)))]
    /\ pc' = [pc EXCEPT ![t] = "start"]
    /\ want' = [want EXCEPT ![t] = None]
    /\ got' = [got EXCEPT ![t] = Nothing]
    /\ UNCHANGED <<stored, events, current, writing, changes, created, notified, acked,
                   dropped, raced, restarts>>

\* A transaction creates an entity, which only it has until it commits.
Create(t) ==
    LET e == NewId[t]
        o == CHOOSE o \in Objects : heap[o] = None IN
    /\ pc[t] = "start"
    /\ Len(list[t]) < MaxEdits[t]
    /\ e # None /\ e \notin created
    /\ created' = created \cup {e}
    /\ heap' = [heap EXCEPT ![o] = [FromState(e, None) EXCEPT !.new = TRUE]]
    /\ list' = [list EXCEPT ![t] = Append(@, Entry(e, o))]
    /\ UNCHANGED <<entities, stored, pc, want, got, events, current, writing, changes,
                   notified, acked, dropped, regressed, raced, restarts>>

\* The transaction and its references are dropped.
Leave(p, how) ==
    /\ pc' = [pc EXCEPT ![p] = how]
    /\ list' = IF p \in Txns THEN [list EXCEPT ![p] = <<>>] ELSE list
    /\ want' = [want EXCEPT ![p] = None]
    /\ got' = [got EXCEPT ![p] = Nothing]
    /\ writing' = [writing EXCEPT ![p] = None]
    /\ changes' = [changes EXCEPT ![p] = {}]
    /\ UNCHANGED <<events, current>>

Rollback(t) ==
    /\ pc[t] = "start"
    /\ list[t] # <<>>
    /\ Leave(t, "failed")
    /\ UNCHANGED <<entities, heap, stored, history, restarts>>

----------------------------------------------------------------------------
\* Transaction::commit turns every entity of the transaction into an event and
\* applies it to the upstream at once.  A created entity is put into the map,
\* unless there is, or has ever been, an entry for its id.

\* The object's identity in place of the entity's.
EventOfObject(t, n) == [by |-> t, ent |-> list[t][n].obj]

Event(t, n) == [by |-> t, ent |-> list[t][n].ent]

Refused(t, n) ==
    LET entry == list[t][n] IN heap[entry.obj].new /\ entities[entry.ent] # None

\* The entries before the first that is refused.
Accepted(t) ==
    {n \in DOMAIN list[t] : \A k \in 1..n : ~Refused(t, k)}

Committed(t, n) ==
    LET obj == heap[list[t][n].obj] IN
    IF obj.new THEN [obj EXCEPT !.docs = @ \cup {Event(t, n)}, !.new = FALSE]
    ELSE ApplyEvent(obj, Event(t, n))

Commit(t) ==
    LET done == Accepted(t) IN
    /\ pc[t] = "start"
    /\ list[t] # <<>>
    /\ heap' = [o \in Objects |->
                  IF \E n \in done : list[t][n].obj = o
                  THEN Committed(t, CHOOSE n \in done : list[t][n].obj = o)
                  ELSE heap[o]]
    /\ entities' = [e \in Entities |->
                  IF \E n \in done : list[t][n].ent = e
                  THEN list[t][CHOOSE n \in done : list[t][n].ent = e].obj
                  ELSE entities[e]]
    /\ IF done = DOMAIN list[t]
       THEN /\ pc' = [pc EXCEPT ![t] = "next"]
            /\ events' = [events EXCEPT ![t] = [n \in DOMAIN list[t] |-> Event(t, n)]]
            /\ UNCHANGED <<list, want, got, writing, changes, current>>
       ELSE Leave(t, "failed")
    /\ UNCHANGED <<stored, history, restarts>>

\* A peer sends the events it has committed, or passes on events that a
\* subscription of its told it of; those of this node come back after
\* commit_events has sent them to its peers, which it does last.  No peer
\* knows an id before next_entity_id has made it.
Receive(r) ==
    /\ pc[r] = "start"
    /\ \A n \in DOMAIN Carried[r] :
           /\ Carried[r][n].ent \in Ids
           /\ Carried[r][n].by \in Txns => Carried[r][n] \in acked
    /\ pc' = [pc EXCEPT ![r] = "next"]
    /\ UNCHANGED <<entities, heap, stored, list, want, got, events, current,
                   writing, changes, history, restarts>>

----------------------------------------------------------------------------
\* commit_events_local: fetch the entity, apply the event (for a transaction a
\* second time), take the state, and await set_state.

\* The state is taken before the event is applied.
TakeEarly(p, e, obj) ==
    /\ Resident(e, ApplyEvent(obj, events[p][current[p]]))
    /\ writing' = [writing EXCEPT ![p] = ToState(obj)]
    /\ want' = [want EXCEPT ![p] = e]
    /\ pc' = [pc EXCEPT ![p] = "set"]
    /\ UNCHANGED raced

Take(p, e, obj) ==
    LET ev == events[p][current[p]] IN
    /\ Resident(e, ApplyEvent(obj, ev))
    /\ writing' = [writing EXCEPT ![p] = ToState(ApplyEvent(obj, ev))]
    /\ want' = [want EXCEPT ![p] = e]
    /\ pc' = [pc EXCEPT ![p] = "set"]
    /\ raced' = IF \E q \in Processes : pc[q] = "set" /\ want[q] = e
                THEN raced \cup {e} ELSE raced

NextEvent(p) ==
    /\ pc[p] = "next"
    /\ current[p] <= Len(events[p])
    /\ LET e == events[p][current[p]].ent IN
       IF Alive(e)
       THEN Take(p, e, heap[entities[e]])
       ELSE /\ pc' = [pc EXCEPT ![p] = "load"]
            /\ want' = [want EXCEPT ![p] = e]
            /\ UNCHANGED <<entities, heap, writing, raced>>
    /\ UNCHANGED <<stored, list, got, events, current, changes, created, notified, acked,
                   dropped, regressed, restarts>>

NextLoaded(r) ==
    LET e == want[r] IN
    /\ pc[r] = "loaded"
    /\ Take(r, e, Asserted(e, got[r][e]))
    /\ Regress(e, got[r][e])
    /\ got' = [got EXCEPT ![r] = Nothing]
    /\ UNCHANGED <<stored, list, events, current, changes, created, notified, acked,
                   dropped, restarts>>

\* States are compared by what is merged into them, without the head.
ChangedDocs(e, st) == DocsOf(stored[e]) # st.docs

Changed(e, st) == stored[e] # st

\* The storage engine replaces the state and answers whether it changed.
SetState(p) ==
    LET e == want[p] IN
    /\ pc[p] = "set"
    /\ stored' = [stored EXCEPT ![e] = writing[p]]
    /\ changes' = IF Changed(e, writing[p])
                  THEN [changes EXCEPT ![p] = @ \cup {events[p][current[p]]}]
                  ELSE changes
    /\ current' = [current EXCEPT ![p] = @ + 1]
    /\ writing' = [writing EXCEPT ![p] = None]
    /\ want' = [want EXCEPT ![p] = None]
    /\ pc' = [pc EXCEPT ![p] = "next"]
    /\ UNCHANGED <<entities, heap, list, got, events, history, restarts>>

\* notify_change, and Ok to the caller.
Notify(p) ==
    /\ pc[p] = "next"
    /\ current[p] > Len(events[p])
    /\ notified' = notified \cup changes[p]
    /\ acked' = acked \cup ToSet(events[p])
    /\ Leave(p, "done")
    /\ UNCHANGED <<entities, heap, stored, created, dropped, regressed, raced, restarts>>

----------------------------------------------------------------------------
\* The application reads.

\* get: an entity that is in memory is returned as it is.
Get(g, e) ==
    /\ pc[g] = "start"
    /\ e \in Ids
    /\ ~Alive(e)
    /\ pc' = [pc EXCEPT ![g] = "load"]
    /\ want' = [want EXCEPT ![g] = e]
    /\ UNCHANGED <<entities, heap, stored, list, got, events, current, writing,
                   changes, history, restarts>>

\* fetch: the stored states that satisfy the predicate, whichever these are; a
\* fetch that finds none ends here.
FetchStates(g) ==
    /\ pc[g] = "start"
    /\ \E S \in SUBSET {e \in Entities : stored[e] # None} \ {{}} :
           got' = [got EXCEPT ![g] = [e \in S |-> stored[e]]]
    /\ pc' = [pc EXCEPT ![g] = "loaded"]
    /\ UNCHANGED <<entities, heap, stored, list, want, events, current, writing,
                   changes, history, restarts>>

\* What get or fetch was answered is asserted, one entity after the other.
AssertGot(g, e) ==
    /\ pc[g] = "loaded"
    /\ e \in DOMAIN got[g]
    /\ Resident(e, Asserted(e, got[g][e]))
    /\ Regress(e, got[g][e])
    /\ IF DOMAIN got[g] = {e} THEN Leave(g, "done")
       ELSE /\ got' = [got EXCEPT ![g] = Restrict(@, DOMAIN @ \ {e})]
            /\ UNCHANGED <<pc, list, want, events, current, writing, changes>>
    /\ UNCHANGED <<stored, created, notified, acked, dropped, raced, restarts>>

----------------------------------------------------------------------------
\* Memory, failures, restarts

\* The last handle the application has is dropped; so is the object, if no
\* process holds it.  The map keeps a dangling reference.
Drop(o) ==
    /\ heap[o] # None
    /\ \A p \in Processes : ~Holds(p, o)
    /\ heap' = [heap EXCEPT ![o] = None]
    /\ entities' = [e \in Entities |-> IF entities[e] = o THEN "dead" ELSE entities[e]]
    /\ UNCHANGED <<stored, procVars, history, restarts>>

\* A storage call fails; the caller gets the error at once.
StorageFails(p) ==
    /\ "storage" \in Faults
    /\ pc[p] \in {"load", "set"}
    /\ dropped' = dropped \cup changes[p]
    /\ Leave(p, "failed")
    /\ UNCHANGED <<entities, heap, stored, created, notified, acked, regressed, raced,
                   restarts>>

\* The node stops and starts again with what is stored.
Begun(p) == pc[p] \notin {"start", "done"} \/ (p \in Txns /\ list[p] # <<>>)

Restart ==
    /\ restarts < MaxRestarts
    /\ restarts' = restarts + 1
    /\ entities' = [e \in Entities |-> None]
    /\ heap' = [o \in Objects |-> None]
    /\ pc' = [p \in Processes |-> IF Begun(p) THEN "failed" ELSE pc[p]]
    /\ list' = [t \in Txns |-> <<>>]
    /\ want' = [p \in Processes |-> None]
    /\ got' = [p \in Processes |-> Nothing]
    /\ writing' = [p \in Processes |-> None]
    /\ changes' = [p \in Processes |-> {}]
    /\ dropped' = dropped \cup UNION {changes[p] : p \in Processes}
    /\ UNCHANGED <<stored, events, current, created, notified, acked, regressed, raced>>

\* Nobody has to begin anything; whoever has begun can go on.
Idle ==
    /\ \A p \in Processes : pc[p] \in {"start", "done", "failed"}
    /\ UNCHANGED vars

Next ==
    \/ \E t \in Txns : \/ \E e \in Entities : Edit(t, e)
                       \/ EditLoaded(t) \/ Create(t) \/ Rollback(t) \/ Commit(t)
    \/ \E r \in Requests : Receive(r) \/ NextLoaded(r)
    \/ \E p \in Txns \cup Requests : NextEvent(p) \/ SetState(p) \/ Notify(p)
    \/ \E g \in Readers : \/ \E e \in Entities : Get(g, e) \/ AssertGot(g, e)
                          \/ FetchStates(g)
    \/ \E p \in Processes : GetState(p) \/ StorageFails(p)
    \/ \E o \in Objects : Drop(o)
    \/ Restart
    \/ Idle

Spec == Init /\ [][Next]_vars

----------------------------------------------------------------------------
\* Every variable has its type.
TypeOK ==
    /\ entities \in [Entities -> Objects \cup {None, "dead"}]
    /\ heap \in [Objects -> Object \cup {None}]
    /\ stored \in [Entities -> State \cup {None}]
    /\ pc \in [Processes -> {"start", "load", "loaded", "next", "set", "done", "failed"}]
    /\ list \in [Txns -> Seq([ent : Entities, obj : Objects])]
    /\ want \in [Processes -> Entities \cup {None}]
    /\ \A p \in Processes : /\ DOMAIN got[p] \subseteq Entities
                            /\ \A e \in DOMAIN got[p] : got[p][e] \in State \cup {None}
    /\ events \in [Processes -> Seq(Events)]
    /\ current \in [Processes -> Nat]
    /\ writing \in [Processes -> State \cup {None}]
    /\ changes \in [Processes -> SUBSET Events]
    /\ created \subseteq Entities
    /\ notified \cup acked \cup dropped \subseteq Events
    /\ regressed \cup raced \subseteq Entities
    /\ restarts \in 0..MaxRestarts

\* No entity is resident twice: whatever fetches, requests, creations and drops
\* overlap, an object that has been entered in the map and is still alive is
\* the one the map has (node.rs:357, "with the intention of preventing
\* duplicate resident entities").
UniqueResident ==
    \A o \in Objects :
        heap[o] # None /\ ~heap[o].new => entities[heap[o].ent] = o

\* What is in memory is never behind what is stored or on its way there, unless
\* an assert_entity has put the entity back to an old state (node.rs:361-386).
ResidentCurrent ==
    \A e \in Entities \ regressed : Alive(e) =>
        /\ DocsOf(stored[e]) \subseteq heap[entities[e]].docs
        /\ \A p \in Processes : pc[p] = "set" /\ want[p] = e =>
               writing[p].docs \subseteq heap[entities[e]].docs

\* An event whose commit has returned Ok is in the stored state from then on,
\* over drops, failures and restarts (proto/src/lib.rs:239) ...
Kept(S) ==
    \A ev \in acked : ev.ent \in S =>
        stored[ev.ent] # None /\ ev \in stored[ev.ent].docs

Durable == Kept(Entities)

\* ... unless an assert_entity has put the entity back, or two states of it
\* were on their way to storage at once (node.rs:298-307).
DurableApart == Kept(Entities \ (regressed \cup raced))

\* An event whose commit has returned Ok has been passed to the reactor, or is
\* about to be by the commit that stored it, unless that commit ended in between:
\* the answer of set_state is no reason to keep it back (node.rs:306-310).
AckedNotified ==
    acked \subseteq notified \cup dropped \cup UNION {changes[p] : p \in Processes}
============================================================================
