------------------------------ MODULE Reactor ------------------------------
(***************************************************************************)
(* The live-query engine of a node (core/src/reactor.rs) together with the *)
(* commits that feed it.  A commit applies an event to the resident entity *)
(* and writes its state to storage, then calls notify_change, which finds  *)
(* the candidate subscriptions, compares the predicate with the recorded   *)
(* result set and calls the callbacks.  Subscriptions come and go at the   *)
(* same time: subscribe awaits the storage between registering its index   *)
(* watchers and inserting the subscription, and dropping the handle        *)
(* unsubscribes.                                                           *)
(*                                                                         *)
(* Two runtimes run this code.  On the tokio runtime ("threads") the steps *)
(* of two tasks interleave anywhere.  In the browser ("single") a task     *)
(* keeps the only thread until its next await.                             *)
(***************************************************************************)
EXTENDS Naturals, Sequences

CONSTANTS
    Entities,    \* entities of one collection
    Values,      \* what an entity's properties may evaluate to
    Subs,        \* subscription ids, each used for one subscribe call
    Tasks,       \* commits, each of at most MaxBatch events
    Matches,     \* Matches[s]: the values that satisfy the predicate of s
    IndexHits,   \* IndexHits[s]: the values for which the index yields s
    Initial,     \* the value every entity has before the first commit
    MaxBatch,    \* bound: the number of events in one commit
    Runtimes,    \* the runtimes to consider
    None         \* nobody, nothing

\* The index may offer a subscription in vain but never withholds it: what
\* ComparisonIndex.tla examines.
ASSUME IndexAssumption ==
    /\ Matches \in [Subs -> SUBSET Values]
    /\ IndexHits \in [Subs -> SUBSET Values]
    /\ \A s \in Subs : Matches[s] \subseteq IndexHits[s]

ASSUME ConstantAssumption ==
    /\ Initial \in Values
    /\ MaxBatch \in Nat \ {0}
    /\ Runtimes \subseteq {"threads", "single"}
    /\ Tasks \cap Subs = {}
    /\ None \notin Tasks \cup Subs \cup Entities

VARIABLES
    runtime,       \* which runtime this node is built for
    running,       \* the process that holds the thread of "single", or None
    value,         \* value[e]: the live, resident entity
    stored,        \* stored[e]: the state the storage engine holds
    subscriptions, \* Reactor::subscriptions
    index,         \* index_watchers and wildcard_watchers: who is registered
    watchers,      \* entity_watchers[e][s]: how often the Vec of e holds s
    matching,      \* matching[s]: Subscription::matching_entities
    phase,         \* phase[s]: how far subscribe or unsubscribe has come
    found,         \* found[s]: the result of the initial fetch_states
    todo,          \* todo[s]: entities subscribe or unsubscribe still visits
    pc,            \* pc[t]: where task t is in its commit
    left,          \* left[t]: how many events of the commit are still to do
    target,        \* target[t]: the entity whose state t is about to store
    writing,       \* writing[t]: the state t hands to set_state
    changes,       \* changes[t]: the changes t has yet to notify
    cands,         \* cands[t]: possibly_interested_subs
    sub,           \* sub[t]: the subscription whose guard t holds
    matches, did,  \* what t has read: the predicate, the old membership
    out,           \* out[t][s]: the changes t has collected for s
    seen,          \* seen[s]: what the subscriber makes of the changes it got
    wrong,         \* the subscribers that got a change that cannot be
    overlapped,    \* subscribes during which a notification ran
    adrift         \* entities changed by a commit that failed, or by two at
                   \* once, and not notified by one alone since

dataVars == <<value, stored>>
reactorVars == <<subscriptions, index, watchers, matching>>
subVars == <<phase, found, todo>>
taskVars == <<pc, left, target, writing, changes, cands, sub, matches, did, out>>
clientVars == <<seen, wrong>>
vars == <<runtime, running, dataVars, reactorVars, subVars, taskVars,
          clientVars, overlapped, adrift>>

ItemChange == [kind : {"Add", "Update", "Remove"}, ent : Entities]
Phases == {"new", "indexed", "fetched", "inserted", "live", "dropping",
           "unlinking", "gone", "failed"}
Pcs == {"apply", "store", "index", "watchers", "next", "evaluated",
        "compared", "deliver", "done"}

----------------------------------------------------------------------------
\* The thread.  A process may step if nobody else is in the middle of a
\* synchronous stretch; it keeps the thread until it awaits.

CanRun(p) == running \in {p, None}
Keep(p)   == running' = IF runtime = "single" THEN p ELSE None
Yield     == running' = None

Init ==
    /\ runtime \in Runtimes
    /\ running = None
    /\ value = [e \in Entities |-> Initial]
    /\ stored = [e \in Entities |-> Initial]
    /\ subscriptions = {}
    /\ index = {}
    /\ watchers = [e \in Entities |-> [s \in Subs |-> 0]]
    /\ matching = [s \in Subs |-> {}]
    /\ phase = [s \in Subs |-> "new"]
    /\ found = [s \in Subs |-> {}]
    /\ todo = [s \in Subs |-> {}]
    /\ pc = [t \in Tasks |-> "apply"]
    /\ left \in [Tasks -> 1..MaxBatch]
    /\ target = [t \in Tasks |-> None]
    /\ writing = [t \in Tasks |-> Initial]
    /\ changes = [t \in Tasks |-> <<>>]
    /\ cands = [t \in Tasks |-> {}]
    /\ sub = [t \in Tasks |-> None]
    /\ matches = [t \in Tasks |-> FALSE]
    /\ did = [t \in Tasks |-> FALSE]
    /\ out = [t \in Tasks |-> [s \in Subs |-> <<>>]]
    /\ seen = [s \in Subs |-> {}]
    /\ wrong = {}
    /\ overlapped = {} /\ adrift = {}

----------------------------------------------------------------------------
\* A commit (commit_events_local).  Commits of one entity may overlap, and
\* their states may be stored in another order than they were taken in.

Storing(e) == {t \in Tasks : target[t] = e}

\* apply_event changes the resident entity, whose state is taken at once;
\* set_state is then awaited.
Apply(t, e, v) ==
    /\ pc[t] = "apply"
    /\ left[t] > 0
    /\ CanRun(t)
    /\ value' = [value EXCEPT ![e] = v]
    /\ writing' = [writing EXCEPT ![t] = v]
    /\ target' = [target EXCEPT ![t] = e]
    /\ left' = [left EXCEPT ![t] = @ - 1]
    /\ pc' = [pc EXCEPT ![t] = "store"]
    /\ adrift' = IF Storing(e) = {} THEN adrift ELSE adrift \cup {e}
    /\ Yield
    /\ UNCHANGED <<runtime, stored, reactorVars, subVars, changes, cands, sub,
                   matches, did, out, clientVars, overlapped>>

\* The storage engine stores the state and answers whether it changed.  Two
\* states that evaluate alike may still differ; an event that changed nothing
\* is not notified.
StoreAs(t, changed) ==
    LET e == target[t] IN
    /\ stored' = [stored EXCEPT ![e] = writing[t]]
    /\ changes' = IF changed THEN [changes EXCEPT ![t] = Append(@, e)] ELSE changes
    /\ adrift' = IF changed /\ Storing(e) = {t} /\ writing[t] = value[e]
                 THEN adrift \ {e} ELSE adrift
    /\ pc' = [pc EXCEPT ![t] = IF left[t] > 0 THEN "apply"
                               ELSE IF changes'[t] = <<>> THEN "done" ELSE "index"]

Store(t) ==
    /\ pc[t] = "store"
    /\ \/ StoreAs(t, TRUE)
       \/ stored[target[t]] = writing[t] /\ StoreAs(t, FALSE)
    /\ target' = [target EXCEPT ![t] = None]
    /\ writing' = [writing EXCEPT ![t] = Initial]
    /\ UNCHANGED <<runtime, running, value, reactorVars, subVars, left, cands, sub,
                   matches, did, out, clientVars, overlapped>>

Changed(t) == {e \in Entities : \E n \in DOMAIN changes[t] : changes[t][n] = e}

\* fetch_entity or set_state fails, and the commit returns at once: what it has
\* stored until then is not notified, what it has applied stays in memory.
CommitFails(t) ==
    /\ \/ pc[t] = "apply" /\ left[t] > 0 /\ CanRun(t)
       \/ pc[t] = "store"
    /\ adrift' = adrift \cup Changed(t) \cup ({target[t]} \ {None})
    /\ pc' = [pc EXCEPT ![t] = "done"]
    /\ target' = [target EXCEPT ![t] = None]
    /\ writing' = [writing EXCEPT ![t] = Initial]
    /\ changes' = [changes EXCEPT ![t] = <<>>]
    /\ left' = [left EXCEPT ![t] = 0]
    /\ UNCHANGED <<runtime, running, dataVars, reactorVars, subVars, cands, sub,
                   matches, did, out, clientVars, overlapped>>

----------------------------------------------------------------------------
\* notify_change, for the first of the changes that are left.

\* The index and wildcard watchers that the entity's present value hits.
ReadIndex(t) ==
    LET e == Head(changes[t]) IN
    /\ pc[t] = "index"
    /\ CanRun(t)
    /\ cands' = [cands EXCEPT ![t] = {s \in index : value[e] \in IndexHits[s]}]
    /\ overlapped' = overlapped \cup {s \in Subs : phase[s] = "fetched"}
    /\ pc' = [pc EXCEPT ![t] = "watchers"]
    /\ Keep(t)
    /\ UNCHANGED <<runtime, dataVars, reactorVars, subVars, left, target, writing, changes,
                   sub, matches, did, out, clientVars, adrift>>

\* The subscriptions recorded as watching the entity.
ReadWatchers(t) ==
    LET e == Head(changes[t]) IN
    /\ pc[t] = "watchers"
    /\ CanRun(t)
    /\ cands' = [cands EXCEPT ![t] = @ \cup {s \in Subs : watchers[e][s] > 0}]
    /\ pc' = [pc EXCEPT ![t] = "next"]
    /\ Keep(t)
    /\ UNCHANGED <<runtime, dataVars, reactorVars, subVars, left, target, writing, changes,
                   sub, matches, did, out, clientVars, overlapped, adrift>>

\* A candidate that is not, or no longer, in subscriptions is passed over.
Skip(t, s) ==
    /\ pc[t] = "next"
    /\ s \in cands[t] \ subscriptions
    /\ CanRun(t)
    /\ cands' = [cands EXCEPT ![t] = @ \ {s}]
    /\ Keep(t)
    /\ UNCHANGED <<runtime, dataVars, reactorVars, subVars, pc, left, target,
                   writing, changes, sub, matches, did, out, clientVars, overlapped, adrift>>

\* Take the guard of the subscription (it is held until Update) and evaluate
\* the predicate on the live entity.
Evaluate(t, s) ==
    /\ pc[t] = "next"
    /\ s \in cands[t] \cap subscriptions
    /\ CanRun(t)
    /\ cands' = [cands EXCEPT ![t] = @ \ {s}]
    /\ sub' = [sub EXCEPT ![t] = s]
    /\ matches' = [matches EXCEPT ![t] = value[Head(changes[t])] \in Matches[s]]
    /\ pc' = [pc EXCEPT ![t] = "evaluated"]
    /\ Keep(t)
    /\ UNCHANGED <<runtime, dataVars, reactorVars, subVars, left, target, writing, changes,
                   did, out, clientVars, overlapped, adrift>>

\* Read the old membership; the lock on matching_entities is released again.
Compare(t) ==
    /\ pc[t] = "evaluated"
    /\ CanRun(t)
    /\ did' = [did EXCEPT ![t] = Head(changes[t]) \in matching[sub[t]]]
    /\ pc' = [pc EXCEPT ![t] = "compared"]
    /\ Keep(t)
    /\ UNCHANGED <<runtime, dataVars, reactorVars, subVars, left, target, writing, changes,
                   cands, sub, matches, out, clientVars, overlapped, adrift>>

\* The change the subscriber is told of, if any.
Item(k, e) == [kind |-> k, ent |-> e]

\* Variants of single definitions, as slips in the code would have them; each
\* breaks one of the properties below.  This one says Initial for Add.
ItemsInitial(m, d, e) ==
    IF m # d THEN <<Item(IF m THEN "Initial" ELSE "Remove", e)>>
             ELSE IF m THEN <<Item("Update", e)>> ELSE <<>>

\* An entity that matched and still does is added again.
ItemsAddAgain(m, d, e) ==
    IF m THEN <<Item("Add", e)>> ELSE IF d THEN <<Item("Remove", e)>> ELSE <<>>

\* An entity that has ceased to match is not mentioned.
ItemsNoRemove(m, d, e) ==
    IF m THEN <<Item(IF d THEN "Update" ELSE "Add", e)>> ELSE <<>>

Items(m, d, e) ==
    IF m # d THEN <<Item(IF m THEN "Add" ELSE "Remove", e)>>
             ELSE IF m THEN <<Item("Update", e)>> ELSE <<>>

\* The membership under the lock is not looked at.
UpdateUnchecked(e, s, m) ==
    /\ matching' = [matching EXCEPT ![s] = IF m THEN @ \cup {e} ELSE @ \ {e}]
    /\ watchers' = [watchers EXCEPT ![e][s] = IF m THEN @ + 1 ELSE 0]

\* An entity that has ceased to match is kept.
UpdateKeeps(e, s, m) ==
    /\ matching' = [matching EXCEPT ![s] = IF m THEN @ \cup {e} ELSE @]
    /\ watchers' = [watchers EXCEPT ![e][s] = IF m /\ e \notin matching[s] THEN @ + 1 ELSE @]

\* update_entity_watchers decides by the membership it finds under the lock,
\* the kind of change by the one read before.
UpdateWatchers(e, s, m) ==
    /\ matching' = [matching EXCEPT ![s] = IF m THEN @ \cup {e} ELSE @ \ {e}]
    /\ watchers' = [watchers EXCEPT ![e][s] =
            IF m /\ e \notin matching[s] THEN @ + 1
            ELSE IF ~m /\ e \in matching[s] THEN 0 ELSE @]

Update(t) ==
    LET e == Head(changes[t])
        s == sub[t] IN
    /\ pc[t] = "compared"
    /\ CanRun(t)
    /\ UpdateWatchers(e, s, matches[t])
    /\ out' = [out EXCEPT ![t][s] = @ \o Items(matches[t], did[t], e)]
    /\ sub' = [sub EXCEPT ![t] = None]
    /\ matches' = [matches EXCEPT ![t] = FALSE]
    /\ did' = [did EXCEPT ![t] = FALSE]
    /\ pc' = [pc EXCEPT ![t] = "next"]
    /\ Keep(t)
    /\ UNCHANGED <<runtime, dataVars, subscriptions, index, subVars, left, target,
                   writing, changes, cands, clientVars, overlapped, adrift>>

\* All candidates of a change are done: on to the next change, or to the
\* callbacks.
NextChange(t) ==
    /\ pc[t] = "next"
    /\ cands[t] = {}
    /\ CanRun(t)
    /\ changes' = [changes EXCEPT ![t] = Tail(@)]
    /\ pc' = [pc EXCEPT ![t] = IF Len(changes[t]) > 1 THEN "index" ELSE "deliver"]
    /\ Keep(t)
    /\ UNCHANGED <<runtime, dataVars, reactorVars, subVars, left, target, writing, cands,
                   sub, matches, did, out, clientVars, overlapped, adrift>>

----------------------------------------------------------------------------
\* The subscriber keeps the set of items the changes it got amount to.

\* The n-th item is the last that speaks of e.
Final(items, e, n) ==
    items[n].ent = e /\ \A k \in DOMAIN items : k > n => items[k].ent # e

Fold(set, items) ==
    {e \in Entities : \/ e \in set /\ \A n \in DOMAIN items : items[n].ent # e
                     \/ \E n \in DOMAIN items :
                            Final(items, e, n) /\ items[n].kind # "Remove"}

\* An item is added when it is not in the set, and updated or removed when it is.
Lawful(set, items) ==
    \A n \in DOMAIN items :
        items[n].kind = "Add" <=> items[n].ent \notin Fold(set, SubSeq(items, 1, n - 1))

Receive(s, items) ==
    /\ seen' = [seen EXCEPT ![s] = Fold(@, items)]
    /\ wrong' = IF Lawful(seen[s], items) THEN wrong ELSE wrong \cup {s}

\* One callback with all the changes for s, under the guard of s.
Deliver(t, s) ==
    /\ pc[t] = "deliver"
    /\ out[t][s] # <<>>
    /\ CanRun(t)
    /\ out' = [out EXCEPT ![t][s] = <<>>]
    /\ IF s \in subscriptions THEN Receive(s, out[t][s]) ELSE UNCHANGED clientVars
    /\ Keep(t)
    /\ UNCHANGED <<runtime, dataVars, reactorVars, subVars, pc, left, target,
                   writing, changes, cands, sub, matches, did, overlapped, adrift>>

Finish(t) ==
    /\ pc[t] = "deliver"
    /\ \A s \in Subs : out[t][s] = <<>>
    /\ CanRun(t)
    /\ pc' = [pc EXCEPT ![t] = "done"]
    /\ Yield
    /\ UNCHANGED <<runtime, dataVars, reactorVars, subVars, left, target, writing, changes,
                   cands, sub, matches, did, out, clientVars, overlapped, adrift>>

----------------------------------------------------------------------------
\* subscribe

\* Watch the index, then ask the storage for the initial matches.
Subscribe(s) ==
    /\ phase[s] = "new"
    /\ CanRun(s)
    /\ index' = index \cup {s}
    /\ phase' = [phase EXCEPT ![s] = "indexed"]
    /\ Yield
    /\ UNCHANGED <<runtime, dataVars, subscriptions, watchers, matching, found,
                   todo, taskVars, clientVars, overlapped, adrift>>

\* The storage engine computes the answer.
Fetch(s) ==
    /\ phase[s] = "indexed"
    /\ found' = [found EXCEPT ![s] = {e \in Entities : stored[e] \in Matches[s]}]
    /\ todo' = [todo EXCEPT ![s] = found'[s]]
    /\ phase' = [phase EXCEPT ![s] = "fetched"]
    /\ UNCHANGED <<runtime, running, dataVars, reactorVars, taskVars, clientVars,
                   overlapped, adrift>>

\* The storage, or reading one of the states it returned, fails: subscribe
\* returns early and leaves what it has registered so far.
SubscribeFails(s) ==
    /\ \/ phase[s] = "indexed"
       \/ phase[s] = "fetched" /\ todo[s] # {}
    /\ CanRun(s)
    /\ phase' = [phase EXCEPT ![s] = "failed"]
    /\ Yield
    /\ UNCHANGED <<runtime, dataVars, reactorVars, found, todo, taskVars,
                   clientVars, overlapped, adrift>>

\* One of the initial matches is entered in the entity watchers.
Link(s, e) ==
    /\ phase[s] = "fetched"
    /\ e \in todo[s]
    /\ CanRun(s)
    /\ watchers' = [watchers EXCEPT ![e][s] = @ + 1]
    /\ todo' = [todo EXCEPT ![s] = @ \ {e}]
    /\ Keep(s)
    /\ UNCHANGED <<runtime, dataVars, subscriptions, index, matching, phase, found,
                   taskVars, clientVars, overlapped, adrift>>

Insert(s) ==
    /\ phase[s] = "fetched"
    /\ todo[s] = {}
    /\ CanRun(s)
    /\ matching' = [matching EXCEPT ![s] = found[s]]
    /\ subscriptions' = subscriptions \cup {s}
    /\ phase' = [phase EXCEPT ![s] = "inserted"]
    /\ Keep(s)
    /\ UNCHANGED <<runtime, dataVars, index, watchers, found, todo, taskVars,
                   clientVars, overlapped, adrift>>

\* The callback with the initial matches, unless there are none; the caller
\* gets its handle.
CallInitial(s) ==
    /\ phase[s] = "inserted"
    /\ CanRun(s)
    /\ seen' = [seen EXCEPT ![s] = @ \cup found[s]]
    /\ wrong' = IF seen[s] \cap found[s] = {} THEN wrong ELSE wrong \cup {s}
    /\ phase' = [phase EXCEPT ![s] = "live"]
    /\ Yield
    /\ UNCHANGED <<runtime, dataVars, reactorVars, found, todo, taskVars,
                   overlapped, adrift>>

----------------------------------------------------------------------------
\* Dropping the handle: unsubscribe

\* Removing the entry waits for nobody.
UnsubscribeAtOnce(s) ==
    /\ phase[s] = "live"
    /\ CanRun(s)
    /\ subscriptions' = subscriptions \ {s}
    /\ phase' = [phase EXCEPT ![s] = "dropping"]
    /\ Keep(s)
    /\ UNCHANGED <<runtime, dataVars, index, watchers, matching, found, todo,
                   taskVars, clientVars, overlapped, adrift>>

\* Removing the entry waits for the guards on it.
Unsubscribe(s) ==
    /\ phase[s] = "live"
    /\ \A t \in Tasks : sub[t] # s
    /\ CanRun(s)
    /\ subscriptions' = subscriptions \ {s}
    /\ phase' = [phase EXCEPT ![s] = "dropping"]
    /\ Keep(s)
    /\ UNCHANGED <<runtime, dataVars, index, watchers, matching, found, todo,
                   taskVars, clientVars, overlapped, adrift>>

UnwatchIndex(s) ==
    /\ phase[s] = "dropping"
    /\ CanRun(s)
    /\ index' = index \ {s}
    /\ todo' = [todo EXCEPT ![s] = matching[s]]
    /\ phase' = [phase EXCEPT ![s] = "unlinking"]
    /\ Keep(s)
    /\ UNCHANGED <<runtime, dataVars, subscriptions, watchers, matching, found,
                   taskVars, clientVars, overlapped, adrift>>

Unlink(s, e) ==
    /\ phase[s] = "unlinking"
    /\ e \in todo[s]
    /\ CanRun(s)
    /\ watchers' = [watchers EXCEPT ![e][s] = 0]
    /\ todo' = [todo EXCEPT ![s] = @ \ {e}]
    /\ Keep(s)
    /\ UNCHANGED <<runtime, dataVars, subscriptions, index, matching, phase, found,
                   taskVars, clientVars, overlapped, adrift>>

Unsubscribed(s) ==
    /\ phase[s] = "unlinking"
    /\ todo[s] = {}
    /\ CanRun(s)
    /\ phase' = [phase EXCEPT ![s] = "gone"]
    /\ Yield
    /\ UNCHANGED <<runtime, dataVars, reactorVars, found, todo, taskVars,
                   clientVars, overlapped, adrift>>

----------------------------------------------------------------------------
\* Every commit is finished and no subscribe or unsubscribe is under way.
Quiescent ==
    /\ \A t \in Tasks : pc[t] = "done"
    /\ \A s \in Subs : phase[s] \in {"live", "gone", "failed"}

Idle == Quiescent /\ UNCHANGED vars

TaskStep(t) ==
    \/ \E e \in Entities, v \in Values : Apply(t, e, v)
    \/ Store(t) \/ ReadIndex(t) \/ ReadWatchers(t)
    \/ \E s \in Subs : Skip(t, s) \/ Evaluate(t, s) \/ Deliver(t, s)
    \/ Compare(t) \/ Update(t) \/ NextChange(t) \/ Finish(t)

SubscribeStep(s) ==
    \/ Fetch(s) \/ Insert(s) \/ CallInitial(s)
    \/ \E e \in Entities : Link(s, e)

UnsubscribeStep(s) ==
    \/ UnwatchIndex(s) \/ Unsubscribed(s)
    \/ \E e \in Entities : Unlink(s, e)

Next ==
    \/ \E t \in Tasks : TaskStep(t) \/ CommitFails(t)
    \/ \E s \in Subs : \/ Subscribe(s) \/ SubscribeStep(s) \/ SubscribeFails(s)
                       \/ Unsubscribe(s) \/ UnsubscribeStep(s)
    \/ Idle

\* The executor polls every task that is ready, so commits and the calls that
\* have begun go on; nobody has to subscribe, or to drop a handle.
Spec == Init /\ [][Next]_vars

FairSpec ==
    /\ Spec
    /\ \A t \in Tasks : WF_vars(TaskStep(t))
    /\ \A s \in Subs : WF_vars(SubscribeStep(s)) /\ WF_vars(UnsubscribeStep(s))

----------------------------------------------------------------------------
\* Every variable has its type.
TypeOK ==
    /\ runtime \in Runtimes
    /\ running \in Tasks \cup Subs \cup {None}
    /\ value \in [Entities -> Values]
    /\ stored \in [Entities -> Values]
    /\ subscriptions \subseteq Subs
    /\ index \subseteq Subs
    /\ watchers \in [Entities -> [Subs -> Nat]]
    /\ matching \in [Subs -> SUBSET Entities]
    /\ phase \in [Subs -> Phases]
    /\ found \in [Subs -> SUBSET Entities]
    /\ todo \in [Subs -> SUBSET Entities]
    /\ pc \in [Tasks -> Pcs]
    /\ left \in [Tasks -> 0..MaxBatch]
    /\ target \in [Tasks -> Entities \cup {None}]
    /\ writing \in [Tasks -> Values]
    /\ changes \in [Tasks -> Seq(Entities)]
    /\ cands \in [Tasks -> SUBSET Subs]
    /\ sub \in [Tasks -> Subs \cup {None}]
    /\ matches \in [Tasks -> BOOLEAN]
    /\ did \in [Tasks -> BOOLEAN]
    /\ out \in [Tasks -> [Subs -> Seq(ItemChange)]]
    /\ seen \in [Subs -> SUBSET Entities]
    /\ wrong \subseteq Subs
    /\ overlapped \subseteq Subs
    /\ adrift \subseteq Entities

\* The two records of who matches what never disagree, whatever threads
\* notify, subscribe and unsubscribe at once: an entity lists a subscription
\* as a watcher, once, exactly when the subscription's result set has the
\* entity; while subscribe links, exactly for the entities it has come to;
\* while unsubscribe unlinks, for those it has yet to come to
\* (reactor.rs:82-86, 187-207, 171-184).
Linked(s) ==
    IF phase[s] \in {"fetched", "failed"} THEN found[s] \ todo[s]
    ELSE IF phase[s] \in {"inserted", "live", "dropping"} THEN matching[s]
    ELSE IF phase[s] = "unlinking" THEN todo[s]
    ELSE {}

WatchersAgree ==
    \A s \in Subs, e \in Entities :
        watchers[e][s] = IF e \in Linked(s) THEN 1 ELSE 0

\* What notify_change can still find of a subscription that is gone: nothing.
\* The last task that knew of it cannot put it back (reactor.rs:171-184).
NothingLeftBehind ==
    \A s \in Subs : phase[s] = "gone" =>
        /\ s \notin index
        /\ \A e \in Entities : watchers[e][s] = 0

\* On the single thread the changes a subscriber gets are consistent: each is
\* possible after the ones before it, and together they amount to the
\* recorded result set (changes.rs:15-24, reactor.rs:264-277).
StreamAgrees ==
    runtime = "single" /\ running = None =>
        /\ wrong = {}
        /\ \A s \in subscriptions : seen[s] = matching[s]

\* When the commits are done, a result set has the entities that satisfy its
\* predicate (reactor.rs:31, "Index of subscriptions that presently match
\* each entity"), as far as the entities go of which no commit failed and no
\* two were stored at once without one alone being notified since.
Fits(set, s) ==
    \A e \in Entities \ adrift : e \in set <=> value[e] \in Matches[s]

SettledFor(S) == Quiescent => \A s \in S \cap subscriptions : Fits(matching[s], s)

\* So it is on the single thread for every subscription whose subscribe call
\* no notification overlapped (reactor.rs:225-297, node.rs:293-312).
SettledSingle == runtime = "single" => SettledFor(Subs \ overlapped)

\* The claim of the comment without the exception for overlapping calls ...
PresentlyMatching == SettledFor(Subs)

\* ... and, on threads, with it.
PresentlyMatchingApart == SettledFor(Subs \ overlapped)

\* A subscriber that stays in the end sees what it asked for.
Converges ==
    \A s \in Subs :
        <>[](runtime = "single" /\ s \in subscriptions \ overlapped => Fits(seen[s], s))
============================================================================
