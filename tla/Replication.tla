---------------------------- MODULE Replication ----------------------------
(***************************************************************************)
(* Nodes that exchange requests over local-process connections             *)
(* (core/src/node.rs, connectors/local-process/src/lib.rs): commits that   *)
(* are broadcast to the peers, subscriptions that forward events to a      *)
(* peer, fetches from a durable peer, connections that come and go.        *)
(*                                                                         *)
(* One entity and predicates it satisfies: what differs between two states *)
(* is the events merged into them and their head.  Storage calls succeed   *)
(* here; NodeCommit has those that fail.                                   *)
(***************************************************************************)
EXTENDS Naturals, Sequences, FiniteSets

CONSTANTS
    Nodes,      \* Node values
    Durable,    \* the nodes made by new_durable
    Links,      \* the pairs of nodes a LocalProcessConnection may connect
    Events,     \* events of one entity
    Author,     \* Author[e]: the node whose transaction makes event e
    Asking,     \* Asking[kind]: the nodes whose application calls fetch, or subscribe
    Capacity,   \* of a connection's channels (100 in the code)
    Dropped,    \* bound: the links that are dropped, once each, and made again
    Evicted,    \* bound: the nodes that drop their resident entity, once each
    MaxAsks,    \* bound: calls of fetch and subscribe
    None        \* no event, no object, no message

ASSUME ReplicationAssumption ==
    /\ Durable \subseteq Nodes
    /\ Asking \in [{"fetch", "subscribe"} -> SUBSET Nodes]
    /\ Links \subseteq {{m, n} : m, n \in Nodes} /\ \A l \in Links : Cardinality(l) = 2
    /\ Author \in [Events -> Nodes]
    /\ Capacity \in Nat \ {0}
    /\ Dropped \subseteq Links /\ Evicted \subseteq Nodes /\ MaxAsks \in Nat

Pairs == {l \in Nodes \X Nodes : {l[1], l[2]} \in Links}

VARIABLES
    conn,      \* the links that are up: both ends have registered the other
    chan,      \* chan[m, n]: the messages m has sent n
    recv,      \* recv[m, n]: the message of m that n's receiver task is at, or None
    pending,   \* pending[n]: pending_requests, the requests n awaits
    subs,      \* subs[n]: PeerState.subscriptions of all peers, <<peer, sub>>
    store,     \* store[n]: the state in n's storage engine
    mem,       \* mem[n]: n's resident Entity, or None
    commits,   \* the commit_events_local in progress, and what each is at
    calls,     \* the futures in progress: Node::request, with its caller
    next,      \* next[n]: numbers the batches of requests n makes
    committed, \* the events whose commit_events has been called
    left,      \* what is left of the bounds
    unsent,    \* requests that failed before they were sent
    acked,     \* <<event, node>>: the author got CommitComplete from the node
    owed,      \* owed[n]: the events n's subscriptions have been sent
    lost,      \* lost[n]: events that were in store[n] and were overwritten
    apart      \* apart[n]: events of which a commit at n overlapped no other

netVars == <<conn, chan, recv, subs>>
dataVars == <<store, mem, commits, lost, apart>>
vars == <<netVars, pending, dataVars, calls, next, committed, left, unsent, acked, owed>>

States == [events : SUBSET Events, head : Events \cup {None}]
NoState == [events |-> {}, head |-> None]
Ids == [from : Nodes, to : Nodes, seq : Nat, via : Nat]
Kinds == {"commit", "forward", "fetch", "subscribe"}

Peers(n) == {p \in Nodes : {n, p} \in conn}
DurablePeers(n) == Peers(n) \cap Durable

Init ==
    /\ conn = Links
    /\ chan = [l \in Pairs |-> <<>>] /\ recv = [l \in Pairs |-> None]
    /\ pending = [n \in Nodes |-> {}] /\ subs = [n \in Nodes |-> {}]
    /\ store = [n \in Nodes |-> NoState] /\ mem = [n \in Nodes |-> None]
    /\ calls = {} /\ next = [n \in Nodes |-> 1]
    /\ committed = {}
    /\ left = [ask |-> MaxAsks, drop |-> Dropped, evict |-> Evicted]
    /\ unsent = {} /\ acked = {}
    /\ owed = [n \in Nodes |-> {}]
    /\ commits = {} /\ lost = [n \in Nodes |-> {}] /\ apart = [n \in Nodes |-> {}]

-----------------------------------------------------------------------------
(* The storage and the resident entity *)

StoreState(n, s) ==
    /\ store' = [store EXCEPT ![n] = s]
    /\ lost' = [lost EXCEPT ![n] = @ \cup (store[n].events \ s.events)]

\* mutant: the state is made of the last event alone
AppliedAlone(s, e) == [events |-> {e}, head |-> e]
Applied(s, e) == [events |-> s.events \cup {e}, head |-> e]

\* assert_entity: apply_state puts the state in place of the resident entity's; State::default()
\* has no backends, and only its empty head is taken
Asserted(n, s) ==
    IF mem[n] = None THEN s ELSE IF s = NoState THEN [mem[n] EXCEPT !.head = None] ELSE s

Call(n, p, sub, kind, e) ==
    [id |-> [from |-> n, to |-> p, seq |-> next[n], via |-> sub],
     kind |-> kind, event |-> e, st |-> "started", states |-> NoState]

\* mutant: only what n itself committed is forwarded
ForwardsOwn(n, e) ==
    {Call(n, s[1], s[2], "forward", e) : s \in IF Author[e] = n THEN subs[n] ELSE {}}
\* the closure of handle_subscribe_request, for every subscription it made
Forwards(n, e) == {Call(n, s[1], s[2], "forward", e) : s \in subs[n]}

-----------------------------------------------------------------------------
(* commit_events_local of one event, in the steps between its awaits *)

\* via is the pair of nodes whose receiver task commits, or None for the author of the event
Running(n) == {r \in commits : r.at = n}
Overlapped(n) == {IF r.at = n THEN [r EXCEPT !.alone = FALSE] ELSE r : r \in commits}

\* fetch_entity finds the entity resident, and the event is applied to it, or asks the storage
Begin(n, e, via) ==
    LET starts(step, state) == commits' = Overlapped(n) \cup
            {[at |-> n, event |-> e, via |-> via, step |-> step, state |-> state,
              alone |-> Running(n) = {}]}
    IN  \/ mem[n] = None /\ starts("load", NoState) /\ UNCHANGED mem
        \/ /\ mem[n] # None
           /\ starts("set", Applied(mem[n], e))
           /\ mem' = [mem EXCEPT ![n] = Applied(@, e)]

GoOn(r, step, state) ==
    commits' = (commits \ {r}) \cup {[r EXCEPT !.step = step, !.state = state]}

\* the storage answers
GetState(r) ==
    /\ r.step = "load"
    /\ GoOn(r, "loaded", store[r.at])
    /\ UNCHANGED <<netVars, pending, store, mem, lost, apart, calls, next, committed, left,
                   unsent, acked, owed>>

\* the event is applied and the state taken that set_state is given
TakeState(r) ==
    LET s == Applied(Asserted(r.at, r.state), r.event) IN
    /\ r.step = "loaded"
    /\ GoOn(r, "set", s)
    /\ mem' = [mem EXCEPT ![r.at] = s]
    /\ UNCHANGED <<netVars, pending, store, lost, apart, calls, next, committed, left, unsent,
                   acked, owed>>

\* set_state answers whether the stored state changed, and what did is notified; then the author
\* sends requests to its peers, which are awaited together, and a receiver task its answer
SetState(r) ==
    LET n == r.at
        changed == store[n] # r.state
        requests == IF r.via = None THEN {Call(n, p, 0, "commit", r.event) : p \in Peers(n)} ELSE {}
    IN
    /\ r.step = "set"
    /\ StoreState(n, r.state)
    /\ commits' = commits \ {r}
    /\ apart' = IF r.alone THEN [apart EXCEPT ![n] = @ \cup {r.event}] ELSE apart
    /\ calls' = calls \cup requests \cup IF changed THEN Forwards(n, r.event) ELSE {}
    /\ next' = [next EXCEPT ![n] = @ + 1]
    /\ owed' = [p \in Nodes |-> IF changed /\ p \in {s[1] : s \in subs[n]}
                               THEN owed[p] \cup {r.event} ELSE owed[p]]
    /\ recv' = IF r.via = None THEN recv ELSE [recv EXCEPT ![r.via].type = "response"]
    /\ UNCHANGED <<conn, chan, subs, pending, mem, committed, left, unsent, acked>>

\* the call of a receiver task that was aborted may have reached the storage, or not
Land(r) ==
    /\ r.step = "aborted"
    /\ commits' = commits \ {r}
    /\ StoreState(r.at, r.state) \/ UNCHANGED <<store, lost>>
    /\ UNCHANGED <<netVars, pending, mem, apart, calls, next, committed, left, unsent, acked, owed>>

\* commit_events of e has not returned
Committing(e) ==
    \/ \E r \in commits : r.event = e /\ r.via = None
    \/ \E c \in calls : c.kind = "commit" /\ c.event = e

\* the entity is dropped by whoever held it; a commit holds it while it is stored, and a
\* transaction until commit_events returns
Evict(n) ==
    /\ n \in left.evict /\ mem[n] # None
    /\ \A r \in Running(n) : r.step # "set"
    /\ \A e \in Events : Author[e] = n => ~Committing(e)
    /\ left' = [left EXCEPT !.evict = @ \ {n}]
    /\ mem' = [mem EXCEPT ![n] = None]
    /\ UNCHANGED <<netVars, pending, store, commits, lost, apart, calls, next, committed,
                   unsent, acked, owed>>

-----------------------------------------------------------------------------
(* What the application calls *)

\* a transaction edits the entity and commits
CommitEvents(n, e) ==
    /\ e \notin committed /\ Author[e] = n
    /\ committed' = committed \cup {e}
    /\ Begin(n, e, None)
    /\ UNCHANGED <<netVars, pending, store, lost, apart, calls, next, left, unsent, acked, owed>>

\* fetch (of a node that is not durable) and subscribe: ask a durable peer first
Ask(n, kind) ==
    /\ n \in Asking[kind] /\ left.ask > 0
    /\ kind = "fetch" => n \notin Durable
    /\ \E p \in DurablePeers(n) : calls' = calls \cup {Call(n, p, 0, kind, None)}
    /\ next' = [next EXCEPT ![n] = @ + 1]
    /\ left' = [left EXCEPT !.ask = @ - 1]
    /\ UNCHANGED <<netVars, pending, dataVars, committed, unsent, acked, owed>>

\* fetch of a durable node, or of one without a durable peer if args.cached
FetchLocal(n) ==
    /\ n \in Asking.fetch /\ left.ask > 0
    /\ n \in Durable \/ DurablePeers(n) = {}
    /\ calls' = calls \cup {[Call(n, n, 0, "fetch", None) EXCEPT !.st = "stored"]}
    /\ next' = [next EXCEPT ![n] = @ + 1]
    /\ left' = [left EXCEPT !.ask = @ - 1]
    /\ UNCHANGED <<netVars, pending, dataVars, committed, unsent, acked, owed>>

\* the states of the peer take the place of what is stored, one set_state each
StoreAnswer(c) ==
    /\ c.st = "answered"
    /\ IF c.states = NoState THEN UNCHANGED <<store, lost, owed>>
       ELSE /\ StoreState(c.id.from, c.states)
            /\ owed' = IF c.kind = "fetch" THEN owed
                       ELSE [owed EXCEPT ![c.id.from] = @ \cup c.states.events]
    /\ calls' = (calls \ {c}) \cup
                IF c.kind = "fetch" THEN {[c EXCEPT !.st = "stored"]} ELSE {}
    /\ UNCHANGED <<netVars, pending, mem, commits, apart, next, committed, left, unsent, acked>>

\* fetch_states of what is stored
ReadStates(c) ==
    /\ c.st = "stored"
    /\ calls' = (calls \ {c}) \cup {[c EXCEPT !.st = "read", !.states = store[c.id.from]]}
    /\ UNCHANGED <<netVars, pending, dataVars, next, committed, left, unsent, acked, owed>>

\* assert_entity, if something is: it goes in place of what the resident entity has
ReadBack(c) ==
    LET n == c.id.from IN
    /\ c.st = "read"
    /\ mem' = IF c.states = NoState THEN mem ELSE [mem EXCEPT ![n] = Asserted(n, c.states)]
    /\ calls' = calls \ {c}
    /\ UNCHANGED <<netVars, pending, store, commits, lost, apart, next, committed, left,
                   unsent, acked, owed>>

-----------------------------------------------------------------------------
(* Node::request: register the request, look up the peer, send, wait *)

Fail(c) ==
    /\ calls' = calls \ {c}
    /\ unsent' = unsent \cup {c.id}

Route(c) == <<c.id.from, c.id.to>>
\* mutant: one message too many
RoomForOneMore(l) == Len(chan[l]) <= Capacity
Room(l) == Len(chan[l]) < Capacity

Put(c) ==
    /\ chan' = [chan EXCEPT ![Route(c)] = Append(@, [type |-> "request", id |-> c.id,
                   kind |-> IF c.kind = "forward" THEN "commit" ELSE c.kind, event |-> c.event])]
    /\ calls' = (calls \ {c}) \cup {[c EXCEPT !.st = "waiting"]}

Request(c) ==
    LET connected == c.id.to \in Peers(c.id.from) IN
    /\ c.st = "started"
    /\ pending' = [pending EXCEPT ![c.id.from] = @ \cup {c.id}]
    /\ \/ ~connected /\ Fail(c) /\ UNCHANGED chan   \* PeerNotConnected
       \/ connected /\ Room(Route(c)) /\ Put(c) /\ UNCHANGED unsent
       \/ /\ connected /\ ~Room(Route(c))
          /\ calls' = (calls \ {c}) \cup {[c EXCEPT !.st = "sending"]}
          /\ UNCHANGED <<chan, unsent>>
    /\ UNCHANGED <<conn, recv, subs, dataVars, next, committed, left, acked, owed>>

\* the bounded channel has room again
Send(c) ==
    /\ c.st = "sending" /\ Room(Route(c))
    /\ Put(c)
    /\ UNCHANGED <<conn, recv, subs, pending, dataVars, next, committed, left, unsent, acked, owed>>

-----------------------------------------------------------------------------
(* The receiver task of n for the connection with m: one message at a time *)

Response(id, states) == [type |-> "response", id |-> id, states |-> states]
Take(l) == chan' = [chan EXCEPT ![l] = Tail(@)]
Incoming(l, type) == recv[l] = None /\ chan[l] # <<>> /\ Head(chan[l]).type = type

HandleCommit(m, n) ==
    LET msg == Head(chan[<<m, n>>]) IN
    /\ Incoming(<<m, n>>, "request") /\ msg.kind = "commit"
    /\ Take(<<m, n>>)
    /\ Begin(n, msg.event, <<m, n>>)
    /\ recv' = [recv EXCEPT ![<<m, n>>] =
            [type |-> "committing", id |-> msg.id, states |-> NoState]]
    /\ UNCHANGED <<conn, subs, pending, store, lost, apart, calls, next, committed, left,
                   unsent, acked, owed>>

\* Fetch answers with the states; Subscribe goes on with them
HandleFetch(m, n) ==
    LET msg == Head(chan[<<m, n>>]) IN
    /\ Incoming(<<m, n>>, "request") /\ msg.kind \in {"fetch", "subscribe"}
    /\ Take(<<m, n>>)
    /\ recv' = [recv EXCEPT ![<<m, n>>] =
            IF msg.kind = "fetch" THEN Response(msg.id, store[n])
            ELSE [type |-> "fetched", id |-> msg.id, states |-> store[n]]]
    /\ UNCHANGED <<conn, subs, pending, dataVars, calls, next, committed, left, unsent, acked,
                   owed>>

\* mutant: nothing is answered
HandleSubscribeSilent(m, n) ==
    /\ recv[<<m, n>>] # None /\ recv[<<m, n>>].type = "fetched"
    /\ subs' = [subs EXCEPT ![n] = @ \cup {<<m, recv[<<m, n>>].id.seq>>}]
    /\ recv' = [recv EXCEPT ![<<m, n>>] = None]
    /\ UNCHANGED <<conn, chan, pending, dataVars, calls, next, committed, left, unsent, acked,
                   owed>>

\* mutant: waits for what only its own receiver task could take from the channel
HandleSubscribeWaits(m, n) ==
    /\ recv[<<m, n>>] # None /\ recv[<<m, n>>].type = "fetched" /\ chan[<<m, n>>] = <<>>
    /\ subs' = [subs EXCEPT ![n] = @ \cup {<<m, recv[<<m, n>>].id.seq>>}]
    /\ recv' = [recv EXCEPT ![<<m, n>>].type = "response"]
    /\ UNCHANGED <<conn, chan, pending, dataVars, calls, next, committed, left, unsent, acked,
                   owed>>

\* handle_subscribe_request after its first await: the subscription is live
HandleSubscribe(m, n) ==
    /\ recv[<<m, n>>] # None /\ recv[<<m, n>>].type = "fetched"
    /\ subs' = [subs EXCEPT ![n] = @ \cup {<<m, recv[<<m, n>>].id.seq>>}]
    /\ recv' = [recv EXCEPT ![<<m, n>>].type = "response"]
    /\ UNCHANGED <<conn, chan, pending, dataVars, calls, next, committed, left, unsent, acked,
                   owed>>

Reply(m, n) ==
    /\ recv[<<m, n>>] # None /\ recv[<<m, n>>].type = "response"
    /\ Room(<<n, m>>)
    /\ chan' = [chan EXCEPT ![<<n, m>>] = Append(@, recv[<<m, n>>])]
    /\ recv' = [recv EXCEPT ![<<m, n>>] = None]
    /\ UNCHANGED <<conn, subs, pending, dataVars, calls, next, committed, left, unsent, acked,
                   owed>>

\* mutant: the entry is looked up and stays
WithoutKept(n, id) == pending
Without(n, id) == [pending EXCEPT ![n] = @ \ {id}]

\* a response wakes the caller whose request it answers
HandleResponse(m, n) ==
    LET msg == Head(chan[<<m, n>>])
        answered == {c \in calls : c.id = msg.id}
        goOn == {c \in answered : c.kind \in {"fetch", "subscribe"}}
    IN
    /\ Incoming(<<m, n>>, "response")
    /\ Take(<<m, n>>)
    /\ pending' = Without(n, msg.id)
    /\ IF msg.id \notin pending[n] THEN UNCHANGED <<calls, acked>>
       ELSE /\ calls' = (calls \ answered) \cup
                        {[c EXCEPT !.st = "answered", !.states = msg.states] : c \in goOn}
            /\ acked' = acked \cup {<<c.event, m>> : c \in {d \in answered : d.kind = "commit"}}
    /\ UNCHANGED <<conn, recv, subs, dataVars, next, committed, left, unsent, owed>>

-----------------------------------------------------------------------------
(* LocalProcessConnection::new and drop *)

Ends(l, m, n) == l = {m, n}

Connect(l) ==
    /\ l \in Links \ conn
    /\ conn' = conn \cup {l}
    /\ UNCHANGED <<chan, recv, subs, pending, dataVars, calls, next, committed, left, unsent,
                   acked, owed>>

\* Both receivers are aborted, with what they handle; the messages are lost, a blocked send fails.
\* A request that has been sent is awaited for ever: "orphaned" marks it.
Disconnect(l) ==
    LET of == {c \in calls : l = {c.id.from, c.id.to}}
        blocked == {c \in of : c.st = "sending"}
        waiting == {c \in of : c.st = "waiting"}
        handled == {r \in commits : /\ r.via # None /\ r.step # "aborted"
                                    /\ Ends(l, r.via[1], r.via[2])}
        stored == {r \in handled : r.step = "set"}
    IN
    /\ l \in conn /\ l \in left.drop
    /\ left' = [left EXCEPT !.drop = @ \ {l}]
    /\ conn' = conn \ {l}
    /\ chan' = [k \in Pairs |-> IF Ends(l, k[1], k[2]) THEN <<>> ELSE chan[k]]
    /\ recv' = [k \in Pairs |-> IF Ends(l, k[1], k[2]) THEN None ELSE recv[k]]
    /\ subs' = [n \in Nodes |-> {s \in subs[n] : ~Ends(l, n, s[1])}]
    /\ calls' = (calls \ (blocked \cup waiting)) \cup {[c EXCEPT !.st = "orphaned"] : c \in waiting}
    /\ unsent' = unsent \cup {c.id : c \in blocked}
    /\ commits' = (commits \ handled) \cup {[r EXCEPT !.step = "aborted"] : r \in stored}
    /\ owed' = [n \in Nodes |-> IF n \in l THEN {} ELSE owed[n]]
    /\ UNCHANGED <<pending, store, mem, lost, apart, next, committed, acked>>

Progress(c) == Request(c) \/ Send(c) \/ StoreAnswer(c) \/ ReadStates(c) \/ ReadBack(c)
CommitLocal(r) == GetState(r) \/ TakeState(r) \/ SetState(r)
Receive(m, n) ==
    \/ HandleCommit(m, n) \/ HandleFetch(m, n) \/ HandleSubscribe(m, n)
    \/ Reply(m, n) \/ HandleResponse(m, n)

Tasks ==
    \/ \E c \in calls : Progress(c)
    \/ \E r \in commits : CommitLocal(r)
    \/ \E l \in Pairs : Receive(l[1], l[2])

Next ==
    \/ \E n \in Nodes : \/ \E e \in Events : CommitEvents(n, e)
                        \/ \E kind \in {"fetch", "subscribe"} : Ask(n, kind)
                        \/ FetchLocal(n)
                        \/ Evict(n)
    \/ Tasks
    \/ \E r \in commits : Land(r)
    \/ \E l \in Links : Connect(l) \/ Disconnect(l)

\* The executor runs some task as long as one can run.
Fairness == WF_vars(Tasks)

Spec == Init /\ [][Next]_vars /\ Fairness

-----------------------------------------------------------------------------
(* Properties *)

Requests == [type : {"request"}, id : Ids, kind : Kinds \ {"forward"}, event : Events \cup {None}]
Responses == [type : {"response"}, id : Ids, states : States]
Calls == [id : Ids, kind : Kinds, event : Events \cup {None}, states : States,
          st : {"started", "sending", "waiting", "orphaned", "answered", "stored", "read"}]

\* what a receiver task is at
Held == [type : {"committing", "fetched", "response"}, id : Ids, states : States]
CommitCalls == [at : Nodes, event : Events, via : Pairs \cup {None}, state : States,
                step : {"load", "loaded", "set", "aborted"}, alone : BOOLEAN]

ASSUME NoneAssumption == None \notin States \cup Held

\* The channels are within their capacity, and what is in them, in the receivers and in
\* the futures is what node.rs puts there; request ids are not used twice.
TypeOK ==
    /\ conn \subseteq Links
    /\ \A l \in Pairs : /\ Len(chan[l]) <= Capacity
                        /\ \A i \in 1..Len(chan[l]) : chan[l][i] \in Requests \cup Responses
                        /\ recv[l] # None =>
                              [recv[l] EXCEPT !.type = "response"] \in Responses
    /\ \A n \in Nodes : /\ subs[n] \subseteq Nodes \X Nat
                        /\ \A id \in pending[n] : id \in Ids /\ id.from = n
                        /\ store[n] \in States /\ mem[n] \in States \cup {None}
                        /\ owed[n] \cup lost[n] \cup apart[n] \subseteq Events
                        /\ next[n] \in Nat
    /\ calls \subseteq Calls /\ \A c, d \in calls : c.id = d.id => c = d
    /\ commits \subseteq CommitCalls

\* The places where the request of a call, or its answer, is
InFlight(c) ==
    LET there == <<c.id.from, c.id.to>>
        back == <<c.id.to, c.id.from>>
    IN  {<<there, i>> : i \in {j \in 1..Len(chan[there]) :
                chan[there][j].type = "request" /\ chan[there][j].id = c.id}}
        \cup {<<back, i>> : i \in {j \in 1..Len(chan[back]) :
                chan[back][j].type = "response" /\ chan[back][j].id = c.id}}
        \cup (IF recv[there] # None /\ recv[there].id = c.id THEN {<<there, 0>>} ELSE {})

\* A future that waits in Node::request has its request, or the answer to it, at exactly one
\* place of the network and of the peer, and its sender in pending_requests: it is answered at
\* most once, and only a connection that went away (or is jammed) leaves it waiting.
Answerable ==
    \A c \in calls :
        c.st \in {"waiting", "orphaned"} =>
            /\ c.id \in pending[c.id.from]
            /\ Cardinality(InFlight(c)) = IF c.st = "waiting" THEN 1 ELSE 0

\* pending_requests holds the requests somebody still waits for and those that could not be
\* sent; node.rs:132 returns PeerNotConnected, or the send fails, without taking them out.
PendingAccounted ==
    \A n \in Nodes :
        pending[n] = {c.id : c \in {d \in calls : d.id.from = n
                                       /\ d.st \in {"sending", "waiting", "orphaned"}}}
                     \cup {id \in unsent : id.from = n}

\* CommitComplete means that the peer has stored the event.  It keeps it, unless it stores
\* what another node answers to its own fetch or subscribe (node.rs:466 and 546 overwrite),
\* or commits on a resident entity that does not know what such an answer brought, or the
\* commit overlapped another one at the peer, and the older state was stored last (node.rs:302-306).
AckedStored ==
    \A a \in acked :
        LET e == a[1]  p == a[2] IN
        \/ e \in store[p].events
        \/ e \in lost[p] /\ (p \in Asking.fetch \cup Asking.subscribe \/ e \notin apart[p])

\* When nothing is under way, a subscriber has, or has overwritten, every event that was
\* forwarded to it over the connection that is still up, and the states that the answer to
\* its subscribe held (handle_subscribe_request).
SubscriberTold ==
    (\A l \in Pairs : chan[l] = <<>> /\ recv[l] = None)
        /\ (\A c \in calls : c.st = "orphaned")
    => \A n \in Nodes : owed[n] \subseteq store[n].events \cup lost[n]

\* Both receivers of a connection wait for room in a channel that only the other one empties.
Jammed(l) ==
    \A k \in {<<l[1], l[2]>>, <<l[2], l[1]>>} :
        Len(chan[k]) = Capacity /\ recv[k] # None /\ recv[k].type = "response"

\* commit_events returns: the reply of every peer comes back, unless the connection went away
\* while a request was out, or both its channels filled up (lib.rs:71, node.rs:139).
CommitReturns ==
    []<>(\A e \in Events :
            \/ ~Committing(e)
            \/ \E c \in calls : c.kind = "commit" /\ c.event = e /\ c.st = "orphaned"
            \/ \E l \in Pairs : Jammed(l))
=============================================================================
