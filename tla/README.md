# TLA+ models of ankurah

Ankurah is an event-sourced, observable database. A *node* keeps entities, whose
properties live in CRDT backends; a transaction turns edits into *events*, which
are merged into the resident entity, stored as *states* by a storage engine, told
to live queries and sent to peers. This directory models the parts of it whose
correctness depends on the order of steps, checks them with TLC on small instances
and proves what matters most with TLAPS.

    tlc -config ReactorThreads.cfg MCReactor.tla
    tlapm ReactorProofs.tla
    tlapm Recursion.tla
    tlapm ComparisonIndexProofs.tla
    tlapm SelectionProofs.tla
    tlapm NodeCommitProofs.tla
    tlapm ReplicationProofs.tla
    tlapm PeeringProofs.tla
    tlapm StorageProofs.tla

Paths below are relative to the root of the repository; `node.rs` and the like
without a path are in `core/src`.

## 1. The system

| part | state | operations | meets |
|---|---|---|---|
| Reactor (`reactor.rs`, `subscription.rs`, `changes.rs`) | subscriptions, index and wildcard watchers, entity watchers, each subscription's matching entities | subscribe, unsubscribe (when the handle is dropped), notify_change | called by commits, calls the storage engine and the subscribers' callbacks |
| Comparison index (`comparision_index.rs`, `collation.rs`, `value.rs`) | per field: maps eq, gt, lt from encoded literals to subscriptions | add, remove, find_matching | the reactor |
| Predicate evaluation (`ankql/src/selection/filter.rs`) | none | evaluate_predicate | reactor, storage engines |
| Node, local part (`node.rs`, `model.rs`, `transaction.rs`) | weak map of resident entities, the entities, open transactions | create, edit, commit, rollback, get, fetch, commit_events_local | storage, reactor, peers |
| Node, remote part (`node.rs`) | peer connections, durable peers, pending requests, subscriptions of peers | register, deregister, request, handle_message, subscribe | connectors |
| Property backends (`property/`) | a CRDT document and the state last turned into operations | fork, apply, to_state_buffer, to_operations | entity |
| Storage engines (`storage/sled`, `storage/postgres`, `storage/indexeddb-wasm`) | the states | set_state, get_state, fetch_states | node, reactor |
| Connectors (`connectors/`) | channels, sockets, their connection states | connect, send, receive, close, reconnect | node |
| React bindings (`react-signals/`) | an effect channel, a version counter | subscribe, snapshot | signals |
| Query language (`ankql/`), wire types (`proto/`), macros (`derive/`) | none | parse, print, generate | all |

**What is hard here.** On tokio, commits, requests of peers and subscriptions run on
several threads; in the browser they share one thread and interleave at every
`await`. The code reads shared state, awaits or takes another lock, and then acts on
what it read: the initial fetch of `subscribe`, the old membership in
`notify_change`, the state of an entity in `fetch_entity` and `set_state`. A commit
of several events can fail in the middle and a node can stop anywhere. Requests have
no timeout, channels are bounded, sockets close and come back. `PROJECT.json` lists
each of these hazards at its line with the properties that are about it.

**What makes each part correct.** The reactor: its records agree, a subscriber is
told changes that fit each other, and once things are quiet it has what it asked for.
The index: it finds every subscription that cares. The local node: an entity is
resident once, memory is not behind storage, what a commit has acknowledged stays.
Requests: each is awaited exactly as long as it or its answer is somewhere, and taken
out of the books once. Replication: an acknowledged or forwarded event is stored, and
stays unless a peer's state replaces it. Connectors: one connection or one reconnect at
a time, both ends registered over it in the end, nobody asleep. Storage engines: calls
take effect once, at one moment. Queries: the text, the predicate, the text it is shown
as and the SQL made of it mean the same.

## 2. Modules

| module | models | in brief |
|---|---|---|
| `Reactor` | the reactor and the commits that feed it | one action per step of subscribe, unsubscribe, notify_change |
| `ReactorProofs` | – | type correctness and two safety properties of `Reactor`, and what it promises on the single thread: streams and settled result sets, proved |
| `ComparisonIndexProofs` | – | that a comparison's key in the index finds what the comparison accepts, and nothing else, and with it type correctness and three safety properties of `ComparisonIndex`, proved |
| `SelectionProofs` | – | type correctness and three safety properties of `Selection`, proved |
| `Recursion` | – | induction and recursion by rank, for the two |
| `NodeCommitProofs` | – | type correctness and four safety properties of `NodeCommit`, proved |
| `ReplicationProofs` | – | type correctness and four safety properties of `Replication`, proved |
| `PeeringProofs` | – | type correctness and five safety properties of `Peering`, among them where requests are and that both ends agree, proved |
| `StorageProofs` | – | that each engine implements `StateStore`, type correctness, and that a lone call of Postgres succeeds, proved |
| `MCReactor` | – | values and predicates for TLC |
| `Collation` | literals, their encoding and order, the key of a comparison, what a comparison means | operators, one comparison at a time |
| `ComparisonIndex`, `MCComparisonIndex` | one field's index, predicates entered in it and evaluated | the algorithm, against the evaluation it anticipates |
| `NodeCommit`, `MCNodeCommit` | resident entities, transactions, local commit, storage | one action per stretch between awaits |
| `Replication`, `MCReplication` | nodes over local-process connections: requests, commits broadcast and forwarded, fetch, subscribe | one action per message handled or future resumed |
| `Peering`, `MCPeering` | the WebSocket client and server, their registrations and requests | one action per event, message or timer |
| `StateStore` | what the nodes rely on from a storage engine | the abstract specification |
| `StorageCalls` | the calls in progress and the rows | shared by the two engines |
| `PostgresBucket`, `IndexedDBBucket` | the two engines | one action per statement or transaction event |
| `Storage` | calls of one of the two engines | the properties of the engines, and the refinements of `StateStore` |
| `MCStorage` | – | values for TLC |
| `Ast`, `Filter` | predicates, and what `evaluate_predicate` says of an entity | operators, used by the two below |
| `Selection` | the two SQL generators and Postgres's `fetch_states` | the algorithms, against `Filter` |
| `Grammar`, `Parsing` | the query parser | the algorithm, against the text and `Filter` |
| `Query`, `MCQuery` | a query that comes as a text or as a predicate | `Selection` and `Parsing` side by side |

`Reactor` assumes of the index that it may offer a subscription in vain and never
withholds one (`IndexAssumption`); `ComparisonIndex` says for which predicates that
is so. `Reactor` has the commits of several events as far as a reactor sees them: what
is applied, stored in whatever order, notified or given up; `NodeCommit` adds residence,
the contents of states, and restart, and takes `notify_change` as one step.

### Reactor

`subscriptions`, `index`, `watchers` and `matching` are the maps of `Reactor` and the
`matching_entities` of each subscription (`watchers[e][s]` counts, since the code
pushes to a `Vec`). `index` holds who is registered; what a value finds is the
constant `IndexHits`. A subscriber's progress is `phase`, a commit's is `pc`. The
guard that DashMap's `get` holds on a subscription while `notify_change` evaluates
and updates is `sub`; `Unsubscribe` waits for it.

`runtime` is "threads" or "single". On the single thread `running` names the process
that has not yet reached an await; others cannot step (`CanRun`, `Keep`, `Yield`).
Storage steps (`Store`, `Fetch`) happen while their caller awaits, in either runtime.

`value` is the resident entity, on which the reactor evaluates, `stored` what the
storage has and `writing` the state that a commit took (`Apply`) and gave to
`set_state`. Commits of one entity may overlap, and the older of two states may be
stored last. A commit may also fail at the `?` of `node.rs:300` or `306`
(`CommitFails`): it returns at once, what it stored is not notified, and what it applied
stays in memory. Either leaves an entity of which result sets may know nothing. `adrift`
keeps these entities, until a commit that no other of the entity overlaps has stored its
present value and is going to notify it; `SettledSingle` and `Converges` speak of all
others, so they say that a failed or overlapped commit harms no other entity, and that
the next change of this one puts it right.

The subscriber is modelled as a client that keeps the set of items the changes it got
amount to (`seen`) and notes a change that cannot be (`wrong`): an Add of what it has,
an Update or Remove of what it has not. Out of the picture are the items of
`ChangeSet.resultset`, which for initial matches are copies that are never refreshed,
callbacks that call back into the reactor, and a poisoned lock.

### Collation and ComparisonIndex

Literals are encoded as the code does, with bytes renumbered in their order and integers
of four bits: big-endian, with the first bytes that integers of 64 bits have (`Lead`).
Small ones start with zero, below the text of any integer, greater ones with bytes among
the digits (0x33, say), the greatest with 0x7F, the least with 0x80 and those next to
zero with 0xFF, above every digit. Only where the first byte is outside of the digits is
the index to be relied on for an integer (`Low`, `High`, `Reliable`). `Entry` is
`for_entry`, `Found` what `find_matching` finds, and `Holds` a comparison in
`evaluate_predicate`, which compares texts. A predicate enters its comparisons one by
one, whatever connects them and whichever side the literal is on. The code keeps a Vec
of subscriptions under each key; `index` counts them, since `find_matching` makes a set
of them: `add` pushes, so `Added` adds for each comparison with the key, and `remove`
drops the first that is the subscription, so `Removed` takes away one for each, if there
is one. `Evaluate` is `evaluate_predicate` of a whole predicate. `Interested` is what
`notify_change` finds without its entity watchers.

What is recursive on predicates is a function on `Predicates`, which has their parts
too, rather than a RECURSIVE operator, so that it can be reasoned about; `Depth` says
that predicates are finite trees (`TreesAssumption`), as the `Box`es of `ast.rs` are.

### NodeCommit

An entity object is a cell of `heap`: the events merged into it and the head that
`Backends` keeps. `entities` is the weak map, with "dead" for an entry whose object
is gone. Whoever owns a reference to an object (`Holds`) keeps it alive; handles of
the application are the objects nobody else holds until `Drop`. `apply_state`
replaces the backends the state has and takes its head; a missing state has no
backends and an empty head. A transaction applies its event to the upstream in
`Commit` and again in `commit_events_local` (`Take`). The `?` of a failed call is
`StorageFails`; `Restart` keeps only what is stored. A request's events are of ids that
`next_entity_id` has handed out (`Receive`): no peer knows an id before that.

A step is what a task does from one await to the next, an await of a lock included.
That is exact for the browser. On threads two tasks may also interleave inside such
a stretch (inside `apply_event`, for one), which the model does not show: what is
violated here is violated there too, what passes is claimed for the single thread.

`regressed` and `raced` record the two ways in which the code takes events away from
an entity: an `assert_entity` that puts back an old state, and two states of one
entity on their way to storage at once.

### Replication

There is one entity, and predicates that it satisfies: a state is the set of events
merged into it and its head. `store[n]` is n's storage, `mem[n]` its resident `Entity`.
`commits` has the calls of `commit_events_local`, of an author or of the receiver task
`via` which n runs for a connection, each between two of its awaits: "load" waits for
`get_state` unless the entity was resident (`Begin`, `GetState`), "loaded" is about to
assert the entity, apply the event and take the state (`TakeState`), "set" awaits
`set_state` (`SetState`), whose return, notification and requests follow at once. Any
number of them may overlap at a node; `alone` and `apart` record which did not. A future
in `Node::request` is an element of `calls`, from "started" (before
`pending_requests.insert`) over "sending" (the bounded channel is full) to "waiting"
(`response_rx`). `recv[m, n]` is the message that n's receiver task for m is at, since
`handle_message` is awaited there (`local-process/src/lib.rs:71`): "committing" while its
commit is under way, "fetched" is `handle_subscribe_request` after its first await,
"response" an answer that waits for room. `fetch` stores what a peer answers
(`StoreAnswer`), reads it back (`ReadStates`) and puts what it read in place of the
resident entity's state (`ReadBack`, `Asserted`; `apply_state` replaces), whether or not
the node asked a peer first (`FetchLocal`).

`Disconnect` is the drop of a `LocalProcessConnection`: messages are gone, the
registrations with their subscriptions too, and a request that was out is awaited for
ever ("orphaned"). The receiver tasks are aborted with the commits they run: what such a
commit has applied stays in memory, and the storage call it awaited may reach the
storage at any time later, or never (`Land`). `unsent`, `acked`, `owed` and `lost` are
kept for the properties: requests that failed before they were sent, acknowledged
events, the events a subscriber has been sent, and those that a node stored and
overwrote. `Unsubscribe` is handled by nodes and sent by none, and is left out.

### Peering

`noticed`, `cstate`, `current`, `timers`, `delay`, `signal` and `wakers` are the state
of `Connection` and `ClientInner`; `SetState` is `set_state` with
`handle_state_change`, which ignores a connection that is not the current one. A
socket is numbered when it is made, `sock` is what the network knows of it and breaks
at any time (`Break`); the client gets an error and then a close event, or the close
event alone, and the server's `handle_socket` ends when it reads the break. `peer[end]`
is the socket whose sender is registered for the other node.

`disconnect` (`connection.rs:182`) is not in the model because it does not run: the
callbacks of a `Connection` hold clones of it, so it is not dropped, and the other
caller is a branch that no message reaches, since the server sends its presence once
per socket. The client therefore never deregisters the server, and a request made
between two connections is sent over the broken socket, which takes it and forgets it.

### StateStore and the engines

`StateStore` says of each call that it takes effect in one step between its begin and
its end, or fails and changes nothing; `seen` collects the states the row has had while
a `set_state` was in progress, and its answer must be right about one of these.
`StorageCalls` has the calls as the engines see them (`pc` is the statement or event a
call is before), and `Shown` is the refinement mapping. `Storage` lets one of the two
engines run.

In `PostgresBucket` a call takes a connection (`Connect`, or `TimeOut` of the pool),
executes, and on a missing table or column makes it and starts over with the
connection still held (`lib.rs:282` and `293`). A statement reads the old head when it
starts (`ExecuteSet`) and writes when it ends (`Write`). `Lookup`, `CreateOnOpen` and
`Insert` are `Node::collection`. In `IndexedDBBucket` a `set_state` locks its tab's
bucket, waits for the database's one readwrite transaction, compares heads and puts.
The refinement of IndexedDB is of heads alone, since equal heads are not written.

### Selection and Parsing

In `Parsing` a text is the sequence of pairs that the grammar makes of it, an expression
in parentheses one of them. `ParseExpr` is `parse_expr` with its loop (`Rest`),
`parse_atomic_expr` (`Atomic`) and the read-ahead of `create_logical_op` (`Right` and
`Operand`). Its operators are RECURSIVE.

`Filter` takes a set of predicates that is closed under parts (`Predicates`, with their
`Depth`) and defines `Evaluate` as a recursive function on it, "error" where the code
returns an error. Operands are identifiers and literals: on a comparison of predicates,
which the parser makes of `a = 'x' = 'y'`, the algorithms panic. `Selection` starts
from any of the predicates: `Shown` and `Where` are the two generators, to words; `Sees`
is what PostgreSQL makes of words on a row, with NULL for what an entity lacks: it cuts
them at the last OR, else the last AND, outside parentheses. `Rows` is what `fetch_states`
returns: entities, an error, or the panic of `error_kind` where the clause names a column
that does not exist. `Columns` are those that exist, made when an entity first had the
property; where a query names several things that are unknown, PostgreSQL complains about
the first. A parameter under `IS NULL` has no type, which PostgreSQL refuses (`Untyped`).
Values are ranks of texts in the order of their bytes, by which `evaluate_predicate`
compares; `Sorted` is their place in the collation of the database, by which PostgreSQL
compares the varchar columns, made without one (`lib.rs:159`). Equality is that of bytes
in both. Numbers, which `evaluate_predicate` compares as texts and PostgreSQL by type, are
left out.

## 3. Runs

| run | instance | shows |
|---|---|---|
| `reactor_threads` | 2 entities, 2 values, 1 subscription, 2 commits of up to 2 events, any of which may fail, both runtimes, with symmetry | `WatchersAgree`, `NothingLeftBehind`, `TypeOK` |
| `reactor_single` | the same, single thread, fairness | `StreamAgrees`, `SettledSingle`, `Converges` |
| `reactor_race` | 1 entity, 2 commits of 1 event, threads | violation of `PresentlyMatchingApart` |
| `reactor_overlap` | 1 entity, 2 commits of 1 event, single thread | violation of `PresentlyMatching` |
| `comparison_index` | 2 subscriptions, 87 predicates, 10 texts | `IndexCompleteFor`, `IndexPrecise`, `IndexExact`, `TypeOK` |
| `index_miss` | the same | violation of `IndexComplete` |
| `node_commit` | 2 entities, 2 transactions, 1 request of 2 events, 1 reader, 1 restart, failing storage | `UniqueResident`, `ResidentCurrent`, `DurableApart`, `AckedNotified`, `TypeOK` |
| `commit_race` | 2 transactions of one entity | violation of `Durable` |
| `replication` | durable S, a and b linked to it, 2 events, 1 fetch or subscribe, 1 connection dropped and made again, 1 eviction, channels of 1 | `Answerable`, `PendingAccounted`, `AckedStored`, `SubscriberTold`, `CommitReturns`, `TypeOK` |
| `peering` | 3 sockets of which 2 break, 1 request of either end, 1 caller of `ready` | `OneConnection`, `ConnectedMeansRegistered`, `NoSleeper`, `AgreeWhenSettled`, `LostWithSocket`, `Reconnects`, `EventuallyReady`, `TypeOK` |
| `storage` | 3 calls of any kind, 1 row, 3 states of 2 heads; Postgres: 1 column, 3 connections; IndexedDB: 2 tabs, 1 failure | `PgImplements`, `IdbImplements`, `AloneSucceeds`, `CallsEnd`, `TypeOK` |
| `query` | texts of up to 3 operands and 2 levels of parentheses, edge cases, all predicates of depth 2 over 6 leaves and of depth 1 over 8, 9 entities, one property without a column, a collation that differs from the order of bytes | `PassedIsFetched`, `FetchedIsPassed`, `ShownMeans`, `ReadLeftToRight`, `TypeOK` |

**Bounds.** In `Reactor` the records of two subscriptions meet only in the candidates of
a task, so one subscription against two commits has all the interleavings the properties
speak of; two events in a batch are needed for an entity that changes twice before the
delivery, two entities for a batch about both. Values are just "satisfies the predicate"
and not; the index finds the first and offers nothing for the second, so that ceasing to
match is found by the entity watchers or not at all. In `ComparisonIndex` the literals
contain the edges of each type and an integer with each kind of first byte, the texts
the empty string, prefixes of each other and the texts of numbers and booleans. In
`NodeCommit` one transaction touches two entities, the stored one and the one it
creates, so that it can be refused or fail half way; the request brings a foreign event
and one that comes back; the reader gets or fetches once, at any time. `Objects` is one
object per entity and one for each unborn entity, which is all there can be
(`UniqueResident`). Nothing has to begin in either model, so a state where nobody has
work left is allowed to last (`Idle`), and deadlock is checked otherwise.

In `Replication` channels have room for one message instead of 100, so that they fill
up; the durable node in the middle forwards what one neighbour commits to the other,
which is as far as an event travels, since only subscriptions pass it on. One fetch or
subscribe meets two commits, one of each of the outer nodes, which also overlap at the
durable node, where one may be aborted with the connection it came over; `Jammed`
happens, acknowledged events are overwritten by what a peer answers and by the older of
two states, and so does every state the exceptions in the properties name. The entity
may be dropped at the durable node, so that a commit loads it, and at a node that asks.
In `Peering` the third socket does not break, so that "in the end" means something; two
that do let an old one's events meet a new one, and let the client be registered over a
third while the first's handler still runs. One request can be out at a time, of either
end: requests do not touch each other's entries. In `storage` a third call lets a row
change twice behind a call that is under way, and three connections are what one call
can hold with one column. In `MCQuery` the texts of three operands have all the ways of
grouping two operators; depth two puts each of AND, OR and NOT into each on either side,
which is where parentheses matter, and the leaves are of either operand order, IS NULL,
True, a foreign collection and a value with an apostrophe. Deadlock is not checked in
these four: each may run out of sockets, calls or questions.

**Fairness.** `Replication`: some task that can run does (one weak fairness for all: a
stronger one would promise more than the property needs), not what an aborted task has
left behind (`Land`). `Peering`: each socket's attempt, events and handler, the
reconnect timer and a woken future; not requests, which nothing promises to be answered.
`Storage`: each call that has begun goes on, so connections, locks and transactions are
given to whoever can take them. `FairSpec` of `Reactor` has weak fairness of every
commit, of a subscribe call that has begun and of an unsubscribe call that has begun:
executors poll what is ready, and the storage engine answers. Beginning to subscribe and
dropping a handle are not fair, and neither are failures: a fetch or a commit may fail
instead of succeeding, and need not. `Converges` is claimed for the single thread.

**Where the code does otherwise than it says.**
- `reactor_race`: `notify_change` evaluates the predicate, reads the old membership and
  updates it in three steps. Two notifications about one entity can record the older
  outcome last; `matching_entities` and `entity_watchers` then agree with each other
  (`WatchersAgree`) and not with the entity (`reactor.rs:31`).
- `reactor_overlap`: a change that is notified between the fetch of `subscribe` and the
  insertion is lost (`subscription.rs:15`). `handle_subscribe_request` fetches even
  earlier (`node.rs:218`). The same change of an entity that is already linked in
  `entity_watchers` is lost as well, since the subscription is not there yet.
- `index_miss`: integer literals under `=` and `<`, literals on the left, booleans,
  `>= ''` and negations are not found (`reactor.rs:27`). Queries over them work as far
  as the entity watchers or another comparison of the same predicate offer them.
- `commit_race`: an acknowledged event is taken out of storage by an older state
  (`proto/src/lib.rs:239`). `assert_entity` has the same effect when a fetch or an
  edit brings back an old state; within its bounds, `node_commit` finds no
  other way. At a peer the same happens between two broadcast commits (`AckedStored`
  of `Replication` holds for events whose commit there overlapped no other).

**What else the runs show.** These are no findings of a run of their own; the properties
name them as exceptions or the models contain them. Of one of them, the creation of
tables, a comment of the repository says otherwise.
- A commit of several events that fails in the middle has stored some of them and told
  nobody (`node.rs:300-306`); result sets stay as they were until one of these entities
  changes again (`adrift`).
- A commit whose request is out when the connection goes away never returns, nor does
  one that meets a jam: both ends of a connection answering, each into a full channel
  (`node.rs:139`, `local-process/src/lib.rs:71`; `CommitReturns`).
- A request that could not be sent stays in `pending_requests` (`PendingAccounted`).
- A fetch or subscribe overwrites events that the asking node has stored and
  acknowledged, if the peer does not have them (`node.rs:466`, `546`; `AckedStored`).
- A subscription misses an event that is stored between its fetch (`node.rs:218`) and
  its registration with the reactor (`SubscriberTold` counts from there).
- The handler of a socket that ends late takes away the registration that a newer
  socket has made (`server.rs:86`); from then on the server drops the client's requests
  and has none of its own answered, until the next reconnect (`crossed`).
- `Postgres::collection` fails on a table that exists, and `Node::collection` unwraps:
  with a database that was used before, each collection's first use panics. The comment
  at `storage/postgres/src/lib.rs:56` says "Try to create the table if it doesn't exist",
  but the statement at 145 has no `IF NOT EXISTS`. Of two first uses at once the second
  fails there too, before it reaches the assertion at `node.rs:269`.
- `fetch_states` by a property that no entity has had yet panics in `error_kind`, which
  takes a table name from between quotes that the message does not have (`lib.rs:415`),
  and one with `IS NULL` of a literal is refused. `set_state` needs a connection for
  each thing it finds missing and one more, and times out on a smaller pool.
- IndexedDB: a transaction that aborts as a whole fires "abort", which nobody listens
  for; the call and all later ones of its bucket wait for ever (`indexeddb.rs:274`).
- Names that begin with `true`, `false`, `null` or `not` are no names
  (`ankql.pest:27`). `a OR b AND c` is `(a OR b) AND c`. A right operand in parentheses
  must be the last (`parser.rs:127`). `a = 'x' = 'y'` parses, and evaluating or
  printing it panics.
- A predicate with NOT is invalid SQL in Postgres (`predicate.rs:88`), one without
  literals finds everything (`lib.rs:77`), `<` and `>` order texts by the database's
  collation (`lib.rs:159`) and not by bytes (`filter.rs:54`), and where an entity lacks
  a property Postgres answers and `evaluate_predicate` fails: with `?` in `fetch_states`
  of IndexedDB (`indexeddb.rs:187`), the whole fetch.

## 4. Proofs

`ReactorProofs` proves for all values of the constants that satisfy
`IndexAssumption` and `ConstantAssumption`, for any number of commits, subscriptions
and entities:

| theorem | property |
|---|---|
| `TypeCorrect` | `TypeOK` |
| `WatchersConsistent` | `WatchersAgree` |
| `GoneIsGone` | `NothingLeftBehind` |

`WatchersAgree` is not inductive. A task between `Evaluate` and `Update` is about to
change both records of its subscription; they stay equal because the subscription is
still there, which holds because the task has the guard and `Unsubscribe` waits.
The invariant `IInv` therefore adds to `TypeOK` and `WatchersAgree`: a task that is
notifying has a change to notify (`TasksBusy`), the phases of a subscription say
whether it is in `subscriptions` and in `index` and, while it is being linked, that
what is left to visit is part of what was found (`PhaseAgrees`), and a task that holds
a guard holds that of a present subscription (`GuardsHold`). One lemma per process
shows that its steps keep the types, one that they keep the rest, with a case per
action; `Inductive` combines them. `NothingLeftBehind` follows from `IInv`: of a
subscription that is gone, `Linked` is empty and the phase says that it is not in the
index.

The proof does not use that the index is complete or that the runtime has one thread,
so both results hold for any index and in either runtime.

It goes on, from the same assumptions, with what holds in the browser:

| theorem | property |
|---|---|
| `StreamsRight` | `StreamAgrees` |
| `SettledRight` | `SettledSingle` |

Both need that a task which notifies has the thread, and that nobody else is then in the
middle of inserting or dropping a subscription (`ThreadAgrees`): what it has read of the
entity and of the result set is still so when it writes (`ReadsHold`). `Streams` makes
`StreamAgrees` inductive: what a live subscriber has been told, followed by what the
task that has the thread has collected for it, is lawful and amounts to the recorded
set. Its step is `PlusRight`, on `Fold` and `Lawful` of a batch and one more item, which
the lemmas `FoldAdd`, `FoldRemove` and `LawfulAppend` give for batches of any length.
`ResultsRight` makes `SettledSingle` inductive: a result set that no notification
overlapped is right about an entity that is not adrift, by its live or by its stored
value, unless a change of the entity waits to be notified (`Waits`) or the task that
notifies it is still to come to the subscription (`Comes`). The hard steps are
`ReadIndex`, after which nothing waits any more for a subscription that is neither a
candidate nor a watcher, and `Store`, which takes an entity that was adrift back into
the claim: nothing is known of its result sets then but that its change waits. For
`ReadIndex` the proof uses that the index withholds nobody (`IndexAssumption`, examined
by `ComparisonIndex`): who is not a candidate does not match, and by `WatchersAgree` an
entity with no such watcher is not in its set. `Stores` says that the storage is behind
the live entity only while a state is being stored, and that an entity which is not
adrift is being stored by one commit at most, which has its present value; a commit that
fails leaves what it applied, stored and had yet to notify adrift (`FailRight`).
Together they hold in `single` only; the run `reactor_threads` does not check these
properties, and `reactor_race` shows what happens on threads.

`ComparisonIndexProofs` first takes the index one comparison at a time, for strings of
any length over any bytes (TLC takes ten, of up to two bytes), and integers of four
bits:

| theorem | what it says |
|---|---|
| `AcceptedIsFound` | a reliable comparison (`Reliable`) is found by every value it accepts |
| `FoundIsAccepted` | a comparison of strings other than `>=` accepts every value that finds it |

They are what `IndexCompleteFor` and `IndexPrecise` need of each comparison of a
predicate. They come down to the order of byte strings: `a` with a zero byte is the next
string after `a` (`AboveIsSuccessor`, `SuccessorIsAbove`), which is why `find_matching`
may look for keys from the successor on and `<=` may be entered as `<` of the successor
(`SuccessorsOrdered`), and `a` without its last byte is below all that `a` is at most
(`PrefixIsBelow`), which is why the rough predecessor of `>=` loses nothing. Integers
are entered big-endian and looked up as text, which starts with a sign or a digit
(`IntegerText`): a key whose first byte is below these is below every text of an integer
(`LowKey`), one whose first byte is above them is above (`HighKey`), and of the others,
the greatest integers under `>` for one, the theorem says nothing (`Reliable`).

Then it takes the whole index, with subscriptions that come and go, for
any subscriptions, any strings as values and any set of predicates of any depth
(`TreesAssumption`, `TextsAssumption`, `NoneAssumption`):

| theorem | property |
|---|---|
| `TypeCorrect` | `TypeOK` |
| `IndexRight` | `IndexExact` |
| `IndexFinds` | `IndexCompleteFor` |
| `IndexFindsOnly` | `IndexPrecise` |

`TypeOK /\ IndexExact` is inductive: as long as a subscription is under each key as often
as its predicate enters it there, `remove` takes away what `add` pushed and nothing of
others. The other two follow from it in every state. By `OffersWhatIsEntered` the index
offers a subscription for a value if and only if it would for one of its comparisons,
and of these `AcceptedIsFound` and `FoundIsAccepted` speak. What is left is that a
predicate without negation which holds has a True or a reliable comparison that holds
(`HoldsIsWanted`), whichever operand `And` and `Or` stopped at: an induction over the
predicate (`PartsInduction`), which `Recursion` takes back to the least element of a set
of numbers. The library's induction theorems have an operator as parameter, which the
provers cannot instantiate; here the parameter is the set of those for which the claim
holds.

A recursive definition of TLA+ is a CHOOSE and says something only if such a function
exists, which the prover does not ask for. `RankRecursion` shows that a rule that asks
for values of a lower rank only has a function that follows it, and `LeavesDefined`,
`HasTrueDefined`, `PositiveDefined` and `EvaluateDefined` use it to show that the four
recursive functions are what their bodies say and of which type; nothing else expands
these definitions.

`IndexFinds` is also what `Reactor` needs of the index (`IndexAssumption`), for the
predicates it is about.

`NodeCommitProofs` proves for all values of the constants that satisfy
`NodeAssumption` and `NoneAssumption`, for any number of entities, transactions,
requests and readers, edits and restarts:

| theorem | property |
|---|---|
| `TypeCorrect` | `TypeOK` |
| `OneResident` | `UniqueResident` |
| `MemoryCurrent` | `ResidentCurrent` |
| `CommitsDurable` | `DurableApart` |
| `CommitsTold` | `AckedNotified` |

The assumptions say that ids are handed out once, that there is an object for each
entity and each transaction (memory is not what runs out), that the sets are finite and
the processes of one kind only, and that `None` and "dead" are not among what they stand
beside. `IInv` is `Structure /\ Data`. `Structure` is about who has what.
`Mapped` and `NewOnce` are the other half of `UniqueResident`: what the map has is alive
and was entered, and an object that was not is the only one of its id, of which nothing
is stored while the map's entry is vacant. That needs `KnownIds` (nothing refers to an
id that was not handed out) and `ListHeld` (the objects a transaction has listed are
alive, one for each entity, and all are entered once it commits), from which follows
that a commit of a transaction always finds its entities in memory (`NextAlive`).
`Local` and `Setting` say what the local variables hold at each `pc`. A lemma for each
kind of change (`ResidentStep`, `CommitStep`, `CreateStep`, `DropStep`) shows what it
does to objects and map; that there is a free object to put an entity in is a count
(`Counting`). `Data` is about what is stored. `WriteFresh` makes `DurableApart` inductive:
a state on its way to storage has all that is stored, unless another one of the entity
is on its way too. `Reached` carries an event from the call that stored it to the
acknowledgement. `HeadsTold` makes `AckedNotified` inductive: if `set_state` finds
nothing changed then the stored head is the event, so an earlier call has stored that
event and told it, or will. TLC has checked `IInv` on the instance of `NodeCommit.cfg`.

`ReplicationProofs` proves for all values of the constants that satisfy
`ReplicationAssumption` and `NoneAssumption`, for any nodes and links between them,
events, capacity of the channels and number of requests, lost connections and lost
residents:

| theorem | property |
|---|---|
| `TypeCorrect` | `TypeOK` |
| `Answered` | `Answerable` |
| `PendingCounted` | `PendingAccounted` |
| `CommitsStored` | `AckedStored` |
| `SubscribersTold` | `SubscriberTold` |

The assumptions say that a link joins two nodes, that a channel has room for a message,
and that `None` is neither a state nor what a receiver task holds. The core of `IInv` is
`Travel`: the places of the network (positions of a channel, and what a receiver task is
at) and the calls that wait match one to one. `Carries` says what a place knows of its
call: on which way it is, its kind and event, and, once it is an answer to a commit, that
the event is kept where the call went. `Moved` reduces `Travel` after a step to a map
from the places after it to the places before; the lemmas `PutTravels` to `DropTravels`
give that map for a message that is appended, taken, answered, taken as an answer, or
lost with its connection. `CallsInv` makes the ids of calls unique: all calls that a
handler starts have the same number, and differ by peer or by subscription, with 0 for
none, which is why a subscription's number must be at least 1. `PendingInv` is
`PendingAccounted` by elements. `DataInv` is about events: what a peer has acknowledged it
keeps or has overwritten, and an event that a subscriber is owed is kept by it or is
carried by a forward that has not been answered over a connection that is up (`Coming`),
from which `SubscriberTold` follows. A forward that finds no connection is not owed any
more, as `Disconnect` clears what the two nodes are owed. Commits that may overlap need
two facts more. `ViaInv`: a commit of a receiver task is of the request that the task is
at, and no two commits are of one task, so that the answer is given once what it
acknowledges is stored. `ApartInv`: at a node that asks nobody, an event whose commit
overlapped no other is in what is stored, in the resident entity, and in every state that
a commit there has loaded or is about to store, aborted ones included; so whichever of
these is stored last has it. It is kept because a commit that begins takes its state from
the resident entity or asks the storage, and because one that is still alone has seen
nothing else begin (`BeginStep`, `CommitStepKeeps`, `LandKeeps`). `AckedStored` is
`DataInv` and `ApartInv`. TLC has checked the parts of `IInv` that are about data and
commits on the instance of `Replication.cfg`.

`PeeringProofs` proves for all values of the constants that satisfy
`PeeringAssumption`, for any number of sockets, requests and `ready()` futures:

| theorem | property |
|---|---|
| `TypeCorrect` | `TypeOK` |
| `OneConnectionAlways` | `OneConnection` |
| `ConnectedIsRegistered` | `ConnectedMeansRegistered` |
| `NobodySleeps` | `NoSleeper` |

Here `IInv` adds two facts. `Types` gives the domains of the functions and says that
every queue is a sequence of messages, which a step that appends or takes one needs.
`InOrder` says that the sockets made so far are `1..n` and that one not yet made has
fired no event: `Reconnect` numbers its socket by counting those that are made, so
without it the new socket might be one that has closed already. `OneConnection` is then
kept because only the current socket's events count (`SetStateOne`), and the first of
them clears `current`; the close event that follows an error finds another socket
current, or none. `ConnectedMeansRegistered` and `NoSleeper` are kept together:
`SetState` to `Connected` of the current socket registers the server and wakes the
futures in the same step, and a future that polls later finds `Connected`. The same
`IInv` has been checked by TLC on the instance of `Peering.cfg` with `MaxDelay = 2`.

It goes on, from the same assumption:

| theorem | property |
|---|---|
| `RequestsFollowed` | `LostWithSocket` |
| `SettledAgrees` | `AgreeWhenSettled` |

Its `RInv` is `IInv` and seven facts. `SocketLife`: of the sockets made, only the current
one has not fired an event, so at most one is unbroken and no older one is. `Greeted`:
over every socket the presence of an end comes before all else from it. That is why
neither end drops a message of a peer it does not know yet, and it holds because an end
sends only over a socket it has the other's presence of (`Registered`, `Usable`), by
which time the client has put its own in the queue. `Uncrossed`: until a handler works on
the registration of another socket's, an unbroken socket whose handler has the presence
has its client registered; the proof is that this socket was made last, so that a
presence over an older one after it is what `crossed` records. `SettledAgrees` follows.
`Single`: no two messages and tasks are of the same request, and its caller waits
(`TakenByTask`, `SentOnce`). `Followed`: a request waited for that is in no queue and no
task has used a socket that broke, or was dropped by a node that had not registered its
sender. `Travelled` gives the reason of the latter: the task came over a socket whose
handler has had the presence, and if that one is unbroken `Uncrossed` says that handlers
have crossed. At the client no request is dropped at all, since its registration is never
taken back. TLC has checked `RInv` on the instance of `Peering.cfg`.

`StorageProofs` proves for all values of the constants that satisfy
`PostgresAssumption`, `IndexedDBAssumption` and `StorageAssumption`, for any number of
calls, entities, states, tabs, columns, connections and failing transactions:

| theorem | property |
|---|---|
| `PostgresImplements` | `PgImplements` |
| `IndexedDBImplements` | `IdbImplements` |
| `AloneEnough` | `AloneSucceeds`, if there are at least `Len(Columns) + 2` connections |
| `TypeCorrect` | `TypeOK` |

The assumptions say that columns have names, that the pool is finite, that every call
has a tab and that `None` is neither a state nor a head. Of a step of either engine the
lemmas show which of five things it does to its call (`Fine`, `IdbFine`): begin it, move
it on, answer it, store and answer, or, in IndexedDB, find the head stored that it was to
store. Each of these is a step of `StateStore` or none at all (`PgBeginMaps` to
`PgStoreMaps`, `IdbBeginMaps` to `IdbStoreMaps`). What that takes is `Inv`: the state
that a row has is among those seen by each `set_state` of the row (`ArgumentsOf`), so
that a call which finds its head stored changes neither the row nor what others may
answer; the old state that a `Write` compares with is one that the call has seen, and
without a table there is no row, so that a `get_state` that finds no table answers
right (`TableInv`); connections and mutexes are held as the code means them to be
(`PoolInv`, `LocksInv`). `seen` only grows while a call is under way, which is why a
statement may start and end at different times.

`AloneEnough` needs a count besides. Whoever runs alone holds one connection for each
thing it found missing and made; these and what is missing yet are never more than the
table and the columns (`AloneInv`, `Debt`), one more while it holds the connection it
executes on. What it found missing is still missing when it makes it, since nobody else
is there. TLC has checked `AloneInv`, and `Inv` up to the type of results, on the
instance of `Storage.cfg`.

`SelectionProofs` takes predicates of any depth, over any operands and operators, and
entities of any properties, whichever of them have columns, and a collation
(`TreesAssumption`, `OperandsAssumption`, `TableAssumption`, `CollationAssumption`):

| theorem | property |
|---|---|
| `TypeCorrect` | `TypeOK` |
| `PassedFetched` | `PassedIsFetched` |
| `FetchedPasses` | `FetchedIsPassed` |
| `ShownIsMeant` | `ShownMeans` |

`Inv` says of the state only that what is shown and fetched is of the predicate; the
work is that reading is the inverse of writing, for texts of any length. A text is
`Proper` if its parentheses close, no OR is outside of them, a `NOT` after it spoils it,
and `Sees` takes it apart from an AND before it just as it should. Every text that a
generator writes is proper (`ProperComparison`, `ProperAnd`, `ProperOr`,
`ProperNotShown` and so on), by induction over the depth of predicates, and each of
these lemmas says what `Sees` makes of the text from what it makes of the parts. AND is
the hard one: `l AND r` is written without parentheses and read from the last AND on, so
where `r` is itself `s AND t` the tree that is read is not the one that was written, and
the proof uses that AND of true, false, NULL and invalid is associative
(`JunctionAssociative`). OR may stand as it is since it is always in parentheses; NOT in
the WHERE clause is written `NOT (` ... `NOT )`, and `ProperNotWhere` says that this is
no SQL whatever is inside and around it. `WhereLike` compares the two readings: where
PostgreSQL sees NULL, `evaluate_predicate` fails, and else it says the same or fails, if
the collation decides the comparisons at hand as the order of bytes does (`SameOrder`).
That the query gets as far as that takes that the operands in the clause are those of
the predicate (`WhereTerms`), none of which is unknown then, and that `IS NULL` follows
names only (`WhereTidy`). `WhereUses` says also that a literal at any depth makes
`fetch_states` add the clause.

`Recursion` is what both modules rest on: a recursive function over things that have a
rank exists and is what its body says (`RankRecursion`), and what passes from all of
smaller rank to the next holds of all (`RankInduction`). The modules cite it once for
each recursive function (`PartsDefined`, `EvaluateDefined`, `WhereDefined`, `SeesDefined`
and so on).

**Only model-checked.** `Converges` and the other liveness properties of every module
(TLAPS proves nothing from fairness), and the two invariants of `Parsing`, whose
operators are RECURSIVE: `Rest` and `Right` call the parser they are part of on pieces of
the text, which a recursive function over a given set of texts would hide.

## 5. Plan

1. Done: `Reactor`, `ReactorProofs`, `Collation`, `ComparisonIndex`,
   `ComparisonIndexProofs`, `NodeCommit`, `NodeCommitProofs`, `Replication`,
   `ReplicationProofs`, `Peering`, `PeeringProofs`, the storage engines, `StateStore` and
   `StorageProofs`, `Selection`, `SelectionProofs`, `Parsing`.
2. An abstract live query (a set that follows the entities, with a delay) that the
   single-threaded `Reactor` implements; callbacks that call back into the reactor.
3. Two durable nodes that subscribe to each other, and whether forwarding ends.

## 6. Not modelled

Wire encodings, the printing of values and identifiers, the derive macros, the examples
and `quarantine/` hold no state that steps of several actors share. The React bindings
wait on signals of `reactive_graph` and are read by React, both libraries. The merge of
the CRDT library is taken as a union of events. `lww` applies no operations yet
(`todo!`) and `pn_counter` is not among the backends that can be restored. Floats in the
index, numbers in the comparison of the two engines, and the unsupported operators,
which panic, are left out. Sled flushes its log in the background, and a state that
`set_state` has answered for may be lost with the machine's power: storage is taken to
keep what it has answered. PostgreSQL does not fail by itself in `PostgresBucket`, and
IndexedDB's opening and deletion are left out. Poisoned locks and callbacks that
re-enter the reactor are left out.
