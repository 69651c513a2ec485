-------------------------- MODULE ReplicationProofs --------------------------
(***************************************************************************)
(* The safety properties of Replication.tla for any nodes, links, events,  *)
(* capacities and bounds.                                                  *)
(*                                                                         *)
(* IInv says where every message is: Travel pairs the places of the        *)
(* network with the calls that wait, one to one, and Carries says of each  *)
(* place what it knows of its call.  So a handler acts for a call that is  *)
(* still there, an answer reaches the call it belongs to, and an event is  *)
(* stored before its answer travels.  ViaInv ties a commit to the request  *)
(* its receiver task holds; ApartInv says that what a commit stored that   *)
(* overlapped no other is in every state a later commit can store.         *)
(***************************************************************************)
EXTENDS Replication, FiniteSetTheorems, SequenceTheorems, TLAPS

Carrying == {"commit", "forward"}   \* the kinds of call that carry an event
Askers == Asking.fetch \cup Asking.subscribe
Kept(e, n) == e \in store[n].events \cup lost[n]
Waiting == {c \in calls : c.st = "waiting"}

\* The places of the network: of what has been sent, and of what a receiver task is at
Places == {x \in Pairs \X (0..Capacity) :
              IF x[2] = 0 THEN recv[x[1]] # None ELSE x[2] <= Len(chan[x[1]])}
Item(x) == IF x[2] = 0 THEN recv[x[1]] ELSE chan[x[1]][x[2]]

Types ==
    /\ conn \subseteq Links
    /\ chan \in [Pairs -> Seq(Requests \cup Responses)] /\ \A l \in Pairs : Len(chan[l]) <= Capacity
    /\ recv \in [Pairs -> Held \cup {None}]
    /\ pending \in [Nodes -> SUBSET Ids]
    /\ subs \in [Nodes -> SUBSET (Nodes \X Nat)]
    /\ store \in [Nodes -> States] /\ mem \in [Nodes -> States \cup {None}]
    /\ calls \in SUBSET Calls
    /\ next \in [Nodes -> Nat]
    /\ unsent \in SUBSET Ids
    /\ acked \in SUBSET (Events \X Nodes)
    /\ owed \in [Nodes -> SUBSET Events] /\ lost \in [Nodes -> SUBSET Events]
    /\ commits \in SUBSET CommitCalls /\ apart \in [Nodes -> SUBSET Events]

\* A call has its number to itself, and goes through the states of its kind.
CallFine(c) ==
    /\ 1 <= c.id.seq /\ c.id.seq < next[c.id.from] /\ c.id \notin unsent
    /\ \A d \in calls : d.id = c.id => d = c
    /\ c.kind \in Carrying => c.event \in Events
    /\ c.kind \notin Carrying => c.id.from \in Asking[c.kind]
    /\ c.st \in {"answered", "stored", "read"} => c.kind \notin Carrying
    /\ c.st \in {"sending", "waiting"} => {c.id.from, c.id.to} \in conn
    /\ c.st = "orphaned" => {c.id.from, c.id.to} \in Links

CallsInv ==
    /\ \A n \in Nodes : next[n] >= 1
    /\ \A c \in calls : CallFine(c)
    /\ \A id \in unsent : id.seq < next[id.from]

\* What is sent and who is subscribed goes with the connection.
LinksInv ==
    /\ \A l \in Pairs : recv[l] # None \/ Len(chan[l]) > 0 => {l[1], l[2]} \in conn
    /\ \A n \in Nodes : \A s \in subs[n] : {n, s[1]} \in conn /\ s[2] >= 1

\* What is in place x belongs to the waiting call c, and is on c's way there or back.
Carries(x, c) ==
    LET msg == Item(x)  there == <<c.id.from, c.id.to>>  back == <<c.id.to, c.id.from>> IN
    /\ msg.id = c.id
    /\ msg.type = "request" =>
            /\ x[1] = there /\ msg.event = c.event
            /\ msg.kind = IF c.kind = "forward" THEN "commit" ELSE c.kind
    /\ msg.type = "committing" => x[2] = 0 /\ c.kind \in Carrying
    /\ msg.type = "fetched" => x[2] = 0 /\ c.kind = "subscribe"
    /\ msg.type # "request" => x[1] = IF x[2] = 0 THEN there ELSE back
    /\ msg.type = "response" /\ c.kind \in Carrying => Kept(c.event, c.id.to)

\* Each waiting call has one place, and each place is that of a waiting call.
Travel ==
    /\ \A x \in Places : \E c \in Waiting : Carries(x, c)
    /\ \A c \in Waiting : \E x \in Places : Item(x).id = c.id
    /\ \A x, y \in Places : Item(x).id = Item(y).id => x = y

\* The events that are to be forwarded over a connection that is up
Coming(e, n) ==
    \E c \in calls : /\ c.kind = "forward" /\ c.event = e /\ c.id.to = n
                     /\ c.st \in {"started", "sending", "waiting"}
                     /\ {c.id.from, n} \in conn

DataInv ==
    /\ \A a \in acked : Kept(a[1], a[2])
    /\ \A n \in Nodes : \A e \in owed[n] : Kept(e, n) \/ Coming(e, n)

\* The request id is one that its caller has left in pending_requests.
Outstanding(id) == \E c \in calls : c.id = id /\ c.st \in {"sending", "waiting", "orphaned"}

PendingInv ==
    \A n \in Nodes : \A id \in Ids :
        id \in pending[n] <=> id.from = n /\ (Outstanding(id) \/ id \in unsent)

\* A commit that a receiver task runs is of the request the task is at.
CommitFine(r) ==
    /\ r.step \in {"set", "aborted"} => r.event \in r.state.events
    /\ r.via # None => r.via[2] = r.at
    /\ r.via # None /\ r.step # "aborted" =>
            /\ recv[r.via] # None /\ recv[r.via].type = "committing"
            /\ \A c \in calls : c.id = recv[r.via].id => c.event = r.event
            /\ \A q \in commits : q.via = r.via /\ q.step # "aborted" => q = r

ViaInv == \A r \in commits : CommitFine(r)

\* What a commit stored that overlapped no other is in all that may be stored after it, where
\* no answer of another node is stored.
ApartInv ==
    /\ \A n \in Nodes \ Askers : \A e \in apart[n] :
            /\ e \in store[n].events /\ (mem[n] # None => e \in mem[n].events)
            /\ \A r \in commits : r.at = n /\ r.step # "load" => e \in r.state.events
    /\ \A r \in commits : r.alone =>
            /\ \A q \in commits : q.at = r.at => q = r
            /\ r.step = "set" /\ r.at \notin Askers /\ mem[r.at] # None =>
                    r.event \in mem[r.at].events

IInv == Types /\ CallsInv /\ LinksInv /\ Travel /\ PendingInv /\ DataInv /\ ViaInv /\ ApartInv

\* A step's calls are those before it, or new ones with numbers not given yet.
CallsOld ==
    \A d \in calls' : \/ \E c \in calls : c.id = d.id /\ c.event = d.event
                      \/ ~(d.id.seq < next[d.id.from])

USE ReplicationAssumption, NoneAssumption

-----------------------------------------------------------------------------
(* Data *)

LEMMA PairsFacts ==
    /\ \A m, n \in Nodes : {m, n} \in Links => m # n /\ <<m, n>> \in Pairs /\ <<n, m>> \in Pairs
    /\ \A m, n : <<m, n>> \in Pairs => m \in Nodes /\ n \in Nodes /\ {m, n} \in Links
    /\ \A l \in Pairs : /\ l[1] \in Nodes /\ l[2] \in Nodes /\ l = <<l[1], l[2]>>
                        /\ {l[1], l[2]} \in Links /\ l[1] # l[2]
<1>1. ASSUME NEW m, {m, m} \in Links PROVE FALSE
  <2>1. Cardinality({m}) = 1
    BY FS_Singleton
  <2>2. Cardinality({m, m}) = 2
    BY <1>1
  <2>3. {m, m} = {m}
    OBVIOUS
  <2>4. Cardinality({m, m}) = Cardinality({m})
    BY <2>3, Zenon
  <2> QED
    BY <2>1, <2>2, <2>4
<1>2. \A m, n \in Nodes : {m, n} = {n, m}
  OBVIOUS
<1>3. \A m, n \in Nodes : {m, n} \in Links => m # n
  BY <1>1
<1>4. \A m, n \in Nodes : {m, n} \in Links => <<m, n>> \in Pairs /\ <<n, m>> \in Pairs
  BY <1>2 DEF Pairs
<1>5. \A m, n : <<m, n>> \in Pairs => m \in Nodes /\ n \in Nodes /\ {m, n} \in Links
  BY DEF Pairs
<1>6. \A l \in Pairs : l[1] \in Nodes /\ l[2] \in Nodes /\ l = <<l[1], l[2]>> /\ {l[1], l[2]} \in Links
  BY DEF Pairs
<1> QED
  BY <1>3, <1>4, <1>5, <1>6

LEMMA NoneFacts == /\ \A s \in States : s # None
                   /\ \A r \in Held : r # None
                   /\ NoState \in States
BY DEF NoState, States

LEMMA CallMade ==
    ASSUME NEW n \in Nodes, NEW p \in Nodes, NEW sub \in Nat, NEW kind \in Kinds,
           NEW e \in Events \cup {None}, Types
    PROVE  LET c == Call(n, p, sub, kind, e) IN
           /\ c \in Calls /\ c.id.from = n /\ c.id.to = p /\ c.id.via = sub /\ c.id.seq = next[n]
           /\ c.kind = kind /\ c.event = e /\ c.st = "started"
BY NoneFacts DEF Types, Call, Calls, Ids

-----------------------------------------------------------------------------
(* What travels *)

LEMMA PlaceTypes ==
    ASSUME Types, NEW x \in Places
    PROVE  /\ x = <<x[1], x[2]>> /\ x[1] \in Pairs /\ x[2] \in 0..Capacity
           /\ x[2] = 0 => Item(x) = recv[x[1]] /\ Item(x) \in Held
           /\ x[2] # 0 => /\ x[2] \in 1..Len(chan[x[1]]) /\ Item(x) = chan[x[1]][x[2]]
                          /\ Item(x) \in Requests \cup Responses
           /\ Item(x).id \in Ids
<1>1. x \in Pairs \X (0..Capacity) /\ (IF x[2] = 0 THEN recv[x[1]] # None ELSE x[2] <= Len(chan[x[1]]))
  BY DEF Places
<1>2. x = <<x[1], x[2]>> /\ x[1] \in Pairs /\ x[2] \in 0..Capacity
  BY <1>1
<1>3. CASE x[2] = 0
  <2>1. Item(x) \in Held /\ Item(x) = recv[x[1]]
    BY <1>1, <1>2, <1>3 DEF Types, Item
  <2> QED
    BY <1>2, <1>3, <2>1 DEF Held
<1>4. CASE x[2] # 0
  <2>1. chan[x[1]] \in Seq(Requests \cup Responses) /\ Len(chan[x[1]]) \in Nat
    BY <1>2 DEF Types
  <2>2. x[2] \in 1..Len(chan[x[1]])
    BY <1>1, <1>2, <1>4, <2>1
  <2>3. Item(x) \in Requests \cup Responses /\ Item(x) = chan[x[1]][x[2]]
    BY <1>4, <2>1, <2>2 DEF Item
  <2> QED
    BY <1>2, <1>4, <2>2, <2>3 DEF Requests, Responses
<1> QED
  BY <1>3, <1>4

LEMMA CarrySame ==
    ASSUME NEW x, NEW y, NEW c, Carries(y, c), Item(x)' = Item(y), x[1] = y[1],
           (x[2] = 0) <=> (y[2] = 0),
           Kept(c.event, c.id.to) => Kept(c.event, c.id.to)'
    PROVE  Carries(x, c)'
BY DEF Carries

\* The items of a step's places come from the places before it, by f.
LEMMA Moved ==
    ASSUME Travel, NEW f,
           \A x \in Places' : f[x] \in Places /\ (Item(x).id)' = Item(f[x]).id,
           \A x, y \in Places' : f[x] = f[y] => x = y,
           \A x \in Places' : \A c \in Waiting : Carries(f[x], c) => c \in Waiting' /\ Carries(x, c)',
           \A c \in Waiting' : c \in Waiting,
           \A c \in Waiting' : \A y \in Places : Item(y).id = c.id => \E x \in Places' : f[x] = y
    PROVE  Travel'
<1>1. ASSUME NEW x \in Places' PROVE \E c \in Waiting' : Carries(x, c)'
  BY DEF Travel
<1>2. ASSUME NEW c \in Waiting' PROVE \E x \in Places' : (Item(x).id)' = c.id
  BY DEF Travel
<1>3. ASSUME NEW x \in Places', NEW y \in Places', (Item(x).id)' = (Item(y).id)' PROVE x = y
  BY <1>3 DEF Travel
<1> QED
  BY <1>1, <1>2, <1>3 DEF Travel

KeptGrows == \A n \in Nodes : \A e : Kept(e, n) => Kept(e, n)'

LEMMA TravelSame ==
    ASSUME Types, Travel, chan' = chan, recv' = recv, Waiting' = Waiting, KeptGrows
    PROVE  Travel'
<1> DEFINE f == [x \in Places' |-> x]
<1>1. Places' = Places /\ \A x : Item(x)' = Item(x)
  BY DEF Places, Item
<1>2. \A x \in Places, c \in Waiting : Carries(x, c) => Carries(x, c)'
  <2> SUFFICES ASSUME NEW x \in Places, NEW c \in Waiting, Carries(x, c) PROVE Carries(x, c)'
    OBVIOUS
  <2>1. c.id.to \in Nodes
    BY DEF Waiting, Types, Calls, Ids
  <2> QED
    BY <1>1, <2>1, CarrySame DEF KeptGrows
<1>3. \A x \in Places' : f[x] = x
  OBVIOUS
<1> HIDE DEF f
<1>4. \A x \in Places' : f[x] \in Places /\ (Item(x).id)' = Item(f[x]).id
  BY <1>1, <1>3
<1>5. \A x, y \in Places' : f[x] = f[y] => x = y
  BY <1>3
<1>6. \A x \in Places' : \A c \in Waiting : Carries(f[x], c) => c \in Waiting' /\ Carries(x, c)'
  BY <1>1, <1>2, <1>3
<1>7. \A c \in Waiting' : \A y \in Places : Item(y).id = c.id => \E x \in Places' : f[x] = y
  BY <1>1, <1>3
<1> QED
  BY <1>4, <1>5, <1>6, <1>7, Moved

\* What Append adds.
LEMMA PutPlaces ==
    ASSUME Types, NEW l \in Pairs, NEW r \in Requests \cup Responses, Room(l),
           chan' = [chan EXCEPT ![l] = Append(@, r)], recv' = recv, NEW z, z = <<l, Len(chan[l]) + 1>>
    PROVE  /\ z \notin Places /\ Places' = Places \cup {z} /\ Item(z)' = r
           /\ \A x \in Places : Item(x)' = Item(x)
           /\ chan' \in [Pairs -> Seq(Requests \cup Responses)] /\ \A k \in Pairs : Len(chan'[k]) <= Capacity
<1>1. /\ chan \in [Pairs -> Seq(Requests \cup Responses)]
      /\ \A k \in Pairs : Len(chan[k]) \in Nat /\ Len(chan[k]) <= Capacity
  BY DEF Types
<1>2. /\ chan'[l] = Append(chan[l], r) /\ chan'[l] \in Seq(Requests \cup Responses)
      /\ \A k \in Pairs \ {l} : chan'[k] = chan[k]
  BY <1>1
<1>3. /\ Len(chan'[l]) = Len(chan[l]) + 1
      /\ \A i \in 1..Len(chan[l]) : chan'[l][i] = chan[l][i]
      /\ chan'[l][Len(chan[l]) + 1] = r
  BY <1>1, <1>2
<1>4. chan' \in [Pairs -> Seq(Requests \cup Responses)] /\ \A k \in Pairs : Len(chan'[k]) <= Capacity
  <2>1. chan' \in [Pairs -> Seq(Requests \cup Responses)]
    BY <1>1
  <2>2. Len(chan'[l]) <= Capacity
    BY <1>1, <1>3 DEF Room
  <2> QED
    BY <1>1, <1>2, <2>1, <2>2
<1>5. z \notin Places
  BY <1>1 DEF Places
<1>6. z \in Places'
  BY <1>1, <1>3 DEF Places, Room
<1>7. \A x \in Places : x \in Places' /\ Item(x)' = Item(x)
  <2> SUFFICES ASSUME NEW x \in Places PROVE x \in Places' /\ Item(x)' = Item(x)
    OBVIOUS
  <2>1. x[1] \in Pairs /\ x[2] \in 0..Capacity /\ x \in Pairs \X (0..Capacity)
    BY DEF Places
  <2>2. CASE x[2] = 0
    BY <2>1, <2>2 DEF Places, Item
  <2>3. CASE x[2] # 0 /\ x[1] = l
    BY <1>1, <1>3, <2>1, <2>3 DEF Places, Item
  <2>4. CASE x[2] # 0 /\ x[1] # l
    BY <1>2, <2>1, <2>4 DEF Places, Item
  <2> QED
    BY <2>2, <2>3, <2>4
<1>8. ASSUME NEW x \in Places', x # z PROVE x \in Places
  <2>1. x[1] \in Pairs /\ x[2] \in 0..Capacity /\ x \in Pairs \X (0..Capacity) /\ x = <<x[1], x[2]>>
    BY DEF Places
  <2>2. CASE x[2] = 0
    BY <2>1, <2>2 DEF Places
  <2>3. CASE x[2] # 0 /\ x[1] = l
    BY <1>1, <1>3, <1>8, <2>1, <2>3 DEF Places
  <2>4. CASE x[2] # 0 /\ x[1] # l
    BY <1>2, <2>1, <2>4 DEF Places
  <2> QED
    BY <2>2, <2>3, <2>4
<1>9. Item(z)' = r
  <2>1. z[1] = l /\ z[2] = Len(chan[l]) + 1 /\ z[2] # 0
    BY <1>1
  <2> QED
    BY <1>3, <2>1 DEF Item
<1> QED
  BY <1>4, <1>5, <1>6, <1>7, <1>8, <1>9

\* What a receiver task that takes the head and keeps r instead does to the places.
Shift(l) == [x \in Pairs \X Nat |-> IF x[1] = l THEN <<l, x[2] + 1>> ELSE x]

LEMMA TakePlaces ==
    ASSUME Types, NEW l \in Pairs, NEW r \in Held \cup {None}, recv[l] = None, chan[l] # <<>>,
           Take(l), recv' = [recv EXCEPT ![l] = r]
    PROVE  /\ <<l, 1>> \in Places /\ Item(<<l, 1>>) = Head(chan[l])
           /\ Shift(l)[<<l, 0>>] = <<l, 1>>
           /\ <<l, 0>> \in Places' <=> r # None
           /\ Item(<<l, 0>>)' = r
           /\ \A x \in Places' \ {<<l, 0>>} :
                    /\ Shift(l)[x] \in Places /\ Item(x)' = Item(Shift(l)[x])
                    /\ Shift(l)[x] # <<l, 1>>
                    /\ Shift(l)[x][1] = x[1] /\ (Shift(l)[x][2] = 0 <=> x[2] = 0)
           /\ \A x, y \in Places' : Shift(l)[x] = Shift(l)[y] => x = y
           /\ \A y \in Places \ {<<l, 1>>} : \E x \in Places' \ {<<l, 0>>} : Shift(l)[x] = y
           /\ chan' \in [Pairs -> Seq(Requests \cup Responses)] /\ \A k \in Pairs : Len(chan'[k]) <= Capacity
           /\ recv' \in [Pairs -> Held \cup {None}]
<1>1. /\ chan \in [Pairs -> Seq(Requests \cup Responses)] /\ recv \in [Pairs -> Held \cup {None}]
      /\ \A k \in Pairs : Len(chan[k]) \in Nat /\ Len(chan[k]) <= Capacity
  BY DEF Types
<1>2. /\ chan'[l] = Tail(chan[l])
      /\ \A k \in Pairs \ {l} : chan'[k] = chan[k] /\ recv'[k] = recv[k]
      /\ recv'[l] = r
  BY <1>1 DEF Take
<1>3. /\ Len(chan[l]) >= 1 /\ chan'[l] \in Seq(Requests \cup Responses)
      /\ Len(chan'[l]) = Len(chan[l]) - 1
      /\ \A i \in 1..Len(chan'[l]) : chan'[l][i] = chan[l][i + 1]
      /\ Head(chan[l]) = chan[l][1]
  BY <1>1, <1>2
<1>4. /\ chan' \in [Pairs -> Seq(Requests \cup Responses)] /\ \A k \in Pairs : Len(chan'[k]) <= Capacity
      /\ recv' \in [Pairs -> Held \cup {None}]
  <2>1. chan' \in [Pairs -> Seq(Requests \cup Responses)]
    BY <1>1, <1>3 DEF Take
  <2>2. Len(chan'[l]) <= Capacity
    BY <1>1, <1>3
  <2>3. recv' \in [Pairs -> Held \cup {None}]
    BY <1>1
  <2> QED
    BY <1>1, <1>2, <2>1, <2>2, <2>3
<1>5. <<l, 1>> \in Places /\ Item(<<l, 1>>) = Head(chan[l]) /\ Shift(l)[<<l, 0>>] = <<l, 1>>
  BY <1>1, <1>3 DEF Places, Item, Shift
<1>6. (<<l, 0>> \in Places' <=> r # None) /\ Item(<<l, 0>>)' = r
  BY <1>2 DEF Places, Item
<1>7. ASSUME NEW x \in Places'
      PROVE  x = <<x[1], x[2]>> /\ x[1] \in Pairs /\ x[2] \in 0..Capacity /\ x[2] \in Nat /\ x \in Pairs \X Nat
             /\ x \in Pairs \X (0..Capacity)
  BY DEF Places
<1>8. \A x \in Places' \ {<<l, 0>>} :
                    /\ Shift(l)[x] \in Places /\ Item(x)' = Item(Shift(l)[x])
                    /\ Shift(l)[x] # <<l, 1>>
                    /\ Shift(l)[x][1] = x[1] /\ (Shift(l)[x][2] = 0 <=> x[2] = 0)
  <2> SUFFICES ASSUME NEW x \in Places', x # <<l, 0>>
               PROVE  /\ Shift(l)[x] \in Places /\ Item(x)' = Item(Shift(l)[x])
                      /\ Shift(l)[x] # <<l, 1>>
                      /\ Shift(l)[x][1] = x[1] /\ (Shift(l)[x][2] = 0 <=> x[2] = 0)
    OBVIOUS
  <2>1. CASE x[1] = l
    <3>1. Shift(l)[x] = <<l, x[2] + 1>> /\ x[2] # 0 /\ x[2] \in Nat
      BY <1>7, <2>1 DEF Shift
    <3>2. x[2] \in 1..Len(chan'[l])
      BY <1>1, <1>3, <1>7, <2>1, <3>1 DEF Places
    <3>3. x[2] + 1 <= Len(chan[l]) /\ x[2] + 1 \in 0..Capacity
      BY <1>1, <1>3, <3>2
    <3>4. Shift(l)[x] \in Places
      BY <3>1, <3>3 DEF Places
    <3>6. Shift(l)[x][1] = x[1] /\ Shift(l)[x][2] = x[2] + 1
      BY <2>1, <3>1
    <3>7. x[2] + 1 # 0 /\ x[2] + 1 # 1
      BY <3>1
    <3>5. Item(x)' = Item(Shift(l)[x])
      <4>1. Item(x)' = chan'[l][x[2]]
        BY <2>1, <3>1 DEF Item
      <4>2. Item(Shift(l)[x]) = chan[l][x[2] + 1]
        BY <2>1, <3>6, <3>7 DEF Item
      <4> QED
        BY <1>3, <3>2, <4>1, <4>2
    <3>8. Shift(l)[x] # <<l, 1>>
      BY <3>6, <3>7
    <3> QED
      BY <3>1, <3>4, <3>5, <3>6, <3>7, <3>8
  <2>2. CASE x[1] # l
    <3>1. Shift(l)[x] = x /\ x[1] \in Pairs \ {l}
      BY <1>7, <2>2 DEF Shift
    <3>2. x \in Places /\ Item(x)' = Item(x)
      BY <1>2, <1>7, <3>1 DEF Places, Item
    <3>3. x # <<l, 1>>
      BY <2>2
    <3> QED
      BY <3>1, <3>2, <3>3
  <2> QED
    BY <2>1, <2>2
<1>9. \A x, y \in Places' : Shift(l)[x] = Shift(l)[y] => x = y
  <2> SUFFICES ASSUME NEW x \in Places', NEW y \in Places', Shift(l)[x] = Shift(l)[y] PROVE x = y
    OBVIOUS
  <2>1. /\ x[1] = l => Shift(l)[x] = <<l, x[2] + 1>>
        /\ x[1] # l => Shift(l)[x] = x
        /\ y[1] = l => Shift(l)[y] = <<l, y[2] + 1>>
        /\ y[1] # l => Shift(l)[y] = y
    BY <1>7 DEF Shift
  <2>2. x[1] = y[1]
    BY <2>1
  <2>3. x[2] = y[2]
    BY <1>7, <2>1, <2>2
  <2> QED
    BY <1>7, <2>2, <2>3
<1>10. \A y \in Places \ {<<l, 1>>} : \E x \in Places' \ {<<l, 0>>} : Shift(l)[x] = y
  <2> SUFFICES ASSUME NEW y \in Places, y # <<l, 1>>
               PROVE  \E x \in Places' \ {<<l, 0>>} : Shift(l)[x] = y
    OBVIOUS
  <2>1. y = <<y[1], y[2]>> /\ y[1] \in Pairs /\ y[2] \in 0..Capacity /\ y \in Pairs \X (0..Capacity)
    BY DEF Places
  <2>2. CASE y[1] = l
    <3>1. y[2] # 0 /\ y[2] # 1 /\ y[2] <= Len(chan[l])
      BY <2>1, <2>2 DEF Places
    <3> DEFINE x == <<l, y[2] - 1>>
    <3>2. y[2] - 1 \in 1..Len(chan'[l]) /\ y[2] - 1 \in 0..Capacity /\ y[2] - 1 \in Nat
      BY <1>1, <1>3, <2>1, <3>1
    <3>3. x \in Places' /\ x # <<l, 0>>
      BY <3>2 DEF Places
    <3>4. Shift(l)[x] = y
      BY <2>1, <2>2, <3>2 DEF Shift
    <3> QED
      BY <3>3, <3>4
  <2>3. CASE y[1] # l
    <3>1. y \in Places'
      BY <1>2, <2>1, <2>3 DEF Places
    <3>2. y # <<l, 0>> /\ Shift(l)[y] = y
      BY <2>1, <2>3 DEF Shift
    <3> QED
      BY <3>1, <3>2
  <2> QED
    BY <2>2, <2>3
<1> QED
  BY <1>4, <1>5, <1>6, <1>8, <1>9, <1>10

\* A request is sent: Request and Send.
LEMMA PutTravels ==
    ASSUME Types, Travel, NEW c \in calls, CallFine(c), c.st # "waiting",
           {c.id.from, c.id.to} \in Links, Room(Route(c)), Put(c), recv' = recv, KeptGrows
    PROVE  /\ Travel'
           /\ chan' \in [Pairs -> Seq(Requests \cup Responses)] /\ \A k \in Pairs : Len(chan'[k]) <= Capacity
<1> DEFINE l == Route(c)
           d == [c EXCEPT !.st = "waiting"]
           r == [type |-> "request", id |-> c.id,
                 kind |-> IF c.kind = "forward" THEN "commit" ELSE c.kind, event |-> c.event]
<1>0. PICK z : z = <<l, Len(chan[l]) + 1>>
  OBVIOUS
<1>1. c \in Calls /\ c.id.from \in Nodes /\ c.id.to \in Nodes /\ c.id \in Ids
  BY DEF Types, Calls, Ids
<1>2. l \in Pairs /\ r \in Requests /\ l = <<c.id.from, c.id.to>>
  <2>1. r \in Requests
    BY <1>1 DEF Calls, Requests, Kinds
  <2>2. l = <<c.id.from, c.id.to>>
    BY DEF Route
  <2>3. <<c.id.from, c.id.to>> \in Pairs
    BY <1>1, PairsFacts
  <2> QED
    BY <2>1, <2>2, <2>3
<1>3. /\ d.id = c.id /\ d.kind = c.kind /\ d.event = c.event /\ d.st = "waiting"
  BY <1>1 DEF Calls
<1>4. /\ z \notin Places /\ Places' = Places \cup {z} /\ Item(z)' = r
      /\ \A x \in Places : Item(x)' = Item(x)
      /\ chan' \in [Pairs -> Seq(Requests \cup Responses)] /\ \A k \in Pairs : Len(chan'[k]) <= Capacity
  <2>1. chan' = [chan EXCEPT ![l] = Append(@, r)]
    BY DEF Put
  <2>2. Room(l)
    OBVIOUS
  <2> HIDE DEF l, r
  <2> QED
    BY <1>0, <1>2, <2>1, <2>2, PutPlaces
<1>5. Waiting' = Waiting \cup {d} /\ c \notin Waiting
  BY <1>3 DEF Put, Waiting
<1>6. r.id = c.id /\ r.type = "request" /\ r.event = c.event
      /\ r.kind = IF c.kind = "forward" THEN "commit" ELSE c.kind
  OBVIOUS
<1>7. z[1] = l
  BY <1>0
<1> HIDE DEF d, r, l
<1>8. Carries(z, d)'
  BY <1>2, <1>3, <1>4, <1>6, <1>7 DEF Carries
<1>9. \A x \in Places, b \in Waiting : Carries(x, b) => Carries(x, b)'
  <2> SUFFICES ASSUME NEW x \in Places, NEW b \in Waiting, Carries(x, b) PROVE Carries(x, b)'
    OBVIOUS
  <2>1. b.id.to \in Nodes
    BY DEF Waiting, Types, Calls, Ids
  <2> QED
    BY <1>4, <2>1, CarrySame DEF KeptGrows
<1>10. \A y \in Places : Item(y).id # c.id
  <2> SUFFICES ASSUME NEW y \in Places, Item(y).id = c.id PROVE FALSE
    OBVIOUS
  <2>1. PICK b \in Waiting : Carries(y, b)
    BY DEF Travel
  <2>2. b.id = c.id /\ b \in calls
    BY <2>1 DEF Carries, Waiting
  <2> QED
    BY <1>5, <2>1, <2>2 DEF CallFine
<1>11. ASSUME NEW x \in Places' PROVE \E b \in Waiting' : Carries(x, b)'
  BY <1>4, <1>5, <1>8, <1>9 DEF Travel
<1>12. ASSUME NEW b \in Waiting' PROVE \E x \in Places' : (Item(x).id)' = b.id
  <2>1. CASE b = d
    BY <1>3, <1>4, <1>6, <2>1
  <2>2. CASE b \in Waiting
    BY <1>4, <2>2 DEF Travel
  <2> QED
    BY <1>5, <2>1, <2>2
<1>13. ASSUME NEW x \in Places', NEW y \in Places', (Item(x).id)' = (Item(y).id)' PROVE x = y
  <2>1. CASE x = z \/ y = z
    BY <1>4, <1>6, <1>10, <1>13, <2>1
  <2>2. CASE x # z /\ y # z
    BY <1>4, <1>13, <2>2 DEF Travel
  <2> QED
    BY <2>1, <2>2
<1> QED
  BY <1>4, <1>11, <1>12, <1>13 DEF Travel

\* A receiver task takes a request: HandleCommit and HandleFetch.
LEMMA TakeTravels ==
    ASSUME Types, Travel, NEW l \in Pairs, NEW r \in Held, Incoming(l, "request"),
           Take(l), recv' = [recv EXCEPT ![l] = r], Waiting' = Waiting, KeptGrows,
           r.id = Head(chan[l]).id,
           r.type = "committing" => Head(chan[l]).kind = "commit",
           r.type = "fetched" => Head(chan[l]).kind = "subscribe",
           r.type = "response" => Head(chan[l]).kind # "commit"
    PROVE  /\ Travel'
           /\ chan' \in [Pairs -> Seq(Requests \cup Responses)] /\ \A k \in Pairs : Len(chan'[k]) <= Capacity
           /\ recv' \in [Pairs -> Held \cup {None}]
<1> DEFINE f == Shift(l)
           z == <<l, 0>>
           head == <<l, 1>>
<1>1. recv[l] = None /\ chan[l] # <<>> /\ Head(chan[l]).type = "request" /\ r # None
  BY NoneFacts DEF Incoming
<1>2. /\ head \in Places /\ Item(head) = Head(chan[l]) /\ f[z] = head
      /\ z \in Places' /\ Item(z)' = r
      /\ \A x \in Places' \ {z} : /\ f[x] \in Places /\ Item(x)' = Item(f[x])
                                  /\ f[x][1] = x[1] /\ (f[x][2] = 0 <=> x[2] = 0)
      /\ \A x, y \in Places' : f[x] = f[y] => x = y
      /\ \A y \in Places \ {head} : \E x \in Places' \ {z} : f[x] = y
      /\ chan' \in [Pairs -> Seq(Requests \cup Responses)] /\ \A k \in Pairs : Len(chan'[k]) <= Capacity
      /\ recv' \in [Pairs -> Held \cup {None}]
  BY <1>1, TakePlaces
<1>3. z[1] = l /\ z[2] = 0 /\ head[1] = l
  OBVIOUS
<1> HIDE DEF f, z, head
<1>4. ASSUME NEW x \in Places', NEW c \in Waiting, Carries(f[x], c) PROVE Carries(x, c)'
  <2>1. c.id.to \in Nodes /\ c.id.from \in Nodes /\ c.kind \in Kinds
    BY DEF Waiting, Types, Calls, Ids
  <2>2. CASE x = z
    <3>1. /\ Head(chan[l]).id = c.id /\ l = <<c.id.from, c.id.to>> /\ Head(chan[l]).event = c.event
          /\ Head(chan[l]).kind = IF c.kind = "forward" THEN "commit" ELSE c.kind
      BY <1>1, <1>2, <1>3, <1>4, <2>2 DEF Carries
    <3>2. r.type \in {"committing", "fetched", "response"}
      BY DEF Held
    <3>3. r.type = "response" => c.kind \notin Carrying
      BY <3>1 DEF Carrying
    <3>4. /\ r.type = "fetched" => c.kind = "subscribe"
          /\ r.type = "committing" => c.kind \in Carrying
      BY <3>1 DEF Carrying
    <3>5. Item(x)' = r /\ x[1] = l /\ x[2] = 0
      BY <1>2, <1>3, <2>2
    <3> QED
      BY <3>1, <3>2, <3>3, <3>4, <3>5 DEF Carries
  <2>3. CASE x # z
    <3>1. Item(x)' = Item(f[x]) /\ x[1] = f[x][1] /\ ((x[2] = 0) <=> (f[x][2] = 0))
      BY <1>2, <2>3
    <3> QED
      BY <1>4, <2>1, <3>1, CarrySame DEF KeptGrows
  <2> QED
    BY <2>2, <2>3
<1>5. \A x \in Places' : f[x] \in Places /\ (Item(x).id)' = Item(f[x]).id
  BY <1>2
<1>6. \A x, y \in Places' : f[x] = f[y] => x = y
  BY <1>2
<1>7. \A x \in Places' : \A c \in Waiting : Carries(f[x], c) => c \in Waiting' /\ Carries(x, c)'
  BY <1>4
<1>8. \A c \in Waiting' : c \in Waiting
  OBVIOUS
<1>9. \A c \in Waiting' : \A y \in Places : Item(y).id = c.id => \E x \in Places' : f[x] = y
  BY <1>2
<1>10. Travel'
  BY <1>5, <1>6, <1>7, <1>8, <1>9, Moved
<1> QED
  BY <1>2, <1>10

\* The receiver task takes the response to a, which no longer waits: HandleResponse.
LEMMA AnswerTravels ==
    ASSUME Types, Travel, NEW l \in Pairs, Incoming(l, "response"), Take(l), recv' = recv,
           NEW a \in Waiting, a.id = Head(chan[l]).id, Waiting' = Waiting \ {a}, KeptGrows,
           CallFine(a)
    PROVE  /\ Travel'
           /\ chan' \in [Pairs -> Seq(Requests \cup Responses)] /\ \A k \in Pairs : Len(chan'[k]) <= Capacity
<1> DEFINE f == Shift(l)
           z == <<l, 0>>
           head == <<l, 1>>
<1>1. recv[l] = None /\ chan[l] # <<>> /\ recv' = [recv EXCEPT ![l] = None] /\ None \in Held \cup {None}
  BY DEF Incoming, Types
<1>2. /\ head \in Places /\ Item(head) = Head(chan[l])
      /\ z \notin Places'
      /\ \A x \in Places' \ {z} : /\ f[x] \in Places /\ Item(x)' = Item(f[x]) /\ f[x] # head
                                  /\ f[x][1] = x[1] /\ (f[x][2] = 0 <=> x[2] = 0)
      /\ \A x, y \in Places' : f[x] = f[y] => x = y
      /\ \A y \in Places \ {head} : \E x \in Places' \ {z} : f[x] = y
      /\ chan' \in [Pairs -> Seq(Requests \cup Responses)] /\ \A k \in Pairs : Len(chan'[k]) <= Capacity
  BY <1>1, TakePlaces
<1> HIDE DEF f, z, head
<1>3. ASSUME NEW x \in Places', NEW c \in Waiting, Carries(f[x], c) PROVE c \in Waiting' /\ Carries(x, c)'
  <2>1. c.id.to \in Nodes
    BY DEF Waiting, Types, Calls, Ids
  <2>2. x # z /\ f[x] \in Places /\ Item(x)' = Item(f[x]) /\ x[1] = f[x][1] /\ ((x[2] = 0) <=> (f[x][2] = 0))
    BY <1>2
  <2>3. Item(f[x]).id = c.id /\ f[x] # head
    BY <1>2, <1>3, <2>2 DEF Carries
  <2>4. c # a
    BY <1>2, <2>2, <2>3 DEF Travel
  <2> QED
    BY <1>3, <2>1, <2>2, <2>4, CarrySame DEF KeptGrows
<1>4. \A x \in Places' : f[x] \in Places /\ (Item(x).id)' = Item(f[x]).id
  BY <1>2
<1>5. \A x, y \in Places' : f[x] = f[y] => x = y
  BY <1>2
<1>6. \A x \in Places' : \A c \in Waiting : Carries(f[x], c) => c \in Waiting' /\ Carries(x, c)'
  BY <1>3
<1>7. \A c \in Waiting' : c \in Waiting
  OBVIOUS
<1>8. \A c \in Waiting' : \A y \in Places : Item(y).id = c.id => \E x \in Places' : f[x] = y
  <2> SUFFICES ASSUME NEW c \in Waiting', NEW y \in Places, Item(y).id = c.id PROVE \E x \in Places' : f[x] = y
    OBVIOUS
  <2>1. y # head
    BY <1>2 DEF CallFine, Waiting
  <2> QED
    BY <1>2, <2>1
<1>9. Travel'
  BY <1>4, <1>5, <1>6, <1>7, <1>8, Moved
<1> QED
  BY <1>2, <1>9

\* What a receiver task is at becomes a response: HandleSubscribe and SetState.
LEMMA SubscribeTravels ==
    ASSUME Types, Travel, NEW l \in Pairs, recv[l] # None, recv[l].type \in {"committing", "fetched"},
           chan' = chan, recv' = [recv EXCEPT ![l].type = "response"], Waiting' = Waiting, KeptGrows,
           \A c \in Waiting : recv[l].type = "committing" /\ c.id = recv[l].id /\ c.id.to = l[2]
                             => Kept(c.event, c.id.to)'
    PROVE  Travel' /\ recv' \in [Pairs -> Held \cup {None}] /\ \A k \in Pairs : recv'[k] = None <=> recv[k] = None
<1> DEFINE f == [x \in Places' |-> x]
           z == <<l, 0>>
<1>1. PICK r \in Held : r = recv[l]
  BY DEF Types
<1>2. PICK s \in Held : s = [r EXCEPT !.type = "response"] /\ s.type = "response" /\ s.id = r.id
  <2>1. [r EXCEPT !.type = "response"] \in Held
    BY DEF Held
  <2>2. [r EXCEPT !.type = "response"].type = "response" /\ [r EXCEPT !.type = "response"].id = r.id
    BY DEF Held
  <2> QED
    BY <2>1, <2>2
<1>3. recv \in [Pairs -> Held \cup {None}] /\ recv' = [recv EXCEPT ![l] = s]
  BY <1>1, <1>2 DEF Types
<1>4. /\ recv' \in [Pairs -> Held \cup {None}]
      /\ \A k \in Pairs : recv'[k] = None <=> recv[k] = None
      /\ recv'[l] = s /\ \A k \in Pairs \ {l} : recv'[k] = recv[k]
  BY <1>3, NoneFacts
<1>5. Places' = Places
  BY <1>4 DEF Places
<1>6. \A x \in Places : x # z => Item(x)' = Item(x)
  BY <1>4 DEF Places, Item
<1>7. z \in Places /\ z[1] = l /\ z[2] = 0 /\ Item(z) = r /\ Item(z)' = s
  <2>1. z \in Places /\ z[1] = l /\ z[2] = 0
    BY DEF Places
  <2> QED
    BY <1>1, <1>4, <2>1 DEF Item
<1>8. \A x \in Places' : f[x] = x
  OBVIOUS
<1> HIDE DEF f, z
<1>9. ASSUME NEW x \in Places, NEW c \in Waiting, Carries(x, c) PROVE Carries(x, c)'
  <2>1. c.id.to \in Nodes
    BY DEF Waiting, Types, Calls, Ids
  <2>2. CASE x = z
    <3>1. /\ r.id = c.id /\ x[1] = <<c.id.from, c.id.to>> /\ x[2] = 0 /\ c.id.to = l[2]
          /\ r.type = "fetched" => c.kind = "subscribe"
      BY <1>1, <1>7, <1>9, <2>2 DEF Carries
    <3>2. c.kind \in Carrying => Kept(c.event, c.id.to)'
      BY <1>1, <3>1 DEF Carrying
    <3> QED
      BY <1>2, <1>7, <2>2, <3>1, <3>2 DEF Carries
  <2>3. CASE x # z
    BY <1>6, <1>9, <2>1, <2>3, CarrySame DEF KeptGrows
  <2> QED
    BY <2>2, <2>3
<1>10. \A x \in Places : (Item(x).id)' = Item(x).id
  BY <1>2, <1>6, <1>7
<1>11. \A x \in Places' : f[x] \in Places /\ (Item(x).id)' = Item(f[x]).id
  BY <1>5, <1>8, <1>10
<1>12. \A x, y \in Places' : f[x] = f[y] => x = y
  BY <1>8
<1>13. \A x \in Places' : \A c \in Waiting : Carries(f[x], c) => c \in Waiting' /\ Carries(x, c)'
  BY <1>5, <1>8, <1>9
<1>14. \A c \in Waiting' : \A y \in Places : Item(y).id = c.id => \E x \in Places' : f[x] = y
  BY <1>5, <1>8
<1>15. \A c \in Waiting' : c \in Waiting
  OBVIOUS
<1>16. Travel'
  BY <1>11, <1>12, <1>13, <1>14, <1>15, Moved
<1> QED
  BY <1>4, <1>16

\* The response goes out on the way back: Reply.
LEMMA ReplyTravels ==
    ASSUME Types, Travel, NEW m \in Nodes, NEW n \in Nodes, <<m, n>> \in Pairs, Reply(m, n),
           Waiting' = Waiting, KeptGrows
    PROVE  /\ Travel'
           /\ chan' \in [Pairs -> Seq(Requests \cup Responses)] /\ \A k \in Pairs : Len(chan'[k]) <= Capacity
           /\ recv' \in [Pairs -> Held \cup {None}]
<1> DEFINE l == <<m, n>>
           back == <<n, m>>
           w == <<l, 0>>
<1>1. l \in Pairs /\ back \in Pairs /\ l # back
  BY PairsFacts
<1>2. PICK r : r = recv[l]
  OBVIOUS
<1>3. PICK z : z = <<back, Len(chan[back]) + 1>>
  OBVIOUS
<1>4. /\ r # None /\ r.type = "response" /\ Room(back)
      /\ chan' = [chan EXCEPT ![back] = Append(@, r)] /\ recv' = [recv EXCEPT ![l] = None]
  BY <1>2 DEF Reply
<1>5. r \in Held /\ r \in Requests \cup Responses
  <2>1. r \in Held
    BY <1>1, <1>2, <1>4 DEF Types
  <2> QED
    BY <1>4, <2>1 DEF Held, Responses
<1>6. /\ chan \in [Pairs -> Seq(Requests \cup Responses)] /\ recv \in [Pairs -> Held \cup {None}]
      /\ \A k \in Pairs : Len(chan[k]) \in Nat /\ Len(chan[k]) <= Capacity
  BY DEF Types
<1> DEFINE f == [x \in Places' |-> IF x = z THEN w ELSE x]
<1>7. w[1] = l /\ w[2] = 0 /\ z[1] = back /\ z[2] = Len(chan[back]) + 1 /\ z[2] # 0 /\ z # w
      /\ z[2] \in Nat
  BY <1>1, <1>3, <1>6
<1> HIDE DEF l, back, w
<1>8. /\ recv'[l] = None /\ \A k \in Pairs \ {l} : recv'[k] = recv[k]
      /\ recv' \in [Pairs -> Held \cup {None}]
  BY <1>1, <1>4, <1>6
<1>9. /\ chan'[back] = Append(chan[back], r)
      /\ \A k \in Pairs \ {back} : chan'[k] = chan[k]
      /\ chan' \in [Pairs -> Seq(Requests \cup Responses)]
  BY <1>1, <1>4, <1>5, <1>6
<1>10. /\ Len(chan'[back]) = Len(chan[back]) + 1
       /\ \A i \in 1..Len(chan[back]) : chan'[back][i] = chan[back][i]
       /\ chan'[back][Len(chan[back]) + 1] = r
  BY <1>1, <1>5, <1>6, <1>9
<1>11. \A k \in Pairs : Len(chan'[k]) <= Capacity
  BY <1>1, <1>4, <1>6, <1>9, <1>10 DEF Room
<1>12. w \in Places /\ Item(w) = r
  BY <1>1, <1>2, <1>4, <1>7 DEF Places, Item, w
<1>13. Item(z)' = r /\ z \notin Places
  BY <1>6, <1>7, <1>10 DEF Item, Places
<1>14. ASSUME NEW x \in Places', x # z PROVE x \in Places /\ x # w /\ Item(x)' = Item(x)
  <2>1. x[1] \in Pairs /\ x[2] \in 0..Capacity /\ x \in Pairs \X (0..Capacity) /\ x = <<x[1], x[2]>>
    BY DEF Places
  <2>2. CASE x[2] = 0
    <3>1. recv'[x[1]] # None
      BY <2>2 DEF Places
    <3>2. x[1] # l
      BY <1>8, <3>1
    <3> QED
      BY <1>7, <1>8, <2>1, <2>2, <3>1, <3>2 DEF Places, Item
  <2>3. CASE x[2] # 0 /\ x[1] = back
    <3>1. x[2] <= Len(chan'[back])
      BY <2>3 DEF Places
    <3>2. x[2] # Len(chan[back]) + 1
      BY <1>3, <1>14, <2>1, <2>3
    <3>3. x[2] \in 1..Len(chan[back])
      BY <1>1, <1>6, <1>10, <2>1, <2>3, <3>1, <3>2
    <3> QED
      BY <1>7, <1>10, <2>1, <2>3, <3>3 DEF Places, Item
  <2>4. CASE x[2] # 0 /\ x[1] # back
    BY <1>7, <1>9, <2>1, <2>4 DEF Places, Item
  <2> QED
    BY <2>2, <2>3, <2>4
<1>15. ASSUME NEW y \in Places, y # w PROVE y \in Places'
  <2>1. y[1] \in Pairs /\ y[2] \in 0..Capacity /\ y \in Pairs \X (0..Capacity) /\ y = <<y[1], y[2]>>
    BY DEF Places
  <2>2. CASE y[2] = 0
    <3>1. y[1] # l
      BY <1>15, <2>1, <2>2 DEF w
    <3> QED
      BY <1>8, <2>1, <2>2, <3>1 DEF Places
  <2>3. CASE y[2] # 0 /\ y[1] = back
    BY <1>6, <1>10, <2>1, <2>3 DEF Places
  <2>4. CASE y[2] # 0 /\ y[1] # back
    BY <1>9, <2>1, <2>4 DEF Places
  <2> QED
    BY <2>2, <2>3, <2>4
<1>16. z \in Places'
  <2>1. z \in Pairs \X (0..Capacity)
    BY <1>1, <1>3, <1>4, <1>6 DEF Room
  <2> QED
    BY <1>6, <1>7, <1>10, <2>1, <1>1 DEF Places
<1>17. /\ z \in Places' => f[z] = w
       /\ \A x \in Places' : x # z => f[x] = x
  OBVIOUS
<1> HIDE DEF f
<1>18. ASSUME NEW x \in Places', NEW c \in Waiting, Carries(f[x], c) PROVE Carries(x, c)'
  <2>1. c.id.to \in Nodes
    BY DEF Waiting, Types, Calls, Ids
  <2>2. CASE x = z
    <3>1. /\ r.id = c.id /\ l = <<c.id.from, c.id.to>>
          /\ c.kind \in Carrying => Kept(c.event, c.id.to)
      BY <1>4, <1>7, <1>12, <1>16, <1>17, <1>18, <2>2 DEF Carries
    <3>2. back = <<c.id.to, c.id.from>>
      BY <3>1 DEF l, back
    <3>3. c.kind \in Carrying => Kept(c.event, c.id.to)'
      BY <2>1, <3>1 DEF KeptGrows
    <3> QED
      BY <1>4, <1>7, <1>13, <2>2, <3>1, <3>2, <3>3 DEF Carries
  <2>3. CASE x # z
    BY <1>14, <1>17, <1>18, <2>1, <2>3, CarrySame DEF KeptGrows
  <2> QED
    BY <2>2, <2>3
<1>19. \A x \in Places' : f[x] \in Places /\ (Item(x).id)' = Item(f[x]).id
  BY <1>12, <1>13, <1>14, <1>16, <1>17
<1>20. \A x, y \in Places' : f[x] = f[y] => x = y
  BY <1>14, <1>17
<1>21. \A x \in Places' : \A c \in Waiting : Carries(f[x], c) => c \in Waiting' /\ Carries(x, c)'
  BY <1>18
<1>22. \A c \in Waiting' : c \in Waiting
  OBVIOUS
<1>23. \A c \in Waiting' : \A y \in Places : Item(y).id = c.id => \E x \in Places' : f[x] = y
  <2> SUFFICES ASSUME NEW y \in Places PROVE \E x \in Places' : f[x] = y
    OBVIOUS
  <2>1. CASE y = w
    BY <1>16, <1>17, <2>1
  <2>2. CASE y # w
    BY <1>13, <1>15, <1>17, <2>2
  <2> QED
    BY <2>1, <2>2
<1>24. Travel'
  BY <1>19, <1>20, <1>21, <1>22, <1>23, Moved
<1> QED
  BY <1>8, <1>9, <1>11, <1>24

\* A connection goes away with what is in it: Disconnect.
LEMMA DropTravels ==
    ASSUME Types, Travel, NEW l \in Links,
           chan' = [k \in Pairs |-> IF Ends(l, k[1], k[2]) THEN <<>> ELSE chan[k]],
           recv' = [k \in Pairs |-> IF Ends(l, k[1], k[2]) THEN None ELSE recv[k]],
           Waiting' = {c \in Waiting : l # {c.id.from, c.id.to}}, KeptGrows
    PROVE  Travel'
<1> DEFINE f == [x \in Places' |-> x]
           On(k) == l = {k[1], k[2]}
<1>1. \A k \in Pairs : /\ On(k) => chan'[k] = <<>> /\ recv'[k] = None
                       /\ ~On(k) => chan'[k] = chan[k] /\ recv'[k] = recv[k]
  BY DEF Ends
<1>2. ASSUME NEW x \in Places' PROVE x \in Places /\ Item(x)' = Item(x) /\ ~On(x[1])
  <2>1. x[1] \in Pairs /\ x[2] \in 0..Capacity /\ x \in Pairs \X (0..Capacity)
        /\ IF x[2] = 0 THEN recv'[x[1]] # None ELSE x[2] <= Len(chan'[x[1]])
    BY DEF Places
  <2>2. ~On(x[1])
    <3> SUFFICES ASSUME On(x[1]) PROVE FALSE
      OBVIOUS
    <3>1. chan'[x[1]] = <<>> /\ recv'[x[1]] = None /\ Len(<<>>) = 0
      BY <1>1, <2>1
    <3> QED
      BY <2>1, <3>1
  <2>3. chan'[x[1]] = chan[x[1]] /\ recv'[x[1]] = recv[x[1]]
    BY <1>1, <2>1, <2>2
  <2> QED
    BY <2>1, <2>2, <2>3 DEF Places, Item
<1>3. ASSUME NEW y \in Places, ~On(y[1]) PROVE y \in Places'
  <2>1. y[1] \in Pairs
    BY DEF Places
  <2>2. chan'[y[1]] = chan[y[1]] /\ recv'[y[1]] = recv[y[1]]
    BY <1>1, <1>3, <2>1
  <2> QED
    BY <2>2 DEF Places
<1>4. ASSUME NEW x \in Places, NEW c \in Waiting, Carries(x, c)
      PROVE  {x[1][1], x[1][2]} = {c.id.from, c.id.to}
  BY <1>4 DEF Carries
<1>5. \A x \in Places' : f[x] = x
  OBVIOUS
<1> HIDE DEF f
<1>6. ASSUME NEW x \in Places', NEW c \in Waiting, Carries(f[x], c) PROVE c \in Waiting' /\ Carries(x, c)'
  <2>1. c.id.to \in Nodes
    BY DEF Waiting, Types, Calls, Ids
  <2>2. l # {c.id.from, c.id.to}
    BY <1>2, <1>4, <1>5, <1>6
  <2> QED
    BY <1>2, <1>5, <1>6, <2>1, <2>2, CarrySame DEF KeptGrows
<1>7. \A x \in Places' : f[x] \in Places /\ (Item(x).id)' = Item(f[x]).id
  BY <1>2, <1>5
<1>8. \A x, y \in Places' : f[x] = f[y] => x = y
  BY <1>5
<1>9. \A x \in Places' : \A c \in Waiting : Carries(f[x], c) => c \in Waiting' /\ Carries(x, c)'
  BY <1>6
<1>10. \A c \in Waiting' : c \in Waiting
  OBVIOUS
<1>11. \A c \in Waiting' : \A y \in Places : Item(y).id = c.id => \E x \in Places' : f[x] = y
  <2> SUFFICES ASSUME NEW c \in Waiting', NEW y \in Places, Item(y).id = c.id PROVE y \in Places'
    BY <1>5
  <2>1. PICK b \in Waiting : Carries(y, b)
    BY DEF Travel
  <2>2. {y[1][1], y[1][2]} = {c.id.from, c.id.to}
    BY <1>4, <2>1 DEF Carries
  <2> QED
    BY <1>3, <2>2
<1> QED
  BY <1>7, <1>8, <1>9, <1>10, <1>11, Moved

-----------------------------------------------------------------------------
(* Calls *)

\* A handler starts calls of n, all with the next number.
LEMMA CallsAdd ==
    ASSUME Types, CallsInv, NEW n \in Nodes, NEW new,
           \A c \in new : /\ c \in Calls /\ c.id.from = n /\ c.id.seq = next[n]
                          /\ c.st = "started" \/ (c.st = "stored" /\ c.kind \notin Carrying)
                          /\ c.kind \in Carrying => c.event \in Events
                          /\ c.kind \notin Carrying => n \in Asking[c.kind],
           \A c, d \in new : c.id = d.id => c = d,
           calls' = calls \cup new, next' = [next EXCEPT ![n] = @ + 1],
           unsent' = unsent, conn' = conn
    PROVE  /\ CallsInv' /\ calls' \in SUBSET Calls /\ next' \in [Nodes -> Nat] /\ CallsOld
           /\ Waiting' = Waiting /\ \A id : Outstanding(id)' <=> Outstanding(id)
<1>1. /\ \A m \in Nodes : next[m] \in Nat /\ next[m] >= 1
      /\ next'[n] = next[n] + 1 /\ \A m \in Nodes \ {n} : next'[m] = next[m]
      /\ next' \in [Nodes -> Nat]
  BY DEF Types, CallsInv
<1>2. /\ calls' \in SUBSET Calls
      /\ \A c \in calls' : c.id.from \in Nodes /\ c.id.seq \in Nat /\ c.id \in Ids
  BY DEF Types, Calls, Ids
<1>3. \A id \in unsent : id.from \in Nodes /\ id.seq \in Nat /\ id.seq < next[id.from]
  BY DEF Types, CallsInv, Ids
<1>4. \A c \in calls : c.id.seq < next[c.id.from] /\ CallFine(c)
  BY DEF CallsInv, CallFine
<1>5. \A m \in Nodes : \A k \in Nat : k < next[m] => k < next'[m]
  BY <1>1
<1>6. ASSUME NEW c \in calls PROVE CallFine(c)'
  <2>1. \A d \in new : d.id # c.id
    BY <1>1, <1>4, <1>2
  <2>2. c.id.seq < next'[c.id.from]
    BY <1>2, <1>4, <1>5
  <2> QED
    BY <1>4, <2>1, <2>2 DEF CallFine
<1>7. ASSUME NEW c \in new PROVE CallFine(c)'
  <2>1. \A d \in calls : d.id # c.id
    BY <1>1, <1>4, <1>2
  <2>2. c.id \notin unsent
    BY <1>1, <1>3
  <2>3. 1 <= c.id.seq /\ c.id.seq < next'[c.id.from]
    BY <1>1
  <2>4. \A d \in calls' : d.id = c.id => d = c
    BY <2>1
  <2> QED
    BY <2>2, <2>3, <2>4 DEF CallFine
<1>8. CallsInv'
  <2>1. \A id \in unsent' : id.seq < next'[id.from]
    BY <1>3, <1>5
  <2>2. \A m \in Nodes : next'[m] >= 1
    BY <1>1
  <2>3. \A c \in calls' : CallFine(c)'
    BY <1>6, <1>7
  <2> QED
    BY <2>1, <2>2, <2>3 DEF CallsInv
<1>9. Waiting' = Waiting
  BY DEF Waiting
<1>10. \A id : Outstanding(id)' <=> Outstanding(id)
  BY DEF Outstanding
<1>11. CallsOld
  BY <1>1 DEF CallsOld
<1> QED
  BY <1>1, <1>2, <1>8, <1>9, <1>10, <1>11

\* What d is when c goes on as d
Follows(d, c) ==
    /\ d \in Calls /\ d.id = c.id /\ d.kind = c.kind /\ d.event = c.event
    /\ d.st \in {"answered", "stored", "read"} => d.kind \notin Carrying
    /\ d.st \in {"sending", "waiting"} => {d.id.from, d.id.to} \in conn
    /\ d.st = "orphaned" => {d.id.from, d.id.to} \in Links

\* A step of one call: it goes on, or ends.
LEMMA CallGoesOn ==
    ASSUME Types, CallsInv, NEW c \in calls, NEW d, Follows(d, c), calls' = (calls \ {c}) \cup {d},
           next' = next, conn' = conn, unsent' = unsent
    PROVE  /\ CallsInv' /\ calls' \in SUBSET Calls /\ CallsOld
           /\ Waiting' = (Waiting \ {c}) \cup IF d.st = "waiting" THEN {d} ELSE {}
           /\ \A id : id # c.id => (Outstanding(id)' <=> Outstanding(id))
           /\ Outstanding(c.id)' <=> d.st \in {"sending", "waiting", "orphaned"}
           /\ Outstanding(c.id) <=> c.st \in {"sending", "waiting", "orphaned"}
<1>1. /\ \A b \in calls : CallFine(b) /\ b.id \in Ids
      /\ \A b \in calls : b.id = c.id => b = c
  BY DEF CallsInv, CallFine, Types, Calls
<1>2. calls' \in SUBSET Calls /\ d.id = c.id
  BY <1>1 DEF Types, Follows
<1>3. ASSUME NEW b \in calls, b # c PROVE CallFine(b)'
  <2>1. b.id # c.id
    BY <1>1, <1>3
  <2>2. \A a \in calls' : a.id = b.id => a = b
    BY <1>1, <1>2, <2>1 DEF CallFine
  <2> QED
    BY <1>1, <2>1, <2>2 DEF CallFine
<1>4. CallFine(d)'
  <2>1. \A b \in calls' : b.id = d.id => b = d
    BY <1>1, <1>2
  <2> QED
    BY <1>1, <2>1 DEF CallFine, Follows
<1>5. CallsInv'
  <2>1. \A b \in calls' : CallFine(b)'
    BY <1>3, <1>4
  <2> QED
    BY <2>1 DEF CallsInv
<1>6. Waiting' = (Waiting \ {c}) \cup IF d.st = "waiting" THEN {d} ELSE {}
  BY DEF Waiting
<1>7. \A id : id # c.id => (Outstanding(id)' <=> Outstanding(id))
  BY <1>2 DEF Outstanding
<1>8. Outstanding(c.id)' <=> d.st \in {"sending", "waiting", "orphaned"}
  BY <1>1, <1>2 DEF Outstanding
<1>9. Outstanding(c.id) <=> c.st \in {"sending", "waiting", "orphaned"}
  BY <1>1 DEF Outstanding
<1>10. CallsOld
  BY DEF CallsOld, Follows
<1> QED
  BY <1>2, <1>5, <1>6, <1>7, <1>8, <1>9, <1>10

LEMMA CallEnds ==
    ASSUME Types, CallsInv, NEW c \in calls, calls' = calls \ {c}, next' = next, conn' = conn,
           unsent' = unsent \/ unsent' = unsent \cup {c.id}
    PROVE  /\ CallsInv' /\ calls' \in SUBSET Calls /\ unsent' \in SUBSET Ids /\ CallsOld
           /\ Waiting' = Waiting \ {c}
           /\ \A id : id # c.id => (Outstanding(id)' <=> Outstanding(id))
           /\ ~Outstanding(c.id)'
           /\ Outstanding(c.id) <=> c.st \in {"sending", "waiting", "orphaned"}
<1>1. /\ \A b \in calls : CallFine(b) /\ b.id \in Ids
      /\ \A b \in calls : b.id = c.id => b = c
  BY DEF CallsInv, CallFine, Types, Calls
<1>2. calls' \in SUBSET Calls /\ unsent' \in SUBSET Ids
  BY <1>1 DEF Types
<1>3. ASSUME NEW b \in calls, b # c PROVE CallFine(b)'
  <2>1. b.id # c.id
    BY <1>1, <1>3
  <2> QED
    BY <1>1, <2>1 DEF CallFine
<1>4. CallsInv'
  <2>1. \A id \in unsent' : id.seq < next'[id.from]
    BY <1>1 DEF CallsInv, CallFine
  <2>2. \A b \in calls' : CallFine(b)'
    BY <1>3
  <2> QED
    BY <2>1, <2>2 DEF CallsInv
<1>5. Waiting' = Waiting \ {c}
  BY DEF Waiting
<1>6. \A id : id # c.id => (Outstanding(id)' <=> Outstanding(id))
  BY DEF Outstanding
<1>7. ~Outstanding(c.id)'
  BY <1>1 DEF Outstanding
<1>8. Outstanding(c.id) <=> c.st \in {"sending", "waiting", "orphaned"}
  BY <1>1 DEF Outstanding
<1>9. CallsOld
  BY DEF CallsOld
<1> QED
  BY <1>2, <1>4, <1>5, <1>6, <1>7, <1>8, <1>9

LEMMA CallsSame ==
    ASSUME CallsInv, calls' = calls, next' = next, unsent' = unsent, conn \subseteq conn'
    PROVE  CallsInv' /\ Waiting' = Waiting /\ (\A id : Outstanding(id)' <=> Outstanding(id)) /\ CallsOld
<1>1. \A c \in calls : CallFine(c)'
  BY DEF CallsInv, CallFine
<1> QED
  BY <1>1 DEF CallsInv, Waiting, Outstanding, CallsOld

LEMMA PendingSame ==
    ASSUME PendingInv, pending' = pending, unsent' = unsent, \A id : Outstanding(id)' <=> Outstanding(id)
    PROVE  PendingInv'
BY DEF PendingInv

-----------------------------------------------------------------------------
(* Data *)

\* set_state keeps what it overwrites in lost.
LEMMA StoreStateKeeps ==
    ASSUME Types, NEW n \in Nodes, NEW s \in States, StoreState(n, s)
    PROVE  /\ KeptGrows /\ store' \in [Nodes -> States] /\ lost' \in [Nodes -> SUBSET Events]
           /\ store'[n] = s /\ lost'[n] = lost[n] \cup (store[n].events \ s.events)
           /\ \A m \in Nodes \ {n} : store'[m] = store[m] /\ lost'[m] = lost[m]
           /\ \A e \in s.events : Kept(e, n)'
<1>1. /\ store \in [Nodes -> States] /\ lost \in [Nodes -> SUBSET Events]
      /\ \A m \in Nodes : store[m].events \subseteq Events
  BY DEF Types, States
<1>2. /\ store' \in [Nodes -> States] /\ store'[n] = s
      /\ \A m \in Nodes \ {n} : store'[m] = store[m]
  BY <1>1 DEF StoreState
<1>3. /\ lost' \in [Nodes -> SUBSET Events] /\ lost'[n] = lost[n] \cup (store[n].events \ s.events)
      /\ \A m \in Nodes \ {n} : lost'[m] = lost[m]
  BY <1>1 DEF StoreState
<1>4. KeptGrows
  <2> SUFFICES ASSUME NEW m \in Nodes, NEW e, Kept(e, m) PROVE Kept(e, m)'
    BY DEF KeptGrows
  <2>1. CASE m = n
    BY <1>2, <1>3, <2>1 DEF Kept
  <2>2. CASE m # n
    BY <1>2, <1>3, <2>2 DEF Kept
  <2> QED
    BY <2>1, <2>2
<1>5. \A e \in s.events : Kept(e, n)'
  BY <1>2 DEF Kept
<1> QED
  BY <1>2, <1>3, <1>4, <1>5

\* A commit of e at n stores s and sends what it has to, with the requests of commit_events in new.
LEMMA SetStep ==
    ASSUME Types, CallsInv, LinksInv, DataInv, NEW n \in Nodes, NEW e \in Events, NEW new,
           new \subseteq {Call(n, p, 0, "commit", e) : p \in Nodes},
           NEW s \in States, e \in s.events, StoreState(n, s), NEW changed \in BOOLEAN,
           calls' = calls \cup new \cup IF changed THEN Forwards(n, e) ELSE {},
           next' = [next EXCEPT ![n] = @ + 1],
           owed' = [p \in Nodes |-> IF changed /\ p \in {t[1] : t \in subs[n]}
                                    THEN owed[p] \cup {e} ELSE owed[p]],
           conn' = conn, subs' = subs, unsent' = unsent, acked' = acked
    PROVE  /\ CallsInv' /\ calls' \in SUBSET Calls /\ next' \in [Nodes -> Nat] /\ CallsOld
           /\ Waiting' = Waiting /\ \A id : Outstanding(id)' <=> Outstanding(id)
           /\ KeptGrows /\ Kept(e, n)'
           /\ store' \in [Nodes -> States] /\ lost' \in [Nodes -> SUBSET Events]
           /\ owed' \in [Nodes -> SUBSET Events]
           /\ DataInv'
<1> DEFINE fwd == IF changed THEN Forwards(n, e) ELSE {}
<1>4. calls' = calls \cup (new \cup fwd)
  OBVIOUS
<1>5. ASSUME NEW p \in Nodes
      PROVE owed'[p] = IF changed /\ p \in {t[1] : t \in subs[n]} THEN owed[p] \cup {e} ELSE owed[p]
  OBVIOUS
<1>6. /\ KeptGrows /\ store' \in [Nodes -> States] /\ lost' \in [Nodes -> SUBSET Events]
      /\ Kept(e, n)'
  BY StoreStateKeeps
<1>8. owed' \in [Nodes -> SUBSET Events]
  BY DEF Types
<1>9. ASSUME NEW t \in subs[n]
      PROVE  LET c == Call(n, t[1], t[2], "forward", e) IN
             /\ t[1] \in Nodes /\ t[2] \in Nat /\ t = <<t[1], t[2]>> /\ t[2] >= 1 /\ {n, t[1]} \in conn
             /\ c \in Calls /\ c.id.from = n /\ c.id.to = t[1] /\ c.id.via = t[2] /\ c.id.seq = next[n]
             /\ c.kind = "forward" /\ c.event = e /\ c.st = "started"
  <2>1. t \in Nodes \X Nat /\ t[2] >= 1 /\ {n, t[1]} \in conn
    BY DEF Types, LinksInv
  <2>2. t[1] \in Nodes /\ t[2] \in Nat /\ t = <<t[1], t[2]>>
    BY <2>1
  <2>3. "forward" \in Kinds /\ e \in Events \cup {None}
    BY DEF Kinds
  <2> QED
    BY <2>1, <2>2, <2>3, CallMade
<1>10. ASSUME NEW p \in Nodes
       PROVE  LET c == Call(n, p, 0, "commit", e) IN
              /\ c \in Calls /\ c.id.from = n /\ c.id.to = p /\ c.id.via = 0 /\ c.id.seq = next[n]
              /\ c.kind = "commit" /\ c.event = e /\ c.st = "started"
  <2>1. 0 \in Nat /\ "commit" \in Kinds /\ e \in Events \cup {None}
    BY DEF Kinds
  <2> QED
    BY <2>1, CallMade
<1>11. \A c \in new : \E p \in Nodes :
          /\ c = Call(n, p, 0, "commit", e) /\ c.id.to = p /\ c.id.via = 0
          /\ c \in Calls /\ c.id.from = n /\ c.id.seq = next[n] /\ c.st = "started"
          /\ c.kind = "commit" /\ c.event = e
  <2> SUFFICES ASSUME NEW c \in new
               PROVE  \E p \in Nodes :
          /\ c = Call(n, p, 0, "commit", e) /\ c.id.to = p /\ c.id.via = 0
          /\ c \in Calls /\ c.id.from = n /\ c.id.seq = next[n] /\ c.st = "started"
          /\ c.kind = "commit" /\ c.event = e
    OBVIOUS
  <2>1. PICK p \in Nodes : c = Call(n, p, 0, "commit", e)
    OBVIOUS
  <2> QED
    BY <1>10, <2>1
<1>12. \A c \in fwd : \E t \in subs[n] :
          /\ c = Call(n, t[1], t[2], "forward", e) /\ c.id.to = t[1] /\ c.id.via = t[2] /\ t[2] >= 1
          /\ c \in Calls /\ c.id.from = n /\ c.id.seq = next[n] /\ c.st = "started"
          /\ c.kind = "forward" /\ c.event = e
  <2> SUFFICES ASSUME NEW c \in fwd
               PROVE  \E t \in subs[n] :
          /\ c = Call(n, t[1], t[2], "forward", e) /\ c.id.to = t[1] /\ c.id.via = t[2] /\ t[2] >= 1
          /\ c \in Calls /\ c.id.from = n /\ c.id.seq = next[n] /\ c.st = "started"
          /\ c.kind = "forward" /\ c.event = e
    OBVIOUS
  <2>1. PICK t \in subs[n] : c = Call(n, t[1], t[2], "forward", e)
    BY DEF Forwards
  <2> QED
    BY <1>9, <2>1
<1>13. PICK add : add = new \cup fwd
  OBVIOUS
<1>14. calls' = calls \cup add
  BY <1>4, <1>13
<1> HIDE DEF fwd
<1>15. \A c \in add : /\ c \in Calls /\ c.id.from = n /\ c.id.seq = next[n] /\ c.st = "started"
                      /\ c.kind \in Carrying /\ c.event \in Events
  BY <1>11, <1>12, <1>13 DEF Carrying
<1>16. ASSUME NEW c \in add, NEW d \in add, c.id = d.id PROVE c = d
  <2>1. CASE c \in new /\ d \in new
    BY <1>11, <1>16, <2>1
  <2>2. CASE c \in fwd /\ d \in fwd
    BY <1>12, <1>16, <2>2
  <2>3. ASSUME NEW a \in new, NEW b \in fwd PROVE a.id # b.id
    <3>1. a.id.via = 0
      BY <1>11
    <3>2. b.id.via >= 1
      BY <1>12
    <3> QED
      BY <3>1, <3>2
  <2> QED
    BY <1>13, <1>16, <2>1, <2>2, <2>3
<1>17. /\ CallsInv' /\ calls' \in SUBSET Calls /\ next' \in [Nodes -> Nat] /\ CallsOld
       /\ Waiting' = Waiting /\ \A id : Outstanding(id)' <=> Outstanding(id)
  <2>1. \A c \in add : /\ c \in Calls /\ c.id.from = n /\ c.id.seq = next[n]
                       /\ c.st = "started" \/ (c.st = "stored" /\ c.kind \notin Carrying)
                       /\ c.kind \in Carrying => c.event \in Events
                       /\ c.kind \notin Carrying => n \in Asking[c.kind]
    BY <1>15
  <2>2. \A c, d \in add : c.id = d.id => c = d
    BY <1>16
  <2> QED
    BY <1>14, <2>1, <2>2, CallsAdd
<1>19. \A a \in acked' : Kept(a[1], a[2])'
  <2>1. \A a \in acked : a[2] \in Nodes /\ Kept(a[1], a[2])
    BY DEF Types, DataInv
  <2> QED
    BY <1>6, <2>1 DEF KeptGrows
<1>20. ASSUME NEW m \in Nodes, NEW b \in owed'[m] PROVE Kept(b, m)' \/ Coming(b, m)'
  <2>1. CASE b \in owed[m]
    <3>1. Kept(b, m) => Kept(b, m)'
      BY <1>6 DEF KeptGrows
    <3>2. Coming(b, m) => Coming(b, m)'
      BY <1>14 DEF Coming
    <3> QED
      BY <2>1, <3>1, <3>2 DEF DataInv
  <2>2. CASE b \notin owed[m]
    <3>1. changed /\ b = e /\ m \in {t[1] : t \in subs[n]}
      BY <1>5, <1>20, <2>2
    <3>2. PICK t \in subs[n] : m = t[1]
      BY <3>1
    <3>3. PICK c : c = Call(n, t[1], t[2], "forward", e)
      OBVIOUS
    <3>4. c \in calls'
      BY <1>13, <1>14, <3>1, <3>3 DEF fwd, Forwards
    <3>5. c.kind = "forward" /\ c.event = b /\ c.id.to = m /\ c.st = "started" /\ {c.id.from, m} \in conn'
      BY <1>9, <3>1, <3>2, <3>3
    <3> QED
      BY <3>4, <3>5 DEF Coming
  <2> QED
    BY <2>1, <2>2
<1>21. DataInv'
  BY <1>19, <1>20 DEF DataInv
<1> QED
  BY <1>6, <1>8, <1>17, <1>21

LEMMA DataSame ==
    ASSUME DataInv, store' = store, lost' = lost, acked' = acked, owed' = owed,
           \A n \in Nodes : \A e : Coming(e, n) => Coming(e, n)' \/ Kept(e, n)
    PROVE  DataInv' /\ KeptGrows
<1>1. \A e, n : Kept(e, n)' <=> Kept(e, n)
  BY DEF Kept
<1>2. \A a \in acked' : Kept(a[1], a[2])'
  BY <1>1 DEF DataInv
<1>3. \A n \in Nodes : \A e \in owed'[n] : Kept(e, n)' \/ Coming(e, n)'
  BY <1>1 DEF DataInv
<1> QED
  BY <1>1, <1>2, <1>3 DEF DataInv, KeptGrows

LEMMA ApartSame ==
    ASSUME ApartInv, store' = store, mem' = mem, apart' = apart, commits' = commits
    PROVE  ApartInv'
BY DEF ApartInv

LEMMA LinksSame ==
    ASSUME LinksInv, chan' = chan, recv' = recv, subs' = subs, conn \subseteq conn'
    PROVE  LinksInv'
BY DEF LinksInv

LEMMA ApartMem ==
    ASSUME Types, ApartInv, store' = store, apart' = apart, commits' = commits,
           \A m \in Nodes \ Askers : mem'[m] = mem[m] \/ mem'[m] = None
    PROVE  ApartInv'
<1>1. \A r \in commits : r.at \in Nodes
  BY DEF Types, CommitCalls
<1> QED
  BY <1>1 DEF ApartInv

-----------------------------------------------------------------------------
(* Commits *)

\* What a receiver task is at has the number of a call.
LEMMA HeldOld ==
    ASSUME Types, CallsInv, Travel, NEW l \in Pairs, recv[l] # None
    PROVE  recv[l].id.seq < next[recv[l].id.from]
<1>1. <<l, 0>> \in Places /\ Item(<<l, 0>>) = recv[l]
  BY DEF Places, Item
<1>2. PICK c \in Waiting : Carries(<<l, 0>>, c)
  BY <1>1 DEF Travel
<1>3. c.id = recv[l].id /\ c \in calls
  BY <1>1, <1>2 DEF Carries, Waiting
<1> QED
  BY <1>3 DEF CallsInv, CallFine

\* The request that a receiver task is at stays that of the same event.
LEMMA EventSame ==
    ASSUME Types, CallsInv, Travel, CallsOld, NEW l \in Pairs, recv[l] # None, NEW e,
           \A c \in calls : c.id = recv[l].id => c.event = e
    PROVE  \A c \in calls' : c.id = recv[l].id => c.event = e
<1> SUFFICES ASSUME NEW c \in calls', c.id = recv[l].id PROVE c.event = e
  OBVIOUS
<1>1. c.id.seq < next[c.id.from]
  BY HeldOld, Zenon
<1>2. PICK b \in calls : b.id = c.id /\ b.event = c.event
  BY <1>1 DEF CallsOld
<1> QED
  BY <1>2

\* The commits go on as f says, and those of receiver tasks keep what they are at.
LEMMA ViaMoved ==
    ASSUME Types, CallsInv, Travel, ViaInv, CallsOld, NEW f,
           \A r \in commits' :
                /\ f[r] \in commits /\ f[r].via = r.via /\ f[r].at = r.at /\ f[r].event = r.event
                /\ r.step \in {"set", "aborted"} => r.event \in r.state.events
                /\ r.step # "aborted" => f[r].step # "aborted"
                /\ r.via # None /\ r.step # "aborted" => recv'[r.via] = recv[r.via],
           \A q, r \in commits' : f[q] = f[r] => q = r
    PROVE  ViaInv'
<1> SUFFICES ASSUME NEW r \in commits' PROVE CommitFine(r)'
  BY DEF ViaInv
<1>1. CommitFine(f[r]) /\ f[r] \in commits
  BY DEF ViaInv
<1>2. r.via # None => r.via[2] = r.at
  BY <1>1 DEF CommitFine
<1>3. ASSUME r.via # None, r.step # "aborted"
      PROVE  /\ recv'[r.via] # None /\ recv'[r.via].type = "committing"
             /\ \A c \in calls' : c.id = recv'[r.via].id => c.event = r.event
             /\ \A q \in commits' : q.via = r.via /\ q.step # "aborted" => q = r
  <2>1. /\ recv[r.via] # None /\ recv[r.via].type = "committing"
        /\ \A c \in calls : c.id = recv[r.via].id => c.event = r.event
        /\ \A q \in commits : q.via = r.via /\ q.step # "aborted" => q = f[r]
    BY <1>1, <1>3 DEF CommitFine
  <2>2. r.via \in Pairs
    BY <1>1, <1>3 DEF Types, CommitCalls
  <2>3. \A c \in calls' : c.id = recv[r.via].id => c.event = r.event
    BY <2>1, <2>2, EventSame
  <2>4. ASSUME NEW q \in commits', q.via = r.via, q.step # "aborted" PROVE q = r
    <3>1. f[q] \in commits /\ f[q].via = r.via /\ f[q].step # "aborted"
      BY <2>4
    <3> QED
      BY <2>1, <3>1
  <2> QED
    BY <1>3, <2>1, <2>3, <2>4
<1> QED
  BY <1>2, <1>3 DEF CommitFine

LEMMA ViaSame ==
    ASSUME Types, CallsInv, Travel, ViaInv, CallsOld, commits' \subseteq commits,
           \A r \in commits' : r.via # None /\ r.step # "aborted" => recv'[r.via] = recv[r.via]
    PROVE  ViaInv'
<1> DEFINE f == [r \in commits' |-> r]
<1>1. \A r \in commits' : f[r] = r
  OBVIOUS
<1> HIDE DEF f
<1>2. \A r \in commits' :
                /\ f[r] \in commits /\ f[r].via = r.via /\ f[r].at = r.at /\ f[r].event = r.event
                /\ r.step \in {"set", "aborted"} => r.event \in r.state.events
                /\ r.step # "aborted" => f[r].step # "aborted"
                /\ r.via # None /\ r.step # "aborted" => recv'[r.via] = recv[r.via]
  BY <1>1 DEF ViaInv, CommitFine
<1>3. \A q, r \in commits' : f[q] = f[r] => q = r
  BY <1>1
<1> QED
  BY <1>2, <1>3, ViaMoved

\* A receiver task that is at no commit goes on.
LEMMA ViaTaken ==
    ASSUME Types, CallsInv, Travel, ViaInv, CallsOld, commits' = commits, NEW l,
           recv[l] # None => recv[l].type # "committing", \A k \in Pairs \ {l} : recv'[k] = recv[k]
    PROVE  ViaInv'
<1>1. ASSUME NEW r \in commits, r.via # None, r.step # "aborted" PROVE recv'[r.via] = recv[r.via]
  <2>1. r.via \in Pairs /\ r.via # l
    BY <1>1 DEF Types, CommitCalls, ViaInv, CommitFine
  <2> QED
    BY <2>1
<1> QED
  BY <1>1, ViaSame

LEMMA AppliedTypes ==
    ASSUME NEW t \in States, NEW e \in Events
    PROVE  /\ Applied(t, e) \in States /\ Applied(t, e) # None
           /\ Applied(t, e).events = t.events \cup {e}
BY NoneFacts DEF Applied, States

LEMMA AssertedTypes ==
    ASSUME Types, NEW n \in Nodes, NEW t \in States
    PROVE  /\ Asserted(n, t) \in States
           /\ Asserted(n, t).events = t.events \/ (mem[n] # None /\ Asserted(n, t).events = mem[n].events)
<1>1. CASE mem[n] = None
  BY <1>1 DEF Asserted
<1>2. CASE mem[n] # None
  <2>1. mem[n] \in States
    BY <1>2 DEF Types
  <2>2. [mem[n] EXCEPT !.head = None] \in States
        /\ [mem[n] EXCEPT !.head = None].events = mem[n].events
    BY <2>1 DEF States
  <2> QED
    BY <1>2, <2>2 DEF Asserted
<1> QED
  BY <1>1, <1>2

\* A commit goes on to the next of its steps.
LEMMA GoOnStep ==
    ASSUME Types, CallsInv, Travel, ViaInv, CallsOld, NEW r \in commits, r.step # "aborted",
           NEW step \in {"loaded", "set"}, NEW t \in States,
           step = "set" => r.event \in t.events, GoOn(r, step, t), recv' = recv
    PROVE  /\ ViaInv' /\ commits' \in SUBSET CommitCalls
           /\ \E q \in commits' : /\ q.at = r.at /\ q.event = r.event /\ q.alone = r.alone
                                  /\ q.step = step /\ q.state = t
                                  /\ commits' = (commits \ {r}) \cup {q}
<1>1. r \in CommitCalls
  BY DEF Types
<1>2. PICK w : w = [r EXCEPT !.step = step]
  OBVIOUS
<1>3. /\ w \in CommitCalls /\ w.at = r.at /\ w.event = r.event /\ w.via = r.via
      /\ w.step = step /\ w.alone = r.alone
  BY <1>1, <1>2 DEF CommitCalls
<1>4. PICK q : q = [w EXCEPT !.state = t]
  OBVIOUS
<1>5. /\ q \in CommitCalls /\ q.at = r.at /\ q.event = r.event /\ q.via = r.via
      /\ q.step = step /\ q.alone = r.alone /\ q.state = t
  BY <1>3, <1>4 DEF CommitCalls
<1>6. commits' = (commits \ {r}) \cup {q}
  BY <1>2, <1>4 DEF GoOn
<1>7. commits' \in SUBSET CommitCalls
  BY <1>5, <1>6 DEF Types
<1>8. ViaInv'
  <2>1. CASE q \in commits /\ q # r
    <3>1. \A o \in commits' : o \in commits
      BY <1>6, <2>1
    <3> QED
      BY <3>1, ViaSame
  <2>2. CASE ~(q \in commits /\ q # r)
    <3> DEFINE f == [o \in commits' |-> IF o = q THEN r ELSE o]
    <3>1. f[q] = r /\ \A o \in commits' : o # q => f[o] = o /\ o \in commits /\ o # r
      BY <1>6
    <3> HIDE DEF f
    <3>2. ASSUME NEW o \in commits'
          PROVE  /\ f[o] \in commits /\ f[o].via = o.via /\ f[o].at = o.at /\ f[o].event = o.event
                 /\ o.step \in {"set", "aborted"} => o.event \in o.state.events
                 /\ o.step # "aborted" => f[o].step # "aborted"
                 /\ o.via # None /\ o.step # "aborted" => recv'[o.via] = recv[o.via]
      <4>1. CASE o = q
        BY <1>5, <3>1, <4>1
      <4>2. CASE o # q
        BY <3>1, <4>2 DEF ViaInv, CommitFine
      <4> QED
        BY <4>1, <4>2
    <3>3. \A o, k \in commits' : f[o] = f[k] => o = k
      BY <3>1
    <3> QED
      BY <3>2, <3>3, ViaMoved
  <2> QED
    BY <2>1, <2>2
<1> QED
  BY <1>5, <1>6, <1>7, <1>8

\* commit_events_local starts.
LEMMA BeginStep ==
    ASSUME Types, ApartInv, NEW n \in Nodes, NEW e \in Events, NEW via \in Pairs \cup {None},
           Begin(n, e, via), store' = store, apart' = apart
    PROVE  \E r \in CommitCalls :
              /\ r.at = n /\ r.event = e /\ r.via = via /\ r.step \in {"load", "set"}
              /\ r.step = "set" => e \in r.state.events
              /\ commits' = Overlapped(n) \cup {r} /\ commits' \in SUBSET CommitCalls
              /\ mem' \in [Nodes -> States \cup {None}] /\ ApartInv'
<1> DEFINE new(step, state) == [at |-> n, event |-> e, via |-> via, step |-> step, state |-> state,
                                alone |-> Running(n) = {}]
<1>1. PICK r : /\ r.at = n /\ r.event = e /\ r.via = via /\ r \in CommitCalls
               /\ r.alone = (Running(n) = {})
               /\ commits' = Overlapped(n) \cup {r}
               /\ \/ mem[n] = None /\ r.step = "load" /\ mem' = mem
                  \/ /\ mem[n] # None /\ r.step = "set" /\ r.state = Applied(mem[n], e)
                     /\ mem' = [mem EXCEPT ![n] = Applied(mem[n], e)]
  <2>1. CASE mem[n] = None
    <3>1. commits' = Overlapped(n) \cup {new("load", NoState)} /\ mem' = mem
      BY <2>1 DEF Begin
    <3>2. new("load", NoState) \in CommitCalls
      BY NoneFacts DEF CommitCalls
    <3> QED
      BY <2>1, <3>1, <3>2
  <2>2. CASE mem[n] # None
    <3>1. /\ commits' = Overlapped(n) \cup {new("set", Applied(mem[n], e))}
          /\ mem' = [mem EXCEPT ![n] = Applied(mem[n], e)]
      BY <2>2 DEF Begin, Types
    <3>2. Applied(mem[n], e) \in States
      BY <2>2, AppliedTypes DEF Types
    <3>3. new("set", Applied(mem[n], e)) \in CommitCalls
      BY <3>2 DEF CommitCalls
    <3> QED
      BY <2>2, <3>1, <3>3
  <2> QED
    BY <2>1, <2>2
<1>2. ASSUME NEW q \in Overlapped(n)
      PROVE  /\ q \in CommitCalls
             /\ \E p \in commits : /\ q.at = p.at /\ q.step = p.step /\ q.state = p.state
                                   /\ q.event = p.event
                                   /\ q.alone => (p.alone /\ q.at # n /\ q = p)
  <2>1. PICK p \in commits : q = IF p.at = n THEN [p EXCEPT !.alone = FALSE] ELSE p
    BY DEF Overlapped
  <2>2. p \in CommitCalls
    BY DEF Types
  <2>3. CASE p.at = n
    BY <2>1, <2>2, <2>3 DEF CommitCalls
  <2>4. CASE p.at # n
    BY <2>1, <2>2, <2>4
  <2> QED
    BY <2>3, <2>4
<1>3. r.step = "set" => e \in r.state.events
  BY <1>1, AppliedTypes DEF Types
<1>4. /\ mem' \in [Nodes -> States \cup {None}] /\ \A m \in Nodes \ {n} : mem'[m] = mem[m]
      /\ mem[n] # None => mem'[n] = r.state /\ r.state.events = mem[n].events \cup {e}
  <2>1. CASE mem[n] = None
    BY <1>1, <2>1 DEF Types
  <2>2. CASE mem[n] # None
    <3>1. mem[n] \in States /\ mem \in [Nodes -> States \cup {None}]
      BY <2>2 DEF Types
    <3>2. Applied(mem[n], e) \in States /\ Applied(mem[n], e).events = mem[n].events \cup {e}
      BY <3>1, AppliedTypes
    <3> QED
      BY <1>1, <2>2, <3>1, <3>2
  <2> QED
    BY <2>1, <2>2
<1>5. ASSUME NEW m \in Nodes \ Askers, NEW b \in apart'[m]
      PROVE  /\ b \in store'[m].events /\ (mem'[m] # None => b \in mem'[m].events)
             /\ \A q \in commits' : q.at = m /\ q.step # "load" => b \in q.state.events
  <2>1. /\ b \in store[m].events /\ (mem[m] # None => b \in mem[m].events)
        /\ \A q \in commits : q.at = m /\ q.step # "load" => b \in q.state.events
    BY <1>5 DEF ApartInv
  <2>2. mem'[m] # None => b \in mem'[m].events
    BY <1>1, <1>4, <2>1
  <2>3. ASSUME NEW q \in Overlapped(n), q.at = m, q.step # "load" PROVE b \in q.state.events
    <3>1. PICK p \in commits : q.at = p.at /\ q.step = p.step /\ q.state = p.state
      BY <1>2, <2>3, Zenon
    <3> QED
      BY <2>1, <2>3, <3>1
  <2>4. r.at = m /\ r.step # "load" => b \in r.state.events
    BY <1>1, <1>4, <2>1
  <2> QED
    BY <1>1, <2>1, <2>2, <2>3, <2>4
<1>6. ASSUME NEW p \in commits', p.alone
      PROVE  /\ \A q \in commits' : q.at = p.at => q = p
             /\ p.step = "set" /\ p.at \notin Askers /\ mem'[p.at] # None =>
                     p.event \in mem'[p.at].events
  <2>1. CASE p = r
    <3>1. Running(n) = {}
      BY <1>1, <1>6, <2>1
    <3>2. ASSUME NEW q \in Overlapped(n) PROVE q.at # n
      <4>1. PICK o \in commits : q.at = o.at
        BY <1>2, <3>2, Zenon
      <4> QED
        BY <3>1, <4>1 DEF Running
    <3>3. p.step = "set" => e \in mem'[n].events
      BY <1>1, <1>4, <2>1
    <3> QED
      BY <1>1, <2>1, <3>2, <3>3
  <2>2. CASE p # r
    <3>0. p \in Overlapped(n)
      BY <1>1, <2>2
    <3>1. p \in commits /\ p.at # n
      BY <1>2, <1>6, <3>0, Zenon
    <3>2. /\ \A q \in commits : q.at = p.at => q = p
          /\ p.step = "set" /\ p.at \notin Askers /\ mem[p.at] # None => p.event \in mem[p.at].events
      BY <1>6, <3>1 DEF ApartInv
    <3>3. ASSUME NEW q \in Overlapped(n), q.at = p.at PROVE q = p
      <4>1. PICK o \in commits : q = IF o.at = n THEN [o EXCEPT !.alone = FALSE] ELSE o
        BY DEF Overlapped
      <4>2. o.at # n
        <5> SUFFICES ASSUME o.at = n PROVE FALSE
          OBVIOUS
        <5>1. o \in CommitCalls
          BY DEF Types
        <5> QED
          BY <3>1, <3>3, <4>1, <5>1 DEF CommitCalls
      <4> QED
        BY <3>2, <3>3, <4>1, <4>2
    <3>4. p.at \in Nodes \ {n}
      BY <3>1 DEF Types, CommitCalls
    <3> QED
      BY <1>1, <1>4, <3>1, <3>2, <3>3, <3>4
  <2> QED
    BY <2>1, <2>2
<1>7. ApartInv'
  BY <1>5, <1>6 DEF ApartInv
<1>8. commits' \in SUBSET CommitCalls
  BY <1>1, <1>2
<1> QED
  BY <1>1, <1>3, <1>4, <1>7, <1>8

\* The others are as they were but for overlapping it.
LEMMA BeginVia ==
    ASSUME Types, CallsInv, Travel, ViaInv, calls' = calls, NEW n \in Nodes, NEW r \in CommitCalls,
           commits' = Overlapped(n) \cup {r}, r.at = n, r.step # "aborted",
           r.step = "set" => r.event \in r.state.events,
           r.via # None => /\ r.via[2] = n /\ recv[r.via] = None
                           /\ recv'[r.via] # None /\ recv'[r.via].type = "committing"
                           /\ \A c \in calls : c.id = recv'[r.via].id => c.event = r.event,
           \A k \in Pairs : k # r.via => recv'[k] = recv[k]
    PROVE  ViaInv'
<1>1. ASSUME NEW q \in Overlapped(n)
      PROVE  \E p \in commits :
                 /\ q = IF p.at = n THEN [p EXCEPT !.alone = FALSE] ELSE p
                 /\ q.at = p.at /\ q.event = p.event /\ q.via = p.via /\ q.step = p.step
                 /\ q.state = p.state /\ CommitFine(p) /\ p \in CommitCalls
  <2>1. PICK p \in commits : q = IF p.at = n THEN [p EXCEPT !.alone = FALSE] ELSE p
    BY DEF Overlapped
  <2>2. p \in CommitCalls /\ CommitFine(p)
    BY DEF Types, ViaInv
  <2>3. /\ q.at = p.at /\ q.event = p.event /\ q.via = p.via /\ q.step = p.step
        /\ q.state = p.state
    BY <2>1, <2>2 DEF CommitCalls
  <2> QED
    BY <2>1, <2>2, <2>3
<1>2. ASSUME NEW q \in Overlapped(n), q.via # None, q.step # "aborted"
      PROVE  /\ recv[q.via] # None /\ recv'[q.via] = recv[q.via] /\ q.via \in Pairs /\ q.via # r.via
  <2>1. PICK p \in commits : /\ q.via = p.via /\ q.step = p.step /\ CommitFine(p) /\ p \in CommitCalls
    BY <1>1
  <2>2. recv[q.via] # None /\ q.via \in Pairs
    BY <1>2, <2>1 DEF CommitFine, CommitCalls
  <2> QED
    BY <1>2, <2>2
<1>3. ASSUME NEW q \in Overlapped(n) PROVE CommitFine(q)'
  <2>1. PICK p \in commits : /\ q = IF p.at = n THEN [p EXCEPT !.alone = FALSE] ELSE p
                             /\ q.at = p.at /\ q.event = p.event /\ q.via = p.via /\ q.step = p.step
                             /\ q.state = p.state /\ CommitFine(p)
    BY <1>1
  <2>2. ASSUME q.via # None, q.step # "aborted", NEW o \in commits', o.via = q.via, o.step # "aborted"
        PROVE  o = q
    <3>1. o \in Overlapped(n)
      BY <1>2, <2>2
    <3>2. PICK t \in commits : /\ o = IF t.at = n THEN [t EXCEPT !.alone = FALSE] ELSE t
                               /\ o.via = t.via /\ o.step = t.step
      BY <1>1, <3>1
    <3>3. t = p
      BY <2>1, <2>2, <3>2 DEF CommitFine
    <3> QED
      BY <2>1, <3>2, <3>3
  <2>3. /\ q.step \in {"set", "aborted"} => q.event \in q.state.events
        /\ q.via # None => q.via[2] = q.at
    BY <2>1 DEF CommitFine
  <2>4. ASSUME q.via # None, q.step # "aborted"
        PROVE  /\ recv'[q.via] # None /\ recv'[q.via].type = "committing"
               /\ \A c \in calls' : c.id = recv'[q.via].id => c.event = q.event
    <3>1. /\ recv[q.via] # None /\ recv[q.via].type = "committing"
          /\ \A c \in calls : c.id = recv[q.via].id => c.event = q.event
      BY <2>1, <2>4 DEF CommitFine
    <3>2. recv'[q.via] = recv[q.via]
      BY <1>2, <2>4
    <3> QED
      BY <3>1, <3>2
  <2> QED
    BY <2>2, <2>3, <2>4 DEF CommitFine
<1>4. CommitFine(r)'
  <2>1. ASSUME r.via # None, NEW o \in commits', o.via = r.via, o.step # "aborted" PROVE o = r
    BY <1>2, <2>1
  <2> QED
    BY <2>1 DEF CommitFine
<1> QED
  BY <1>3, <1>4 DEF ViaInv

-----------------------------------------------------------------------------
(* The steps *)

LEMMA CommitEventsKeeps ==
    ASSUME IInv, NEW n \in Nodes, NEW e \in Events, CommitEvents(n, e)
    PROVE  IInv'
<1>1. Types /\ CallsInv /\ LinksInv /\ Travel /\ PendingInv /\ DataInv /\ ViaInv /\ ApartInv
  BY DEF IInv
<1>2. /\ conn' = conn /\ chan' = chan /\ recv' = recv /\ subs' = subs /\ owed' = owed
      /\ pending' = pending /\ unsent' = unsent /\ acked' = acked /\ calls' = calls /\ next' = next
      /\ store' = store /\ lost' = lost /\ apart' = apart /\ Begin(n, e, None)
  BY DEF CommitEvents, netVars
<1>3. PICK r \in CommitCalls :
              /\ r.at = n /\ r.event = e /\ r.via = None /\ r.step \in {"load", "set"}
              /\ r.step = "set" => e \in r.state.events
              /\ commits' = Overlapped(n) \cup {r} /\ commits' \in SUBSET CommitCalls
              /\ mem' \in [Nodes -> States \cup {None}] /\ ApartInv'
  BY <1>1, <1>2, BeginStep
<1>4. CallsInv' /\ Waiting' = Waiting /\ CallsOld /\ \A id : Outstanding(id)' <=> Outstanding(id)
  BY <1>1, <1>2, CallsSame
<1>5. DataInv' /\ KeptGrows
  <2>1. \A m \in Nodes : \A b : Coming(b, m) => Coming(b, m)'
    BY <1>2 DEF Coming
  <2> QED
    BY <1>1, <1>2, <2>1, DataSame
<1>6. ViaInv'
  BY <1>1, <1>2, <1>3, BeginVia
<1>7. Types'
  BY <1>1, <1>2, <1>3 DEF Types
<1>8. LinksInv'
  BY <1>1, <1>2, LinksSame
<1>9. Travel'
  BY <1>1, <1>2, <1>4, <1>5, TravelSame
<1>10. PendingInv'
  BY <1>1, <1>2, <1>4, PendingSame
<1> QED
  BY <1>3, <1>4, <1>5, <1>6, <1>7, <1>8, <1>9, <1>10 DEF IInv

\* A step of a commit at its own node that leaves what is stored
LEMMA CommitStepKeeps ==
    ASSUME IInv, ViaInv', ApartInv', commits' \in SUBSET CommitCalls,
           mem' \in [Nodes -> States \cup {None}], apart' = apart,
           UNCHANGED <<netVars, pending, store, lost, calls, next, unsent, acked, owed>>
    PROVE  IInv'
<1>1. Types /\ CallsInv /\ LinksInv /\ Travel /\ PendingInv /\ DataInv /\ ViaInv /\ ApartInv
  BY DEF IInv
<1>2. /\ conn' = conn /\ chan' = chan /\ recv' = recv /\ subs' = subs /\ owed' = owed
      /\ pending' = pending /\ unsent' = unsent /\ acked' = acked /\ calls' = calls /\ next' = next
      /\ store' = store /\ lost' = lost
  BY DEF netVars
<1>3. CallsInv' /\ Waiting' = Waiting /\ CallsOld /\ \A id : Outstanding(id)' <=> Outstanding(id)
  BY <1>1, <1>2, CallsSame
<1>4. DataInv' /\ KeptGrows
  <2>1. \A m \in Nodes : \A e : Coming(e, m) => Coming(e, m)'
    BY <1>2 DEF Coming
  <2> QED
    BY <1>1, <1>2, <2>1, DataSame
<1>5. Types'
  BY <1>1, <1>2 DEF Types
<1>6. LinksInv'
  BY <1>1, <1>2, LinksSame
<1>7. Travel'
  BY <1>1, <1>2, <1>3, <1>4, TravelSame
<1>8. PendingInv'
  BY <1>1, <1>2, <1>3, PendingSame
<1> QED
  BY <1>3, <1>4, <1>5, <1>6, <1>7, <1>8 DEF IInv

LEMMA GetStateKeeps ==
    ASSUME IInv, NEW r \in commits, GetState(r)
    PROVE  IInv'
<1>1. Types /\ CallsInv /\ Travel /\ ViaInv /\ ApartInv
  BY DEF IInv
<1>2. /\ UNCHANGED <<netVars, pending, store, lost, calls, next, unsent, acked, owed>>
      /\ recv' = recv /\ calls' = calls /\ next' = next /\ unsent' = unsent /\ conn' = conn
      /\ store' = store /\ mem' = mem /\ apart' = apart
      /\ r.step = "load" /\ GoOn(r, "loaded", store[r.at])
  BY DEF GetState, netVars
<1>3. r.at \in Nodes /\ store[r.at] \in States
  BY <1>1 DEF Types, CommitCalls
<1>4. CallsOld
  BY <1>2 DEF CallsOld
<1>5. PICK q \in commits' : /\ q.at = r.at /\ q.event = r.event /\ q.alone = r.alone
                            /\ q.step = "loaded" /\ q.state = store[r.at]
                            /\ commits' = (commits \ {r}) \cup {q}
                            /\ ViaInv' /\ commits' \in SUBSET CommitCalls
  BY <1>1, <1>2, <1>3, <1>4, GoOnStep
<1>6. ApartInv'
  <2>1. ASSUME NEW n \in Nodes \ Askers, NEW e \in apart'[n]
        PROVE  /\ e \in store'[n].events /\ (mem'[n] # None => e \in mem'[n].events)
               /\ \A o \in commits' : o.at = n /\ o.step # "load" => e \in o.state.events
    BY <1>1, <1>2, <1>5, <2>1 DEF ApartInv
  <2>2. ASSUME NEW o \in commits', o.alone
        PROVE  /\ \A k \in commits' : k.at = o.at => k = o
               /\ o.step = "set" /\ o.at \notin Askers /\ mem'[o.at] # None =>
                       o.event \in mem'[o.at].events
    <3>1. CASE o = q
      BY <1>1, <1>5, <2>2, <3>1 DEF ApartInv
    <3>2. CASE o # q
      BY <1>1, <1>2, <1>5, <2>2, <3>2 DEF ApartInv
    <3> QED
      BY <3>1, <3>2
  <2> QED
    BY <2>1, <2>2 DEF ApartInv
<1>7. mem' \in [Nodes -> States \cup {None}]
  BY <1>1, <1>2 DEF Types
<1> QED
  BY <1>2, <1>5, <1>6, <1>7, CommitStepKeeps

LEMMA TakeStateKeeps ==
    ASSUME IInv, NEW r \in commits, TakeState(r)
    PROVE  IInv'
<1> DEFINE n == r.at
<1>1. Types /\ CallsInv /\ Travel /\ ViaInv /\ ApartInv
  BY DEF IInv
<1>2. PICK t : t = Applied(Asserted(n, r.state), r.event)
  OBVIOUS
<1>3. /\ UNCHANGED <<netVars, pending, store, lost, calls, next, unsent, acked, owed>>
      /\ recv' = recv /\ calls' = calls /\ next' = next /\ unsent' = unsent /\ conn' = conn
      /\ store' = store /\ mem' = [mem EXCEPT ![n] = t] /\ apart' = apart
      /\ r.step = "loaded" /\ GoOn(r, "set", t)
  BY <1>2 DEF TakeState, netVars
<1>4. n \in Nodes /\ r.state \in States /\ r.event \in Events
  BY <1>1 DEF Types, CommitCalls
<1>5. /\ t \in States /\ r.event \in t.events /\ t # None
      /\ \A e : e \in r.state.events /\ (mem[n] # None => e \in mem[n].events) => e \in t.events
  <2>1. /\ Asserted(n, r.state) \in States
        /\ \/ Asserted(n, r.state).events = r.state.events
           \/ mem[n] # None /\ Asserted(n, r.state).events = mem[n].events
    BY <1>1, <1>4, AssertedTypes
  <2> QED
    BY <1>2, <1>4, <2>1, AppliedTypes
<1>6. CallsOld
  BY <1>3 DEF CallsOld
<1>7. PICK q \in commits' : /\ q.at = n /\ q.event = r.event /\ q.alone = r.alone
                            /\ q.step = "set" /\ q.state = t
                            /\ commits' = (commits \ {r}) \cup {q}
                            /\ ViaInv' /\ commits' \in SUBSET CommitCalls
  BY <1>1, <1>3, <1>5, <1>6, GoOnStep
<1>8. /\ mem' \in [Nodes -> States \cup {None}]
      /\ mem'[n] = t /\ \A m \in Nodes \ {n} : mem'[m] = mem[m]
  BY <1>1, <1>3, <1>4, <1>5 DEF Types
<1> HIDE DEF n
<1>9. ApartInv'
  <2>1. ASSUME NEW m \in Nodes \ Askers, NEW e \in apart'[m]
        PROVE  /\ e \in store'[m].events /\ (mem'[m] # None => e \in mem'[m].events)
               /\ \A o \in commits' : o.at = m /\ o.step # "load" => e \in o.state.events
    <3>1. /\ e \in store[m].events /\ (mem[m] # None => e \in mem[m].events)
          /\ \A o \in commits : o.at = m /\ o.step # "load" => e \in o.state.events
      BY <1>1, <1>3, <2>1 DEF ApartInv
    <3>2. m = n => e \in t.events
      BY <1>3, <1>5, <3>1 DEF n
    <3> QED
      BY <1>3, <1>7, <1>8, <3>1, <3>2
  <2>2. ASSUME NEW o \in commits', o.alone
        PROVE  /\ \A k \in commits' : k.at = o.at => k = o
               /\ o.step = "set" /\ o.at \notin Askers /\ mem'[o.at] # None =>
                       o.event \in mem'[o.at].events
    <3>1. CASE o = q
      BY <1>1, <1>5, <1>7, <1>8, <2>2, <3>1 DEF ApartInv, n
    <3>2. CASE o # q
      <4>1. o \in commits /\ o # r /\ o.at # n /\ o.at \in Nodes
        BY <1>1, <1>7, <2>2, <3>2 DEF ApartInv, Types, CommitCalls, n
      <4> QED
        BY <1>1, <1>7, <1>8, <2>2, <4>1 DEF ApartInv
    <3> QED
      BY <3>1, <3>2
  <2> QED
    BY <2>1, <2>2 DEF ApartInv
<1> QED
  BY <1>3, <1>7, <1>8, <1>9, CommitStepKeeps

\* What a commit stores has what commits that overlapped no other have stored.
LEMMA StoreApart ==
    ASSUME Types, ViaInv, ApartInv, NEW r \in commits, r.step \in {"set", "aborted"},
           commits' = commits \ {r}, mem' = mem,
           \/ StoreState(r.at, r.state) /\ apart' = apart
           \/ store' = store /\ apart' = apart
           \/ /\ StoreState(r.at, r.state) /\ r.alone /\ r.step = "set"
              /\ apart' = [apart EXCEPT ![r.at] = @ \cup {r.event}]
    PROVE  ApartInv'
<1>1. /\ r.at \in Nodes /\ r.state \in States /\ r.event \in r.state.events
      /\ store \in [Nodes -> States] /\ apart \in [Nodes -> SUBSET Events]
  BY DEF Types, CommitCalls, ViaInv, CommitFine
<1>2. /\ store'[r.at] \in {r.state, store[r.at]}
      /\ \A m \in Nodes \ {r.at} : store'[m] = store[m] /\ apart'[m] = apart[m]
  BY <1>1 DEF StoreState
<1>3. ASSUME NEW e \in apart'[r.at], e \notin apart[r.at]
      PROVE  e = r.event /\ r.alone /\ r.step = "set" /\ store'[r.at] = r.state
  BY <1>1, <1>3 DEF StoreState
<1>4. ASSUME NEW m \in Nodes \ Askers, NEW e \in apart'[m]
      PROVE  /\ e \in store'[m].events /\ (mem'[m] # None => e \in mem'[m].events)
             /\ \A o \in commits' : o.at = m /\ o.step # "load" => e \in o.state.events
  <2>1. CASE e \in apart[m]
    <3>1. /\ e \in store[m].events /\ (mem[m] # None => e \in mem[m].events)
          /\ \A o \in commits : o.at = m /\ o.step # "load" => e \in o.state.events
      BY <1>4, <2>1 DEF ApartInv
    <3>2. e \in store'[m].events
      BY <1>1, <1>2, <3>1
    <3> QED
      BY <3>1, <3>2
  <2>2. CASE e \notin apart[m]
    <3>1. m = r.at /\ e = r.event /\ r.alone /\ r.step = "set" /\ store'[m] = r.state
      BY <1>2, <1>3, <1>4, <2>2
    <3>2. /\ \A o \in commits : o.at = r.at => o = r
          /\ mem[r.at] # None => r.event \in mem[r.at].events
      BY <1>4, <3>1 DEF ApartInv
    <3> QED
      BY <1>1, <3>1, <3>2
  <2> QED
    BY <2>1, <2>2
<1>5. ASSUME NEW o \in commits', o.alone
      PROVE  /\ \A k \in commits' : k.at = o.at => k = o
             /\ o.step = "set" /\ o.at \notin Askers /\ mem'[o.at] # None =>
                     o.event \in mem'[o.at].events
  BY <1>5 DEF ApartInv
<1> QED
  BY <1>4, <1>5 DEF ApartInv

LEMMA LandKeeps ==
    ASSUME IInv, NEW r \in commits, Land(r)
    PROVE  IInv'
<1>1. Types /\ CallsInv /\ LinksInv /\ Travel /\ PendingInv /\ DataInv /\ ViaInv /\ ApartInv
  BY DEF IInv
<1>2. /\ conn' = conn /\ chan' = chan /\ recv' = recv /\ subs' = subs /\ owed' = owed
      /\ pending' = pending /\ unsent' = unsent /\ acked' = acked /\ calls' = calls /\ next' = next
      /\ mem' = mem /\ apart' = apart /\ r.step = "aborted" /\ commits' = commits \ {r}
      /\ StoreState(r.at, r.state) \/ (store' = store /\ lost' = lost)
  BY DEF Land, netVars
<1>3. r.at \in Nodes /\ r.state \in States
  BY <1>1 DEF Types, CommitCalls
<1>4. KeptGrows /\ store' \in [Nodes -> States] /\ lost' \in [Nodes -> SUBSET Events]
  <2>1. CASE StoreState(r.at, r.state)
    BY <1>1, <1>3, <2>1, StoreStateKeeps
  <2>2. CASE store' = store /\ lost' = lost
    BY <1>1, <2>2 DEF KeptGrows, Kept, Types
  <2> QED
    BY <1>2, <2>1, <2>2
<1>5. CallsInv' /\ Waiting' = Waiting /\ CallsOld /\ \A id : Outstanding(id)' <=> Outstanding(id)
  BY <1>1, <1>2, CallsSame
<1>6. DataInv'
  <2>1. \A a \in acked' : Kept(a[1], a[2])'
    BY <1>1, <1>2, <1>4 DEF DataInv, KeptGrows, Types
  <2>2. \A m, e : Coming(e, m)' <=> Coming(e, m)
    BY <1>2 DEF Coming
  <2>3. ASSUME NEW m \in Nodes, NEW e \in owed'[m] PROVE Kept(e, m)' \/ Coming(e, m)'
    <3>1. Kept(e, m) \/ Coming(e, m)
      BY <1>1, <1>2, <2>3 DEF DataInv
    <3> QED
      BY <1>4, <2>2, <2>3, <3>1 DEF KeptGrows
  <2> QED
    BY <2>1, <2>3 DEF DataInv
<1>7. ApartInv'
  BY <1>1, <1>2, StoreApart
<1>8. ViaInv'
  BY <1>1, <1>2, <1>5, ViaSame
<1>9. Types'
  BY <1>1, <1>2, <1>4 DEF Types
<1>10. LinksInv'
  BY <1>1, <1>2, LinksSame
<1>11. Travel'
  BY <1>1, <1>2, <1>4, <1>5, TravelSame
<1>12. PendingInv'
  BY <1>1, <1>2, <1>5, PendingSame
<1> QED
  BY <1>5, <1>6, <1>7, <1>8, <1>9, <1>10, <1>11, <1>12 DEF IInv

LEMMA SetStateKeeps ==
    ASSUME IInv, NEW r \in commits, SetState(r)
    PROVE  IInv'
<1> DEFINE n == r.at
           e == r.event
           changed == store[n] # r.state
           requests == IF r.via = None THEN {Call(n, p, 0, "commit", e) : p \in Peers(n)} ELSE {}
<1>1. Types /\ CallsInv /\ LinksInv /\ Travel /\ PendingInv /\ DataInv /\ ViaInv /\ ApartInv
  BY DEF IInv
<1>2. /\ conn' = conn /\ chan' = chan /\ subs' = subs
      /\ pending' = pending /\ unsent' = unsent /\ acked' = acked /\ mem' = mem
      /\ r.step = "set" /\ StoreState(n, r.state) /\ commits' = commits \ {r}
      /\ next' = [next EXCEPT ![n] = @ + 1]
  BY DEF SetState
<1>3. /\ calls' = calls \cup requests \cup IF changed THEN Forwards(n, e) ELSE {}
      /\ owed' = [p \in Nodes |-> IF changed /\ p \in {t[1] : t \in subs[n]}
                                  THEN owed[p] \cup {e} ELSE owed[p]]
  BY DEF SetState
<1>4. /\ apart' = IF r.alone THEN [apart EXCEPT ![n] = @ \cup {e}] ELSE apart
      /\ recv' = IF r.via = None THEN recv ELSE [recv EXCEPT ![r.via].type = "response"]
  BY DEF SetState
<1>5. n \in Nodes /\ e \in Events /\ r.state \in States /\ e \in r.state.events /\ r.via \in Pairs \cup {None}
  BY <1>1, <1>2 DEF Types, CommitCalls, ViaInv, CommitFine
<1>6. requests \subseteq {Call(n, p, 0, "commit", e) : p \in Nodes} /\ changed \in BOOLEAN
  BY DEF Peers
<1> HIDE DEF n, e, requests, changed
<1>7. /\ CallsInv' /\ calls' \in SUBSET Calls /\ next' \in [Nodes -> Nat] /\ CallsOld
      /\ Waiting' = Waiting /\ \A id : Outstanding(id)' <=> Outstanding(id)
      /\ KeptGrows /\ Kept(e, n)'
      /\ store' \in [Nodes -> States] /\ lost' \in [Nodes -> SUBSET Events]
      /\ owed' \in [Nodes -> SUBSET Events]
      /\ DataInv'
  BY <1>1, <1>2, <1>3, <1>5, <1>6, SetStep
<1>8. ApartInv'
  <2>1. CASE r.alone
    BY <1>1, <1>2, <1>4, <2>1, StoreApart DEF n, e
  <2>2. CASE ~r.alone
    BY <1>1, <1>2, <1>4, <2>2, StoreApart DEF n
  <2> QED
    BY <2>1, <2>2
<1>9. /\ Travel' /\ recv' \in [Pairs -> Held \cup {None}]
      /\ \A k \in Pairs : recv'[k] = None <=> recv[k] = None
      /\ \A k \in Pairs : k # r.via => recv'[k] = recv[k]
  <2>1. CASE r.via = None
    <3>1. recv' = recv
      BY <1>4, <2>1
    <3>2. Travel'
      BY <1>1, <1>2, <1>7, <3>1, TravelSame
    <3> QED
      BY <1>1, <3>1, <3>2 DEF Types
  <2>2. CASE r.via # None
    <3>1. PICK l \in Pairs : l = r.via
      BY <1>5, <2>2
    <3>2. /\ recv[l] # None /\ recv[l].type = "committing" /\ l[2] = n
          /\ \A c \in calls : c.id = recv[l].id => c.event = e
      BY <1>1, <1>2, <2>2, <3>1 DEF ViaInv, CommitFine, n, e
    <3>3. recv' = [recv EXCEPT ![l].type = "response"]
      BY <1>4, <2>2, <3>1
    <3>4. \A c \in Waiting : recv[l].type = "committing" /\ c.id = recv[l].id /\ c.id.to = l[2]
                             => Kept(c.event, c.id.to)'
      BY <1>7, <3>2 DEF Waiting
    <3>5. Travel' /\ recv' \in [Pairs -> Held \cup {None}] /\ \A k \in Pairs : recv'[k] = None <=> recv[k] = None
      BY <1>1, <1>2, <1>7, <3>2, <3>3, <3>4, SubscribeTravels
    <3>6. \A k \in Pairs : k # l => recv'[k] = recv[k]
      BY <1>1, <3>3 DEF Types
    <3> QED
      BY <3>1, <3>5, <3>6
  <2> QED
    BY <2>1, <2>2
<1>10. ViaInv'
  <2>1. ASSUME NEW q \in commits', q.via # None, q.step # "aborted" PROVE recv'[q.via] = recv[q.via]
    <3>1. q \in commits /\ q # r /\ q.via \in Pairs /\ CommitFine(q)
      BY <1>1, <1>2, <2>1 DEF Types, CommitCalls, ViaInv
    <3>2. q.via # r.via
      BY <1>2, <2>1, <3>1 DEF CommitFine
    <3> QED
      BY <1>9, <3>1, <3>2
  <2>2. commits' \subseteq commits
    BY <1>2
  <2> QED
    BY <1>1, <1>7, <2>1, <2>2, ViaSame
<1>11. LinksInv'
  BY <1>1, <1>2, <1>9 DEF LinksInv
<1>12. PendingInv'
  BY <1>1, <1>2, <1>7, PendingSame
<1>13. apart' \in [Nodes -> SUBSET Events]
  BY <1>1, <1>4, <1>5 DEF Types
<1>14. Types'
  BY <1>1, <1>2, <1>7, <1>9, <1>13 DEF Types
<1> QED
  BY <1>7, <1>8, <1>9, <1>10, <1>11, <1>12, <1>14 DEF IInv

LEMMA AskKeeps ==
    ASSUME IInv, NEW n \in Nodes, NEW kind \in {"fetch", "subscribe"}, Ask(n, kind)
    PROVE  IInv'
<1>1. Types /\ CallsInv /\ LinksInv /\ Travel /\ PendingInv /\ DataInv /\ ViaInv /\ ApartInv
  BY DEF IInv
<1>2. /\ conn' = conn /\ chan' = chan /\ recv' = recv /\ subs' = subs /\ owed' = owed
      /\ pending' = pending /\ unsent' = unsent /\ acked' = acked
      /\ store' = store /\ mem' = mem /\ lost' = lost /\ commits' = commits /\ apart' = apart /\ UNCHANGED dataVars
      /\ next' = [next EXCEPT ![n] = @ + 1] /\ n \in Asking[kind]
  BY DEF Ask, netVars, dataVars
<1>3. PICK p \in DurablePeers(n) : calls' = calls \cup {Call(n, p, 0, kind, None)}
  BY DEF Ask
<1>4. PICK c : c = Call(n, p, 0, kind, None)
  OBVIOUS
<1>5. c \in Calls /\ c.id.from = n /\ c.id.seq = next[n] /\ c.st = "started" /\ c.kind = kind
  <2>1. p \in Nodes /\ 0 \in Nat /\ kind \in Kinds /\ None \in Events \cup {None}
    BY DEF DurablePeers, Peers, Kinds
  <2> QED
    BY <1>1, <1>4, <2>1, CallMade
<1>6. /\ CallsInv' /\ calls' \in SUBSET Calls /\ next' \in [Nodes -> Nat] /\ CallsOld
      /\ Waiting' = Waiting /\ \A id : Outstanding(id)' <=> Outstanding(id)
  <2> DEFINE new == {c}
  <2>1. \A d \in new : /\ d \in Calls /\ d.id.from = n /\ d.id.seq = next[n]
                       /\ d.st = "started" \/ (d.st = "stored" /\ d.kind \notin Carrying)
                       /\ d.kind \in Carrying => d.event \in Events
                       /\ d.kind \notin Carrying => n \in Asking[d.kind]
    BY <1>2, <1>5 DEF Carrying
  <2>2. \A a, b \in new : a.id = b.id => a = b
    OBVIOUS
  <2>3. calls' = calls \cup new
    BY <1>3, <1>4
  <2> HIDE DEF new
  <2> QED
    BY <1>1, <1>2, <2>1, <2>2, <2>3, CallsAdd
<1>7. DataInv' /\ KeptGrows
  <2>1. \A m \in Nodes : \A e : Coming(e, m) => Coming(e, m)'
    BY <1>2, <1>3 DEF Coming
  <2> QED
    BY <1>1, <1>2, <2>1, DataSame
<1>8. Types'
  BY <1>1, <1>2, <1>6 DEF Types
<1>9. LinksInv'
  BY <1>1, <1>2, LinksSame
<1>10. Travel'
  BY <1>1, <1>2, <1>6, <1>7, TravelSame
<1>11. PendingInv'
  BY <1>1, <1>2, <1>6, PendingSame
<1>12. ViaInv'
  BY <1>1, <1>2, <1>6, ViaSame
<1>13. ApartInv'
  BY <1>1, <1>2, ApartSame
<1> QED
  BY <1>6, <1>7, <1>8, <1>9, <1>10, <1>11, <1>12, <1>13 DEF IInv

LEMMA FetchLocalKeeps ==
    ASSUME IInv, NEW n \in Nodes, FetchLocal(n)
    PROVE  IInv'
<1>1. Types /\ CallsInv /\ LinksInv /\ Travel /\ PendingInv /\ DataInv /\ ViaInv /\ ApartInv
  BY DEF IInv
<1>2. /\ conn' = conn /\ chan' = chan /\ recv' = recv /\ subs' = subs /\ owed' = owed
      /\ pending' = pending /\ unsent' = unsent /\ acked' = acked
      /\ store' = store /\ mem' = mem /\ lost' = lost /\ commits' = commits /\ apart' = apart
      /\ next' = [next EXCEPT ![n] = @ + 1] /\ n \in Asking["fetch"]
  BY DEF FetchLocal, netVars, dataVars
<1>3. PICK b : b = Call(n, n, 0, "fetch", None)
  OBVIOUS
<1>4. b \in Calls /\ b.id.from = n /\ b.id.seq = next[n] /\ b.kind = "fetch"
  <2>1. 0 \in Nat /\ "fetch" \in Kinds /\ None \in Events \cup {None}
    BY DEF Kinds
  <2> QED
    BY <1>1, <1>3, <2>1, CallMade
<1>5. PICK c : c = [b EXCEPT !.st = "stored"]
  OBVIOUS
<1>6. c \in Calls /\ c.id.from = n /\ c.id.seq = next[n] /\ c.st = "stored" /\ c.kind = "fetch"
  BY <1>4, <1>5 DEF Calls
<1>7. calls' = calls \cup {c}
  BY <1>3, <1>5 DEF FetchLocal
<1>8. /\ CallsInv' /\ calls' \in SUBSET Calls /\ next' \in [Nodes -> Nat] /\ CallsOld
      /\ Waiting' = Waiting /\ \A id : Outstanding(id)' <=> Outstanding(id)
  <2> DEFINE new == {c}
  <2>1. \A d \in new : /\ d \in Calls /\ d.id.from = n /\ d.id.seq = next[n]
                       /\ d.st = "started" \/ (d.st = "stored" /\ d.kind \notin Carrying)
                       /\ d.kind \in Carrying => d.event \in Events
                       /\ d.kind \notin Carrying => n \in Asking[d.kind]
    BY <1>2, <1>6 DEF Carrying
  <2>2. \A x, y \in new : x.id = y.id => x = y
    OBVIOUS
  <2>3. calls' = calls \cup new
    BY <1>7
  <2> HIDE DEF new
  <2> QED
    BY <1>1, <1>2, <2>1, <2>2, <2>3, CallsAdd
<1>9. DataInv' /\ KeptGrows
  <2>1. \A m \in Nodes : \A e : Coming(e, m) => Coming(e, m)'
    BY <1>2, <1>7 DEF Coming
  <2> QED
    BY <1>1, <1>2, <2>1, DataSame
<1>10. Types'
  BY <1>1, <1>2, <1>8 DEF Types
<1>11. LinksInv'
  BY <1>1, <1>2, LinksSame
<1>12. Travel'
  BY <1>1, <1>2, <1>8, <1>9, TravelSame
<1>13. PendingInv'
  BY <1>1, <1>2, <1>8, PendingSame
<1>14. ViaInv'
  BY <1>1, <1>2, <1>8, ViaSame
<1>15. ApartInv'
  BY <1>1, <1>2, ApartSame
<1> QED
  BY <1>8, <1>9, <1>10, <1>11, <1>12, <1>13, <1>14, <1>15 DEF IInv

LEMMA EvictKeeps ==
    ASSUME IInv, NEW n \in Nodes, Evict(n)
    PROVE  IInv'
<1>1. Types /\ CallsInv /\ LinksInv /\ Travel /\ PendingInv /\ DataInv /\ ViaInv /\ ApartInv
  BY DEF IInv
<1>2. /\ conn' = conn /\ chan' = chan /\ recv' = recv /\ subs' = subs /\ owed' = owed
      /\ pending' = pending /\ unsent' = unsent /\ acked' = acked /\ calls' = calls /\ next' = next
      /\ store' = store /\ lost' = lost /\ commits' = commits /\ apart' = apart
      /\ mem' = [mem EXCEPT ![n] = None]
  BY DEF Evict, netVars
<1>3. CallsInv' /\ Waiting' = Waiting /\ CallsOld /\ \A id : Outstanding(id)' <=> Outstanding(id)
  BY <1>1, <1>2, CallsSame
<1>4. /\ mem' \in [Nodes -> States \cup {None}]
      /\ mem'[n] = None /\ \A m \in Nodes \ {n} : mem'[m] = mem[m]
  BY <1>1, <1>2 DEF Types
<1>5. DataInv' /\ KeptGrows
  <2>1. \A m \in Nodes : \A e : Coming(e, m) => Coming(e, m)'
    BY <1>2 DEF Coming
  <2> QED
    BY <1>1, <1>2, <2>1, DataSame
<1>6. ViaInv'
  BY <1>1, <1>2, <1>3, ViaSame
<1>7. ApartInv'
  BY <1>1, <1>2, <1>4, ApartMem
<1>8. Types'
  BY <1>1, <1>2, <1>4 DEF Types
<1>9. LinksInv'
  BY <1>1, <1>2, LinksSame
<1>10. Travel'
  BY <1>1, <1>2, <1>3, <1>5, TravelSame
<1>11. PendingInv'
  BY <1>1, <1>2, <1>3, PendingSame
<1> QED
  BY <1>3, <1>5, <1>6, <1>7, <1>8, <1>9, <1>10, <1>11 DEF IInv

\* A step of one call that is in no handler's hands
LEMMA AnsweredIsAsked ==
    ASSUME IInv, NEW c \in calls, c.st \in {"answered", "stored", "read"}
    PROVE  /\ c.id.from \in Nodes /\ c.id.from \in Askers /\ c.kind \notin Carrying
           /\ c.id.from \notin Nodes \ Askers /\ c.states \in States /\ c \in Calls
<1>1. c \in Calls /\ CallFine(c)
  BY DEF IInv, Types, CallsInv
<1>2. c.kind \in {"fetch", "subscribe"} /\ c.id.from \in Asking[c.kind]
  BY <1>1 DEF CallFine, Carrying, Calls, Kinds
<1> QED
  BY <1>1, <1>2 DEF Askers, Carrying, Calls, Ids

LEMMA StoreAnswerKeeps ==
    ASSUME IInv, NEW c \in calls, StoreAnswer(c)
    PROVE  IInv'
<1> DEFINE n == c.id.from
           d == [c EXCEPT !.st = "stored"]
           new == IF c.kind = "fetch" THEN {d} ELSE {}
<1>1. Types /\ CallsInv /\ LinksInv /\ Travel /\ PendingInv /\ DataInv /\ ViaInv /\ ApartInv
  BY DEF IInv
<1>2. /\ conn' = conn /\ chan' = chan /\ recv' = recv /\ subs' = subs
      /\ pending' = pending /\ unsent' = unsent /\ acked' = acked /\ mem' = mem /\ next' = next
      /\ commits' = commits /\ apart' = apart
      /\ c.st = "answered" /\ calls' = (calls \ {c}) \cup new
  BY DEF StoreAnswer, netVars
<1>3. /\ n \in Nodes /\ n \notin Nodes \ Askers /\ c.kind \notin Carrying
      /\ c.states \in States /\ c \in Calls
  BY <1>2, AnsweredIsAsked
<1>4. d \in Calls /\ d.id = c.id /\ d.kind = c.kind /\ d.event = c.event /\ d.st = "stored"
  BY <1>3 DEF Calls
<1>5. \A b \in new : b = d
  OBVIOUS
<1> HIDE DEF d, new
<1>6. /\ CallsInv' /\ calls' \in SUBSET Calls /\ CallsOld
      /\ Waiting' = Waiting /\ \A id : Outstanding(id)' <=> Outstanding(id)
  <2>1. Follows(d, c) /\ c \notin Waiting
    BY <1>2, <1>3, <1>4 DEF Follows, Waiting
  <2>2. CASE c.kind = "fetch"
    <3>1. calls' = (calls \ {c}) \cup {d}
      BY <1>2, <2>2 DEF new
    <3>2. /\ CallsInv' /\ calls' \in SUBSET Calls /\ CallsOld
          /\ Waiting' = (Waiting \ {c}) \cup IF d.st = "waiting" THEN {d} ELSE {}
          /\ \A id : id # c.id => (Outstanding(id)' <=> Outstanding(id))
          /\ Outstanding(c.id)' <=> d.st \in {"sending", "waiting", "orphaned"}
          /\ Outstanding(c.id) <=> c.st \in {"sending", "waiting", "orphaned"}
      BY <1>1, <1>2, <2>1, <3>1, CallGoesOn
    <3>3. ~Outstanding(c.id)' /\ ~Outstanding(c.id)
      BY <1>2, <1>4, <3>2
    <3> QED
      BY <1>4, <2>1, <3>2, <3>3
  <2>3. CASE c.kind # "fetch"
    <3>1. calls' = calls \ {c}
      BY <1>2, <2>3 DEF new
    <3>2. /\ CallsInv' /\ calls' \in SUBSET Calls /\ CallsOld
          /\ Waiting' = Waiting \ {c}
          /\ \A id : id # c.id => (Outstanding(id)' <=> Outstanding(id))
          /\ ~Outstanding(c.id)'
          /\ Outstanding(c.id) <=> c.st \in {"sending", "waiting", "orphaned"}
      BY <1>1, <1>2, <3>1, CallEnds
    <3> QED
      BY <1>2, <2>1, <3>2
  <2> QED
    BY <2>2, <2>3
<1>7. \A e, m : Coming(e, m)' <=> Coming(e, m)
  <2>1. c.kind # "forward" /\ \A b \in new : b.kind # "forward"
    BY <1>3, <1>4, <1>5 DEF Carrying
  <2> QED
    BY <1>2, <2>1 DEF Coming
<1>8. /\ KeptGrows /\ store' \in [Nodes -> States] /\ lost' \in [Nodes -> SUBSET Events]
      /\ \A m \in Nodes \ {n} : store'[m] = store[m] /\ lost'[m] = lost[m]
      /\ owed' \in [Nodes -> SUBSET Events]
      /\ \A m \in Nodes : \A e \in owed'[m] : e \in owed[m] \/ Kept(e, m)'
  <2>1. CASE c.states = NoState
    <3>1. store' = store /\ lost' = lost /\ owed' = owed
      BY <2>1 DEF StoreAnswer
    <3> QED
      BY <1>1, <3>1 DEF KeptGrows, Kept, Types
  <2>2. CASE c.states # NoState
    <3>1. StoreState(n, c.states)
      BY <2>2 DEF StoreAnswer
    <3>2. owed' = IF c.kind = "fetch" THEN owed ELSE [owed EXCEPT ![n] = @ \cup c.states.events]
      BY <2>2 DEF StoreAnswer
    <3>3. /\ KeptGrows /\ store' \in [Nodes -> States] /\ lost' \in [Nodes -> SUBSET Events]
          /\ \A m \in Nodes \ {n} : store'[m] = store[m] /\ lost'[m] = lost[m]
          /\ \A e \in c.states.events : Kept(e, n)'
      BY <1>1, <1>3, <3>1, StoreStateKeeps
    <3>4. owed \in [Nodes -> SUBSET Events] /\ c.states.events \subseteq Events
      BY <1>1, <1>3 DEF Types, States
    <3>5. owed' \in [Nodes -> SUBSET Events]
      BY <1>3, <3>2, <3>4
    <3>6. \A m \in Nodes : \A e \in owed'[m] : e \in owed[m] \/ Kept(e, m)'
      BY <1>3, <3>2, <3>3, <3>4
    <3> QED
      BY <3>3, <3>5, <3>6
  <2> QED
    BY <2>1, <2>2
<1>9. DataInv'
  <2>1. \A a \in acked' : Kept(a[1], a[2])'
    BY <1>1, <1>2, <1>8 DEF DataInv, KeptGrows, Types
  <2>2. \A m \in Nodes : \A e \in owed'[m] : Kept(e, m)' \/ Coming(e, m)'
    BY <1>1, <1>7, <1>8 DEF DataInv, KeptGrows
  <2> QED
    BY <2>1, <2>2 DEF DataInv
<1>10. Types'
  BY <1>1, <1>2, <1>6, <1>8 DEF Types
<1>11. LinksInv'
  BY <1>1, <1>2, LinksSame
<1>12. Travel'
  BY <1>1, <1>2, <1>6, <1>8, TravelSame
<1>13. PendingInv'
  BY <1>1, <1>2, <1>6, PendingSame
<1>14. ViaInv'
  BY <1>1, <1>2, <1>6, ViaSame
<1>15. ApartInv'
  BY <1>1, <1>2, <1>3, <1>8 DEF ApartInv
<1> QED
  BY <1>6, <1>9, <1>10, <1>11, <1>12, <1>13, <1>14, <1>15 DEF IInv

LEMMA ReadStatesKeeps ==
    ASSUME IInv, NEW c \in calls, ReadStates(c)
    PROVE  IInv'
<1>1. Types /\ CallsInv /\ LinksInv /\ Travel /\ PendingInv /\ DataInv /\ ViaInv /\ ApartInv
  BY DEF IInv
<1>2. /\ conn' = conn /\ chan' = chan /\ recv' = recv /\ subs' = subs /\ owed' = owed
      /\ pending' = pending /\ unsent' = unsent /\ acked' = acked /\ next' = next
      /\ store' = store /\ mem' = mem /\ lost' = lost /\ commits' = commits /\ apart' = apart
      /\ c.st = "stored"
  BY DEF ReadStates, netVars, dataVars
<1>3. c.id.from \in Nodes /\ c.kind \notin Carrying /\ c \in Calls
  BY <1>2, AnsweredIsAsked
<1>4. PICK d : /\ d \in Calls /\ d.id = c.id /\ d.kind = c.kind /\ d.event = c.event /\ d.st = "read"
               /\ calls' = (calls \ {c}) \cup {d}
  <2>1. PICK w : w = [c EXCEPT !.st = "read"]
    OBVIOUS
  <2>2. /\ w \in Calls /\ w.id = c.id /\ w.kind = c.kind /\ w.event = c.event /\ w.st = "read"
    BY <1>3, <2>1 DEF Calls
  <2>3. PICK d : d = [w EXCEPT !.states = store[c.id.from]]
    OBVIOUS
  <2>4. d \in Calls /\ d.id = w.id /\ d.kind = w.kind /\ d.event = w.event /\ d.st = w.st
    BY <1>1, <1>3, <2>2, <2>3 DEF Calls, Types
  <2>5. calls' = (calls \ {c}) \cup {d}
    BY <2>1, <2>3 DEF ReadStates
  <2> QED
    BY <2>2, <2>4, <2>5
<1>5. /\ CallsInv' /\ calls' \in SUBSET Calls /\ CallsOld
      /\ Waiting' = Waiting /\ \A id : Outstanding(id)' <=> Outstanding(id)
  <2>1. Follows(d, c) /\ c \notin Waiting
    BY <1>2, <1>3, <1>4 DEF Follows, Waiting
  <2>2. /\ CallsInv' /\ calls' \in SUBSET Calls /\ CallsOld
        /\ Waiting' = (Waiting \ {c}) \cup IF d.st = "waiting" THEN {d} ELSE {}
        /\ \A id : id # c.id => (Outstanding(id)' <=> Outstanding(id))
        /\ Outstanding(c.id)' <=> d.st \in {"sending", "waiting", "orphaned"}
        /\ Outstanding(c.id) <=> c.st \in {"sending", "waiting", "orphaned"}
    BY <1>1, <1>2, <1>4, <2>1, CallGoesOn
  <2>3. ~Outstanding(c.id)' /\ ~Outstanding(c.id)
    BY <1>2, <1>4, <2>2
  <2> QED
    BY <1>4, <2>1, <2>2, <2>3
<1>6. DataInv' /\ KeptGrows
  <2>1. \A m \in Nodes : \A e : Coming(e, m) => Coming(e, m)'
    BY <1>2, <1>3, <1>4 DEF Coming, Carrying
  <2> QED
    BY <1>1, <1>2, <2>1, DataSame
<1>7. Types'
  BY <1>1, <1>2, <1>5 DEF Types
<1>8. LinksInv'
  BY <1>1, <1>2, LinksSame
<1>9. Travel'
  BY <1>1, <1>2, <1>5, <1>6, TravelSame
<1>10. PendingInv'
  BY <1>1, <1>2, <1>5, PendingSame
<1>11. ViaInv'
  BY <1>1, <1>2, <1>5, ViaSame
<1>12. ApartInv'
  BY <1>1, <1>2, ApartSame
<1> QED
  BY <1>5, <1>6, <1>7, <1>8, <1>9, <1>10, <1>11, <1>12 DEF IInv

LEMMA ReadBackKeeps ==
    ASSUME IInv, NEW c \in calls, ReadBack(c)
    PROVE  IInv'
<1> DEFINE n == c.id.from
<1>1. Types /\ CallsInv /\ LinksInv /\ Travel /\ PendingInv /\ DataInv /\ ViaInv /\ ApartInv
  BY DEF IInv
<1>2. /\ conn' = conn /\ chan' = chan /\ recv' = recv /\ subs' = subs /\ owed' = owed
      /\ pending' = pending /\ unsent' = unsent /\ acked' = acked /\ next' = next
      /\ store' = store /\ lost' = lost /\ c.st = "read" /\ calls' = calls \ {c}
      /\ commits' = commits /\ apart' = apart
  BY DEF ReadBack, netVars
<1>3. n \in Nodes /\ n \notin Nodes \ Askers /\ c.kind \notin Carrying /\ c.states \in States
  BY <1>2, AnsweredIsAsked
<1>4. /\ CallsInv' /\ calls' \in SUBSET Calls /\ CallsOld
      /\ Waiting' = Waiting /\ \A id : Outstanding(id)' <=> Outstanding(id)
  <2>1. c \notin Waiting
    BY <1>2 DEF Waiting
  <2> QED
    BY <1>1, <1>2, <2>1, CallEnds
<1>5. KeptGrows /\ \A e, m : (Kept(e, m)' <=> Kept(e, m)) /\ (Coming(e, m)' <=> Coming(e, m))
  BY <1>2 DEF KeptGrows, Kept, Coming
<1>6. mem' \in [Nodes -> States \cup {None}] /\ \A m \in Nodes \ {n} : mem'[m] = mem[m]
  <2>1. mem' = mem \/ mem' = [mem EXCEPT ![n] = Asserted(n, c.states)]
    BY DEF ReadBack
  <2>2. Asserted(n, c.states) \in States
    BY <1>1, <1>3, AssertedTypes
  <2>3. mem \in [Nodes -> States \cup {None}]
    BY <1>1 DEF Types
  <2> QED
    BY <1>3, <2>1, <2>2, <2>3
<1>7. DataInv'
  BY <1>1, <1>2, <1>5, DataSame
<1>8. Types'
  BY <1>1, <1>2, <1>4, <1>6 DEF Types
<1>9. LinksInv'
  BY <1>1, <1>2, LinksSame
<1>10. Travel'
  BY <1>1, <1>2, <1>4, <1>5, TravelSame
<1>11. PendingInv'
  BY <1>1, <1>2, <1>4, PendingSame
<1>12. ViaInv'
  BY <1>1, <1>2, <1>4, ViaSame
<1>13. ApartInv'
  BY <1>1, <1>2, <1>3, <1>6, ApartMem
<1> QED
  BY <1>4, <1>7, <1>8, <1>9, <1>10, <1>11, <1>12, <1>13 DEF IInv

LEMMA PutStep ==
    ASSUME Types, CallsInv, LinksInv, Travel, DataInv, ViaInv, NEW c \in calls, c.st \in {"started", "sending"},
           {c.id.from, c.id.to} \in conn, Room(Route(c)), Put(c),
           UNCHANGED <<conn, recv, subs, dataVars, next, unsent, acked, owed>>
    PROVE  /\ CallsInv' /\ calls' \in SUBSET Calls /\ LinksInv' /\ Travel' /\ DataInv' /\ ViaInv'
           /\ chan' \in [Pairs -> Seq(Requests \cup Responses)] /\ \A k \in Pairs : Len(chan'[k]) <= Capacity
           /\ \A id : id # c.id => (Outstanding(id)' <=> Outstanding(id))
           /\ Outstanding(c.id)'
<1> DEFINE d == [c EXCEPT !.st = "waiting"]
<1>1. CallFine(c) /\ c \in Calls /\ {c.id.from, c.id.to} \in Links
  BY DEF CallsInv, Types
<1>2. d \in Calls /\ d.id = c.id /\ d.kind = c.kind /\ d.event = c.event /\ d.st = "waiting"
  BY <1>1 DEF Calls
<1>3. calls' = (calls \ {c}) \cup {d}
  BY DEF Put
<1> HIDE DEF d
<1>4. Follows(d, c)
  BY <1>2 DEF Follows
<1>5. /\ CallsInv' /\ calls' \in SUBSET Calls /\ CallsOld
      /\ \A id : id # c.id => (Outstanding(id)' <=> Outstanding(id))
      /\ Outstanding(c.id)' <=> d.st \in {"sending", "waiting", "orphaned"}
  BY <1>3, <1>4, CallGoesOn
<1>6. DataInv' /\ KeptGrows
  <2>1. ASSUME NEW n \in Nodes, NEW e, Coming(e, n) PROVE Coming(e, n)'
    BY <1>2, <1>3, <2>1 DEF Coming
  <2> QED
    BY <2>1, DataSame DEF dataVars
<1>7. /\ Travel'
      /\ chan' \in [Pairs -> Seq(Requests \cup Responses)] /\ \A k \in Pairs : Len(chan'[k]) <= Capacity
  BY <1>1, <1>6, PutTravels
<1>8. LinksInv'
  <2>1. \A l \in Pairs : chan'[l] = chan[l] \/ {l[1], l[2]} \in conn
    <3> SUFFICES ASSUME NEW l \in Pairs, chan'[l] # chan[l] PROVE {l[1], l[2]} \in conn
      OBVIOUS
    <3>1. l = Route(c)
      BY DEF Put, Types
    <3> QED
      BY <3>1 DEF Route
  <2> QED
    BY <2>1 DEF LinksInv
<1>9. ViaInv'
  BY <1>5, ViaSame DEF dataVars
<1> QED
  BY <1>2, <1>5, <1>6, <1>7, <1>8, <1>9

LEMMA RequestKeeps ==
    ASSUME IInv, NEW c \in calls, Request(c)
    PROVE  IInv'
<1> DEFINE n == c.id.from
           connected == c.id.to \in Peers(n)
           d == [c EXCEPT !.st = "sending"]
<1>1. Types /\ CallsInv /\ LinksInv /\ Travel /\ PendingInv /\ DataInv /\ ViaInv /\ ApartInv
  BY DEF IInv
<1>2. /\ conn' = conn /\ recv' = recv /\ subs' = subs /\ owed' = owed
      /\ acked' = acked /\ next' = next /\ UNCHANGED dataVars
      /\ store' = store /\ mem' = mem /\ lost' = lost /\ commits' = commits /\ apart' = apart /\ c.st = "started"
      /\ pending' = [pending EXCEPT ![c.id.from] = @ \cup {c.id}]
  BY DEF Request, dataVars
<1>3. CallFine(c) /\ c \in Calls /\ c.id \in Ids /\ c.id.from \in Nodes /\ c.id.to \in Nodes
  BY <1>1 DEF CallsInv, Types, Calls, Ids
<1>4. connected <=> {c.id.from, c.id.to} \in conn
  BY <1>3 DEF Peers
<1>5. d \in Calls /\ d.id = c.id /\ d.kind = c.kind /\ d.event = c.event /\ d.st = "sending"
  BY <1>3 DEF Calls
<1> HIDE DEF d
<1>6. \/ ~connected /\ Fail(c) /\ UNCHANGED chan
      \/ connected /\ Room(Route(c)) /\ Put(c) /\ UNCHANGED unsent
      \/ /\ connected /\ ~Room(Route(c))
         /\ calls' = (calls \ {c}) \cup {d}
         /\ UNCHANGED <<chan, unsent>>
  BY DEF Request, d
<1>7. /\ CallsInv' /\ calls' \in SUBSET Calls /\ LinksInv' /\ Travel' /\ DataInv' /\ ViaInv'
      /\ chan' \in [Pairs -> Seq(Requests \cup Responses)] /\ \A k \in Pairs : Len(chan'[k]) <= Capacity
      /\ \A id : id # c.id => (Outstanding(id)' <=> Outstanding(id)) /\ (id \in unsent' <=> id \in unsent)
      /\ Outstanding(c.id)' \/ c.id \in unsent'
      /\ unsent' \in SUBSET Ids
  <2>1. CASE ~connected /\ Fail(c) /\ UNCHANGED chan
    <3>1. calls' = calls \ {c} /\ unsent' = unsent \cup {c.id} /\ chan' = chan
      BY <2>1 DEF Fail
    <3>2. /\ CallsInv' /\ calls' \in SUBSET Calls /\ unsent' \in SUBSET Ids /\ CallsOld
          /\ Waiting' = Waiting \ {c}
          /\ \A id : id # c.id => (Outstanding(id)' <=> Outstanding(id))
      BY <1>1, <1>2, <3>1, CallEnds
    <3>3. Waiting' = Waiting
      BY <1>2, <3>2 DEF Waiting
    <3>4. ASSUME NEW m \in Nodes, NEW e, Coming(e, m) PROVE Coming(e, m)'
      BY <1>2, <1>4, <2>1, <3>1, <3>4 DEF Coming
    <3>5. DataInv' /\ KeptGrows
      BY <1>1, <1>2, <3>4, DataSame
    <3>6. Travel'
      BY <1>1, <1>2, <3>1, <3>3, <3>5, TravelSame
    <3>7. LinksInv'
      BY <1>1, <1>2, <3>1, LinksSame
    <3>8. chan' \in [Pairs -> Seq(Requests \cup Responses)] /\ \A k \in Pairs : Len(chan'[k]) <= Capacity
      BY <1>1, <3>1 DEF Types
    <3>9. /\ \A id : id # c.id => (id \in unsent' <=> id \in unsent)
          /\ c.id \in unsent'
      BY <3>1
    <3>10. ViaInv'
      BY <1>1, <1>2, <3>2, ViaSame
    <3> QED
      BY <3>2, <3>5, <3>6, <3>7, <3>8, <3>9, <3>10
  <2>2. CASE connected /\ Room(Route(c)) /\ Put(c) /\ UNCHANGED unsent
    <3>1. /\ CallsInv' /\ calls' \in SUBSET Calls /\ LinksInv' /\ Travel' /\ DataInv' /\ ViaInv'
          /\ chan' \in [Pairs -> Seq(Requests \cup Responses)] /\ \A k \in Pairs : Len(chan'[k]) <= Capacity
          /\ \A id : id # c.id => (Outstanding(id)' <=> Outstanding(id))
          /\ Outstanding(c.id)'
      BY <1>1, <1>2, <1>4, <2>2, PutStep
    <3>2. unsent' = unsent /\ unsent \in SUBSET Ids
      BY <1>1, <2>2 DEF Types
    <3> QED
      BY <3>1, <3>2
  <2>3. CASE connected /\ calls' = (calls \ {c}) \cup {d} /\ UNCHANGED <<chan, unsent>>
    <3>1. calls' = (calls \ {c}) \cup {d} /\ unsent' = unsent /\ chan' = chan /\ Follows(d, c)
      BY <1>4, <1>5, <2>3 DEF Follows
    <3>2. /\ CallsInv' /\ calls' \in SUBSET Calls /\ CallsOld
          /\ Waiting' = (Waiting \ {c}) \cup IF d.st = "waiting" THEN {d} ELSE {}
          /\ \A id : id # c.id => (Outstanding(id)' <=> Outstanding(id))
          /\ Outstanding(c.id)' <=> d.st \in {"sending", "waiting", "orphaned"}
      BY <1>1, <1>2, <3>1, CallGoesOn
    <3>3. Waiting' = Waiting
      BY <1>2, <1>5, <3>2 DEF Waiting
    <3>4. ASSUME NEW m \in Nodes, NEW e, Coming(e, m) PROVE Coming(e, m)'
      BY <1>2, <1>5, <3>1, <3>4 DEF Coming
    <3>5. DataInv' /\ KeptGrows
      BY <1>1, <1>2, <3>4, DataSame
    <3>6. Travel'
      BY <1>1, <1>2, <3>1, <3>3, <3>5, TravelSame
    <3>7. LinksInv'
      BY <1>1, <1>2, <3>1, LinksSame
    <3>8. /\ chan' \in [Pairs -> Seq(Requests \cup Responses)] /\ \A k \in Pairs : Len(chan'[k]) <= Capacity
          /\ unsent' \in SUBSET Ids
      BY <1>1, <3>1 DEF Types
    <3>9. ViaInv'
      BY <1>1, <1>2, <3>2, ViaSame
    <3> QED
      BY <1>5, <3>1, <3>2, <3>5, <3>6, <3>7, <3>8, <3>9
  <2> QED
    BY <1>6, <2>1, <2>2, <2>3
<1>8. pending' \in [Nodes -> SUBSET Ids]
  BY <1>1, <1>2, <1>3 DEF Types
<1>9. PendingInv'
  <2> SUFFICES ASSUME NEW m \in Nodes, NEW id \in Ids
               PROVE  id \in pending'[m] <=> id.from = m /\ (Outstanding(id)' \/ id \in unsent')
    BY DEF PendingInv
  <2>1. pending \in [Nodes -> SUBSET Ids]
    BY <1>1 DEF Types
  <2>2. id \in pending'[m] <=> id \in pending[m] \/ (id = c.id /\ m = c.id.from)
    BY <1>2, <2>1
  <2>3. id \in pending[m] <=> id.from = m /\ (Outstanding(id) \/ id \in unsent)
    BY <1>1 DEF PendingInv
  <2> QED
    BY <1>7, <2>2, <2>3
<1>10. Types'
  BY <1>1, <1>2, <1>7, <1>8 DEF Types
<1>11. ApartInv'
  BY <1>1, <1>2, ApartSame
<1> QED
  BY <1>7, <1>9, <1>10, <1>11 DEF IInv

LEMMA SendKeeps ==
    ASSUME IInv, NEW c \in calls, Send(c)
    PROVE  IInv'
<1>1. Types /\ CallsInv /\ LinksInv /\ Travel /\ PendingInv /\ DataInv /\ ViaInv /\ ApartInv
  BY DEF IInv
<1>2. /\ UNCHANGED <<conn, recv, subs, dataVars, next, unsent, acked, owed>>
      /\ conn' = conn /\ recv' = recv /\ subs' = subs /\ owed' = owed /\ pending' = pending
      /\ acked' = acked /\ next' = next /\ unsent' = unsent
      /\ store' = store /\ mem' = mem /\ lost' = lost /\ commits' = commits /\ apart' = apart /\ c.st = "sending"
      /\ Room(Route(c)) /\ Put(c)
  BY DEF Send, dataVars
<1>3. CallFine(c) /\ {c.id.from, c.id.to} \in conn
  BY <1>1, <1>2 DEF CallsInv, CallFine
<1>4. /\ CallsInv' /\ calls' \in SUBSET Calls /\ LinksInv' /\ Travel' /\ DataInv' /\ ViaInv'
      /\ chan' \in [Pairs -> Seq(Requests \cup Responses)] /\ \A k \in Pairs : Len(chan'[k]) <= Capacity
      /\ \A id : id # c.id => (Outstanding(id)' <=> Outstanding(id))
      /\ Outstanding(c.id)'
  BY <1>1, <1>2, <1>3, PutStep
<1>5. Outstanding(c.id)
  BY <1>2 DEF Outstanding
<1>6. PendingInv'
  <2>1. \A id : Outstanding(id)' <=> Outstanding(id)
    BY <1>4, <1>5
  <2> QED
    BY <1>1, <1>2, <2>1, PendingSame
<1>7. Types'
  BY <1>1, <1>2, <1>4 DEF Types
<1>8. ApartInv'
  BY <1>1, <1>2, ApartSame
<1> QED
  BY <1>4, <1>6, <1>7, <1>8 DEF IInv

\* Whose message the receiver task is about to take
LEMMA HeadCarried ==
    ASSUME Types, Travel, NEW l \in Pairs, NEW t, Incoming(l, t)
    PROVE  \E a \in Waiting :
              /\ Head(chan[l]) \in Requests \cup Responses
              /\ a.id = Head(chan[l]).id
              /\ t = "request" => /\ l = <<a.id.from, a.id.to>> /\ Head(chan[l]).event = a.event
                                  /\ Head(chan[l]).kind = IF a.kind = "forward" THEN "commit" ELSE a.kind
              /\ t # "request" => /\ l = <<a.id.to, a.id.from>>
                                  /\ a.kind \in Carrying => Kept(a.event, a.id.to)
<1> DEFINE x == <<l, 1>>
<1>1. chan[l] # <<>> /\ Head(chan[l]).type = t /\ chan[l] \in Seq(Requests \cup Responses) /\ Len(chan[l]) <= Capacity
  BY DEF Incoming, Types
<1>2. Len(chan[l]) >= 1 /\ Len(chan[l]) \in Nat /\ Head(chan[l]) = chan[l][1] /\ Head(chan[l]) \in Requests \cup Responses
  BY <1>1
<1>3. x \in Places /\ Item(x) = Head(chan[l]) /\ x[1] = l /\ x[2] = 1
  BY <1>1, <1>2 DEF Places, Item
<1> HIDE DEF x
<1>4. PICK a \in Waiting : Carries(x, a)
  BY <1>3 DEF Travel
<1>5. Head(chan[l]).type \in {"request", "response"}
  BY <1>2 DEF Requests, Responses
<1>6. Item(x).type = t /\ t \in {"request", "response"}
  BY <1>1, <1>3, <1>5
<1>7. /\ a.id = Head(chan[l]).id
      /\ t = "request" => /\ l = <<a.id.from, a.id.to>> /\ Head(chan[l]).event = a.event
                          /\ Head(chan[l]).kind = IF a.kind = "forward" THEN "commit" ELSE a.kind
      /\ t # "request" => /\ l = <<a.id.to, a.id.from>>
                          /\ a.kind \in Carrying => Kept(a.event, a.id.to)
  BY <1>3, <1>4, <1>6 DEF Carries
<1> QED
  BY <1>2, <1>7

LEMMA TakeLinks ==
    ASSUME Types, LinksInv, NEW l \in Pairs, NEW t, Incoming(l, t), Take(l),
           \A k \in Pairs \ {l} : recv'[k] = recv[k], conn' = conn, subs' = subs
    PROVE  LinksInv'
<1>1. chan[l] # <<>> /\ chan[l] \in Seq(Requests \cup Responses)
  BY DEF Incoming, Types
<1>2. {l[1], l[2]} \in conn
  <2>1. Len(chan[l]) > 0
    BY <1>1
  <2> QED
    BY <2>1 DEF LinksInv
<1>3. \A k \in Pairs \ {l} : chan'[k] = chan[k]
  BY DEF Take, Types
<1> QED
  BY <1>2, <1>3 DEF LinksInv

LEMMA HandleCommitKeeps ==
    ASSUME IInv, NEW m \in Nodes, NEW n \in Nodes, <<m, n>> \in Pairs, HandleCommit(m, n)
    PROVE  IInv'
<1> DEFINE l == <<m, n>>
<1>1. Types /\ CallsInv /\ LinksInv /\ Travel /\ PendingInv /\ DataInv /\ ViaInv /\ ApartInv
  BY DEF IInv
<1>2. PICK msg : msg = Head(chan[l])
  OBVIOUS
<1>3. PICK r : r = [type |-> "committing", id |-> msg.id, states |-> NoState]
  OBVIOUS
<1>7. /\ conn' = conn /\ subs' = subs /\ pending' = pending /\ unsent' = unsent /\ acked' = acked
      /\ calls' = calls /\ next' = next /\ owed' = owed
      /\ store' = store /\ lost' = lost /\ apart' = apart
      /\ Incoming(l, "request") /\ msg.kind = "commit" /\ msg.type = "request" /\ Take(l)
      /\ Begin(n, msg.event, l) /\ recv' = [recv EXCEPT ![l] = r]
  BY <1>2, <1>3 DEF HandleCommit, Incoming
<1>4. l \in Pairs /\ l[2] = n
  OBVIOUS
<1> HIDE DEF l
<1>5. PICK a \in Waiting : /\ msg \in Requests \cup Responses
                           /\ a.id = msg.id /\ l = <<a.id.from, a.id.to>> /\ msg.event = a.event
                           /\ msg.kind = IF a.kind = "forward" THEN "commit" ELSE a.kind
  BY <1>1, <1>2, <1>4, <1>7, HeadCarried
<1>6. msg.event \in Events /\ msg.id \in Ids /\ \A c \in calls : c.id = msg.id => c.event = msg.event
  <2>1. CallFine(a) /\ a \in Calls
    BY <1>1 DEF CallsInv, Waiting, Types
  <2>2. a.kind \in Carrying
    BY <1>5, <1>7 DEF Carrying
  <2> QED
    BY <1>5, <2>1, <2>2 DEF CallFine, Calls
<1>8. r \in Held /\ r.id = msg.id /\ r.type = "committing"
  BY <1>3, <1>6, NoneFacts DEF Held
<1>9. PICK k \in CommitCalls :
              /\ k.at = n /\ k.event = msg.event /\ k.via = l /\ k.step \in {"load", "set"}
              /\ k.step = "set" => msg.event \in k.state.events
              /\ commits' = Overlapped(n) \cup {k} /\ commits' \in SUBSET CommitCalls
              /\ mem' \in [Nodes -> States \cup {None}] /\ ApartInv'
  <2>1. PICK e \in Events : e = msg.event
    BY <1>6
  <2>2. l \in Pairs \cup {None} /\ Begin(n, e, l)
    BY <1>4, <1>7, <2>1
  <2>4. n \in Nodes /\ e \in Events /\ store' = store /\ apart' = apart /\ Types /\ ApartInv
    BY <1>1, <1>4, <1>7, <2>1
  <2>3. \E k \in CommitCalls :
              /\ k.at = n /\ k.event = e /\ k.via = l /\ k.step \in {"load", "set"}
              /\ k.step = "set" => e \in k.state.events
              /\ commits' = Overlapped(n) \cup {k} /\ commits' \in SUBSET CommitCalls
              /\ mem' \in [Nodes -> States \cup {None}] /\ ApartInv'
    BY <2>2, <2>4, BeginStep
  <2> QED
    BY <2>1, <2>3
<1>10. CallsInv' /\ Waiting' = Waiting /\ CallsOld /\ \A id : Outstanding(id)' <=> Outstanding(id)
  BY <1>1, <1>7, CallsSame
<1>11. DataInv' /\ KeptGrows
  <2>1. \A p \in Nodes : \A e : Coming(e, p) => Coming(e, p)'
    BY <1>7 DEF Coming
  <2> QED
    BY <1>1, <1>7, <2>1, DataSame
<1>12. /\ Travel'
       /\ chan' \in [Pairs -> Seq(Requests \cup Responses)] /\ \A k2 \in Pairs : Len(chan'[k2]) <= Capacity
       /\ recv' \in [Pairs -> Held \cup {None}]
  <2>1. /\ r.type = "committing" => Head(chan[l]).kind = "commit"
        /\ r.type = "fetched" => Head(chan[l]).kind = "subscribe"
        /\ r.type = "response" => Head(chan[l]).kind # "commit"
        /\ r.id = Head(chan[l]).id
    BY <1>2, <1>7, <1>8
  <2> QED
    BY <1>1, <1>4, <1>7, <1>8, <1>10, <1>11, <2>1, TakeTravels
<1>13. recv[l] = None /\ recv'[l] = r /\ \A k2 \in Pairs : k2 # l => recv'[k2] = recv[k2]
  BY <1>1, <1>4, <1>7 DEF Types, Incoming
<1>14. LinksInv'
  <2>1. \A k2 \in Pairs \ {l} : recv'[k2] = recv[k2]
    BY <1>13
  <2> QED
    BY <1>1, <1>4, <1>7, <2>1, TakeLinks
<1>15. ViaInv'
  <2>1. k.step = "set" => k.event \in k.state.events
    BY <1>9
  <2>2. /\ k.via[2] = n /\ recv[k.via] = None
        /\ recv'[k.via] # None /\ recv'[k.via].type = "committing"
        /\ \A c \in calls : c.id = recv'[k.via].id => c.event = k.event
    BY <1>4, <1>6, <1>8, <1>9, <1>13, NoneFacts
  <2>3. \A k2 \in Pairs : k2 # k.via => recv'[k2] = recv[k2]
    BY <1>9, <1>13
  <2>4. k.at = n /\ k.step # "aborted" /\ commits' = Overlapped(n) \cup {k}
    BY <1>9
  <2> QED
    BY <1>1, <1>7, <2>1, <2>2, <2>3, <2>4, BeginVia
<1>16. PendingInv'
  BY <1>1, <1>7, <1>10, PendingSame
<1>17. Types'
  BY <1>1, <1>7, <1>9, <1>12 DEF Types
<1> QED
  BY <1>9, <1>10, <1>11, <1>12, <1>14, <1>15, <1>16, <1>17 DEF IInv

LEMMA HandleFetchKeeps ==
    ASSUME IInv, NEW m \in Nodes, NEW n \in Nodes, <<m, n>> \in Pairs, HandleFetch(m, n)
    PROVE  IInv'
<1> DEFINE l == <<m, n>>
<1>1. Types /\ CallsInv /\ LinksInv /\ Travel /\ PendingInv /\ DataInv /\ ViaInv /\ ApartInv
  BY DEF IInv
<1>2. PICK msg : msg = Head(chan[l])
  OBVIOUS
<1>3. PICK r : r = IF msg.kind = "fetch" THEN Response(msg.id, store[n])
                   ELSE [type |-> "fetched", id |-> msg.id, states |-> store[n]]
  OBVIOUS
<1>4. /\ conn' = conn /\ subs' = subs /\ pending' = pending /\ unsent' = unsent /\ acked' = acked
      /\ calls' = calls /\ next' = next /\ owed' = owed /\ UNCHANGED dataVars
      /\ store' = store /\ mem' = mem /\ lost' = lost /\ commits' = commits /\ apart' = apart
      /\ Incoming(l, "request") /\ msg.kind \in {"fetch", "subscribe"} /\ Take(l)
      /\ recv' = [recv EXCEPT ![l] = r]
  BY <1>2, <1>3 DEF HandleFetch, dataVars
<1>5. l \in Pairs
  OBVIOUS
<1> HIDE DEF l
<1>6. PICK a \in Waiting : msg \in Requests \cup Responses /\ a.id = msg.id
  BY <1>1, <1>2, <1>4, <1>5, HeadCarried
<1>7. msg.id \in Ids
  BY <1>1, <1>6 DEF Waiting, Types, Calls
<1>8. r \in Held /\ r.id = msg.id /\ (r.type = "fetched" => msg.kind = "subscribe")
      /\ ~(msg.kind = "commit")
      /\ r.type # "committing"
  <2>1. store[n] \in States
    BY <1>1 DEF Types
  <2> QED
    BY <1>3, <1>4, <1>7, <2>1 DEF Response, Held
<1>9. CallsInv' /\ Waiting' = Waiting /\ CallsOld /\ \A id : Outstanding(id)' <=> Outstanding(id)
  BY <1>1, <1>4, CallsSame
<1>10. DataInv' /\ KeptGrows
  <2>1. \A p \in Nodes : \A e : Coming(e, p) => Coming(e, p)'
    BY <1>4 DEF Coming
  <2> QED
    BY <1>1, <1>4, <2>1, DataSame
<1>11. /\ Travel'
       /\ chan' \in [Pairs -> Seq(Requests \cup Responses)] /\ \A k \in Pairs : Len(chan'[k]) <= Capacity
       /\ recv' \in [Pairs -> Held \cup {None}]
  <2>1. /\ r.type = "committing" => Head(chan[l]).kind = "commit"
        /\ r.type = "fetched" => Head(chan[l]).kind = "subscribe"
        /\ r.type = "response" => Head(chan[l]).kind # "commit"
        /\ r.id = Head(chan[l]).id
    BY <1>2, <1>8
  <2> QED
    BY <1>1, <1>4, <1>5, <1>8, <1>9, <1>10, <2>1, TakeTravels
<1>12. LinksInv'
  <2>1. \A k \in Pairs \ {l} : recv'[k] = recv[k]
    BY <1>1, <1>4 DEF Types
  <2> QED
    BY <1>1, <1>4, <1>5, <2>1, TakeLinks
<1>13. PendingInv'
  BY <1>1, <1>4, <1>9, PendingSame
<1>14. Types'
  BY <1>1, <1>4, <1>11 DEF Types
<1>15. ViaInv'
  <2>1. recv[l] = None /\ \A k \in Pairs \ {l} : recv'[k] = recv[k]
    BY <1>1, <1>4 DEF Types, Incoming
  <2> QED
    BY <1>1, <1>4, <1>9, <2>1, ViaTaken
<1>16. ApartInv'
  BY <1>1, <1>4, ApartSame
<1> QED
  BY <1>9, <1>10, <1>11, <1>12, <1>13, <1>14, <1>15, <1>16 DEF IInv

LEMMA HandleSubscribeKeeps ==
    ASSUME IInv, NEW m \in Nodes, NEW n \in Nodes, <<m, n>> \in Pairs, HandleSubscribe(m, n)
    PROVE  IInv'
<1> DEFINE l == <<m, n>>
           z == <<l, 0>>
<1>1. Types /\ CallsInv /\ LinksInv /\ Travel /\ PendingInv /\ DataInv /\ ViaInv /\ ApartInv
  BY DEF IInv
<1>2. PICK seq : seq = recv[l].id.seq
  OBVIOUS
<1>3. /\ conn' = conn /\ pending' = pending /\ unsent' = unsent /\ acked' = acked
      /\ calls' = calls /\ next' = next /\ owed' = owed /\ UNCHANGED dataVars
      /\ store' = store /\ mem' = mem /\ lost' = lost /\ commits' = commits /\ apart' = apart /\ chan' = chan
      /\ recv[l] # None /\ recv[l].type = "fetched" /\ recv[l].type # "committing"
      /\ subs' = [subs EXCEPT ![n] = @ \cup {<<m, seq>>}]
      /\ recv' = [recv EXCEPT ![l].type = "response"]
  BY <1>2 DEF HandleSubscribe, dataVars
<1>4. l \in Pairs
  OBVIOUS
<1>5. seq \in Nat /\ seq >= 1
  <2>1. z \in Places /\ Item(z) = recv[l]
    BY <1>3, <1>4 DEF Places, Item
  <2> HIDE DEF z
  <2>2. PICK a \in Waiting : Carries(z, a)
    BY <1>1, <2>1 DEF Travel
  <2>3. a.id = recv[l].id /\ a \in calls
    BY <2>1, <2>2 DEF Carries, Waiting
  <2>4. a.id.seq >= 1 /\ a.id.seq \in Nat
    BY <1>1, <2>3 DEF CallsInv, CallFine, Types, Calls, Ids
  <2> QED
    BY <1>2, <2>3, <2>4
<1>6. CallsInv' /\ Waiting' = Waiting /\ CallsOld /\ \A id : Outstanding(id)' <=> Outstanding(id)
  BY <1>1, <1>3, CallsSame
<1>7. DataInv' /\ KeptGrows
  <2>1. \A p \in Nodes : \A e : Coming(e, p) => Coming(e, p)'
    BY <1>3 DEF Coming
  <2> QED
    BY <1>1, <1>3, <2>1, DataSame
<1>8. {m, n} \in conn /\ {n, m} = {m, n}
  BY <1>1, <1>3, <1>4 DEF LinksInv
<1> HIDE DEF l
<1>9. Travel' /\ recv' \in [Pairs -> Held \cup {None}] /\ \A k \in Pairs : recv'[k] = None <=> recv[k] = None
  BY <1>1, <1>3, <1>4, <1>6, <1>7, SubscribeTravels
<1>10. subs' \in [Nodes -> SUBSET (Nodes \X Nat)] /\ subs'[n] = subs[n] \cup {<<m, seq>>}
       /\ \A p \in Nodes \ {n} : subs'[p] = subs[p]
  <2>1. subs \in [Nodes -> SUBSET (Nodes \X Nat)] /\ <<m, seq>> \in Nodes \X Nat
    BY <1>1, <1>5 DEF Types
  <2> QED
    BY <1>3, <2>1
<1>11. LinksInv'
  <2>1. \A k \in Pairs : recv'[k] # None \/ Len(chan'[k]) > 0 => {k[1], k[2]} \in conn'
    BY <1>1, <1>3, <1>9 DEF LinksInv
  <2>2. \A p \in Nodes : \A s \in subs'[p] : {p, s[1]} \in conn' /\ s[2] >= 1
    <3> SUFFICES ASSUME NEW p \in Nodes, NEW s \in subs'[p] PROVE {p, s[1]} \in conn' /\ s[2] >= 1
      OBVIOUS
    <3>1. CASE s \in subs[p]
      BY <1>1, <1>3, <3>1 DEF LinksInv
    <3>2. CASE s \notin subs[p]
      <4>1. p = n /\ s = <<m, seq>>
        BY <1>10, <3>2
      <4> QED
        BY <1>3, <1>5, <1>8, <4>1
    <3> QED
      BY <3>1, <3>2
  <2> QED
    BY <2>1, <2>2 DEF LinksInv
<1>12. PendingInv'
  BY <1>1, <1>3, <1>6, PendingSame
<1>13. Types'
  BY <1>1, <1>3, <1>9, <1>10 DEF Types
<1>14. ViaInv'
  <2>1. recv[l].type # "committing" /\ \A k \in Pairs \ {l} : recv'[k] = recv[k]
    BY <1>1, <1>3, <1>4 DEF Types
  <2> QED
    BY <1>1, <1>3, <1>6, <2>1, ViaTaken
<1>15. ApartInv'
  BY <1>1, <1>3, ApartSame
<1> QED
  BY <1>6, <1>7, <1>9, <1>11, <1>12, <1>13, <1>14, <1>15 DEF IInv

LEMMA ReplyKeeps ==
    ASSUME IInv, NEW m \in Nodes, NEW n \in Nodes, <<m, n>> \in Pairs, Reply(m, n)
    PROVE  IInv'
<1> DEFINE l == <<m, n>>
           back == <<n, m>>
<1>1. Types /\ CallsInv /\ LinksInv /\ Travel /\ PendingInv /\ DataInv /\ ViaInv /\ ApartInv
  BY DEF IInv
<1>2. /\ conn' = conn /\ pending' = pending /\ unsent' = unsent /\ acked' = acked
      /\ calls' = calls /\ next' = next /\ owed' = owed /\ UNCHANGED dataVars
      /\ store' = store /\ mem' = mem /\ lost' = lost /\ commits' = commits /\ apart' = apart /\ subs' = subs
      /\ recv[l] # None /\ recv' = [recv EXCEPT ![l] = None]
      /\ chan' = [chan EXCEPT ![back] = Append(@, recv[l])]
  BY DEF Reply, dataVars
<1>3. CallsInv' /\ Waiting' = Waiting /\ CallsOld /\ \A id : Outstanding(id)' <=> Outstanding(id)
  BY <1>1, <1>2, CallsSame
<1>4. DataInv' /\ KeptGrows
  <2>1. \A p \in Nodes : \A e : Coming(e, p) => Coming(e, p)'
    BY <1>2 DEF Coming
  <2> QED
    BY <1>1, <1>2, <2>1, DataSame
<1>5. /\ Travel'
      /\ chan' \in [Pairs -> Seq(Requests \cup Responses)] /\ \A k \in Pairs : Len(chan'[k]) <= Capacity
      /\ recv' \in [Pairs -> Held \cup {None}]
  BY <1>1, <1>3, <1>4, ReplyTravels
<1>6. LinksInv'
  <2>1. {l[1], l[2]} \in conn /\ {back[1], back[2]} = {l[1], l[2]}
    BY <1>1, <1>2 DEF LinksInv
  <2>2. \A k \in Pairs \ {back} : chan'[k] = chan[k]
    BY <1>1, <1>2 DEF Types
  <2>3. \A k \in Pairs \ {l} : recv'[k] = recv[k]
    BY <1>1, <1>2 DEF Types
  <2> HIDE DEF l, back
  <2> QED
    BY <1>1, <1>2, <2>1, <2>2, <2>3 DEF LinksInv
<1>7. PendingInv'
  BY <1>1, <1>2, <1>3, PendingSame
<1>8. Types'
  BY <1>1, <1>2, <1>5 DEF Types
<1>9. ViaInv'
  <2>1. recv[l].type # "committing" /\ \A k \in Pairs \ {l} : recv'[k] = recv[k]
    BY <1>1, <1>2 DEF Types, Reply
  <2> HIDE DEF l
  <2> QED
    BY <1>1, <1>2, <1>3, <2>1, ViaTaken
<1>10. ApartInv'
  BY <1>1, <1>2, ApartSame
<1> QED
  BY <1>3, <1>4, <1>5, <1>6, <1>7, <1>8, <1>9, <1>10 DEF IInv

LEMMA HandleResponseKeeps ==
    ASSUME IInv, NEW m \in Nodes, NEW n \in Nodes, <<m, n>> \in Pairs, HandleResponse(m, n)
    PROVE  IInv'
<1> DEFINE l == <<m, n>>
<1>1. Types /\ CallsInv /\ LinksInv /\ Travel /\ PendingInv /\ DataInv /\ ViaInv /\ ApartInv
  BY DEF IInv
<1>2. PICK msg : msg = Head(chan[l])
  OBVIOUS
<1>3. /\ conn' = conn /\ recv' = recv /\ subs' = subs /\ unsent' = unsent
      /\ next' = next /\ owed' = owed /\ store' = store /\ mem' = mem /\ lost' = lost /\ commits' = commits /\ apart' = apart
      /\ Incoming(l, "response") /\ msg.type = "response" /\ Take(l)
      /\ pending' = [pending EXCEPT ![n] = @ \ {msg.id}]
  BY <1>2 DEF HandleResponse, dataVars, Incoming, Without
<1>4. l \in Pairs
  OBVIOUS
<1>5. PICK a \in Waiting : /\ msg \in Requests \cup Responses /\ a.id = msg.id
                           /\ l = <<a.id.to, a.id.from>>
                           /\ a.kind \in Carrying => Kept(a.event, a.id.to)
  <2> HIDE DEF l
  <2> QED
    BY <1>1, <1>2, <1>3, <1>4, HeadCarried
<1>6. a \in calls /\ a.st = "waiting" /\ a \in Calls /\ CallFine(a) /\ a.id \in Ids /\ a.id.from = n /\ a.id.to = m
  BY <1>1, <1>5 DEF Waiting, CallsInv, Types, Calls
<1>7. msg.id \in pending[n]
  <2>1. Outstanding(a.id)
    BY <1>6 DEF Outstanding
  <2> QED
    BY <1>1, <1>5, <1>6, <2>1 DEF PendingInv
<1>8. msg.states \in States
  BY <1>3, <1>5 DEF Requests, Responses
<1>9. \A c \in calls : c.id = msg.id <=> c = a
  BY <1>5, <1>6 DEF CallFine
<1> DEFINE d == [[a EXCEPT !.st = "answered"] EXCEPT !.states = msg.states]
<1>10. /\ d \in Calls /\ d.id = a.id /\ d.kind = a.kind /\ d.event = a.event /\ d.st = "answered"
  <2> DEFINE w == [a EXCEPT !.st = "answered"]
  <2>0. w \in Calls /\ w.id = a.id /\ w.kind = a.kind /\ w.event = a.event /\ w.st = "answered"
    BY <1>6 DEF Calls
  <2>1. PICK b \in Calls : b = w /\ b.id = a.id /\ b.kind = a.kind
                           /\ b.event = a.event /\ b.st = "answered"
    BY <2>0
  <2>2. d = [b EXCEPT !.states = msg.states]
    BY <2>1
  <2> QED
    BY <1>8, <2>1, <2>2 DEF Calls
<1>11. {c \in calls : c.id = msg.id} = {a}
  BY <1>6, <1>9
<1>12. /\ calls' = (calls \ {a}) \cup {[c EXCEPT !.st = "answered", !.states = msg.states] :
                                        c \in {b \in {a} : b.kind \in {"fetch", "subscribe"}}}
       /\ acked' = acked \cup {<<c.event, m>> : c \in {b \in {a} : b.kind = "commit"}}
  BY <1>2, <1>7, <1>11 DEF HandleResponse
<1>13. calls' = IF a.kind \in {"fetch", "subscribe"} THEN (calls \ {a}) \cup {d} ELSE calls \ {a}
  <2>1. [a EXCEPT !.st = "answered", !.states = msg.states] = d
    OBVIOUS
  <2> HIDE DEF d
  <2>2. {[c EXCEPT !.st = "answered", !.states = msg.states] : c \in {b \in {a} : b.kind \in {"fetch", "subscribe"}}}
          = IF a.kind \in {"fetch", "subscribe"} THEN {d} ELSE {}
    BY <2>1
  <2> QED
    BY <1>12, <2>2
<1>14. acked' = IF a.kind = "commit" THEN acked \cup {<<a.event, m>>} ELSE acked
  BY <1>12
<1> HIDE DEF d
<1>15. /\ CallsInv' /\ CallsOld /\ calls' \in SUBSET Calls /\ Waiting' = Waiting \ {a}
       /\ \A id : id # a.id => (Outstanding(id)' <=> Outstanding(id))
       /\ ~Outstanding(a.id)'
  <2>1. CASE a.kind \in {"fetch", "subscribe"}
    <3>1. Follows(d, a) /\ calls' = (calls \ {a}) \cup {d}
      BY <1>10, <1>13, <2>1 DEF Follows, Carrying
    <3>2. /\ CallsInv' /\ calls' \in SUBSET Calls /\ CallsOld
          /\ Waiting' = (Waiting \ {a}) \cup IF d.st = "waiting" THEN {d} ELSE {}
          /\ \A id : id # a.id => (Outstanding(id)' <=> Outstanding(id))
          /\ Outstanding(a.id)' <=> d.st \in {"sending", "waiting", "orphaned"}
      BY <1>1, <1>3, <1>6, <3>1, CallGoesOn
    <3> QED
      BY <1>10, <3>2
  <2>2. CASE a.kind \notin {"fetch", "subscribe"}
    <3>1. calls' = calls \ {a}
      BY <1>13, <2>2
    <3> QED
      BY <1>1, <1>3, <1>6, <3>1, CallEnds
  <2> QED
    BY <2>1, <2>2
<1>16. KeptGrows /\ \A e, p : Kept(e, p)' <=> Kept(e, p)
  BY <1>3 DEF KeptGrows, Kept
<1>17. DataInv'
  <2>1. \A b \in acked' : Kept(b[1], b[2])'
    BY <1>1, <1>5, <1>6, <1>14, <1>16 DEF DataInv, Carrying
  <2>2. ASSUME NEW p \in Nodes, NEW e \in owed'[p] PROVE Kept(e, p)' \/ Coming(e, p)'
    <3>1. CASE Kept(e, p)
      BY <1>16, <3>1
    <3>2. CASE ~Kept(e, p)
      <4>0. Coming(e, p)
        BY <1>1, <1>3, <3>2 DEF DataInv
      <4>1. PICK c \in calls : /\ c.kind = "forward" /\ c.event = e /\ c.id.to = p
                               /\ c.st \in {"started", "sending", "waiting"}
                               /\ {c.id.from, p} \in conn
        BY <4>0 DEF Coming
      <4>2. c # a
        BY <1>5, <3>2, <4>1 DEF Carrying
      <4>3. c \in calls'
        BY <1>13, <4>2
      <4> QED
        BY <1>3, <4>1, <4>3 DEF Coming
    <3> QED
      BY <3>1, <3>2
  <2> QED
    BY <2>1, <2>2 DEF DataInv
<1>18. /\ Travel'
       /\ chan' \in [Pairs -> Seq(Requests \cup Responses)] /\ \A k \in Pairs : Len(chan'[k]) <= Capacity
  <2>1. a.id = Head(chan[l]).id
    BY <1>2, <1>5
  <2> HIDE DEF l
  <2> QED
    BY <1>1, <1>3, <1>4, <1>6, <1>15, <1>16, <2>1, AnswerTravels
<1>19. LinksInv'
  <2> HIDE DEF l
  <2> QED
    BY <1>1, <1>3, <1>4, TakeLinks
<1>20. pending' \in [Nodes -> SUBSET Ids]
  BY <1>1, <1>3 DEF Types
<1>21. PendingInv'
  <2> SUFFICES ASSUME NEW p \in Nodes, NEW id \in Ids
               PROVE  id \in pending'[p] <=> id.from = p /\ (Outstanding(id)' \/ id \in unsent')
    BY DEF PendingInv
  <2>1. pending \in [Nodes -> SUBSET Ids]
    BY <1>1 DEF Types
  <2>2. id \in pending'[p] <=> id \in pending[p] /\ ~(p = n /\ id = a.id)
    BY <1>3, <1>5, <2>1
  <2>3. id \in pending[p] <=> id.from = p /\ (Outstanding(id) \/ id \in unsent)
    BY <1>1 DEF PendingInv
  <2>4. a.id \notin unsent
    BY <1>6 DEF CallFine
  <2> QED
    BY <1>3, <1>6, <1>15, <2>2, <2>3, <2>4
<1>22. acked' \in SUBSET (Events \X Nodes)
  <2>1. a.kind = "commit" => a.event \in Events
    BY <1>6 DEF CallFine, Carrying
  <2> QED
    BY <1>1, <1>14, <2>1 DEF Types
<1>23. Types'
  BY <1>1, <1>3, <1>15, <1>18, <1>20, <1>22 DEF Types
<1>24. ViaInv'
  BY <1>1, <1>3, <1>15, ViaSame
<1>25. ApartInv'
  BY <1>1, <1>3, ApartSame
<1> QED
  BY <1>15, <1>17, <1>18, <1>19, <1>21, <1>23, <1>24, <1>25 DEF IInv

LEMMA ConnectKeeps ==
    ASSUME IInv, NEW l \in Links, Connect(l)
    PROVE  IInv'
<1>1. Types /\ CallsInv /\ LinksInv /\ Travel /\ PendingInv /\ DataInv /\ ViaInv /\ ApartInv
  BY DEF IInv
<1>2. /\ conn' = conn \cup {l} /\ pending' = pending /\ unsent' = unsent /\ acked' = acked
      /\ calls' = calls /\ next' = next /\ owed' = owed /\ UNCHANGED dataVars
      /\ store' = store /\ mem' = mem /\ lost' = lost /\ commits' = commits /\ apart' = apart /\ subs' = subs /\ chan' = chan /\ recv' = recv
  BY DEF Connect, dataVars
<1>3. CallsInv' /\ Waiting' = Waiting /\ CallsOld /\ \A id : Outstanding(id)' <=> Outstanding(id)
  BY <1>1, <1>2, CallsSame
<1>4. DataInv' /\ KeptGrows
  <2>1. \A p \in Nodes : \A e : Coming(e, p) => Coming(e, p)'
    BY <1>2 DEF Coming
  <2> QED
    BY <1>1, <1>2, <2>1, DataSame
<1>5. Travel'
  BY <1>1, <1>2, <1>3, <1>4, TravelSame
<1>6. LinksInv'
  BY <1>1, <1>2, LinksSame
<1>7. PendingInv'
  BY <1>1, <1>2, <1>3, PendingSame
<1>8. Types'
  BY <1>1, <1>2 DEF Types
<1>9. ViaInv'
  BY <1>1, <1>2, <1>3, ViaSame
<1>10. ApartInv'
  BY <1>1, <1>2, ApartSame
<1> QED
  BY <1>3, <1>4, <1>5, <1>6, <1>7, <1>8, <1>9, <1>10 DEF IInv

LEMMA DisconnectKeeps ==
    ASSUME IInv, NEW l \in Links, Disconnect(l)
    PROVE  IInv'
<1> DEFINE On(c) == l = {c.id.from, c.id.to}
           Orphan(c) == [c EXCEPT !.st = "orphaned"]
<1>1. Types /\ CallsInv /\ LinksInv /\ Travel /\ PendingInv /\ DataInv /\ ViaInv /\ ApartInv
  BY DEF IInv
<1>2. PICK blocked : blocked = {c \in calls : On(c) /\ c.st = "sending"}
  OBVIOUS
<1>3. PICK waiting : waiting = {c \in calls : On(c) /\ c.st = "waiting"}
  OBVIOUS
<1>4. /\ conn' = conn \ {l} /\ pending' = pending /\ acked' = acked /\ next' = next
      /\ store' = store /\ mem' = mem /\ lost' = lost /\ apart' = apart
      /\ chan' = [k \in Pairs |-> IF Ends(l, k[1], k[2]) THEN <<>> ELSE chan[k]]
      /\ recv' = [k \in Pairs |-> IF Ends(l, k[1], k[2]) THEN None ELSE recv[k]]
      /\ subs' = [n \in Nodes |-> {s \in subs[n] : ~Ends(l, n, s[1])}]
      /\ owed' = [n \in Nodes |-> IF n \in l THEN {} ELSE owed[n]]
  BY DEF Disconnect
<1>5. /\ blocked = {c \in {b \in calls : l = {b.id.from, b.id.to}} : c.st = "sending"}
      /\ waiting = {c \in {b \in calls : l = {b.id.from, b.id.to}} : c.st = "waiting"}
  BY <1>2, <1>3
<1>6. /\ calls' = (calls \ (blocked \cup waiting)) \cup {Orphan(c) : c \in waiting}
      /\ unsent' = unsent \cup {c.id : c \in blocked}
  BY <1>5 DEF Disconnect
<1>7. \A c \in calls : c \in Calls /\ CallFine(c) /\ c.id \in Ids
  BY <1>1 DEF CallsInv, Types, Calls
<1>8. \A c \in calls : /\ Orphan(c) \in Calls /\ Orphan(c).id = c.id /\ Orphan(c).kind = c.kind
                       /\ Orphan(c).event = c.event /\ Orphan(c).st = "orphaned"
  BY <1>7 DEF Calls
<1> HIDE DEF Orphan
<1>9. \A c, d \in calls : c.id = d.id => c = d
  BY <1>7 DEF CallFine
<1>10. /\ \A c \in calls' : \/ c \in calls /\ ~(On(c) /\ c.st \in {"sending", "waiting"})
                            \/ \E b \in waiting : c = Orphan(b)
       /\ \A c \in calls : c \in calls' \/ c \in blocked \/ c \in waiting
       /\ blocked \subseteq calls /\ waiting \subseteq calls /\ blocked \cap waiting = {}
  BY <1>2, <1>3, <1>6
<1>11. calls' \in SUBSET Calls /\ unsent' \in SUBSET Ids
  <2>1. \A c \in calls' : c \in Calls
    BY <1>7, <1>8, <1>10
  <2> QED
    BY <1>1, <1>6, <1>7, <1>10, <2>1 DEF Types
<1>12. \A c \in calls' : \E b \in calls : b.id = c.id /\ b \notin blocked
                              /\ (c = b \/ c = Orphan(b))
  BY <1>2, <1>8, <1>10
<1>13. ASSUME NEW c \in calls' PROVE CallFine(c)'
  <2>1. PICK b \in calls : b.id = c.id /\ b \notin blocked /\ (c = b \/ c = Orphan(b))
    BY <1>12
  <2>2. \A d \in calls' : d.id = c.id => d = c
    <3> SUFFICES ASSUME NEW d \in calls', d.id = c.id PROVE d = c
      OBVIOUS
    <3>1. PICK a \in calls : a.id = d.id /\ a \notin blocked /\ (d = a \/ d = Orphan(a))
      BY <1>12
    <3>2. a = b
      BY <1>9, <2>1, <3>1
    <3>3. b \in waiting => c # b /\ d # b
      <4> SUFFICES ASSUME b \in waiting PROVE c # b /\ d # b
        OBVIOUS
      <4>1. On(b) /\ b.st = "waiting"
        BY <1>3
      <4>2. \A y \in waiting : Orphan(y).st = "orphaned"
        BY <1>8, <1>10
      <4>3. b \notin calls'
        BY <1>10, <4>1, <4>2
      <4> QED
        BY <4>3
    <3>4. b \notin waiting => c = b /\ d = b
      <4> SUFFICES ASSUME b \notin waiting, NEW y \in calls', y.id = b.id PROVE y = b
        BY <2>1, <3>1, <3>2
      <4>1. \A x \in waiting : y # Orphan(x)
        BY <1>8, <1>9, <1>10
      <4>2. y \in calls
        BY <1>10, <4>1
      <4> QED
        BY <1>9, <4>2
    <3> QED
      BY <2>1, <3>1, <3>2, <3>3, <3>4
  <2>3. c.id \notin unsent'
    <3>1. c.id \notin unsent
      BY <1>7, <2>1 DEF CallFine
    <3>2. \A d \in blocked : d.id # c.id
      BY <1>9, <1>10, <2>1
    <3> QED
      BY <1>6, <3>1, <3>2
  <2>4. CASE c \in calls /\ ~(On(c) /\ c.st \in {"sending", "waiting"})
    <3>1. c.st \in {"sending", "waiting"} => {c.id.from, c.id.to} \in conn'
      BY <1>4, <1>7, <2>4 DEF CallFine
    <3> QED
      BY <1>4, <1>7, <2>2, <2>3, <2>4, <3>1 DEF CallFine
  <2>5. CASE \E a \in waiting : c = Orphan(a)
    <3>1. PICK a \in waiting : c = Orphan(a)
      BY <2>5
    <3>2. a \in calls /\ CallFine(a) /\ c.id = a.id /\ c.kind = a.kind /\ c.event = a.event /\ c.st = "orphaned"
      BY <1>7, <1>8, <1>10, <3>1
    <3>3. {c.id.from, c.id.to} \in Links
      BY <1>3, <3>1, <3>2
    <3> QED
      BY <1>4, <2>2, <2>3, <3>2, <3>3 DEF CallFine
  <2> QED
    BY <1>10, <2>4, <2>5
<1>14. CallsInv'
  <2>1. \A id \in unsent' : id.seq < next'[id.from]
    BY <1>1, <1>4, <1>6, <1>7, <1>10 DEF CallsInv, CallFine
  <2> QED
    BY <1>1, <1>4, <1>13, <2>1 DEF CallsInv
<1>15. Waiting' = {c \in Waiting : l # {c.id.from, c.id.to}}
  <2>1. ASSUME NEW c \in calls', c.st = "waiting" PROVE c \in calls /\ ~On(c)
    BY <1>8, <1>10, <2>1
  <2>2. ASSUME NEW c \in calls, c.st = "waiting", ~On(c) PROVE c \in calls'
    BY <1>2, <1>3, <1>10, <2>2
  <2> QED
    BY <2>1, <2>2 DEF Waiting
<1>16. KeptGrows /\ \A e, p : Kept(e, p)' <=> Kept(e, p)
  BY <1>4 DEF KeptGrows, Kept
<1>17. Travel'
  BY <1>1, <1>4, <1>15, <1>16, DropTravels
<1>18. DataInv'
  <2>1. \A b \in acked' : Kept(b[1], b[2])'
    BY <1>1, <1>4, <1>16 DEF DataInv
  <2>2. ASSUME NEW p \in Nodes, NEW e \in owed'[p] PROVE Kept(e, p)' \/ Coming(e, p)'
    <3>1. p \notin l /\ e \in owed[p]
      BY <1>4, <2>2
    <3>2. CASE Kept(e, p)
      BY <1>16, <3>2
    <3>3. CASE ~Kept(e, p)
      <4>1. PICK c \in calls : /\ c.kind = "forward" /\ c.event = e /\ c.id.to = p
                               /\ c.st \in {"started", "sending", "waiting"}
                               /\ {c.id.from, p} \in conn
        <5>1. Coming(e, p)
          BY <1>1, <3>1, <3>3 DEF DataInv
        <5> QED
          BY <5>1 DEF Coming
      <4>2. ~On(c) /\ {c.id.from, p} # l
        BY <3>1, <4>1
      <4>3. c \in calls'
        BY <1>2, <1>3, <1>10, <4>2
      <4> QED
        BY <1>4, <4>1, <4>2, <4>3 DEF Coming
    <3> QED
      BY <3>2, <3>3
  <2> QED
    BY <2>1, <2>2 DEF DataInv
<1>19. LinksInv'
  <2>1. \A k \in Pairs : recv'[k] # None \/ Len(chan'[k]) > 0 => {k[1], k[2]} \in conn'
    <3> SUFFICES ASSUME NEW k \in Pairs, recv'[k] # None \/ Len(chan'[k]) > 0 PROVE {k[1], k[2]} \in conn'
      OBVIOUS
    <3>1. Len(<<>>) = 0
      OBVIOUS
    <3>2. l # {k[1], k[2]} /\ recv'[k] = recv[k] /\ chan'[k] = chan[k]
      BY <1>4, <3>1 DEF Ends
    <3> QED
      BY <1>1, <1>4, <3>2 DEF LinksInv
  <2>2. \A p \in Nodes : \A s \in subs'[p] : {p, s[1]} \in conn' /\ s[2] >= 1
    <3> SUFFICES ASSUME NEW p \in Nodes, NEW s \in subs'[p] PROVE {p, s[1]} \in conn' /\ s[2] >= 1
      OBVIOUS
    <3>1. s \in subs[p] /\ l # {p, s[1]}
      BY <1>4 DEF Ends
    <3> QED
      BY <1>1, <1>4, <3>1 DEF LinksInv
  <2> QED
    BY <2>1, <2>2 DEF LinksInv
<1>20. PendingInv'
  <2> SUFFICES ASSUME NEW p \in Nodes, NEW id \in Ids
               PROVE  id \in pending'[p] <=> id.from = p /\ (Outstanding(id)' \/ id \in unsent')
    BY DEF PendingInv
  <2>1. id \in pending[p] <=> id.from = p /\ (Outstanding(id) \/ id \in unsent)
    BY <1>1 DEF PendingInv
  <2>2. ASSUME Outstanding(id)' \/ id \in unsent' PROVE Outstanding(id) \/ id \in unsent
    <3>1. CASE id \in unsent'
      BY <1>2, <1>6, <3>1 DEF Outstanding
    <3>2. CASE Outstanding(id)'
      <4>1. PICK c \in calls' : c.id = id /\ c.st \in {"sending", "waiting", "orphaned"}
        BY <3>2 DEF Outstanding
      <4>2. CASE c \in calls
        BY <4>1, <4>2 DEF Outstanding
      <4>3. CASE \E b \in waiting : c = Orphan(b)
        BY <1>3, <1>8, <4>1, <4>3 DEF Outstanding
      <4> QED
        BY <1>10, <4>2, <4>3
    <3> QED
      BY <2>2, <3>1, <3>2
  <2>3. ASSUME Outstanding(id) \/ id \in unsent PROVE Outstanding(id)' \/ id \in unsent'
    <3>1. CASE id \in unsent
      BY <1>6, <3>1
    <3>2. CASE Outstanding(id)
      <4>1. PICK c \in calls : c.id = id /\ c.st \in {"sending", "waiting", "orphaned"}
        BY <3>2 DEF Outstanding
      <4>2. CASE c \in calls'
        BY <4>1, <4>2 DEF Outstanding
      <4>3. CASE c \in blocked
        BY <1>6, <4>1, <4>3
      <4>4. CASE c \in waiting
        <5>1. Orphan(c) \in calls' /\ Orphan(c).id = id /\ Orphan(c).st = "orphaned"
          BY <1>6, <1>8, <4>1, <4>4
        <5> QED
          BY <5>1 DEF Outstanding
      <4> QED
        BY <1>10, <4>2, <4>3, <4>4
    <3> QED
      BY <2>3, <3>1, <3>2
  <2> QED
    BY <1>4, <2>1, <2>2, <2>3
<1>21. /\ conn' \subseteq Links
       /\ chan' \in [Pairs -> Seq(Requests \cup Responses)] /\ \A k \in Pairs : Len(chan'[k]) <= Capacity
       /\ recv' \in [Pairs -> Held \cup {None}]
       /\ subs' \in [Nodes -> SUBSET (Nodes \X Nat)]
       /\ owed' \in [Nodes -> SUBSET Events]
  <2>1. conn' \subseteq Links
    BY <1>1, <1>4 DEF Types
  <2>2. <<>> \in Seq(Requests \cup Responses) /\ Len(<<>>) <= Capacity
    OBVIOUS
  <2>3. chan' \in [Pairs -> Seq(Requests \cup Responses)] /\ \A k \in Pairs : Len(chan'[k]) <= Capacity
    BY <1>1, <1>4, <2>2 DEF Types
  <2>4. recv' \in [Pairs -> Held \cup {None}]
    BY <1>1, <1>4 DEF Types
  <2>5. subs' \in [Nodes -> SUBSET (Nodes \X Nat)]
    BY <1>1, <1>4 DEF Types
  <2>6. owed' \in [Nodes -> SUBSET Events]
    BY <1>1, <1>4 DEF Types
  <2> QED
    BY <2>1, <2>3, <2>4, <2>5, <2>6
<1>22. CallsOld
  BY <1>8, <1>12 DEF CallsOld
<1>23. PICK handled : /\ handled \subseteq commits
                      /\ \A r \in commits : r \in handled <=> /\ r.via # None /\ r.step # "aborted"
                                                              /\ Ends(l, r.via[1], r.via[2])
                      /\ commits' = (commits \ handled) \cup
                                    {[r EXCEPT !.step = "aborted"] : r \in {q \in handled : q.step = "set"}}
  <2>1. PICK handled : handled = {r \in commits : /\ r.via # None /\ r.step # "aborted"
                                                  /\ Ends(l, r.via[1], r.via[2])}
    OBVIOUS
  <2>2. commits' = (commits \ handled) \cup
                   {[r EXCEPT !.step = "aborted"] : r \in {q \in handled : q.step = "set"}}
    BY <2>1 DEF Disconnect
  <2> QED
    BY <2>1, <2>2
<1>24. ASSUME NEW r \in commits', r \notin commits \ handled
       PROVE  /\ r \in CommitCalls /\ r.step = "aborted" /\ r.event \in r.state.events
              /\ r.via # None => r.via[2] = r.at
              /\ \E q \in commits : /\ q.at = r.at /\ q.event = r.event /\ q.state = r.state
                                    /\ q.alone = r.alone /\ q.step = "set" /\ q \in handled
                                    /\ r = [q EXCEPT !.step = "aborted"]
  <2>1. PICK q \in handled : q.step = "set" /\ r = [q EXCEPT !.step = "aborted"]
    BY <1>23, <1>24
  <2>2. q \in commits /\ q \in CommitCalls /\ CommitFine(q)
    BY <1>1, <1>23 DEF Types, ViaInv
  <2>3. /\ r \in CommitCalls /\ r.step = "aborted" /\ r.at = q.at /\ r.event = q.event
        /\ r.state = q.state /\ r.via = q.via /\ r.alone = q.alone
    BY <2>1, <2>2 DEF CommitCalls
  <2> QED
    BY <2>1, <2>2, <2>3 DEF CommitFine
<1>25. commits' \in SUBSET CommitCalls
  <2>1. \A r \in commits' : r \in CommitCalls
    BY <1>1, <1>24 DEF Types
  <2> QED
    BY <2>1
<1>26. ViaInv'
  <2> SUFFICES ASSUME NEW r \in commits' PROVE CommitFine(r)'
    BY DEF ViaInv
  <2>1. CASE r \notin commits \ handled
    BY <1>24, <2>1 DEF CommitFine
  <2>2. CASE r \in commits \ handled
    <3>1. CommitFine(r) /\ r \in CommitCalls
      BY <1>1, <2>2 DEF Types, ViaInv
    <3>2. ASSUME r.via # None, r.step # "aborted"
          PROVE  /\ recv'[r.via] # None /\ recv'[r.via].type = "committing"
                 /\ \A c \in calls' : c.id = recv'[r.via].id => c.event = r.event
                 /\ \A q \in commits' : q.via = r.via /\ q.step # "aborted" => q = r
      <4>1. r.via \in Pairs /\ ~Ends(l, r.via[1], r.via[2])
        BY <1>23, <2>2, <3>1, <3>2 DEF CommitCalls
      <4>2. recv'[r.via] = recv[r.via]
        BY <1>4, <4>1
      <4>3. /\ recv[r.via] # None /\ recv[r.via].type = "committing"
            /\ \A c \in calls : c.id = recv[r.via].id => c.event = r.event
            /\ \A q \in commits : q.via = r.via /\ q.step # "aborted" => q = r
        BY <3>1, <3>2 DEF CommitFine
      <4>4. \A c \in calls' : c.id = recv[r.via].id => c.event = r.event
        BY <1>1, <1>22, <4>1, <4>3, EventSame
      <4>5. \A q \in commits' : q.via = r.via /\ q.step # "aborted" => q = r
        BY <1>24, <4>3
      <4> QED
        BY <4>2, <4>3, <4>4, <4>5
    <3> QED
      BY <3>1, <3>2 DEF CommitFine
  <2> QED
    BY <2>1, <2>2
<1>27. ApartInv'
  <2>1. ASSUME NEW n \in Nodes \ Askers, NEW e \in apart'[n]
        PROVE  /\ e \in store'[n].events /\ (mem'[n] # None => e \in mem'[n].events)
               /\ \A o \in commits' : o.at = n /\ o.step # "load" => e \in o.state.events
    <3>1. /\ e \in store[n].events /\ (mem[n] # None => e \in mem[n].events)
          /\ \A o \in commits : o.at = n /\ o.step # "load" => e \in o.state.events
      BY <1>1, <1>4, <2>1 DEF ApartInv
    <3>2. ASSUME NEW o \in commits', o.at = n, o.step # "load" PROVE e \in o.state.events
      BY <1>24, <3>1, <3>2
    <3> QED
      BY <1>4, <3>1, <3>2
  <2>2. ASSUME NEW o \in commits', o.alone
        PROVE  /\ \A k \in commits' : k.at = o.at => k = o
               /\ o.step = "set" /\ o.at \notin Askers /\ mem'[o.at] # None =>
                       o.event \in mem'[o.at].events
    <3>1. ASSUME NEW k \in commits'
          PROVE  \E q \in commits : /\ q.at = k.at /\ q.alone = k.alone
                                    /\ \/ k = q /\ q \notin handled
                                       \/ q \in handled /\ k = [q EXCEPT !.step = "aborted"]
      BY <1>24
    <3>2. PICK q \in commits : /\ q.at = o.at /\ q.alone = o.alone
                               /\ \/ o = q /\ q \notin handled
                                  \/ q \in handled /\ o = [q EXCEPT !.step = "aborted"]
      BY <3>1
    <3>3. \A k \in commits : k.at = q.at => k = q
      BY <1>1, <2>2, <3>2 DEF ApartInv
    <3>4. \A k \in commits' : k.at = o.at => k = o
      BY <3>1, <3>2, <3>3
    <3>5. ASSUME o.step = "set", o.at \notin Askers, mem'[o.at] # None PROVE o.event \in mem'[o.at].events
      <4>1. o \in commits
        BY <1>24, <3>5
      <4> QED
        BY <1>1, <1>4, <2>2, <3>5, <4>1 DEF ApartInv
    <3> QED
      BY <3>4, <3>5
  <2> QED
    BY <2>1, <2>2 DEF ApartInv
<1>28. Types'
  BY <1>1, <1>4, <1>11, <1>21, <1>25 DEF Types
<1> QED
  BY <1>14, <1>17, <1>18, <1>19, <1>20, <1>26, <1>27, <1>28 DEF IInv

-----------------------------------------------------------------------------
(* The invariant *)

LEMMA InitHolds == Init => IInv
<1> SUFFICES ASSUME Init PROVE IInv
  OBVIOUS
<1>1. Types
  <2>1. /\ [l \in Pairs |-> <<>>] \in [Pairs -> Seq(Requests \cup Responses)]
        /\ \A l \in Pairs : Len([k \in Pairs |-> <<>>][l]) = 0
    OBVIOUS
  <2>2. chan \in [Pairs -> Seq(Requests \cup Responses)] /\ \A l \in Pairs : Len(chan[l]) <= Capacity
    BY <2>1 DEF Init
  <2> QED
    BY <2>2, NoneFacts DEF Init, Types
<1>2. CallsInv
  BY DEF Init, CallsInv
<1>3. LinksInv
  <2>1. \A l \in Pairs : recv[l] = None /\ Len(chan[l]) = 0
    BY DEF Init
  <2> QED
    BY <2>1 DEF Init, LinksInv
<1>4. Travel
  <2>1. \A l \in Pairs : recv[l] = None /\ Len(chan[l]) = 0
    BY DEF Init
  <2>2. ASSUME NEW x \in Places PROVE FALSE
    <3>1. x[1] \in Pairs /\ x[2] \in 0..Capacity
          /\ IF x[2] = 0 THEN recv[x[1]] # None ELSE x[2] <= Len(chan[x[1]])
      BY DEF Places
    <3> QED
      BY <2>1, <3>1
  <2>3. Waiting = {}
    BY DEF Init, Waiting
  <2> QED
    BY <2>2, <2>3 DEF Travel
<1>5. PendingInv
  BY DEF Init, PendingInv, Outstanding
<1>6. DataInv
  BY DEF Init, DataInv
<1>7. ViaInv /\ ApartInv
  BY DEF Init, ViaInv, ApartInv
<1> QED
  BY <1>1, <1>2, <1>3, <1>4, <1>5, <1>6, <1>7 DEF IInv

LEMMA NextHolds == IInv /\ [Next]_vars => IInv'
<1> SUFFICES ASSUME IInv, [Next]_vars PROVE IInv'
  OBVIOUS
<1>1. ASSUME NEW n \in Nodes, NEW e \in Events, CommitEvents(n, e) PROVE IInv'
  BY <1>1, CommitEventsKeeps
<1>2. ASSUME NEW n \in Nodes, NEW kind \in {"fetch", "subscribe"}, Ask(n, kind) PROVE IInv'
  BY <1>2, AskKeeps
<1>3. ASSUME NEW n \in Nodes, FetchLocal(n) PROVE IInv'
  BY <1>3, FetchLocalKeeps
<1>4. ASSUME NEW n \in Nodes, Evict(n) PROVE IInv'
  BY <1>4, EvictKeeps
<1>5. ASSUME NEW c \in calls, Progress(c) PROVE IInv'
  BY <1>5, RequestKeeps, SendKeeps, StoreAnswerKeeps, ReadStatesKeeps, ReadBackKeeps DEF Progress
<1>11. ASSUME NEW r \in commits, CommitLocal(r) PROVE IInv'
  BY <1>11, GetStateKeeps, TakeStateKeeps, SetStateKeeps DEF CommitLocal
<1>12. ASSUME NEW r \in commits, Land(r) PROVE IInv'
  BY <1>12, LandKeeps
<1>6. ASSUME NEW l \in Pairs, Receive(l[1], l[2]) PROVE IInv'
  <2>1. l[1] \in Nodes /\ l[2] \in Nodes /\ <<l[1], l[2]>> \in Pairs
    BY PairsFacts
  <2> QED
    BY <1>6, <2>1, HandleCommitKeeps, HandleFetchKeeps, HandleSubscribeKeeps, ReplyKeeps,
       HandleResponseKeeps DEF Receive
<1>7. ASSUME NEW l \in Links, Connect(l) PROVE IInv'
  BY <1>7, ConnectKeeps
<1>8. ASSUME NEW l \in Links, Disconnect(l) PROVE IInv'
  BY <1>8, DisconnectKeeps
<1>9. CASE UNCHANGED vars
  <2>1. /\ conn' = conn /\ pending' = pending /\ unsent' = unsent /\ acked' = acked
        /\ calls' = calls /\ next' = next /\ owed' = owed /\ UNCHANGED dataVars
        /\ store' = store /\ mem' = mem /\ lost' = lost /\ commits' = commits /\ apart' = apart /\ subs' = subs /\ chan' = chan /\ recv' = recv
    BY <1>9 DEF vars, netVars, dataVars
  <2>2. Types /\ CallsInv /\ LinksInv /\ Travel /\ PendingInv /\ DataInv /\ ViaInv /\ ApartInv
    BY DEF IInv
  <2>3. CallsInv' /\ Waiting' = Waiting /\ CallsOld /\ \A id : Outstanding(id)' <=> Outstanding(id)
    BY <2>1, <2>2, CallsSame
  <2>4. \A n \in Nodes : \A e : Coming(e, n) => Coming(e, n)'
    BY <2>1 DEF Coming
  <2>5. DataInv' /\ KeptGrows
    BY <2>1, <2>2, <2>4, DataSame
  <2>6. Types'
    BY <2>1, <2>2 DEF Types
  <2>7. LinksInv'
    BY <2>1, <2>2, LinksSame
  <2>8. Travel'
    BY <2>1, <2>2, <2>3, <2>5, TravelSame
  <2>9. PendingInv'
    BY <2>1, <2>2, <2>3, PendingSame
  <2>10. ViaInv' /\ ApartInv'
    BY <2>1, <2>2, <2>3, ViaSame, ApartSame
  <2> QED
    BY <2>3, <2>5, <2>6, <2>7, <2>8, <2>9, <2>10 DEF IInv
<1>10. CASE Tasks
  BY <1>5, <1>6, <1>10, <1>11 DEF Tasks
<1> QED
  BY <1>1, <1>2, <1>3, <1>4, <1>7, <1>8, <1>9, <1>10, <1>12 DEF Next

\* Travel and what it rests on hold in every state the nodes reach.
THEOREM Invariance == Spec => []IInv
<1>1. Init => IInv
  BY InitHolds
<1>2. IInv /\ [Next]_vars => IInv'
  BY NextHolds
<1> QED
  BY <1>1, <1>2, PTL DEF Spec

\* The channels stay within their capacity (local-process lib.rs:41), what is in them and in the futures is what
\* node.rs puts there, and no two requests have the same id (ulid).
THEOREM TypeCorrect == Spec => []TypeOK
<1>1. ASSUME IInv PROVE TypeOK
  <2>1. Types /\ CallsInv /\ LinksInv /\ PendingInv
    BY <1>1 DEF IInv
  <2>2. ASSUME NEW l \in Pairs
        PROVE  /\ Len(chan[l]) <= Capacity
               /\ \A i \in 1..Len(chan[l]) : chan[l][i] \in Requests \cup Responses
               /\ recv[l] # None => [recv[l] EXCEPT !.type = "response"] \in Responses
    <3>1. chan[l] \in Seq(Requests \cup Responses) /\ Len(chan[l]) <= Capacity
      BY <2>1 DEF Types
    <3>2. ASSUME NEW r \in Held PROVE [r EXCEPT !.type = "response"] \in Responses
      BY DEF Held, Responses
    <3>3. recv[l] # None => recv[l] \in Held
      BY <2>1 DEF Types
    <3> QED
      BY <3>1, <3>2, <3>3
  <2>3. ASSUME NEW n \in Nodes, NEW id \in pending[n] PROVE id \in Ids /\ id.from = n
    BY <2>1 DEF Types, PendingInv
  <2>4. ASSUME NEW n \in Nodes
        PROVE  /\ subs[n] \subseteq Nodes \X Nat
               /\ store[n] \in States /\ mem[n] \in States \cup {None}
               /\ owed[n] \cup lost[n] \cup apart[n] \subseteq Events
               /\ next[n] \in Nat
    BY <2>1 DEF Types
  <2>5. conn \subseteq Links /\ calls \subseteq Calls /\ commits \subseteq CommitCalls
    BY <2>1 DEF Types
  <2>6. \A c, d \in calls : c.id = d.id => c = d
    BY <2>1 DEF CallsInv, CallFine
  <2> QED
    BY <2>2, <2>3, <2>4, <2>5, <2>6 DEF TypeOK
<1> QED
  BY <1>1, Invariance, PTL

\* A future that waits in Node::request has its request, or the answer to it, at exactly one place
\* of the network and of the peer, and its sender in pending_requests (node.rs:124).
THEOREM Answered == Spec => []Answerable
<1>1. ASSUME IInv PROVE Answerable
  <2>1. Types /\ CallsInv /\ Travel /\ PendingInv
    BY <1>1 DEF IInv
  <2> SUFFICES ASSUME NEW c \in calls, c.st \in {"waiting", "orphaned"}
               PROVE  /\ c.id \in pending[c.id.from]
                      /\ Cardinality(InFlight(c)) = IF c.st = "waiting" THEN 1 ELSE 0
    BY DEF Answerable
  <2> DEFINE there == <<c.id.from, c.id.to>>
             back == <<c.id.to, c.id.from>>
  <2>2. CallFine(c) /\ c \in Calls /\ c.id \in Ids /\ c.id.from \in Nodes /\ c.id.to \in Nodes
    BY <2>1 DEF Types, CallsInv, Calls, Ids
  <2>3. c.id \in pending[c.id.from]
    BY <2>1, <2>2 DEF PendingInv, Outstanding
  <2>4. there \in Pairs /\ back \in Pairs
    <3>1. {c.id.from, c.id.to} \in Links
      BY <2>1, <2>2 DEF CallFine, Types
    <3> QED
      BY <2>2, <3>1, PairsFacts
  <2>5. chan[there] \in Seq(Requests \cup Responses) /\ chan[back] \in Seq(Requests \cup Responses)
        /\ Len(chan[there]) <= Capacity /\ Len(chan[back]) <= Capacity
        /\ Len(chan[there]) \in Nat /\ Len(chan[back]) \in Nat
    BY <2>1, <2>4 DEF Types
  <2> HIDE DEF there, back
  <2>6. ASSUME NEW y PROVE y \in InFlight(c) <=>
           \/ \E j \in 1..Len(chan[there]) :
                    y = <<there, j>> /\ chan[there][j].type = "request" /\ chan[there][j].id = c.id
           \/ \E j \in 1..Len(chan[back]) :
                    y = <<back, j>> /\ chan[back][j].type = "response" /\ chan[back][j].id = c.id
           \/ recv[there] # None /\ recv[there].id = c.id /\ y = <<there, 0>>
    BY DEF InFlight, there, back
  <2>7. ASSUME NEW y \in InFlight(c) PROVE y \in Places /\ Item(y).id = c.id
    <3>1. CASE \E j \in 1..Len(chan[there]) :
                    y = <<there, j>> /\ chan[there][j].type = "request" /\ chan[there][j].id = c.id
      BY <2>4, <2>5, <3>1 DEF Places, Item
    <3>2. CASE \E j \in 1..Len(chan[back]) :
                    y = <<back, j>> /\ chan[back][j].type = "response" /\ chan[back][j].id = c.id
      BY <2>4, <2>5, <3>2 DEF Places, Item
    <3>3. CASE recv[there] # None /\ recv[there].id = c.id /\ y = <<there, 0>>
      BY <2>4, <2>5, <3>3 DEF Places, Item
    <3> QED
      BY <2>6, <2>7, <3>1, <3>2, <3>3
  <2>8. ASSUME NEW y \in Places, NEW b \in Waiting, Carries(y, b), b.id = c.id PROVE y \in InFlight(c)
    <3>1. /\ y = <<y[1], y[2]>>
          /\ y[2] = 0 => Item(y) = recv[y[1]] /\ Item(y) \in Held
          /\ y[2] # 0 => /\ y[2] \in 1..Len(chan[y[1]]) /\ Item(y) = chan[y[1]][y[2]]
                         /\ Item(y) \in Requests \cup Responses
      BY <2>1, PlaceTypes
    <3>2. /\ Item(y).id = c.id /\ (Item(y).type = "request" => y[1] = there)
          /\ (Item(y).type = "fetched" => y[2] = 0)
          /\ (Item(y).type # "request" => y[1] = IF y[2] = 0 THEN there ELSE back)
      BY <2>8 DEF Carries, there, back
    <3>3. CASE y[2] = 0
      <4>1. y[1] = there /\ recv[there] # None
        BY <3>1, <3>2, <3>3, NoneFacts
      <4> QED
        BY <2>6, <3>1, <3>2, <3>3, <4>1
    <3>4. CASE y[2] # 0
      <4>1. Item(y).type \in {"request", "response"}
        BY <3>1, <3>4 DEF Requests, Responses
      <4> QED
        BY <2>6, <3>1, <3>2, <3>4, <4>1
    <3> QED
      BY <3>3, <3>4
  <2>9. CASE c.st = "waiting"
    <3>1. c \in Waiting
      BY <2>9 DEF Waiting
    <3>2. PICK x \in Places : Item(x).id = c.id
      BY <2>1, <3>1 DEF Travel
    <3>3. PICK b \in Waiting : Carries(x, b)
      BY <2>1 DEF Travel
    <3>4. b.id = c.id
      BY <3>2, <3>3 DEF Carries
    <3>5. x \in InFlight(c)
      BY <2>8, <3>3, <3>4
    <3>6. InFlight(c) = {x}
      BY <2>1, <2>7, <3>2, <3>5 DEF Travel
    <3>7. Cardinality({x}) = 1
      BY FS_Singleton
    <3> QED
      BY <2>3, <2>9, <3>6, <3>7
  <2>10. CASE c.st = "orphaned"
    <3>1. ASSUME NEW y \in InFlight(c) PROVE FALSE
      <4>1. PICK b \in Waiting : Carries(y, b)
        BY <2>1, <2>7 DEF Travel
      <4>2. b.id = c.id /\ b \in calls /\ b.st = "waiting"
        BY <2>7, <4>1 DEF Carries, Waiting
      <4> QED
        BY <2>2, <2>10, <4>2 DEF CallFine
    <3>2. InFlight(c) = {}
      BY <3>1
    <3>3. Cardinality({}) = 0
      BY FS_EmptySet
    <3> QED
      BY <2>3, <2>10, <3>2, <3>3
  <2> QED
    BY <2>9, <2>10
<1> QED
  BY <1>1, Invariance, PTL

\* pending_requests holds the requests somebody still waits for and those that could not be sent
\* (node.rs:132), nothing else.
THEOREM PendingCounted == Spec => []PendingAccounted
<1>1. ASSUME IInv PROVE PendingAccounted
  <2>1. Types /\ PendingInv
    BY <1>1 DEF IInv
  <2> SUFFICES ASSUME NEW n \in Nodes
               PROVE  pending[n] = {c.id : c \in {d \in calls : d.id.from = n
                                                   /\ d.st \in {"sending", "waiting", "orphaned"}}}
                                   \cup {id \in unsent : id.from = n}
    BY DEF PendingAccounted
  <2> DEFINE S == {c.id : c \in {d \in calls : d.id.from = n
                                                   /\ d.st \in {"sending", "waiting", "orphaned"}}}
  <2>2. \A id : id \in S <=> id.from = n /\ Outstanding(id)
    BY DEF Outstanding
  <2>3. \A id : Outstanding(id) \/ id \in unsent => id \in Ids
    BY <2>1 DEF Outstanding, Types, Calls
  <2>4. \A id \in pending[n] : id \in Ids
    BY <2>1 DEF Types
  <2> HIDE DEF S
  <2>5. pending[n] = S \cup {id \in unsent : id.from = n}
    BY <2>1, <2>2, <2>3, <2>4 DEF PendingInv
  <2> QED
    BY <2>5 DEF S
<1> QED
  BY <1>1, Invariance, PTL

\* CommitComplete means that the peer has stored the event (node.rs:190), and a peer that never asks
\* for states keeps it, unless its commit of the event overlapped another one (node.rs:302-306).
THEOREM CommitsStored == Spec => []AckedStored
<1>1. ASSUME IInv PROVE AckedStored
  <2> SUFFICES ASSUME NEW a \in acked
               PROVE  \/ a[1] \in store[a[2]].events
                      \/ /\ a[1] \in lost[a[2]]
                         /\ a[2] \in Asking.fetch \cup Asking.subscribe \/ a[1] \notin apart[a[2]]
    BY DEF AckedStored
  <2>1. a[2] \in Nodes /\ Kept(a[1], a[2])
    BY <1>1 DEF IInv, Types, DataInv
  <2>2. a[2] \notin Askers /\ a[1] \in apart[a[2]] => a[1] \in store[a[2]].events
    BY <1>1, <2>1 DEF IInv, ApartInv
  <2> QED
    BY <2>1, <2>2 DEF Kept, Askers
<1> QED
  BY <1>1, Invariance, PTL

\* When nothing is under way, a subscriber has, or has overwritten, what it was to be told
\* (handle_subscribe_request, node.rs:211).
THEOREM SubscribersTold == Spec => []SubscriberTold
<1>1. ASSUME IInv PROVE SubscriberTold
  <2> SUFFICES ASSUME \A c \in calls : c.st = "orphaned", NEW n \in Nodes, NEW e \in owed[n]
               PROVE  e \in store[n].events \cup lost[n]
    BY DEF SubscriberTold
  <2>1. ~Coming(e, n)
    BY DEF Coming
  <2>2. Kept(e, n) \/ Coming(e, n)
    BY <1>1 DEF IInv, DataInv
  <2> QED
    BY <2>1, <2>2 DEF Kept
<1> QED
  BY <1>1, Invariance, PTL
=============================================================================
