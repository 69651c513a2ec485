-------------------------- MODULE NodeCommitProofs --------------------------
(***************************************************************************)
(* What NodeCommit.tla promises for any entities, transactions, requests   *)
(* and readers: one object per entity, memory that is not behind the       *)
(* storage, and commits whose events stay stored and are told.             *)
(***************************************************************************)
EXTENDS NodeCommit, FiniteSetTheorems, SequenceTheorems, TLAPS

Answers == UNION {[S -> State \cup {None}] : S \in SUBSET Entities}
Entries == [ent : Entities, obj : Objects]

HeapType == heap \in [Objects -> Object \cup {None}]
MapType == entities \in [Entities -> Objects \cup {None, "dead"}]

ProcTypes ==
    /\ pc \in [Processes -> {"start", "load", "loaded", "next", "set", "done", "failed"}]
    /\ list \in [Txns -> Seq(Entries)]
    /\ want \in [Processes -> Entities \cup {None}]
    /\ got \in [Processes -> Answers]
    /\ events \in [Processes -> Seq(Events)]
    /\ current \in [Processes -> Nat \ {0}]
    /\ writing \in [Processes -> State \cup {None}]
    /\ changes \in [Processes -> SUBSET Events]

OtherTypes ==
    /\ stored \in [Entities -> State \cup {None}]
    /\ created \subseteq Entities
    /\ notified \subseteq Events /\ acked \subseteq Events /\ dropped \subseteq Events
    /\ regressed \subseteq Entities /\ raced \subseteq Entities
    /\ restarts \in 0..MaxRestarts

Types == HeapType /\ MapType /\ ProcTypes /\ OtherTypes

\* The objects and the map

Live(o) == heap[o] # None
New(o) == Live(o) /\ heap[o].new

\* What the map has is alive and has been entered.
Mapped ==
    \A e \in Entities : Alive(e) =>
        Live(entities[e]) /\ heap[entities[e]].ent = e /\ ~heap[entities[e]].new

\* An object that is not entered yet is the only one of its kind, and nothing is stored
\* of its entity as long as the map has never had it.
NewOnce ==
    \A o \in Objects : New(o) =>
        /\ heap[o].ent \in created
        /\ \E t \in Txns : NewId[t] = heap[o].ent
        /\ \A x \in Objects : New(x) /\ heap[x].ent = heap[o].ent => x = o
        /\ entities[heap[o].ent] = None => stored[heap[o].ent] = None

Objective == Mapped /\ UniqueResident /\ NewOnce

\* Nothing is known of an id that has not been handed out.
KnownOf(p) ==
    /\ want[p] # None => want[p] \in Ids
    /\ p \in Txns => \A n \in DOMAIN list[p] : list[p][n].ent \in Ids
    /\ pc[p] # "start" => \A n \in DOMAIN events[p] : events[p][n].ent \in Ids

KnownIds ==
    /\ \A e \in Entities : stored[e] # None => e \in Ids
    /\ \A p \in Processes : KnownOf(p)

\* A transaction has one living object of each entity it has touched; once it commits,
\* all of them have been entered, and its events are theirs.
ListHeldOf(t) ==
    /\ \A n \in DOMAIN list[t] : /\ Live(list[t][n].obj)
                                 /\ heap[list[t][n].obj].ent = list[t][n].ent
    /\ \A m, n \in DOMAIN list[t] : list[t][m].ent = list[t][n].ent => m = n
    /\ pc[t] \in {"load", "loaded"} => want[t] \notin Listed(t)
    /\ pc[t] \in {"next", "set"} =>
        /\ DOMAIN events[t] = DOMAIN list[t]
        /\ \A n \in DOMAIN list[t] : /\ events[t][n].ent = list[t][n].ent
                                     /\ ~heap[list[t][n].obj].new

ListHeld == \A t \in Txns : ListHeldOf(t)

\* p has not begun to store events
Before(p) == pc[p] = "start" \/ (p \in Txns /\ pc[p] \in {"load", "loaded"})

\* The local variables of a process are what its pc says.
LocalOf(p) ==
    /\ pc[p] \in {"next", "set"} => p \notin Readers
    /\ Before(p) => current[p] = 1
    /\ Before(p) \/ p \in Readers => changes[p] = {}
    /\ (p \in Txns /\ Before(p)) \/ p \in Readers => events[p] = <<>>
    /\ p \in Requests /\ pc[p] = "start" => events[p] = Carried[p]
    /\ pc[p] = "load" => want[p] # None
    /\ p \notin Readers /\ pc[p] = "loaded" => want[p] # None /\ DOMAIN got[p] = {want[p]}
    /\ p \in Requests /\ pc[p] \in {"load", "loaded"} =>
        current[p] <= Len(events[p]) /\ want[p] = events[p][current[p]].ent

Local == \A p \in Processes : LocalOf(p)

\* What a commit is storing is in the map and has the event it is at.
SettingOf(p) ==
    pc[p] = "set" =>
        /\ current[p] <= Len(events[p]) /\ want[p] = events[p][current[p]].ent
        /\ Alive(want[p])
        /\ writing[p] # None
        /\ events[p][current[p]] \in writing[p].docs
        /\ writing[p].head = events[p][current[p]]

Setting == \A p \in Processes : SettingOf(p)

\* Two states of an entity on their way to storage make it raced; one alone is not behind
\* what is stored.
WriteFresh ==
    \A p \in Processes : pc[p] = "set" =>
        /\ \A q \in Processes \ {p} : pc[q] = "set" /\ want[q] = want[p] => want[p] \in raced
        /\ want[p] \notin regressed \cup raced => DocsOf(stored[want[p]]) \subseteq writing[p].docs

\* The events that have been told to the reactor, will be, or were lost by a failed commit
Told == notified \cup dropped \cup UNION {changes[p] : p \in Processes}

Saved(ev) == ev.ent \notin regressed \cup raced => stored[ev.ent] # None /\ ev \in stored[ev.ent].docs

\* What a commit has stored is stored and told.
Reached ==
    \A p \in Processes : pc[p] \notin {"done", "failed"} =>
        \A k \in DOMAIN events[p] : k < current[p] => events[p][k] \in Told /\ Saved(events[p][k])

\* The head of a stored state is the event that was stored last.
HeadsTold ==
    \A e \in Entities : stored[e] # None /\ stored[e].head # None => stored[e].head \in Told

Structure == Types /\ Objective /\ KnownIds /\ ListHeld /\ Local /\ Setting
Data == ResidentCurrent /\ WriteFresh /\ Reached /\ HeadsTold /\ DurableApart /\ AckedNotified

IInv == Structure /\ Data

USE NodeAssumption, NoneAssumption

-----------------------------------------------------------------------------
(* Objects *)

LEMMA NoneFacts ==
    /\ None \notin Objects /\ None \notin Entities /\ "dead" \notin Objects /\ "dead" # None
    /\ \A st \in State : st # None
    /\ \A obj \in Object : obj # None
BY DEF State, Object

\* The processes are of three kinds.
LEMMA Kinds ==
    /\ \A t \in Txns : t \in Processes /\ t \notin Requests /\ t \notin Readers
    /\ \A r \in Requests : r \in Processes /\ r \notin Txns /\ r \notin Readers
    /\ \A g \in Readers : g \in Processes /\ g \notin Txns /\ g \notin Requests
    /\ \A p \in Processes : p \in Txns \/ p \in Requests \/ p \in Readers
BY DEF Processes

LEMMA EventEnts == \A ev \in Events : ev.ent \in Entities
<1>1. ASSUME NEW ev \in Foreign PROVE ev.ent \in Entities
  <2>1. PICK r \in Requests : ev \in ToSet(Carried[r])
    BY DEF Foreign
  <2>2. PICK n \in DOMAIN Carried[r] : ev = Carried[r][n]
    BY <2>1 DEF ToSet
  <2> QED
    BY <2>2
<1> QED
  BY <1>1 DEF Events

\* The objects that are alive fit into A, the entities of those that have been entered,
\* and B, the transactions that may have made the others.
LEMMA Counting ==
    ASSUME Types, Objective, NEW A, A \subseteq Entities, NEW B, B \subseteq Txns,
           \A o \in Objects : Live(o) /\ ~New(o) => heap[o].ent \in A,
           \A o \in Objects : New(o) => \E t \in B : NewId[t] = heap[o].ent,
           Cardinality(A) + Cardinality(B) < Cardinality(Objects)
    PROVE  \E o \in Objects : ~Live(o)
<1> SUFFICES ASSUME \A o \in Objects : Live(o) PROVE FALSE
  OBVIOUS
<1> DEFINE Old == {o \in Objects : ~New(o)}
           Young == {o \in Objects : New(o)}
           owner == [o \in Young |-> CHOOSE t \in B : NewId[t] = heap[o].ent]
           ent == [o \in Old |-> heap[o].ent]
<1>1. IsFiniteSet(A) /\ IsFiniteSet(B) /\ IsFiniteSet(Old) /\ IsFiniteSet(Young)
  BY FS_Subset
<1>2. Cardinality(Old) <= Cardinality(A)
  <2>1. ent \in Injection(Old, A)
    <3>1. ent \in [Old -> A]
      OBVIOUS
    <3>2. ASSUME NEW x \in Old, NEW y \in Old, ent[x] = ent[y] PROVE x = y
      BY <3>2 DEF Objective, UniqueResident, New, Live
    <3> QED
      BY <3>1, <3>2 DEF Injection, IsInjective
  <2> HIDE DEF ent
  <2> QED
    BY <1>1, <2>1, FS_Injection
<1>3. Cardinality(Young) <= Cardinality(B)
  <2>1. owner \in Injection(Young, B)
    <3>1. \A o \in Young : owner[o] \in B /\ NewId[owner[o]] = heap[o].ent
      OBVIOUS
    <3>2. owner \in [Young -> B]
      BY <3>1
    <3>3. ASSUME NEW x \in Young, NEW y \in Young, owner[x] = owner[y] PROVE x = y
      <4>1. heap[x].ent = heap[y].ent
        BY <3>1, <3>3
      <4> QED
        BY <4>1 DEF Objective, NewOnce
    <3> QED
      BY <3>2, <3>3 DEF Injection, IsInjective
  <2> HIDE DEF owner
  <2> QED
    BY <1>1, <2>1, FS_Injection
<1>4. Objects = Old \cup Young /\ Old \cap Young = {}
  OBVIOUS
<1>5. Cardinality(Objects) = Cardinality(Old) + Cardinality(Young)
  <2>1. Cardinality(Old \cap Young) = 0
    BY <1>4, FS_EmptySet
  <2>2. Cardinality(Old) \in Nat /\ Cardinality(Young) \in Nat
    BY <1>1, FS_CardinalityType
  <2>3. Cardinality(Old \cup Young) = Cardinality(Old) + Cardinality(Young) - Cardinality(Old \cap Young)
    BY <1>1, FS_Union
  <2> HIDE DEF Old, Young
  <2> QED
    BY <1>4, <2>1, <2>2, <2>3
<1> QED
  BY <1>1, <1>2, <1>3, <1>5, FS_CardinalityType

\* There is room for an entity that is not in memory ...
LEMMA FreeObject ==
    ASSUME Types, Objective, NEW e \in Entities, ~Alive(e)
    PROVE  \E o \in Objects : ~Live(o)
<1> DEFINE A == Entities \ {e}
<1>1. Cardinality(A) = Cardinality(Entities) - 1 /\ Cardinality(Entities) \in Nat
      /\ Cardinality(Txns) \in Nat /\ Cardinality(Objects) \in Nat
  BY FS_RemoveElement, FS_CardinalityType
<1>2. \A o \in Objects : Live(o) /\ ~New(o) => heap[o].ent \in A
  <2>1. ASSUME NEW o \in Objects, Live(o), ~New(o) PROVE heap[o].ent \in A
    <3>1. heap[o] \in Object /\ ~heap[o].new
      BY <2>1 DEF Types, HeapType, MapType, Live, New
    <3>2. heap[o].ent \in Entities /\ entities[heap[o].ent] = o
      BY <2>1, <3>1 DEF Objective, UniqueResident, Live, Object
    <3> QED
      BY <3>2 DEF Alive
  <2> QED
    BY <2>1
<1>3. \A o \in Objects : New(o) => \E t \in Txns : NewId[t] = heap[o].ent
  BY DEF Objective, NewOnce
<1> HIDE DEF A
<1>4. A \subseteq Entities
  BY DEF A
<1>5. Cardinality(A) + Cardinality(Txns) < Cardinality(Objects)
  BY <1>1
<1> QED
  BY <1>2, <1>3, <1>4, <1>5, Counting

\* ... and for the one that a transaction creates.
LEMMA FreeForNew ==
    ASSUME Types, Objective, NEW u \in Txns, NewId[u] # None, NewId[u] \notin created
    PROVE  \E o \in Objects : ~Live(o)
<1> DEFINE B == Txns \ {u}
<1>1. Cardinality(B) = Cardinality(Txns) - 1 /\ Cardinality(Entities) \in Nat
      /\ Cardinality(Txns) \in Nat /\ Cardinality(Objects) \in Nat
  BY FS_RemoveElement, FS_CardinalityType
<1>2. \A o \in Objects : Live(o) /\ ~New(o) => heap[o].ent \in Entities
  BY DEF Types, HeapType, MapType, Live, New, Object
<1>3. \A o \in Objects : New(o) => \E t \in B : NewId[t] = heap[o].ent
  BY DEF Objective, NewOnce
<1> HIDE DEF B
<1>4. B \subseteq Txns
  BY DEF B
<1>5. Cardinality(Entities) + Cardinality(B) < Cardinality(Objects)
  BY <1>1
<1> QED
  BY <1>2, <1>3, <1>4, <1>5, Counting

-----------------------------------------------------------------------------
(* What a step does to the objects and the map *)

\* No object goes away or changes its entity, and none that was entered is taken out.
HeapKeeps ==
    \A o \in Objects : Live(o) =>
        /\ Live(o)' /\ heap'[o].ent = heap[o].ent
        /\ heap'[o].new => heap[o].new

MapKeeps == \A e \in Entities : Alive(e) => Alive(e)'

LEMMA AssertedFacts ==
    ASSUME Types, Mapped, NEW e \in Entities, NEW st \in State \cup {None}
    PROVE  Asserted(e, st) \in Object /\ Asserted(e, st).ent = e /\ ~Asserted(e, st).new
<1>1. CASE Alive(e)
  <2>1. entities[e] \in Objects /\ Live(entities[e]) /\ heap[entities[e]].ent = e
        /\ ~heap[entities[e]].new
    BY <1>1 DEF Mapped, Alive
  <2>2. heap[entities[e]] \in Object
    BY <2>1 DEF Types, HeapType, MapType, Live
  <2>3. Asserted(e, st) = ApplyState(heap[entities[e]], st)
    BY <1>1 DEF Asserted, Target
  <2>4. CASE st = None
    BY <2>1, <2>2, <2>3, <2>4 DEF ApplyState, Object
  <2>5. CASE st # None
    <3>1. st \in State
      BY <2>5
    <3> QED
      BY <2>1, <2>2, <2>3, <2>5, <3>1 DEF ApplyState, Object, State
  <2> QED
    BY <2>4, <2>5
<1>2. CASE ~Alive(e)
  <2>1. Asserted(e, st) = FromState(e, st)
    BY <1>2 DEF Asserted
  <2> QED
    BY <2>1 DEF FromState, DocsOf, Object, State
<1> QED
  BY <1>1, <1>2

LEMMA TargetFacts ==
    ASSUME Types, Objective, NEW e \in Entities
    PROVE  /\ Target(e) \in Objects
           /\ Alive(e) => Target(e) = entities[e] /\ Live(Target(e)) /\ ~New(Target(e))
           /\ ~Alive(e) => ~Live(Target(e))
<1>1. CASE Alive(e)
  BY <1>1 DEF Target, Alive, Objective, Mapped, Live, New
<1>2. CASE ~Alive(e)
  BY <1>2, FreeObject DEF Target, Live
<1> QED
  BY <1>1, <1>2

\* assert_entity and insert_entity: e has obj in its only object.
LEMMA ResidentStep ==
    ASSUME Types, Objective, NEW e \in Entities,
           NEW obj \in Object, obj.ent = e, ~obj.new, Resident(e, obj),
           created' = created, stored' = stored
    PROVE  /\ HeapType' /\ MapType' /\ Objective' /\ HeapKeeps /\ MapKeeps
           /\ Alive(e)' /\ heap'[entities'[e]] = obj
           /\ \A x \in Entities \ {e} :
                /\ entities'[x] = entities[x]
                /\ Alive(x) => heap'[entities[x]] = heap[entities[x]]
<1> DEFINE o == Target(e)
<1>1. /\ o \in Objects
      /\ Alive(e) => o = entities[e] /\ Live(o) /\ heap[o].ent = e /\ ~heap[o].new
      /\ ~Alive(e) => ~Live(o)
  BY TargetFacts DEF Objective, Mapped
<1> HIDE DEF o
<1>2. /\ heap' = [heap EXCEPT ![o] = obj] /\ entities' = [entities EXCEPT ![e] = o]
      /\ HeapType /\ MapType
  BY DEF Resident, o, Types, HeapType, MapType
<1>3. HeapType' /\ MapType'
  BY <1>1, <1>2 DEF HeapType, MapType
<1>4. /\ entities'[e] = o /\ heap'[o] = obj
      /\ \A x \in Entities \ {e} : entities'[x] = entities[x]
      /\ \A x \in Objects \ {o} : heap'[x] = heap[x]
  BY <1>1, <1>2 DEF HeapType, MapType
<1>5. \A x \in Entities \ {e} : Alive(x) => entities[x] # o
  BY <1>1 DEF Objective, Mapped
<1>6. HeapKeeps
  BY <1>1, <1>4, NoneFacts DEF HeapKeeps, Live
<1>7. Alive(e)' /\ MapKeeps
  BY <1>1, <1>4 DEF Alive, MapKeeps
<1>8. Mapped'
  BY <1>4, <1>5, NoneFacts DEF Objective, Mapped, Alive, Live
<1>9. UniqueResident'
  <2> SUFFICES ASSUME NEW x \in Objects, heap'[x] # None, ~heap'[x].new
               PROVE  entities'[heap'[x].ent] = x
    BY DEF UniqueResident
  <2>1. CASE x = o
    BY <2>1, <1>4
  <2>2. CASE x # o
    <3>1. heap'[x] = heap[x] /\ entities[heap[x].ent] = x
      BY <2>2, <1>4 DEF Objective, UniqueResident
    <3>2. heap[x].ent # e
      BY <2>2, <3>1, <1>1 DEF Alive
    <3>3. heap[x].ent \in Entities
      BY <3>1 DEF Types, HeapType, MapType, Object
    <3> QED
      BY <3>1, <3>2, <3>3, <1>4
  <2> QED
    BY <2>1, <2>2
<1>10. NewOnce'
  <2>1. ASSUME NEW x \in Objects, New(x)' PROVE x # o /\ New(x) /\ heap'[x] = heap[x]
    BY <2>1, <1>4 DEF New, Live
  <2>2. \A x \in Objects : New(x) => heap[x].ent \in Entities
    BY DEF New, Live, Types, HeapType, MapType, Object
  <2>3. entities'[e] # None
    BY <1>1, <1>4, NoneFacts
  <2> QED
    BY <2>1, <2>2, <2>3, <1>4 DEF Objective, NewOnce
<1> QED
  BY <1>3, <1>4, <1>5, <1>6, <1>7, <1>8, <1>9, <1>10 DEF Objective, Alive

\* Facts about what a transaction has listed
LEMMA ListFacts ==
    ASSUME Types, Objective, ListHeld, NEW t \in Txns
    PROVE  /\ DOMAIN list[t] = 1..Len(list[t])
           /\ \A n \in DOMAIN list[t] :
                /\ list[t][n].obj \in Objects /\ list[t][n].ent \in Entities
                /\ heap[list[t][n].obj] \in Object /\ Live(list[t][n].obj)
                /\ heap[list[t][n].obj].ent = list[t][n].ent
                /\ Event(t, n) \in Events /\ Event(t, n).ent = list[t][n].ent
           /\ \A m, n \in DOMAIN list[t] :
                list[t][m].ent = list[t][n].ent \/ list[t][m].obj = list[t][n].obj => m = n
<1>1. list[t] \in Seq(Entries)
  BY DEF Types, ProcTypes
<1>2. DOMAIN list[t] = 1..Len(list[t]) /\ \A n \in DOMAIN list[t] : list[t][n] \in Entries
  BY <1>1
<1>3. \A n \in DOMAIN list[t] : list[t][n].obj \in Objects /\ list[t][n].ent \in Entities
  BY <1>2 DEF Entries
<1>4. \A n \in DOMAIN list[t] : /\ heap[list[t][n].obj] \in Object /\ Live(list[t][n].obj)
                               /\ heap[list[t][n].obj].ent = list[t][n].ent
  BY <1>3 DEF Types, HeapType, MapType, ListHeld, ListHeldOf, Live
<1>5. \A n \in DOMAIN list[t] : Event(t, n) \in Events /\ Event(t, n).ent = list[t][n].ent
  BY <1>3 DEF Event, Events
<1>6. \A m, n \in DOMAIN list[t] :
        list[t][m].ent = list[t][n].ent \/ list[t][m].obj = list[t][n].obj => m = n
  BY <1>4 DEF ListHeld, ListHeldOf
<1> QED
  BY <1>2, <1>3, <1>4, <1>5, <1>6

\* A listed object that has been entered is the one the map has.
LEMMA ListedResident ==
    ASSUME Types, Objective, ListHeld, NEW t \in Txns, NEW n \in DOMAIN list[t],
           ~heap[list[t][n].obj].new
    PROVE  entities[list[t][n].ent] = list[t][n].obj /\ Alive(list[t][n].ent)
<1>1. /\ list[t][n].obj \in Objects /\ heap[list[t][n].obj] # None
      /\ heap[list[t][n].obj].ent = list[t][n].ent
  BY ListFacts DEF Live
<1> QED
  BY <1>1 DEF Objective, UniqueResident, Alive

\* Transaction::commit: each accepted entity has its event, and its object is in the map.
LEMMA CommitEffect ==
    ASSUME Types, Objective, ListHeld, NEW t \in Txns, Commit(t)
    PROVE  /\ Accepted(t) \subseteq DOMAIN list[t]
           /\ \A n \in Accepted(t) :
                LET o == list[t][n].obj  e == list[t][n].ent IN
                /\ heap'[o] = Committed(t, n) /\ heap'[o] \in Object
                /\ heap'[o].ent = e /\ ~heap'[o].new
                /\ heap[o].docs \subseteq heap'[o].docs
                /\ entities'[e] = o
                /\ heap[o].new => entities[e] = None
                /\ ~heap[o].new => entities[e] = o
           /\ \A o \in Objects : (\A n \in Accepted(t) : list[t][n].obj # o) => heap'[o] = heap[o]
           /\ \A e \in Entities : (\A n \in Accepted(t) : list[t][n].ent # e) => entities'[e] = entities[e]
<1> DEFINE done == Accepted(t)
           obj(n) == list[t][n].obj
           ent(n) == list[t][n].ent
<1>1. done \subseteq DOMAIN list[t]
  BY DEF Accepted
<1>2. /\ heap' = [o \in Objects |-> IF \E n \in done : obj(n) = o
                                    THEN Committed(t, CHOOSE n \in done : obj(n) = o) ELSE heap[o]]
      /\ entities' = [e \in Entities |-> IF \E n \in done : ent(n) = e
                                         THEN obj(CHOOSE n \in done : ent(n) = e) ELSE entities[e]]
  BY DEF Commit
<1>3. ASSUME NEW n \in done
      PROVE  /\ heap'[obj(n)] = Committed(t, n) /\ entities'[ent(n)] = obj(n)
             /\ obj(n) \in Objects /\ ent(n) \in Entities /\ heap[obj(n)] \in Object
             /\ heap[obj(n)].ent = ent(n) /\ Event(t, n) \in Events
  <2>1. /\ obj(n) \in Objects /\ ent(n) \in Entities /\ heap[obj(n)] \in Object
        /\ heap[obj(n)].ent = ent(n) /\ Event(t, n) \in Events
    BY <1>1, ListFacts
  <2>2. (CHOOSE m \in done : obj(m) = obj(n)) = n /\ (CHOOSE m \in done : ent(m) = ent(n)) = n
    <3>1. \A m \in done : obj(m) = obj(n) => m = n
      BY <1>1, ListFacts
    <3>2. \A m \in done : ent(m) = ent(n) => m = n
      BY <1>1, ListFacts
    <3> HIDE DEF obj, ent, done
    <3> QED
      BY <3>1, <3>2
  <2>3. heap'[obj(n)] = Committed(t, n)
    BY <1>2, <2>1, <2>2
  <2>4. entities'[ent(n)] = obj(n)
    BY <1>2, <2>1, <2>2
  <2> QED
    BY <2>1, <2>3, <2>4
<1>4. ASSUME NEW n \in done
      PROVE  /\ Committed(t, n) \in Object /\ Committed(t, n).ent = ent(n)
             /\ ~Committed(t, n).new /\ heap[obj(n)].docs \subseteq Committed(t, n).docs
  <2>1. /\ heap[obj(n)] \in Object /\ heap[obj(n)].ent = ent(n) /\ Event(t, n) \in Events
        /\ heap[obj(n)].docs \in SUBSET Events
    BY <1>3 DEF Object
  <2>2. heap[obj(n)].docs \cup {Event(t, n)} \in SUBSET Events
    BY <2>1
  <2>3. CASE heap[obj(n)].new
    BY <2>1, <2>2, <2>3 DEF Committed, Object
  <2>4. CASE ~heap[obj(n)].new
    BY <2>1, <2>2, <2>4 DEF Committed, ApplyEvent, Object
  <2> QED
    BY <2>3, <2>4
<1>5. ASSUME NEW n \in done PROVE heap[obj(n)].new => entities[ent(n)] = None
  <2>1. ~Refused(t, n)
    BY <1>1, ListFacts DEF Accepted
  <2> QED
    BY <2>1 DEF Refused
<1>6. ASSUME NEW n \in done PROVE ~heap[obj(n)].new => entities[ent(n)] = obj(n)
  BY <1>1, ListedResident
<1>7. \A o \in Objects : (\A n \in done : obj(n) # o) => heap'[o] = heap[o]
  BY <1>2
<1>8. \A e \in Entities : (\A n \in done : ent(n) # e) => entities'[e] = entities[e]
  BY <1>2
<1> QED
  BY <1>1, <1>3, <1>4, <1>5, <1>6, <1>7, <1>8

LEMMA CommitStep ==
    ASSUME Types, Objective, ListHeld, NEW t \in Txns, Commit(t)
    PROVE  HeapType' /\ MapType' /\ Objective' /\ HeapKeeps /\ MapKeeps
<1> DEFINE done == Accepted(t)
           obj(n) == list[t][n].obj
           ent(n) == list[t][n].ent
<1>1. \A n \in done : /\ obj(n) \in Objects /\ ent(n) \in Entities /\ heap[obj(n)].ent = ent(n)
                      /\ Live(obj(n))
  BY ListFacts, CommitEffect
<1>2. \A n \in done : /\ heap'[obj(n)] \in Object /\ heap'[obj(n)].ent = ent(n)
                      /\ ~heap'[obj(n)].new /\ entities'[ent(n)] = obj(n)
                      /\ heap[obj(n)].new => entities[ent(n)] = None
                      /\ ~heap[obj(n)].new => entities[ent(n)] = obj(n)
  BY CommitEffect
<1>3. \A o \in Objects : (\A n \in done : obj(n) # o) => heap'[o] = heap[o]
  BY CommitEffect
<1>4. \A e \in Entities : (\A n \in done : ent(n) # e) => entities'[e] = entities[e]
  BY CommitEffect
<1>5. UNCHANGED <<stored, created>>
  BY Zenon DEF Commit, history
<1>a. HeapType /\ MapType
  BY DEF Types, HeapType, MapType
<1> HIDE DEF done, obj, ent
<1>6. HeapType' /\ MapType'
  <2>1. /\ heap' = [o \in Objects |-> heap'[o]] /\ entities' = [e \in Entities |-> entities'[e]]
    BY DEF Commit
  <2>2. ASSUME NEW o \in Objects PROVE heap'[o] \in Object \cup {None}
    BY <1>a, <1>2, <1>3 DEF HeapType
  <2>3. ASSUME NEW e \in Entities PROVE entities'[e] \in Objects \cup {None, "dead"}
    BY <1>a, <1>1, <1>2, <1>4 DEF MapType
  <2> QED
    BY <2>1, <2>2, <2>3 DEF HeapType, MapType
<1>7. HeapKeeps
  BY <1>1, <1>2, <1>3, NoneFacts DEF HeapKeeps, Live
<1>8. MapKeeps
  BY <1>1, <1>2, <1>4 DEF MapKeeps, Alive
<1>9. Mapped'
  <2> SUFFICES ASSUME NEW e \in Entities, Alive(e)'
               PROVE  Live(entities[e])' /\ heap'[entities'[e]].ent = e /\ ~heap'[entities'[e]].new
    BY DEF Mapped
  <2>1. CASE \E n \in done : ent(n) = e
    BY <2>1, <1>1, <1>2, NoneFacts DEF Live
  <2>2. CASE \A n \in done : ent(n) # e
    <3>1. entities'[e] = entities[e] /\ Alive(e)
      BY <2>2, <1>4 DEF Alive
    <3>2. Live(entities[e]) /\ heap[entities[e]].ent = e /\ ~heap[entities[e]].new
      BY <3>1 DEF Objective, Mapped
    <3>3. \A n \in done : obj(n) # entities[e]
      BY <3>2, <2>2, <1>1
    <3> QED
      BY <3>1, <3>2, <3>3, <1>3 DEF Live, Alive
  <2> QED
    BY <2>1, <2>2
<1>10. UniqueResident'
  <2> SUFFICES ASSUME NEW x \in Objects, heap'[x] # None, ~heap'[x].new
               PROVE  entities'[heap'[x].ent] = x
    BY DEF UniqueResident
  <2>1. CASE \E n \in done : obj(n) = x
    BY <2>1, <1>2
  <2>2. CASE \A n \in done : obj(n) # x
    <3>1. heap'[x] = heap[x] /\ entities[heap[x].ent] = x
      BY <2>2, <1>3 DEF Objective, UniqueResident
    <3>2. heap[x].ent \in Entities
      BY <3>1 DEF Types, HeapType, MapType, Object
    <3>3. \A n \in done : ent(n) # heap[x].ent
      BY <3>1, <2>2, <1>2, NoneFacts
    <3> QED
      BY <3>1, <3>2, <3>3, <1>4
  <2> QED
    BY <2>1, <2>2
<1>11. NewOnce'
  <2>1. ASSUME NEW x \in Objects, New(x)' PROVE New(x) /\ heap'[x] = heap[x]
    BY <2>1, <1>2, <1>3 DEF New, Live
  <2>2. \A x \in Objects : New(x) => heap[x].ent \in Entities
    BY DEF New, Live, Types, HeapType, MapType, Object
  <2>3. \A e \in Entities : entities'[e] = None => entities[e] = None
    BY <1>1, <1>2, <1>4, NoneFacts
  <2> QED
    BY <2>1, <2>2, <2>3, <1>5 DEF Objective, NewOnce
<1> QED
  BY <1>6, <1>7, <1>8, <1>9, <1>10, <1>11 DEF Objective

\* Transaction::create: an object that only the transaction has.
LEMMA CreateStep ==
    ASSUME Types, Objective, KnownIds, NEW t \in Txns, Create(t)
    PROVE  /\ HeapType' /\ MapType' /\ Objective' /\ HeapKeeps /\ MapKeeps
           /\ NewId[t] \in Entities /\ NewId[t] \notin created
           /\ \E o \in Objects : /\ ~Live(o) /\ Live(o)' /\ heap'[o].ent = NewId[t]
                                 /\ \A x \in Objects \ {o} : heap'[x] = heap[x]
                                 /\ list' = [list EXCEPT ![t] = Append(@, Entry(NewId[t], o))]
<1> DEFINE e == NewId[t]
           o == CHOOSE x \in Objects : heap[x] = None
           obj == [FromState(e, None) EXCEPT !.new = TRUE]
<1>1. e \in Entities /\ e \notin created
  BY DEF Create
<1>2. o \in Objects /\ heap[o] = None
  BY <1>1, FreeForNew, NoneFacts DEF Live
<1>3. /\ heap' = [heap EXCEPT ![o] = obj] /\ created' = created \cup {e}
      /\ list' = [list EXCEPT ![t] = Append(@, Entry(e, o))]
      /\ UNCHANGED <<entities, stored>>
  BY DEF Create
<1>4. obj \in Object /\ obj.ent = e /\ obj.new
  BY <1>1 DEF FromState, DocsOf, Object
<1>5. HeapType /\ MapType
  BY DEF Types, HeapType, MapType
<1> HIDE DEF e, o, obj
<1>6. HeapType' /\ MapType' /\ heap'[o] = obj /\ \A x \in Objects \ {o} : heap'[x] = heap[x]
  BY <1>2, <1>3, <1>4, <1>5 DEF HeapType, MapType
<1>7. HeapKeeps
  BY <1>2, <1>6 DEF HeapKeeps, Live
<1>8. MapKeeps
  BY <1>3 DEF MapKeeps, Alive
<1>9. Mapped'
  BY <1>2, <1>3, <1>6 DEF Objective, Mapped, Alive, Live
<1>10. UniqueResident'
  BY <1>3, <1>4, <1>6 DEF Objective, UniqueResident
<1>11. NewOnce'
  <2>1. stored[e] = None
    BY <1>1 DEF KnownIds, OtherTypes, Types, Ids, e
  <2>2. ASSUME NEW x \in Objects, New(x)', x # o PROVE New(x) /\ heap'[x] = heap[x] /\ heap[x].ent # e
    BY <2>2, <1>1, <1>6 DEF New, Live, Objective, NewOnce
  <2>3. e \in created' /\ \E u \in Txns : NewId[u] = e
    BY <1>3 DEF e
  <2> QED
    BY <2>1, <2>2, <2>3, <1>3, <1>4, <1>6 DEF Objective, NewOnce
<1> QED
  BY <1>1, <1>2, <1>3, <1>4, <1>6, <1>7, <1>8, <1>9, <1>10, <1>11, NoneFacts DEF Objective, e, Live

LEMMA DropStep ==
    ASSUME Types, Objective, NEW o \in Objects, Drop(o)
    PROVE  /\ HeapType' /\ MapType' /\ Objective'
           /\ \A x \in Objects \ {o} : heap'[x] = heap[x]
           /\ \A e \in Entities : entities[e] # o => entities'[e] = entities[e]
<1>1. /\ heap' = [heap EXCEPT ![o] = None] /\ stored' = stored /\ created' = created
      /\ entities' = [e \in Entities |-> IF entities[e] = o THEN "dead" ELSE entities[e]]
  BY DEF Drop, history
<1>2. HeapType /\ MapType
  BY DEF Types, HeapType, MapType
<1>3. HeapType' /\ MapType' /\ heap'[o] = None /\ \A x \in Objects \ {o} : heap'[x] = heap[x]
  BY <1>1, <1>2 DEF HeapType, MapType
<1>4. \A e \in Entities : IF entities[e] = o THEN entities'[e] = "dead" ELSE entities'[e] = entities[e]
  BY <1>1
<1>5. Mapped'
  BY <1>3, <1>4, NoneFacts DEF Objective, Mapped, Alive, Live
<1>6. UniqueResident'
  <2> SUFFICES ASSUME NEW x \in Objects, heap'[x] # None, ~heap'[x].new
               PROVE  entities'[heap'[x].ent] = x
    BY DEF UniqueResident
  <2>1. x # o /\ heap'[x] = heap[x]
    BY <1>3
  <2>2. entities[heap[x].ent] = x /\ heap[x].ent \in Entities
    BY <2>1 DEF Objective, UniqueResident, Types, HeapType, MapType, Object
  <2> QED
    BY <2>1, <2>2, <1>4
<1>7. NewOnce'
  <2>1. ASSUME NEW x \in Objects, New(x)' PROVE New(x) /\ heap'[x] = heap[x] /\ heap[x].ent \in Entities
    BY <2>1, <1>3 DEF New, Live, Types, HeapType, MapType, Object
  <2>2. \A e \in Entities : entities'[e] = None => entities[e] = None
    BY <1>4, NoneFacts
  <2> QED
    BY <2>1, <2>2, <1>1 DEF Objective, NewOnce
<1> QED
  BY <1>3, <1>4, <1>5, <1>6, <1>7 DEF Objective

LEMMA UnchangedObjects ==
    ASSUME Types, Objective, UNCHANGED <<entities, heap, created>>,
           \A e \in Entities : entities[e] = None => stored'[e] = stored[e]
    PROVE  HeapType' /\ MapType' /\ Objective' /\ HeapKeeps /\ MapKeeps
<1>1. HeapType' /\ MapType'
  BY DEF Types, HeapType, MapType
<1>2. Mapped' /\ UniqueResident'
  BY DEF Objective, Mapped, UniqueResident, Alive, Live
<1>3. NewOnce'
  <2>1. \A x \in Objects : New(x)' => New(x) /\ heap[x].ent \in Entities
    BY DEF New, Live, Types, HeapType, MapType, Object
  <2> QED
    BY <2>1 DEF Objective, NewOnce, New, Live
<1> QED
  BY <1>1, <1>2, <1>3 DEF Objective, HeapKeeps, MapKeeps, Alive, Live

-----------------------------------------------------------------------------
(* What a step of one process leaves to the others *)

\* q does nothing; only p moves.
Stays(q) ==
    /\ pc'[q] = pc[q] /\ want'[q] = want[q] /\ got'[q] = got[q] /\ events'[q] = events[q]
    /\ current'[q] = current[q] /\ writing'[q] = writing[q] /\ changes'[q] = changes[q]
    /\ q \in Txns => list'[q] = list[q]

OnlyMoves(p) == \A q \in Processes \ {p} : Stays(q)

\* What the transactions have listed, and what is being stored, stays.
HeldKeeps ==
    /\ \A t \in Txns : \A n \in DOMAIN list[t] :
        LET o == list[t][n].obj IN
        heap'[o] # None /\ heap'[o].ent = heap[o].ent /\ (heap'[o].new => heap[o].new)
    /\ \A p \in Processes : pc[p] = "set" => entities'[want[p]] \in Objects

LEMMA SettingFacts ==
    ASSUME Types, Setting, Local, NEW p \in Processes, pc[p] = "set"
    PROVE  /\ want[p] \in Entities /\ current[p] \in DOMAIN events[p] /\ p \notin Readers
           /\ want[p] = events[p][current[p]].ent /\ Alive(want[p]) /\ writing[p] \in State
           /\ events[p][current[p]] \in Events
<1>1. /\ current[p] <= Len(events[p]) /\ want[p] = events[p][current[p]].ent
      /\ Alive(want[p]) /\ writing[p] # None /\ p \notin Readers
  BY DEF Setting, SettingOf, Local, LocalOf
<1>2. events[p] \in Seq(Events) /\ current[p] \in Nat \ {0} /\ writing[p] \in State \cup {None}
  BY DEF Types, ProcTypes
<1>3. current[p] \in DOMAIN events[p]
  BY <1>1, <1>2
<1>4. events[p][current[p]] \in Events
  BY <1>2, <1>3
<1> QED
  BY <1>1, <1>2, <1>3, <1>4, EventEnts

LEMMA KeepsHeld ==
    ASSUME Structure, HeapKeeps, MapKeeps
    PROVE  HeldKeeps
<1>1. ASSUME NEW t \in Txns, NEW n \in DOMAIN list[t]
      PROVE  LET o == list[t][n].obj IN
             heap'[o] # None /\ heap'[o].ent = heap[o].ent /\ (heap'[o].new => heap[o].new)
  <2>1. list[t][n].obj \in Objects /\ Live(list[t][n].obj)
    BY ListFacts DEF Structure
  <2> QED
    BY <2>1 DEF HeapKeeps, Live
<1>2. ASSUME NEW p \in Processes, pc[p] = "set" PROVE entities'[want[p]] \in Objects
  <2>1. want[p] \in Entities /\ Alive(want[p])
    BY <1>2, SettingFacts DEF Structure
  <2> QED
    BY <2>1 DEF MapKeeps, Alive
<1> QED
  BY <1>1, <1>2 DEF HeldKeeps

LEMMA OthersStep ==
    ASSUME Structure, HeldKeeps, created \subseteq created', NEW q \in Processes, Stays(q)
    PROVE  KnownOf(q)' /\ (q \in Txns => ListHeldOf(q)') /\ LocalOf(q)' /\ SettingOf(q)'
<1>1. /\ pc'[q] = pc[q] /\ want'[q] = want[q] /\ got'[q] = got[q] /\ events'[q] = events[q]
      /\ current'[q] = current[q] /\ writing'[q] = writing[q] /\ changes'[q] = changes[q]
      /\ q \in Txns => list'[q] = list[q]
  BY DEF Stays
<1>2. KnownOf(q)'
  <2>1. Ids \subseteq Ids' /\ KnownOf(q)
    BY DEF Ids, Structure, KnownIds
  <2> QED
    BY <1>1, <2>1 DEF KnownOf
<1>3. ASSUME q \in Txns PROVE ListHeldOf(q)'
  <2>1. ListHeldOf(q) /\ list'[q] = list[q]
    BY <1>1, <1>3 DEF Structure, ListHeld
  <2>2. \A n \in DOMAIN list[q] :
            /\ heap'[list[q][n].obj] # None /\ heap'[list[q][n].obj].ent = heap[list[q][n].obj].ent
            /\ heap'[list[q][n].obj].new => heap[list[q][n].obj].new
    BY <1>3, <2>1 DEF HeldKeeps
  <2>3. \A n \in DOMAIN list'[q] : heap'[list'[q][n].obj] # None /\ heap'[list'[q][n].obj].ent = list'[q][n].ent
    BY <2>1, <2>2 DEF ListHeldOf
  <2>4. Listed(q)' = Listed(q)
    BY <2>1 DEF Listed
  <2> QED
    BY <1>1, <2>1, <2>2, <2>3, <2>4 DEF ListHeldOf, Live
<1>4. LocalOf(q)'
  <2>1. LocalOf(q)
    BY DEF Structure, Local
  <2> QED
    BY <1>1, <2>1 DEF LocalOf, Before
<1>5. SettingOf(q)'
  <2>1. SettingOf(q)
    BY DEF Structure, Setting
  <2>2. pc[q] = "set" => entities'[want[q]] \in Objects
    BY DEF HeldKeeps
  <2> QED
    BY <1>1, <2>1, <2>2 DEF SettingOf, Alive
<1> QED
  BY <1>2, <1>3, <1>4, <1>5

\* Structure after a step of p, from what has to be shown of p alone
LEMMA StructureFrom ==
    ASSUME Structure, NEW p \in Processes, OnlyMoves(p), HeldKeeps, created \subseteq created',
           HeapType', MapType', ProcTypes', OtherTypes', Objective',
           \A e \in Entities : stored'[e] # None => stored[e] # None \/ e \in Ids,
           KnownOf(p)', p \in Txns => ListHeldOf(p)', LocalOf(p)', SettingOf(p)'
    PROVE  Structure'
<1>1. \A q \in Processes : KnownOf(q)' /\ (q \in Txns => ListHeldOf(q)') /\ LocalOf(q)' /\ SettingOf(q)'
  BY OthersStep DEF OnlyMoves
<1>2. \A e \in Entities : stored'[e] # None => e \in Ids'
  <2>1. Ids \subseteq Ids'
    BY DEF Ids
  <2> QED
    BY <2>1 DEF Structure, KnownIds
<1>3. KnownIds'
  BY <1>1, <1>2 DEF KnownIds
<1>4. ListHeld' /\ Local' /\ Setting'
  BY <1>1, Kinds DEF ListHeld, Local, Setting
<1> QED
  BY <1>3, <1>4 DEF Structure, Types

\* Leaving drops all that a process has.
LEMMA LeaveStep ==
    ASSUME Structure, NEW p \in Processes, NEW how \in {"done", "failed"}, Leave(p, how),
           created \subseteq created', pc[p] # "start" \/ p \in Txns
    PROVE  /\ OnlyMoves(p) /\ ProcTypes'
           /\ KnownOf(p)' /\ (p \in Txns => ListHeldOf(p)') /\ LocalOf(p)' /\ SettingOf(p)'
           /\ changes' = [changes EXCEPT ![p] = {}] /\ pc'[p] = how
           /\ UNCHANGED <<events, current>>
<1>1. /\ pc' = [pc EXCEPT ![p] = how] /\ want' = [want EXCEPT ![p] = None]
      /\ got' = [got EXCEPT ![p] = Nothing] /\ writing' = [writing EXCEPT ![p] = None]
      /\ changes' = [changes EXCEPT ![p] = {}] /\ UNCHANGED <<events, current>>
      /\ list' = IF p \in Txns THEN [list EXCEPT ![p] = <<>>] ELSE list
  BY DEF Leave
<1>2. ProcTypes
  BY DEF Structure, Types
<1>3. Nothing \in Answers
  <2>1. Nothing \in [{} -> State \cup {None}]
    BY DEF Nothing
  <2> QED
    BY <2>1 DEF Answers
<1>4. ProcTypes' /\ OnlyMoves(p)
  BY <1>1, <1>2, <1>3 DEF ProcTypes, OnlyMoves, Stays
<1>5. pc'[p] = how /\ want'[p] = None /\ changes'[p] = {} /\ (p \in Txns => list'[p] = <<>>)
  BY <1>1, <1>2 DEF ProcTypes
<1>6. KnownOf(p)'
  <2>1. \A n \in DOMAIN events[p] : events[p][n].ent \in Ids
    BY DEF Structure, KnownIds, KnownOf, Local, LocalOf, Before
  <2>2. Ids \subseteq Ids'
    BY DEF Ids
  <2> QED
    BY <1>1, <1>5, <2>1, <2>2 DEF KnownOf
<1>7. p \in Txns => ListHeldOf(p)'
  BY <1>5 DEF ListHeldOf
<1>8. LocalOf(p)' /\ SettingOf(p)'
  <2>1. p \in Readers => events'[p] = <<>>
    BY <1>1 DEF Structure, Local, LocalOf
  <2> QED
    BY <1>5, <2>1 DEF LocalOf, SettingOf, Before
<1> QED
  BY <1>1, <1>4, <1>5, <1>6, <1>7, <1>8

-----------------------------------------------------------------------------
(* The structure is kept: steps that leave the objects alone *)

LEMMA QuietStep ==
    ASSUME Structure, UNCHANGED <<entities, heap, created>>,
           \A e \in Entities : entities[e] = None => stored'[e] = stored[e]
    PROVE  HeapType' /\ MapType' /\ Objective' /\ HeldKeeps
BY UnchangedObjects, KeepsHeld DEF Structure

LEMMA SeqEvents ==
    ASSUME Structure, NEW p \in Processes
    PROVE  /\ events[p] \in Seq(Events) /\ current[p] \in Nat \ {0}
           /\ DOMAIN events[p] = 1..Len(events[p]) /\ Len(events[p]) \in Nat
           /\ \A n \in DOMAIN events[p] : events[p][n] \in Events /\ events[p][n].ent \in Entities
<1>1. events[p] \in Seq(Events) /\ current[p] \in Nat \ {0}
  BY DEF Structure, Types, ProcTypes
<1>2. DOMAIN events[p] = 1..Len(events[p]) /\ Len(events[p]) \in Nat
      /\ \A n \in DOMAIN events[p] : events[p][n] \in Events
  BY <1>1
<1> QED
  BY <1>1, <1>2, EventEnts

LEMMA Appended ==
    ASSUME NEW S, NEW s \in Seq(S), NEW x \in S
    PROVE  \A n \in DOMAIN Append(s, x) :
               \/ n \in DOMAIN s /\ Append(s, x)[n] = s[n]
               \/ n = Len(s) + 1 /\ Append(s, x)[n] = x
<1>1. Append(s, x) \in Seq(S) /\ Len(Append(s, x)) = Len(s) + 1 /\ Len(s) \in Nat
      /\ Append(s, x)[Len(s) + 1] = x /\ \A i \in 1..Len(s) : Append(s, x)[i] = s[i]
  BY AppendProperties
<1>2. DOMAIN Append(s, x) = 1..(Len(s) + 1) /\ DOMAIN s = 1..Len(s)
  BY <1>1
<1> QED
  BY <1>1, <1>2

LEMMA Parts ==
    ASSUME Structure, NEW p \in Processes
    PROVE  /\ HeapType /\ MapType /\ ProcTypes /\ OtherTypes /\ Types /\ Objective
           /\ KnownOf(p) /\ LocalOf(p) /\ SettingOf(p) /\ (p \in Txns => ListHeldOf(p))
BY DEF Structure, Types, KnownIds, Local, Setting, ListHeld

LEMMA GetStateStructure ==
    ASSUME Structure, NEW p \in Processes, GetState(p)
    PROVE  Structure'
<1> DEFINE answer == [e \in {want[p]} |-> stored[e]]
<1>1. /\ pc[p] = "load" /\ got' = [got EXCEPT ![p] = answer] /\ pc' = [pc EXCEPT ![p] = "loaded"]
      /\ UNCHANGED <<entities, heap, stored, list, want, events, current, writing, changes,
                     created, notified, acked, dropped, regressed, raced, restarts>>
  BY DEF GetState, history
<1>2. want[p] \in Entities
  BY <1>1, Parts DEF LocalOf, ProcTypes
<1>3. answer \in Answers /\ DOMAIN answer = {want[p]}
  <2>1. stored[want[p]] \in State \cup {None}
    BY <1>2, Parts DEF OtherTypes
  <2>2. answer \in [{want[p]} -> State \cup {None}]
    BY <2>1
  <2>3. DOMAIN answer = {want[p]}
    OBVIOUS
  <2> HIDE DEF answer
  <2> QED
    BY <1>2, <2>2, <2>3 DEF Answers
<1> HIDE DEF answer
<1>4. OnlyMoves(p) /\ ProcTypes' /\ pc'[p] = "loaded" /\ got'[p] = answer
  BY <1>1, <1>3, Parts DEF OnlyMoves, Stays, ProcTypes
<1>5. OtherTypes'
  BY <1>1, Parts DEF OtherTypes
<1>6. KnownOf(p)' /\ (p \in Txns => ListHeldOf(p)') /\ SettingOf(p)'
  BY <1>1, <1>4, Parts DEF KnownOf, Ids, ListHeldOf, Listed, SettingOf, Live
<1>7. LocalOf(p)'
  BY <1>1, <1>3, <1>4, Parts DEF LocalOf, Before
<1> QED
  BY <1>1, <1>4, <1>5, <1>6, <1>7, QuietStep, StructureFrom, Parts

\* A transaction lists one more entity.
LEMMA ListedMore ==
    ASSUME Structure, NEW t \in Txns, NEW entry \in Entries, entry.ent \notin Listed(t),
           entry.ent \in Ids', created \subseteq created', HeldKeeps,
           heap'[entry.obj] # None, heap'[entry.obj].ent = entry.ent,
           list' = [list EXCEPT ![t] = Append(@, entry)],
           pc'[t] = "start", want'[t] \in {want[t], None}, UNCHANGED events
    PROVE  list' \in [Txns -> Seq(Entries)] /\ KnownOf(t)' /\ ListHeldOf(t)'
<1> t \in Processes
  BY Kinds
<1>1. list \in [Txns -> Seq(Entries)] /\ list[t] \in Seq(Entries)
  BY Parts DEF ProcTypes
<1>2. list'[t] = Append(list[t], entry) /\ Append(list[t], entry) \in Seq(Entries)
  BY <1>1, AppendProperties
<1>3. \A n \in DOMAIN list'[t] :
        \/ n \in DOMAIN list[t] /\ list'[t][n] = list[t][n]
        \/ n = Len(list[t]) + 1 /\ list'[t][n] = entry
  BY <1>1, <1>2, Appended
<1>4. Ids \subseteq Ids'
  BY DEF Ids
<1>5. KnownOf(t)'
  <2>1. want'[t] # None => want'[t] \in Ids'
    BY <1>4, Parts DEF KnownOf
  <2>2. \A n \in DOMAIN list'[t] : list'[t][n].ent \in Ids'
    BY <1>3, <1>4, Parts DEF KnownOf
  <2> QED
    BY <2>1, <2>2 DEF KnownOf
<1>6. ListHeldOf(t)'
  <2>1. \A n \in DOMAIN list[t] : heap'[list[t][n].obj] # None /\ heap'[list[t][n].obj].ent = list[t][n].ent
    BY Parts DEF HeldKeeps, ListHeldOf
  <2>2. \A n \in DOMAIN list'[t] : heap'[list'[t][n].obj] # None /\ heap'[list'[t][n].obj].ent = list'[t][n].ent
    BY <1>3, <2>1
  <2>3. \A k \in DOMAIN list[t] : list[t][k].ent # entry.ent
    BY DEF Listed
  <2>4. \A m, n \in DOMAIN list'[t] : list'[t][m].ent = list'[t][n].ent => m = n
    BY <1>3, <2>3, Parts DEF ListHeldOf
  <2> QED
    BY <2>2, <2>4 DEF ListHeldOf, Live
<1> QED
  BY <1>1, <1>2, <1>5, <1>6

LEMMA EditStructure ==
    ASSUME Structure, NEW t \in Txns, NEW e \in Entities, Edit(t, e)
    PROVE  Structure'
<1> t \in Processes /\ t \notin Readers /\ t \notin Requests
  BY Kinds
<1>1. /\ pc[t] = "start" /\ e \in Ids /\ e \notin Listed(t)
      /\ UNCHANGED <<entities, heap, stored, got, events, current, writing, changes,
                     created, notified, acked, dropped, regressed, raced, restarts>>
  BY DEF Edit, history
<1>2. OtherTypes'
  BY <1>1, Parts DEF OtherTypes
<1>3. CASE Alive(e)
  <2> DEFINE entry == Entry(e, entities[e])
  <2>1. list' = [list EXCEPT ![t] = Append(@, entry)] /\ UNCHANGED <<pc, want>>
    BY <1>3, Zenon DEF Edit
  <2>2. entry \in Entries /\ entry.ent = e /\ entry.obj = entities[e]
    BY <1>3 DEF Entry, Entries, Alive
  <2>3. Live(entities[e]) /\ heap[entities[e]].ent = e
    BY <1>3, Parts DEF Objective, Mapped
  <2> HIDE DEF entry
  <2>4. list' \in [Txns -> Seq(Entries)] /\ KnownOf(t)' /\ ListHeldOf(t)'
    BY <1>1, <2>1, <2>2, <2>3, QuietStep, ListedMore DEF Ids, Live
  <2>5. OnlyMoves(t) /\ ProcTypes'
    BY <1>1, <2>1, <2>4, Parts DEF OnlyMoves, Stays, ProcTypes
  <2>6. LocalOf(t)' /\ SettingOf(t)'
    BY <1>1, <2>1, Parts DEF LocalOf, Before, SettingOf
  <2> QED
    BY <1>1, <1>2, <2>4, <2>5, <2>6, QuietStep, StructureFrom
<1>4. CASE ~Alive(e)
  <2>1. pc' = [pc EXCEPT ![t] = "load"] /\ want' = [want EXCEPT ![t] = e] /\ UNCHANGED list
    BY <1>4, Zenon DEF Edit
  <2>2. OnlyMoves(t) /\ ProcTypes' /\ pc'[t] = "load" /\ want'[t] = e
    BY <1>1, <2>1, Parts DEF OnlyMoves, Stays, ProcTypes
  <2>3. events[t] = <<>> /\ changes[t] = {} /\ current[t] = 1
    BY <1>1, Parts DEF LocalOf, Before
  <2>4. KnownOf(t)' /\ SettingOf(t)'
    BY <1>1, <2>1, <2>2, <2>3, Parts DEF KnownOf, Ids, SettingOf
  <2>5. ListHeldOf(t)'
    BY <1>1, <2>1, <2>2, Parts DEF ListHeldOf, Listed, Live
  <2>6. LocalOf(t)'
    BY <1>1, <2>2, <2>3, NoneFacts DEF LocalOf, Before
  <2> QED
    BY <1>1, <1>2, <2>2, <2>4, <2>5, <2>6, QuietStep, StructureFrom
<1> QED
  BY <1>3, <1>4

LEMMA RollbackStructure ==
    ASSUME Structure, NEW t \in Txns, Rollback(t)
    PROVE  Structure'
<1> t \in Processes
  BY Kinds
<1>1. Leave(t, "failed") /\ UNCHANGED <<entities, heap, stored, created, notified, acked,
                                        dropped, regressed, raced, restarts>>
  BY DEF Rollback, history
<1>2. OtherTypes'
  BY <1>1, Parts DEF OtherTypes
<1> QED
  BY <1>1, <1>2, LeaveStep, QuietStep, StructureFrom

LEMMA ReceiveStructure ==
    ASSUME Structure, NEW r \in Requests, Receive(r)
    PROVE  Structure'
<1> r \in Processes /\ r \notin Txns /\ r \notin Readers
  BY Kinds
<1>1. /\ pc[r] = "start" /\ \A n \in DOMAIN Carried[r] : Carried[r][n].ent \in Ids
      /\ pc' = [pc EXCEPT ![r] = "next"]
      /\ UNCHANGED <<entities, heap, stored, list, want, got, events, current, writing, changes,
                     created, notified, acked, dropped, regressed, raced, restarts>>
  BY DEF Receive, history
<1>2. events[r] = Carried[r]
  BY <1>1, Parts DEF LocalOf
<1>3. OnlyMoves(r) /\ ProcTypes' /\ pc'[r] = "next"
  BY <1>1, Parts DEF OnlyMoves, Stays, ProcTypes
<1>4. OtherTypes'
  BY <1>1, Parts DEF OtherTypes
<1>5. KnownOf(r)' /\ LocalOf(r)' /\ SettingOf(r)'
  BY <1>1, <1>2, <1>3, Parts DEF KnownOf, Ids, LocalOf, Before, SettingOf
<1> QED
  BY <1>1, <1>3, <1>4, <1>5, QuietStep, StructureFrom

LEMMA SetStateStructure ==
    ASSUME Structure, NEW p \in Txns \cup Requests, SetState(p)
    PROVE  Structure'
<1> p \in Processes /\ p \notin Readers
  BY Kinds
<1> DEFINE e == want[p]
           ev == events[p][current[p]]
<1>1. /\ pc[p] = "set" /\ stored' = [stored EXCEPT ![e] = writing[p]]
      /\ \E told \in {{}, {ev}} : changes' = [changes EXCEPT ![p] = @ \cup told]
      /\ current' = [current EXCEPT ![p] = @ + 1] /\ writing' = [writing EXCEPT ![p] = None]
      /\ want' = [want EXCEPT ![p] = None] /\ pc' = [pc EXCEPT ![p] = "next"]
      /\ UNCHANGED <<entities, heap, list, got, events, created, notified, acked, dropped,
                     regressed, raced, restarts>>
  <2>1. changes' = [changes EXCEPT ![p] = @ \cup {ev}] \/ changes' = changes
    BY Zenon DEF SetState
  <2>2. changes = [changes EXCEPT ![p] = @ \cup {}]
    BY Parts DEF ProcTypes
  <2> QED
    BY <2>1, <2>2 DEF SetState, history
<1>2. /\ e \in Entities /\ Alive(e) /\ writing[p] \in State /\ ev \in Events /\ current[p] \in DOMAIN events[p]
      /\ e = ev.ent
  BY <1>1, SettingFacts DEF Structure
<1> HIDE DEF e, ev
<1>3. OnlyMoves(p) /\ ProcTypes' /\ pc'[p] = "next" /\ want'[p] = None
  BY <1>1, <1>2, Parts DEF OnlyMoves, Stays, ProcTypes
<1>4. OtherTypes'
  BY <1>1, <1>2, Parts DEF OtherTypes
<1>5. entities[e] # None
  BY <1>2, NoneFacts DEF Alive
<1>6. \A x \in Entities : entities[x] = None => stored'[x] = stored[x]
  BY <1>1, <1>5
<1>7. e \in Ids
  BY <1>1, <1>2, Parts DEF KnownOf, e
<1>8. \A x \in Entities : stored'[x] # None => stored[x] # None \/ x \in Ids
  BY <1>1, <1>2, <1>7, Parts DEF OtherTypes
<1>9. KnownOf(p)' /\ SettingOf(p)'
  BY <1>1, <1>3, Parts DEF KnownOf, Ids, SettingOf
<1>10. p \in Txns => ListHeldOf(p)'
  BY <1>1, <1>3, Parts DEF ListHeldOf, Live
<1>11. LocalOf(p)'
  BY <1>3 DEF LocalOf, Before
<1> QED
  BY <1>1, <1>3, <1>4, <1>6, <1>8, <1>9, <1>10, <1>11, QuietStep, StructureFrom

LEMMA NotifyStructure ==
    ASSUME Structure, NEW p \in Txns \cup Requests, Notify(p)
    PROVE  Structure'
<1> p \in Processes
  BY Kinds
<1>1. /\ pc[p] = "next" /\ notified' = notified \cup changes[p]
      /\ acked' = acked \cup ToSet(events[p]) /\ Leave(p, "done")
      /\ UNCHANGED <<entities, heap, stored, created, dropped, regressed, raced, restarts>>
  BY DEF Notify
<1>2. changes[p] \subseteq Events /\ ToSet(events[p]) \subseteq Events
  BY SeqEvents, Parts DEF ProcTypes, ToSet
<1>3. OtherTypes'
  BY <1>1, <1>2, Parts DEF OtherTypes
<1> QED
  BY <1>1, <1>3, LeaveStep, QuietStep, StructureFrom

LEMMA StorageFailsStructure ==
    ASSUME Structure, NEW p \in Processes, StorageFails(p)
    PROVE  Structure'
<1>1. /\ pc[p] \in {"load", "set"} /\ dropped' = dropped \cup changes[p] /\ Leave(p, "failed")
      /\ UNCHANGED <<entities, heap, stored, created, notified, acked, regressed, raced, restarts>>
  BY DEF StorageFails
<1>2. changes[p] \subseteq Events
  BY Parts DEF ProcTypes
<1>3. OtherTypes'
  BY <1>1, <1>2, Parts DEF OtherTypes
<1> QED
  BY <1>1, <1>3, LeaveStep, QuietStep, StructureFrom

LEMMA GetStructure ==
    ASSUME Structure, NEW g \in Readers, NEW e \in Entities, Get(g, e)
    PROVE  Structure'
<1> g \in Processes /\ g \notin Txns /\ g \notin Requests
  BY Kinds
<1>1. /\ pc[g] = "start" /\ e \in Ids /\ pc' = [pc EXCEPT ![g] = "load"]
      /\ want' = [want EXCEPT ![g] = e]
      /\ UNCHANGED <<entities, heap, stored, list, got, events, current, writing, changes,
                     created, notified, acked, dropped, regressed, raced, restarts>>
  BY DEF Get, history
<1>2. OnlyMoves(g) /\ ProcTypes' /\ pc'[g] = "load" /\ want'[g] = e
  BY <1>1, Parts DEF OnlyMoves, Stays, ProcTypes
<1>3. OtherTypes'
  BY <1>1, Parts DEF OtherTypes
<1>4. events[g] = <<>>
  BY Parts DEF LocalOf
<1>5. KnownOf(g)' /\ LocalOf(g)' /\ SettingOf(g)'
  BY <1>1, <1>2, <1>4, Parts, NoneFacts DEF KnownOf, Ids, LocalOf, Before, SettingOf
<1> QED
  BY <1>1, <1>2, <1>3, <1>5, QuietStep, StructureFrom

LEMMA FetchStatesStructure ==
    ASSUME Structure, NEW g \in Readers, FetchStates(g)
    PROVE  Structure'
<1> g \in Processes /\ g \notin Txns /\ g \notin Requests
  BY Kinds
<1>1. /\ pc[g] = "start" /\ pc' = [pc EXCEPT ![g] = "loaded"]
      /\ \E answer \in Answers : got' = [got EXCEPT ![g] = answer]
      /\ UNCHANGED <<entities, heap, stored, list, want, events, current, writing, changes,
                     created, notified, acked, dropped, regressed, raced, restarts>>
  <2>1. PICK S \in SUBSET {e \in Entities : stored[e] # None} \ {{}} :
            got' = [got EXCEPT ![g] = [e \in S |-> stored[e]]]
    BY DEF FetchStates
  <2>2. [e \in S |-> stored[e]] \in [S -> State \cup {None}] /\ S \in SUBSET Entities
    BY Parts DEF OtherTypes
  <2>3. [e \in S |-> stored[e]] \in Answers
    BY <2>2 DEF Answers
  <2> QED
    BY <2>1, <2>3 DEF FetchStates, history
<1>2. OnlyMoves(g) /\ ProcTypes' /\ pc'[g] = "loaded"
  BY <1>1, Parts DEF OnlyMoves, Stays, ProcTypes
<1>3. OtherTypes'
  BY <1>1, Parts DEF OtherTypes
<1>4. events[g] = <<>>
  BY Parts DEF LocalOf
<1>5. KnownOf(g)' /\ LocalOf(g)' /\ SettingOf(g)'
  BY <1>1, <1>2, <1>4, Parts DEF KnownOf, Ids, LocalOf, Before, SettingOf
<1> QED
  BY <1>1, <1>2, <1>3, <1>5, QuietStep, StructureFrom

-----------------------------------------------------------------------------
(* ... and steps that change them *)

LEMMA NothingTyped == Nothing \in Answers
<1>1. Nothing \in [{} -> State \cup {None}]
  BY DEF Nothing
<1> QED
  BY <1>1 DEF Answers

LEMMA EditLoadedStructure ==
    ASSUME Structure, NEW t \in Txns, EditLoaded(t)
    PROVE  Structure'
<1> t \in Processes /\ t \notin Readers /\ t \notin Requests
  BY Kinds
<1> DEFINE e == want[t]
           st == got[t][e]
           entry == Entry(e, Target(e))
<1>1. /\ pc[t] = "loaded" /\ Resident(e, Asserted(e, st)) /\ Regress(e, st)
      /\ list' = [list EXCEPT ![t] = Append(@, entry)] /\ pc' = [pc EXCEPT ![t] = "start"]
      /\ want' = [want EXCEPT ![t] = None] /\ got' = [got EXCEPT ![t] = Nothing]
      /\ UNCHANGED <<stored, events, current, writing, changes, created, notified, acked,
                     dropped, raced, restarts>>
  BY Zenon DEF EditLoaded
<1>2. e \in Entities /\ e \in DOMAIN got[t] /\ e \in Ids /\ e \notin Listed(t) /\ events[t] = <<>>
      /\ changes[t] = {} /\ current[t] = 1
  BY <1>1, Parts DEF LocalOf, Before, ProcTypes, KnownOf, ListHeldOf
<1>3. st \in State \cup {None}
  BY <1>2, Parts DEF ProcTypes, Answers
<1> HIDE DEF st
<1>4. Asserted(e, st) \in Object /\ Asserted(e, st).ent = e /\ ~Asserted(e, st).new
  BY <1>2, <1>3, AssertedFacts, Parts DEF Objective
<1>5. /\ HeapType' /\ MapType' /\ Objective' /\ HeapKeeps /\ MapKeeps /\ HeldKeeps
      /\ heap'[entities'[e]] = Asserted(e, st)
  <2>1. /\ HeapType' /\ MapType' /\ Objective' /\ HeapKeeps /\ MapKeeps
        /\ heap'[entities'[e]] = Asserted(e, st)
    BY <1>1, <1>2, <1>4, ResidentStep, Parts
  <2> QED
    BY <2>1, KeepsHeld
<1>6. Target(e) \in Objects /\ entities'[e] = Target(e)
  <2>1. Target(e) \in Objects
    BY <1>2, TargetFacts, Parts
  <2> QED
    BY <1>1, <1>2, <2>1, Parts DEF Resident, MapType
<1>7. entry \in Entries /\ entry.ent = e /\ entry.obj = Target(e)
  BY <1>2, <1>6 DEF Entry, Entries
<1> HIDE DEF entry
<1>8. list' \in [Txns -> Seq(Entries)] /\ KnownOf(t)' /\ ListHeldOf(t)'
  <2>1. pc'[t] = "start" /\ want'[t] = None
    BY <1>1, Parts DEF ProcTypes
  <2>2. heap'[entry.obj] # None /\ heap'[entry.obj].ent = e /\ e \in Ids'
    BY <1>1, <1>2, <1>4, <1>5, <1>6, <1>7, NoneFacts DEF Ids
  <2> QED
    BY <1>1, <1>2, <1>5, <1>7, <2>1, <2>2, ListedMore
<1>9. OnlyMoves(t) /\ ProcTypes'
  BY <1>1, <1>8, Parts, NothingTyped DEF OnlyMoves, Stays, ProcTypes
<1>10. OtherTypes'
  <2>1. regressed' \subseteq regressed \cup {e}
    BY <1>1 DEF Regress
  <2> QED
    BY <1>1, <1>2, <2>1, Parts DEF OtherTypes
<1>11. LocalOf(t)' /\ SettingOf(t)'
  BY <1>1, <1>2, Parts DEF LocalOf, Before, SettingOf, ProcTypes
<1> QED
  BY <1>1, <1>5, <1>8, <1>9, <1>10, <1>11, StructureFrom

LEMMA CreateStructure ==
    ASSUME Structure, NEW t \in Txns, Create(t)
    PROVE  Structure'
<1> t \in Processes /\ t \notin Readers /\ t \notin Requests
  BY Kinds
<1> DEFINE e == NewId[t]
<1>1. /\ pc[t] = "start" /\ created' = created \cup {e}
      /\ UNCHANGED <<entities, stored, pc, want, got, events, current, writing, changes,
                     notified, acked, dropped, regressed, raced, restarts>>
  BY DEF Create
<1>2. /\ HeapType' /\ MapType' /\ Objective' /\ HeapKeeps /\ MapKeeps
      /\ e \in Entities /\ e \notin created
      /\ \E o \in Objects : /\ heap'[o] # None /\ heap'[o].ent = e
                            /\ list' = [list EXCEPT ![t] = Append(@, Entry(e, o))]
  BY CreateStep, Parts DEF Live, Structure
<1>3. PICK o \in Objects : /\ heap'[o] # None /\ heap'[o].ent = e
                           /\ list' = [list EXCEPT ![t] = Append(@, Entry(e, o))]
  BY <1>2
<1>4. HeldKeeps
  BY <1>2, KeepsHeld
<1> DEFINE entry == Entry(e, o)
<1>5. entry \in Entries /\ entry.ent = e /\ entry.obj = o
  BY <1>2 DEF Entry, Entries
<1>6. e \notin Listed(t) /\ e \in Ids'
  <2>1. e \notin Ids
    BY <1>2 DEF Ids
  <2> QED
    BY <1>1, <2>1, Parts DEF KnownOf, Listed, Ids
<1> HIDE DEF entry
<1>7. list' \in [Txns -> Seq(Entries)] /\ KnownOf(t)' /\ ListHeldOf(t)'
  <2>1. pc'[t] = "start" /\ want'[t] = want[t] /\ created \subseteq created'
    BY <1>1
  <2>2. list' = [list EXCEPT ![t] = Append(@, entry)]
    BY <1>3 DEF entry
  <2> QED
    BY <1>1, <1>3, <1>4, <1>5, <1>6, <2>1, <2>2, ListedMore
<1>8. OnlyMoves(t) /\ ProcTypes'
  BY <1>1, <1>3, <1>7, Parts DEF OnlyMoves, Stays, ProcTypes
<1>9. OtherTypes'
  BY <1>1, <1>2, Parts DEF OtherTypes
<1>10. LocalOf(t)' /\ SettingOf(t)'
  BY <1>1, Parts DEF LocalOf, Before, SettingOf
<1> QED
  BY <1>1, <1>2, <1>4, <1>7, <1>8, <1>9, <1>10, StructureFrom

LEMMA CommitStructure ==
    ASSUME Structure, NEW t \in Txns, Commit(t)
    PROVE  Structure'
<1> t \in Processes /\ t \notin Readers /\ t \notin Requests
  BY Kinds
<1>1. pc[t] = "start" /\ UNCHANGED <<stored, created, notified, acked, dropped, regressed, raced, restarts>>
  BY Zenon DEF Commit, history
<1>2. HeapType' /\ MapType' /\ Objective' /\ HeapKeeps /\ MapKeeps /\ HeldKeeps
  <2>1. HeapType' /\ MapType' /\ Objective' /\ HeapKeeps /\ MapKeeps
    BY CommitStep, Parts DEF Structure
  <2> QED
    BY <2>1, KeepsHeld
<1>3. OtherTypes'
  BY <1>1, Parts DEF OtherTypes
<1>4. CASE Accepted(t) = DOMAIN list[t]
  <2> DEFINE own == [n \in DOMAIN list[t] |-> Event(t, n)]
  <2>1. /\ pc' = [pc EXCEPT ![t] = "next"] /\ events' = [events EXCEPT ![t] = own]
        /\ UNCHANGED <<list, want, got, writing, changes, current>>
    BY <1>4, Zenon DEF Commit
  <2>2. /\ list[t] \in Seq(Entries) /\ DOMAIN list[t] = 1..Len(list[t])
        /\ \A n \in DOMAIN list[t] : Event(t, n) \in Events /\ Event(t, n).ent = list[t][n].ent
    BY ListFacts, Parts DEF Structure, ProcTypes
  <2>3. own \in Seq(Events) /\ DOMAIN own = DOMAIN list[t]
        /\ \A n \in DOMAIN list[t] : own[n].ent = list[t][n].ent
    <3>1. Len(list[t]) \in Nat
      BY <2>2
    <3> QED
      BY <2>2, <3>1
  <2> HIDE DEF own
  <2>4. pc'[t] = "next" /\ events'[t] = own /\ OnlyMoves(t) /\ ProcTypes'
    BY <2>1, <2>3, Parts DEF OnlyMoves, Stays, ProcTypes
  <2>5. KnownOf(t)'
    BY <1>1, <2>1, <2>3, <2>4, Parts DEF KnownOf, Ids
  <2>6. ListHeldOf(t)'
    <3>1. \A n \in DOMAIN list[t] : /\ heap'[list[t][n].obj] # None
                                   /\ heap'[list[t][n].obj].ent = list[t][n].ent
      BY <1>2, Parts DEF HeldKeeps, ListHeldOf
    <3>2. \A n \in DOMAIN list[t] : ~heap'[list[t][n].obj].new
      BY <1>4, CommitEffect, Parts DEF Structure
    <3>3. \A m, n \in DOMAIN list[t] : list[t][m].ent = list[t][n].ent => m = n
      BY Parts DEF ListHeldOf
    <3> QED
      BY <2>1, <2>3, <2>4, <3>1, <3>2, <3>3 DEF ListHeldOf, Live
  <2>7. LocalOf(t)' /\ SettingOf(t)'
    BY <2>4 DEF LocalOf, Before, SettingOf
  <2> QED
    BY <1>1, <1>2, <1>3, <2>4, <2>5, <2>6, <2>7, StructureFrom
<1>5. CASE Accepted(t) # DOMAIN list[t]
  <2>1. Leave(t, "failed")
    BY <1>5, Zenon DEF Commit
  <2> QED
    BY <1>1, <1>2, <1>3, <2>1, LeaveStep, StructureFrom
<1> QED
  BY <1>4, <1>5

\* The body of commit_events_local, once the entity is there.
LEMMA TakeStructure ==
    ASSUME Structure, NEW p \in Txns \cup Requests, NEW e \in Entities, NEW obj \in Object,
           obj.ent = e, ~obj.new, pc[p] # "start", p \in Txns => pc[p] = "next",
           current[p] \in DOMAIN events[p], e = events[p][current[p]].ent, Take(p, e, obj),
           got' \in [Processes -> Answers], \A q \in Processes \ {p} : got'[q] = got[q],
           regressed' \subseteq regressed \cup {e},
           UNCHANGED <<stored, list, events, current, changes, created, notified, acked,
                       dropped, restarts>>
    PROVE  Structure'
<1> p \in Processes /\ p \notin Readers
  BY Kinds
<1> DEFINE ev == events[p][current[p]]
           new == ApplyEvent(obj, ev)
<1>1. /\ Resident(e, new) /\ writing' = [writing EXCEPT ![p] = ToState(new)]
      /\ want' = [want EXCEPT ![p] = e] /\ pc' = [pc EXCEPT ![p] = "set"]
      /\ raced' \subseteq raced \cup {e}
  BY DEF Take
<1>2. ev \in Events
  BY SeqEvents
<1>3. /\ new \in Object /\ new.ent = e /\ ~new.new /\ ToState(new) \in State
      /\ ev \in ToState(new).docs /\ ToState(new).head = ev
  BY <1>2 DEF ApplyEvent, ToState, Object, State
<1> HIDE DEF ev, new
<1>4. /\ HeapType' /\ MapType' /\ Objective' /\ HeapKeeps /\ MapKeeps /\ HeldKeeps /\ Alive(e)'
  <2>1. /\ HeapType' /\ MapType' /\ Objective' /\ HeapKeeps /\ MapKeeps /\ Alive(e)'
    BY <1>1, <1>3, ResidentStep, Parts
  <2> QED
    BY <2>1, KeepsHeld
<1>5. OnlyMoves(p) /\ ProcTypes' /\ pc'[p] = "set" /\ want'[p] = e /\ writing'[p] = ToState(new)
  BY <1>1, <1>3, Parts DEF OnlyMoves, Stays, ProcTypes
<1>6. OtherTypes'
  BY <1>1, Parts DEF OtherTypes
<1>7. KnownOf(p)'
  BY <1>5, Parts DEF KnownOf, Ids
<1>8. ASSUME p \in Txns PROVE ListHeldOf(p)'
  <2>1. ListHeldOf(p) /\ pc[p] = "next"
    BY <1>8, Parts
  <2>2. \A n \in DOMAIN list[p] : /\ heap'[list[p][n].obj] # None
                                 /\ heap'[list[p][n].obj].ent = list[p][n].ent
                                 /\ ~heap'[list[p][n].obj].new
    BY <1>4, <1>8, <2>1 DEF HeldKeeps, ListHeldOf
  <2> QED
    BY <1>5, <2>1, <2>2 DEF ListHeldOf, Live
<1>9. LocalOf(p)'
  BY <1>5 DEF LocalOf, Before
<1>10. SettingOf(p)'
  <2>1. current[p] <= Len(events[p])
    BY SeqEvents
  <2> QED
    BY <1>3, <1>4, <1>5, <2>1, NoneFacts DEF SettingOf, Alive, ev
<1> QED
  BY <1>4, <1>5, <1>6, <1>7, <1>8, <1>9, <1>10, StructureFrom

\* A transaction that commits finds its entities in memory.
LEMMA NextAlive ==
    ASSUME Structure, NEW t \in Txns, pc[t] \in {"next", "set"}, NEW n \in DOMAIN events[t]
    PROVE  n \in DOMAIN list[t] /\ Alive(events[t][n].ent) /\ entities[events[t][n].ent] = list[t][n].obj
<1>1. n \in DOMAIN list[t] /\ events[t][n].ent = list[t][n].ent /\ ~heap[list[t][n].obj].new
  BY Parts, Kinds DEF ListHeldOf
<1> QED
  BY <1>1, ListedResident DEF Structure

LEMMA NextEventStructure ==
    ASSUME Structure, NEW p \in Txns \cup Requests, NextEvent(p)
    PROVE  Structure'
<1> p \in Processes /\ p \notin Readers
  BY Kinds
<1> DEFINE e == events[p][current[p]].ent
<1>1. /\ pc[p] = "next" /\ current[p] <= Len(events[p])
      /\ UNCHANGED <<stored, list, got, events, current, changes, created, notified, acked,
                     dropped, regressed, restarts>>
  BY Zenon DEF NextEvent
<1>2. current[p] \in DOMAIN events[p] /\ e \in Entities
  <2>1. current[p] \in DOMAIN events[p]
    BY <1>1, SeqEvents
  <2> QED
    BY <2>1, SeqEvents
<1>3. CASE Alive(e)
  <2> DEFINE obj == heap[entities[e]]
  <2>1. Take(p, e, obj)
    BY <1>3, Zenon DEF NextEvent
  <2>2. obj \in Object /\ obj.ent = e /\ ~obj.new
    BY <1>2, <1>3, Parts DEF HeapType, Objective, Mapped, Live, Alive
  <2> HIDE DEF e, obj
  <2>3. got' \in [Processes -> Answers] /\ \A q \in Processes \ {p} : got'[q] = got[q]
    BY <1>1, Parts DEF ProcTypes
  <2> QED
    BY <1>1, <1>2, <2>1, <2>2, <2>3, TakeStructure DEF e
<1>4. CASE ~Alive(e)
  <2>1. /\ pc' = [pc EXCEPT ![p] = "load"] /\ want' = [want EXCEPT ![p] = e]
        /\ UNCHANGED <<entities, heap, writing, raced>>
    BY <1>4, Zenon DEF NextEvent
  <2>2. p \in Requests /\ p \notin Txns
    BY <1>1, <1>2, <1>4, NextAlive, Kinds
  <2>3. OnlyMoves(p) /\ ProcTypes' /\ pc'[p] = "load" /\ want'[p] = e
    BY <1>1, <1>2, <2>1, Parts DEF OnlyMoves, Stays, ProcTypes
  <2>4. OtherTypes'
    BY <1>1, <2>1, Parts DEF OtherTypes
  <2>5. KnownOf(p)' /\ SettingOf(p)'
    BY <1>1, <1>2, <2>2, <2>3, Parts DEF KnownOf, Ids, SettingOf
  <2>6. LocalOf(p)'
    BY <1>1, <1>2, <2>2, <2>3, NoneFacts DEF LocalOf, Before
  <2> QED
    BY <1>1, <2>1, <2>2, <2>3, <2>4, <2>5, <2>6, QuietStep, StructureFrom
<1> QED
  BY <1>3, <1>4

LEMMA NextLoadedStructure ==
    ASSUME Structure, NEW r \in Requests, NextLoaded(r)
    PROVE  Structure'
<1> r \in Processes /\ r \notin Txns /\ r \notin Readers
  BY Kinds
<1> DEFINE e == want[r]
           st == got[r][e]
<1>1. /\ pc[r] = "loaded" /\ Take(r, e, Asserted(e, st)) /\ Regress(e, st)
      /\ got' = [got EXCEPT ![r] = Nothing]
      /\ UNCHANGED <<stored, list, events, current, changes, created, notified, acked,
                     dropped, restarts>>
  BY Zenon DEF NextLoaded
<1>2. e \in Entities /\ e \in DOMAIN got[r] /\ e = events[r][current[r]].ent
      /\ current[r] \in DOMAIN events[r]
  BY <1>1, SeqEvents, Parts DEF LocalOf, ProcTypes
<1>3. st \in State \cup {None}
  BY <1>2, Parts DEF ProcTypes, Answers
<1> HIDE DEF st
<1>4. Asserted(e, st) \in Object /\ Asserted(e, st).ent = e /\ ~Asserted(e, st).new
  BY <1>2, <1>3, AssertedFacts, Parts DEF Objective
<1>5. regressed' \subseteq regressed \cup {e}
  BY <1>1 DEF Regress
<1>6. got' \in [Processes -> Answers] /\ \A q \in Processes \ {r} : got'[q] = got[q]
  BY <1>1, NothingTyped, Parts DEF ProcTypes
<1> QED
  BY <1>1, <1>2, <1>4, <1>5, <1>6, TakeStructure

LEMMA AssertGotStructure ==
    ASSUME Structure, NEW g \in Readers, NEW e \in Entities, AssertGot(g, e)
    PROVE  Structure'
<1> g \in Processes /\ g \notin Txns /\ g \notin Requests
  BY Kinds
<1> DEFINE st == got[g][e]
<1>1. /\ pc[g] = "loaded" /\ e \in DOMAIN got[g] /\ Resident(e, Asserted(e, st)) /\ Regress(e, st)
      /\ UNCHANGED <<stored, created, notified, acked, dropped, raced, restarts>>
  BY Zenon DEF AssertGot
<1>2. st \in State \cup {None}
  BY <1>1, Parts DEF ProcTypes, Answers
<1> HIDE DEF st
<1>3. Asserted(e, st) \in Object /\ Asserted(e, st).ent = e /\ ~Asserted(e, st).new
  BY <1>2, AssertedFacts, Parts DEF Objective
<1>4. HeapType' /\ MapType' /\ Objective' /\ HeldKeeps
  <2>1. HeapType' /\ MapType' /\ Objective' /\ HeapKeeps /\ MapKeeps
    BY <1>1, <1>3, ResidentStep, Parts
  <2> QED
    BY <2>1, KeepsHeld
<1>5. OtherTypes'
  <2>1. regressed' \subseteq regressed \cup {e}
    BY <1>1 DEF Regress
  <2> QED
    BY <1>1, <2>1, Parts DEF OtherTypes
<1>6. CASE DOMAIN got[g] = {e}
  <2>1. Leave(g, "done")
    BY <1>6, Zenon DEF AssertGot
  <2> QED
    BY <1>1, <1>4, <1>5, <2>1, LeaveStep, StructureFrom
<1>7. CASE DOMAIN got[g] # {e}
  <2> DEFINE rest == Restrict(got[g], DOMAIN got[g] \ {e})
  <2>1. got' = [got EXCEPT ![g] = rest]
        /\ UNCHANGED <<pc, list, want, events, current, writing, changes>>
    <3>1. got' = [got EXCEPT ![g] = Restrict(@, DOMAIN @ \ {e})]
          /\ UNCHANGED <<pc, list, want, events, current, writing, changes>>
      BY <1>7, Zenon DEF AssertGot
    <3> QED
      BY <3>1
  <2>2. rest \in Answers
    <3>0. got[g] \in Answers
      BY Parts DEF ProcTypes
    <3>1. PICK S \in SUBSET Entities : got[g] \in [S -> State \cup {None}]
      BY <3>0, Zenon DEF Answers
    <3>2. rest \in [S \ {e} -> State \cup {None}]
      BY <3>1 DEF Restrict
    <3> HIDE DEF rest
    <3> QED
      BY <3>2 DEF Answers
  <2> HIDE DEF rest
  <2>3. OnlyMoves(g) /\ ProcTypes'
    BY <2>1, <2>2, Parts DEF OnlyMoves, Stays, ProcTypes
  <2>4. KnownOf(g)' /\ LocalOf(g)' /\ SettingOf(g)'
    BY <1>1, <2>1, Parts DEF KnownOf, Ids, LocalOf, Before, SettingOf
  <2> QED
    BY <1>1, <1>4, <1>5, <2>3, <2>4, StructureFrom
<1> QED
  BY <1>6, <1>7

LEMMA DropStructure ==
    ASSUME Structure, NEW o \in Objects, Drop(o)
    PROVE  Structure'
<1>1. UNCHANGED <<stored, pc, list, want, got, events, current, writing, changes, created,
                  notified, acked, dropped, regressed, raced, restarts>>
      /\ \A p \in Processes : ~Holds(p, o)
  BY DEF Drop, procVars, history
<1>2. /\ HeapType' /\ MapType' /\ Objective'
      /\ \A x \in Objects \ {o} : heap'[x] = heap[x]
      /\ \A e \in Entities : entities[e] # o => entities'[e] = entities[e]
  BY DropStep DEF Structure
<1>3. HeldKeeps
  <2>1. ASSUME NEW t \in Txns, NEW n \in DOMAIN list[t]
        PROVE  heap'[list[t][n].obj] = heap[list[t][n].obj] /\ heap[list[t][n].obj] # None
    <3>1. list[t][n].obj \in Objects /\ heap[list[t][n].obj] # None
      BY ListFacts DEF Structure, Live
    <3>2. list[t][n].obj # o
      BY <1>1, Kinds DEF Holds
    <3> QED
      BY <1>2, <3>1, <3>2
  <2>2. ASSUME NEW p \in Processes, pc[p] = "set" PROVE entities'[want[p]] \in Objects
    <3>1. want[p] \in Entities /\ entities[want[p]] \in Objects
      BY <2>2, SettingFacts DEF Structure, Alive
    <3>2. entities[want[p]] # o
      BY <1>1, <2>2 DEF Holds
    <3> QED
      BY <1>2, <3>1, <3>2
  <2> QED
    BY <2>1, <2>2 DEF HeldKeeps
<1>4. \A q \in Processes : Stays(q)
  BY <1>1 DEF Stays
<1>5. \A q \in Processes : KnownOf(q)' /\ (q \in Txns => ListHeldOf(q)') /\ LocalOf(q)' /\ SettingOf(q)'
  BY <1>1, <1>3, <1>4, OthersStep
<1>6. KnownIds' /\ ListHeld' /\ Local' /\ Setting'
  BY <1>1, <1>5, Kinds DEF Structure, KnownIds, ListHeld, Local, Setting, Ids
<1>7. ProcTypes' /\ OtherTypes'
  BY <1>1 DEF Structure, Types, ProcTypes, OtherTypes
<1> QED
  BY <1>2, <1>6, <1>7 DEF Structure, Types

LEMMA RestartStructure ==
    ASSUME Structure, Restart
    PROVE  Structure'
<1>1. /\ restarts < MaxRestarts /\ restarts' = restarts + 1
      /\ entities' = [e \in Entities |-> None] /\ heap' = [o \in Objects |-> None]
      /\ pc' = [p \in Processes |-> IF Begun(p) THEN "failed" ELSE pc[p]]
      /\ list' = [t \in Txns |-> <<>>] /\ want' = [p \in Processes |-> None]
      /\ got' = [p \in Processes |-> Nothing] /\ writing' = [p \in Processes |-> None]
      /\ changes' = [p \in Processes |-> {}]
      /\ dropped' = dropped \cup UNION {changes[p] : p \in Processes}
      /\ UNCHANGED <<stored, events, current, created, notified, acked, regressed, raced>>
  BY DEF Restart
<1>2. ProcTypes /\ OtherTypes
  BY DEF Structure, Types
<1>3. HeapType' /\ MapType' /\ Objective'
  BY <1>1, NoneFacts DEF HeapType, MapType, Objective, Mapped, UniqueResident, NewOnce, New, Live, Alive
<1>4. ProcTypes'
  BY <1>1, <1>2, NothingTyped DEF ProcTypes
<1>5. OtherTypes'
  <2>1. restarts' \in 0..MaxRestarts
    BY <1>1, <1>2 DEF OtherTypes
  <2>2. dropped' \subseteq Events
    BY <1>1, <1>2 DEF OtherTypes, ProcTypes
  <2> QED
    BY <1>1, <1>2, <2>1, <2>2 DEF OtherTypes
<1>6. ASSUME NEW p \in Processes
      PROVE  KnownOf(p)' /\ (p \in Txns => ListHeldOf(p)') /\ LocalOf(p)' /\ SettingOf(p)'
  <2>1. /\ want'[p] = None /\ changes'[p] = {} /\ (p \in Txns => list'[p] = <<>>)
        /\ pc'[p] = IF Begun(p) THEN "failed" ELSE pc[p]
    BY <1>1
  <2>2. pc'[p] \in {"start", "done", "failed"} /\ (pc'[p] = "start" => pc[p] = "start")
    BY <2>1 DEF Begun
  <2>3. KnownOf(p)'
    <3>1. \A n \in DOMAIN events[p] : pc[p] # "start" \/ p \in Txns => events[p][n].ent \in Ids
      BY Parts DEF KnownOf, LocalOf, Before
    <3>2. pc'[p] # "start" => pc[p] # "start" \/ p \in Txns
      BY <2>1 DEF Begun
    <3> QED
      BY <1>1, <2>1, <3>1, <3>2 DEF KnownOf, Ids
  <2>4. p \in Txns => ListHeldOf(p)'
    BY <2>1, <2>2 DEF ListHeldOf
  <2>5. SettingOf(p)'
    BY <2>2 DEF SettingOf
  <2>6. LocalOf(p)'
    BY <1>1, <2>1, <2>2, Parts DEF LocalOf, Before
  <2> QED
    BY <2>3, <2>4, <2>5, <2>6
<1>7. KnownIds' /\ ListHeld' /\ Local' /\ Setting'
  BY <1>1, <1>6, Kinds DEF Structure, KnownIds, ListHeld, Local, Setting, Ids
<1> QED
  BY <1>3, <1>4, <1>5, <1>7 DEF Structure, Types

-----------------------------------------------------------------------------
(* What is stored, told and in memory *)

\* What has been told, or will be, is not forgotten.
LEMMA ToldGrows ==
    ASSUME notified \subseteq notified', dropped \subseteq dropped',
           \A p \in Processes : changes[p] \subseteq changes'[p] \cup notified' \cup dropped'
    PROVE  Told \subseteq Told'
BY DEF Told

\* Past commits, after a step that stores nothing and acknowledges what is stored
LEMMA PastKept ==
    ASSUME Structure, Data, stored' = stored, regressed \subseteq regressed', raced \subseteq raced',
           Told \subseteq Told', \A ev \in acked' : ev \in acked \/ (ev \in Told /\ Saved(ev)),
           \A p \in Processes : pc'[p] \notin {"done", "failed"} =>
               \/ current'[p] = 1
               \/ /\ pc[p] \notin {"done", "failed"}
                  /\ events'[p] = events[p] /\ current'[p] = current[p],
           \A p \in Processes : events'[p] \in Seq(Events)
    PROVE  Reached' /\ HeadsTold' /\ DurableApart' /\ AckedNotified'
<1>1. \A ev : Saved(ev) => Saved(ev)'
  BY DEF Saved
<1>2. Reached'
  <2> SUFFICES ASSUME NEW p \in Processes, pc'[p] \notin {"done", "failed"},
                      NEW k \in DOMAIN events'[p], k < current'[p]
               PROVE  events'[p][k] \in Told' /\ Saved(events[p][k])'
    BY DEF Reached
  <2>1. CASE current'[p] = 1
    <3>1. events'[p] \in Seq(Events) /\ k \in DOMAIN events'[p]
      OBVIOUS
    <3>2. k \in Nat /\ k >= 1
      BY <3>1
    <3> QED
      BY <2>1, <3>2
  <2>2. CASE pc[p] \notin {"done", "failed"} /\ events'[p] = events[p] /\ current'[p] = current[p]
    <3>1. events[p][k] \in Told /\ Saved(events[p][k])
      BY <2>2 DEF Data, Reached
    <3> QED
      BY <1>1, <2>2, <3>1 DEF Saved
  <2> QED
    BY <2>1, <2>2
<1>3. HeadsTold'
  BY DEF Data, HeadsTold
<1>4. DurableApart'
  BY DEF Data, DurableApart, Kept, Saved
<1>5. AckedNotified'
  <2>1. acked \subseteq Told
    BY DEF Data, AckedNotified, Told
  <2>2. acked' \subseteq Told'
    BY <2>1
  <2> QED
    BY <2>2 DEF AckedNotified, Told
<1> QED
  BY <1>2, <1>3, <1>4, <1>5

\* Memory, after a step that stores nothing and takes no state, and puts no entity back
\* unnoticed
LEMMA MemoryKept ==
    ASSUME Structure, Data, stored' = stored, regressed \subseteq regressed', raced \subseteq raced',
           \A p \in Processes : pc'[p] = "set" =>
               pc[p] = "set" /\ want'[p] = want[p] /\ writing'[p] = writing[p],
           \A e \in Entities \ regressed' : entities'[e] \in Objects =>
               IF Alive(e) THEN heap[entities[e]].docs \subseteq heap'[entities'[e]].docs
               ELSE DocsOf(stored[e]) \subseteq heap'[entities'[e]].docs
    PROVE  ResidentCurrent' /\ WriteFresh'
<1>1. ResidentCurrent'
  <2> SUFFICES ASSUME NEW e \in Entities \ regressed', entities'[e] \in Objects
               PROVE  /\ DocsOf(stored[e]) \subseteq heap'[entities'[e]].docs
                      /\ \A p \in Processes : pc'[p] = "set" /\ want'[p] = e =>
                             writing'[p].docs \subseteq heap'[entities'[e]].docs
    BY DEF ResidentCurrent, Alive, DocsOf
  <2>1. CASE Alive(e)
    <3>1. /\ DocsOf(stored[e]) \subseteq heap[entities[e]].docs
          /\ \A p \in Processes : pc[p] = "set" /\ want[p] = e =>
                 writing[p].docs \subseteq heap[entities[e]].docs
      BY <2>1 DEF Data, ResidentCurrent
    <3> QED
      BY <2>1, <3>1
  <2>2. CASE ~Alive(e)
    <3>1. \A p \in Processes : pc[p] = "set" => want[p] # e
      BY <2>2, SettingFacts DEF Structure
    <3> QED
      BY <2>2, <3>1
  <2> QED
    BY <2>1, <2>2
<1>2. WriteFresh'
  <2> SUFFICES ASSUME NEW p \in Processes, pc'[p] = "set"
               PROVE  /\ \A q \in Processes \ {p} : pc'[q] = "set" /\ want'[q] = want'[p] => want'[p] \in raced'
                      /\ want'[p] \notin regressed' \cup raced' => DocsOf(stored[want'[p]]) \subseteq writing'[p].docs
    BY DEF WriteFresh, DocsOf
  <2>1. pc[p] = "set" /\ want'[p] = want[p] /\ writing'[p] = writing[p]
    OBVIOUS
  <2>2. /\ \A q \in Processes \ {p} : pc[q] = "set" /\ want[q] = want[p] => want[p] \in raced
        /\ want[p] \notin regressed \cup raced => DocsOf(stored[want[p]]) \subseteq writing[p].docs
    BY <2>1 DEF Data, WriteFresh
  <2> QED
    BY <2>1, <2>2
<1> QED
  BY <1>1, <1>2

\* The two together, for a step that leaves memory and storage alone
LEMMA QuietData ==
    ASSUME Structure, Structure', Data,
           UNCHANGED <<entities, heap, stored, acked, regressed, raced>>, Told \subseteq Told',
           \A p \in Processes : pc'[p] \notin {"done", "failed"} =>
               \/ current'[p] = 1
               \/ /\ pc[p] \notin {"done", "failed"}
                  /\ events'[p] = events[p] /\ current'[p] = current[p],
           \A p \in Processes : pc'[p] = "set" =>
               pc[p] = "set" /\ want'[p] = want[p] /\ writing'[p] = writing[p]
    PROVE  Data'
<1>1. \A p \in Processes : events'[p] \in Seq(Events)
  BY DEF Structure, Types, ProcTypes
<1>2. \A e \in Entities : entities'[e] \in Objects =>
        Alive(e) /\ heap[entities[e]].docs \subseteq heap'[entities'[e]].docs
  BY DEF Alive
<1>3. Reached' /\ HeadsTold' /\ DurableApart' /\ AckedNotified'
  BY <1>1, PastKept
<1>4. ResidentCurrent' /\ WriteFresh'
  BY <1>2, MemoryKept
<1> QED
  BY <1>3, <1>4 DEF Data

\* What leaving does to the processes
LEMMA LeaveQuiet ==
    ASSUME Structure, NEW p \in Processes, NEW how \in {"done", "failed"}, Leave(p, how)
    PROVE  /\ \A q \in Processes : pc'[q] \notin {"done", "failed"} =>
                /\ pc[q] \notin {"done", "failed"} /\ events'[q] = events[q] /\ current'[q] = current[q]
                /\ want'[q] = want[q] /\ writing'[q] = writing[q] /\ pc'[q] = pc[q]
           /\ \A q \in Processes : changes'[q] = IF q = p THEN {} ELSE changes[q]
BY Parts DEF Leave, ProcTypes

\* Steps at which only one process moves, in memory and storage nothing
LEMMA QuietSteps ==
    ASSUME Structure, Structure', Data,
           \/ \E t \in Txns : (\E e \in Entities : Edit(t, e)) \/ Rollback(t)
           \/ \E r \in Requests : Receive(r)
           \/ \E g \in Readers : (\E e \in Entities : Get(g, e)) \/ FetchStates(g)
           \/ \E p \in Processes : GetState(p) \/ StorageFails(p)
           \/ UNCHANGED vars
    PROVE  Data'
<1>1. ASSUME NEW p \in Processes, pc[p] \in {"start", "load"},
             \A q \in Processes \ {p} : pc'[q] = pc[q] /\ want'[q] = want[q],
             pc'[p] # "set", UNCHANGED <<entities, heap, stored, events, current, writing,
                                         changes, notified, acked, dropped, regressed, raced>>
      PROVE  Data'
  <2>1. Told \subseteq Told'
    BY <1>1, ToldGrows
  <2> QED
    BY <1>1, <2>1, QuietData
<1>2. ASSUME NEW p \in Processes, NEW how \in {"done", "failed"}, Leave(p, how),
             UNCHANGED <<entities, heap, stored, acked, notified, regressed, raced>>,
             dropped' = dropped \cup changes[p]
      PROVE  Data'
  <2>1. Told \subseteq Told'
    BY <1>2, LeaveQuiet, ToldGrows
  <2> QED
    BY <1>2, <2>1, LeaveQuiet, QuietData
<1>3. ASSUME NEW t \in Txns, NEW e \in Entities, Edit(t, e) PROVE Data'
  <2>1. /\ pc[t] = "start" /\ t \in Processes
        /\ UNCHANGED <<entities, heap, stored, events, current, writing, changes,
                       notified, acked, dropped, regressed, raced>>
    BY <1>3, Kinds DEF Edit, history
  <2>2. pc' \in {pc, [pc EXCEPT ![t] = "load"]} /\ want' \in {want, [want EXCEPT ![t] = e]}
    BY <1>3, Zenon DEF Edit
  <2>3. pc'[t] # "set" /\ \A q \in Processes \ {t} : pc'[q] = pc[q] /\ want'[q] = want[q]
    BY <2>1, <2>2, Parts DEF ProcTypes
  <2> QED
    BY <1>1, <2>1, <2>3
<1>4. ASSUME NEW t \in Txns, Rollback(t) PROVE Data'
  <2>1. /\ t \in Processes /\ Leave(t, "failed") /\ pc[t] = "start"
        /\ UNCHANGED <<entities, heap, stored, acked, notified, dropped, regressed, raced>>
    BY <1>4, Kinds DEF Rollback, history
  <2>2. changes[t] = {}
    BY <2>1, Parts DEF LocalOf, Before
  <2> QED
    BY <1>2, <2>1, <2>2
<1>5. ASSUME NEW r \in Requests, Receive(r) PROVE Data'
  <2>1. /\ r \in Processes /\ pc[r] = "start" /\ pc' = [pc EXCEPT ![r] = "next"]
        /\ UNCHANGED <<entities, heap, stored, want, events, current, writing, changes,
                       notified, acked, dropped, regressed, raced>>
    BY <1>5, Kinds DEF Receive, history
  <2>2. pc'[r] # "set" /\ \A q \in Processes \ {r} : pc'[q] = pc[q]
    BY <2>1, Parts DEF ProcTypes
  <2> QED
    BY <1>1, <2>1, <2>2
<1>6. ASSUME NEW g \in Readers, NEW e \in Entities, Get(g, e) PROVE Data'
  <2>1. /\ g \in Processes /\ pc[g] = "start" /\ pc' = [pc EXCEPT ![g] = "load"]
        /\ want' = [want EXCEPT ![g] = e]
        /\ UNCHANGED <<entities, heap, stored, events, current, writing, changes,
                       notified, acked, dropped, regressed, raced>>
    BY <1>6, Kinds DEF Get, history
  <2>2. pc'[g] # "set" /\ \A q \in Processes \ {g} : pc'[q] = pc[q] /\ want'[q] = want[q]
    BY <2>1, Parts DEF ProcTypes
  <2> QED
    BY <1>1, <2>1, <2>2
<1>7. ASSUME NEW g \in Readers, FetchStates(g) PROVE Data'
  <2>1. /\ g \in Processes /\ pc[g] = "start" /\ pc' = [pc EXCEPT ![g] = "loaded"]
        /\ UNCHANGED <<entities, heap, stored, want, events, current, writing, changes,
                       notified, acked, dropped, regressed, raced>>
    BY <1>7, Kinds DEF FetchStates, history
  <2>2. pc'[g] # "set" /\ \A q \in Processes \ {g} : pc'[q] = pc[q]
    BY <2>1, Parts DEF ProcTypes
  <2> QED
    BY <1>1, <2>1, <2>2
<1>8. ASSUME NEW p \in Processes, GetState(p) PROVE Data'
  <2>1. /\ pc[p] = "load" /\ pc' = [pc EXCEPT ![p] = "loaded"]
        /\ UNCHANGED <<entities, heap, stored, want, events, current, writing, changes,
                       notified, acked, dropped, regressed, raced>>
    BY <1>8, Kinds DEF GetState, history
  <2>2. pc'[p] # "set" /\ \A q \in Processes \ {p} : pc'[q] = pc[q]
    BY <2>1, Parts DEF ProcTypes
  <2> QED
    BY <1>1, <2>1, <2>2
<1>9. ASSUME NEW p \in Processes, StorageFails(p) PROVE Data'
  <2>1. /\ Leave(p, "failed") /\ dropped' = dropped \cup changes[p]
        /\ UNCHANGED <<entities, heap, stored, acked, notified, regressed, raced>>
    BY <1>9 DEF StorageFails
  <2> QED
    BY <1>2, <2>1
<1>10. ASSUME UNCHANGED vars PROVE Data'
  <2>1. UNCHANGED <<entities, heap, stored, pc, want, events, current, writing, changes,
                    notified, acked, dropped, regressed, raced>>
    BY <1>10 DEF vars, procVars, history
  <2>2. Told \subseteq Told'
    BY <2>1, ToldGrows
  <2> QED
    BY <2>1, <2>2, QuietData
<1> QED
  BY <1>3, <1>4, <1>5, <1>6, <1>7, <1>8, <1>9, <1>10

LEMMA RestartData ==
    ASSUME Structure, Structure', Data, Restart
    PROVE  Data'
<1>1. /\ entities' = [e \in Entities |-> None] /\ stored' = stored
      /\ pc' = [p \in Processes |-> IF Begun(p) THEN "failed" ELSE pc[p]]
      /\ dropped' = dropped \cup UNION {changes[p] : p \in Processes}
      /\ UNCHANGED <<events, current, created, notified, acked, regressed, raced>>
  BY DEF Restart
<1>2. Told \subseteq Told'
  BY <1>1, ToldGrows
<1>3. \A p \in Processes : pc'[p] = "failed" \/ (pc'[p] = pc[p] /\ pc[p] \in {"start", "done"})
  BY <1>1 DEF Begun
<1>4. \A e \in Entities : entities'[e] \notin Objects
  BY <1>1, NoneFacts
<1>5. Reached' /\ HeadsTold' /\ DurableApart' /\ AckedNotified'
  <2>1. \A p \in Processes : events'[p] \in Seq(Events)
    BY DEF Structure, Types, ProcTypes
  <2> QED
    BY <1>1, <1>2, <1>3, <2>1, PastKept
<1>6. ResidentCurrent' /\ WriteFresh'
  BY <1>1, <1>3, <1>4, MemoryKept
<1> QED
  BY <1>5, <1>6 DEF Data

LEMMA DropData ==
    ASSUME Structure, Structure', Data, NEW o \in Objects, Drop(o)
    PROVE  Data'
<1>1. UNCHANGED <<stored, pc, want, events, current, writing, changes, created,
                  notified, acked, dropped, regressed, raced>>
      /\ heap' = [heap EXCEPT ![o] = None]
      /\ entities' = [e \in Entities |-> IF entities[e] = o THEN "dead" ELSE entities[e]]
  BY DEF Drop, procVars, history
<1>2. \A e \in Entities : entities'[e] \in Objects =>
        Alive(e) /\ heap[entities[e]].docs \subseteq heap'[entities'[e]].docs
  BY <1>1, NoneFacts, Parts DEF Alive, Structure, Types, HeapType
<1>3. Told \subseteq Told' /\ \A p \in Processes : events'[p] \in Seq(Events)
  BY <1>1, ToldGrows DEF Structure, Types, ProcTypes
<1>4. Reached' /\ HeadsTold' /\ DurableApart' /\ AckedNotified'
  BY <1>1, <1>3, PastKept
<1>5. ResidentCurrent' /\ WriteFresh'
  BY <1>1, <1>2, MemoryKept
<1> QED
  BY <1>4, <1>5 DEF Data

LEMMA CreateData ==
    ASSUME Structure, Structure', Data, NEW t \in Txns, Create(t)
    PROVE  Data'
<1>1. UNCHANGED <<entities, stored, pc, want, events, current, writing, changes,
                  notified, acked, dropped, regressed, raced>>
  BY DEF Create
<1>2. PICK o \in Objects : ~Live(o) /\ \A x \in Objects \ {o} : heap'[x] = heap[x]
  BY CreateStep, Parts DEF Structure
<1>3. \A e \in Entities : entities'[e] \in Objects =>
        Alive(e) /\ heap[entities[e]].docs \subseteq heap'[entities'[e]].docs
  BY <1>1, <1>2, Parts DEF Alive, Structure, Objective, Mapped
<1>4. Told \subseteq Told' /\ \A p \in Processes : events'[p] \in Seq(Events)
  BY <1>1, ToldGrows DEF Structure, Types, ProcTypes
<1>5. Reached' /\ HeadsTold' /\ DurableApart' /\ AckedNotified'
  BY <1>1, <1>4, PastKept
<1>6. ResidentCurrent' /\ WriteFresh'
  BY <1>1, <1>3, MemoryKept
<1> QED
  BY <1>5, <1>6 DEF Data

LEMMA CommitData ==
    ASSUME Structure, Structure', Data, NEW t \in Txns, Commit(t)
    PROVE  Data'
<1> t \in Processes
  BY Kinds
<1> DEFINE done == Accepted(t)
           obj(n) == list[t][n].obj
           ent(n) == list[t][n].ent
<1>1. pc[t] = "start" /\ UNCHANGED <<stored, created, notified, acked, dropped, regressed, raced>>
  BY Zenon DEF Commit, history
<1>2. /\ \A n \in done : /\ obj(n) \in Objects /\ ent(n) \in Entities /\ heap[obj(n)].ent = ent(n)
                         /\ Live(obj(n))
      /\ \A n \in done : /\ heap[obj(n)].docs \subseteq heap'[obj(n)].docs
                         /\ entities'[ent(n)] = obj(n)
                         /\ heap[obj(n)].new => entities[ent(n)] = None
                         /\ ~heap[obj(n)].new => entities[ent(n)] = obj(n)
      /\ \A o \in Objects : (\A n \in done : obj(n) # o) => heap'[o] = heap[o]
      /\ \A e \in Entities : (\A n \in done : ent(n) # e) => entities'[e] = entities[e]
  <2>1. \A n \in done : n \in DOMAIN list[t]
    BY CommitEffect, Parts DEF Structure
  <2>2. \A n \in done : /\ obj(n) \in Objects /\ ent(n) \in Entities /\ heap[obj(n)].ent = ent(n)
                        /\ Live(obj(n))
    BY <2>1, ListFacts, Parts DEF Structure
  <2> QED
    BY <2>2, CommitEffect, Parts DEF Structure
<1> HIDE DEF done, obj, ent
<1>3. ASSUME NEW e \in Entities, entities'[e] \in Objects
      PROVE  IF Alive(e) THEN heap[entities[e]].docs \subseteq heap'[entities'[e]].docs
             ELSE DocsOf(stored[e]) \subseteq heap'[entities'[e]].docs
  <2>1. CASE \E n \in done : ent(n) = e
    <3>1. PICK n \in done : ent(n) = e
      BY <2>1
    <3>2. CASE heap[obj(n)].new
      <4>1. entities[e] = None /\ New(obj(n))
        BY <3>1, <3>2, <1>2 DEF New
      <4>2. stored[e] = None
        BY <3>1, <4>1, <1>2, Parts DEF Objective, NewOnce
      <4> QED
        BY <4>1, <4>2, NoneFacts DEF Alive, DocsOf
    <3>3. CASE ~heap[obj(n)].new
      BY <3>1, <3>3, <1>2 DEF Alive
    <3> QED
      BY <3>2, <3>3
  <2>2. CASE \A n \in done : ent(n) # e
    <3>1. entities'[e] = entities[e] /\ Alive(e)
      BY <2>2, <1>2, <1>3 DEF Alive
    <3>2. \A n \in done : obj(n) # entities[e]
      BY <2>2, <3>1, <1>2, Parts DEF Objective, Mapped
    <3> QED
      BY <3>1, <3>2, <1>2 DEF Alive
  <2> QED
    BY <2>1, <2>2
<1>4. changes[t] = {} /\ current[t] = 1
  BY <1>1, Parts DEF LocalOf, Before
<1>5. /\ pc'[t] \in {"next", "failed"} /\ current' = current
      /\ \A q \in Processes \ {t} : Stays(q)
  <2>1. CASE Accepted(t) = DOMAIN list[t]
    <3>1. /\ pc' = [pc EXCEPT ![t] = "next"]
          /\ events' = [events EXCEPT ![t] = [n \in DOMAIN list[t] |-> Event(t, n)]]
          /\ UNCHANGED <<list, want, got, writing, changes, current>>
      BY <2>1, Zenon DEF Commit
    <3> QED
      BY <3>1, Parts DEF Stays, ProcTypes
  <2>2. CASE Accepted(t) # DOMAIN list[t]
    <3>1. Leave(t, "failed")
      BY <2>2, Zenon DEF Commit
    <3> QED
      BY <3>1, Parts DEF Leave, Stays, ProcTypes
  <2> QED
    BY <2>1, <2>2
<1>6. Told \subseteq Told' /\ \A p \in Processes : events'[p] \in Seq(Events)
  <2>1. \A p \in Processes : changes[p] \subseteq changes'[p] \cup notified' \cup dropped'
    BY <1>4, <1>5 DEF Stays
  <2> QED
    BY <1>1, <2>1, ToldGrows DEF Structure, Types, ProcTypes
<1>7. Reached' /\ HeadsTold' /\ DurableApart' /\ AckedNotified'
  <2>1. \A p \in Processes : pc'[p] \notin {"done", "failed"} =>
           \/ current'[p] = 1
           \/ /\ pc[p] \notin {"done", "failed"}
              /\ events'[p] = events[p] /\ current'[p] = current[p]
    BY <1>4, <1>5 DEF Stays
  <2> QED
    BY <1>1, <1>6, <2>1, PastKept
<1>8. ResidentCurrent' /\ WriteFresh'
  <2>1. \A p \in Processes : pc'[p] = "set" =>
           pc[p] = "set" /\ want'[p] = want[p] /\ writing'[p] = writing[p]
    BY <1>5 DEF Stays
  <2> QED
    BY <1>1, <1>3, <2>1, MemoryKept
<1> QED
  BY <1>7, <1>8 DEF Data

\* assert_entity takes nothing away from an entity, unless it is noticed.
LEMMA AssertedKeeps ==
    ASSUME Types, Objective, NEW e \in Entities, NEW st, Regress(e, st)
    PROVE  /\ regressed \subseteq regressed' /\ regressed' \subseteq regressed \cup {e}
           /\ e \notin regressed' =>
                /\ DocsOf(stored[e]) \subseteq Asserted(e, st).docs
                /\ Alive(e) => heap[entities[e]].docs \subseteq Asserted(e, st).docs
<1>1. Alive(e) => Target(e) = entities[e]
  BY DEF Target
<1> DEFINE had == DocsOf(stored[e]) \cup IF Alive(e) THEN heap[Target(e)].docs ELSE {}
<1>2. regressed' = IF had \subseteq Asserted(e, st).docs THEN regressed ELSE regressed \cup {e}
  BY DEF Regress
<1>3. CASE had \subseteq Asserted(e, st).docs
  BY <1>1, <1>2, <1>3
<1>4. CASE ~(had \subseteq Asserted(e, st).docs)
  BY <1>2, <1>4
<1> QED
  BY <1>3, <1>4

\* Memory after an assert_entity
LEMMA AssertedMemory ==
    ASSUME Structure, Data, NEW e \in Entities, NEW st \in State \cup {None},
           Resident(e, Asserted(e, st)), Regress(e, st),
           UNCHANGED <<stored, created, raced>>,
           \A p \in Processes : pc'[p] = "set" =>
               pc[p] = "set" /\ want'[p] = want[p] /\ writing'[p] = writing[p]
    PROVE  ResidentCurrent' /\ WriteFresh'
<1>1. /\ regressed \subseteq regressed'
      /\ e \notin regressed' =>
            /\ DocsOf(stored[e]) \subseteq Asserted(e, st).docs
            /\ Alive(e) => heap[entities[e]].docs \subseteq Asserted(e, st).docs
  BY AssertedKeeps, Parts DEF Structure
<1>2. Asserted(e, st) \in Object /\ Asserted(e, st).ent = e /\ ~Asserted(e, st).new
  BY AssertedFacts DEF Structure, Objective
<1>3. /\ heap'[entities'[e]] = Asserted(e, st)
      /\ \A x \in Entities \ {e} : /\ entities'[x] = entities[x]
                                   /\ Alive(x) => heap'[entities[x]] = heap[entities[x]]
  BY <1>2, ResidentStep DEF Structure
<1>4. ASSUME NEW x \in Entities \ regressed', entities'[x] \in Objects
      PROVE  IF Alive(x) THEN heap[entities[x]].docs \subseteq heap'[entities'[x]].docs
             ELSE DocsOf(stored[x]) \subseteq heap'[entities'[x]].docs
  <2>1. CASE x = e
    BY <1>1, <1>3, <2>1
  <2>2. CASE x # e
    BY <1>3, <1>4, <2>2 DEF Alive
  <2> QED
    BY <2>1, <2>2
<1> QED
  BY <1>1, <1>4, MemoryKept

LEMMA EditLoadedData ==
    ASSUME Structure, Structure', Data, NEW t \in Txns, EditLoaded(t)
    PROVE  Data'
<1> t \in Processes
  BY Kinds
<1> DEFINE e == want[t]
           st == got[t][e]
<1>1. /\ pc[t] = "loaded" /\ Resident(e, Asserted(e, st)) /\ Regress(e, st)
      /\ pc' = [pc EXCEPT ![t] = "start"] /\ want' = [want EXCEPT ![t] = None]
      /\ UNCHANGED <<stored, events, current, writing, changes, created, notified, acked,
                     dropped, raced>>
  BY Zenon DEF EditLoaded
<1>2. e \in Entities /\ e \in DOMAIN got[t]
  BY <1>1, Parts, Kinds DEF LocalOf, ProcTypes
<1>3. st \in State \cup {None}
  <2>1. got[t] \in Answers
    BY Parts DEF ProcTypes
  <2> QED
    BY <1>2, <2>1 DEF Answers
<1> HIDE DEF e, st
<1>4. Told \subseteq Told' /\ \A p \in Processes : events'[p] \in Seq(Events)
  BY <1>1, ToldGrows DEF Structure, Types, ProcTypes
<1>5. pc'[t] = "start" /\ \A q \in Processes \ {t} : pc'[q] = pc[q] /\ want'[q] = want[q]
  BY <1>1, Parts DEF ProcTypes
<1>6. ResidentCurrent' /\ WriteFresh'
  BY <1>1, <1>2, <1>3, <1>5, AssertedMemory
<1>7. regressed \subseteq regressed'
  BY <1>1, <1>2, AssertedKeeps DEF Structure
<1>8. Reached' /\ HeadsTold' /\ DurableApart' /\ AckedNotified'
  BY <1>1, <1>4, <1>5, <1>7, PastKept
<1> QED
  BY <1>6, <1>8 DEF Data

LEMMA AssertGotData ==
    ASSUME Structure, Structure', Data, NEW g \in Readers, NEW e \in Entities, AssertGot(g, e)
    PROVE  Data'
<1> g \in Processes
  BY Kinds
<1> DEFINE st == got[g][e]
<1>1. /\ pc[g] = "loaded" /\ e \in DOMAIN got[g] /\ Resident(e, Asserted(e, st)) /\ Regress(e, st)
      /\ UNCHANGED <<stored, created, notified, acked, dropped, raced>>
  BY Zenon DEF AssertGot
<1>2. st \in State \cup {None}
  <2>1. got[g] \in Answers
    BY Parts DEF ProcTypes
  <2> QED
    BY <1>1, <2>1 DEF Answers
<1> HIDE DEF st
<1>3. /\ events' = events /\ current' = current /\ pc'[g] \in {"loaded", "done"}
      /\ \A q \in Processes \ {g} : Stays(q)
      /\ changes'[g] \in {changes[g], {}}
  <2>1. CASE DOMAIN got[g] = {e}
    <3>1. Leave(g, "done")
      BY <2>1, Zenon DEF AssertGot
    <3> QED
      BY <3>1, Parts, Kinds DEF Leave, Stays, ProcTypes
  <2>2. CASE DOMAIN got[g] # {e}
    <3>1. got' = [got EXCEPT ![g] = Restrict(@, DOMAIN @ \ {e})]
          /\ UNCHANGED <<pc, list, want, events, current, writing, changes>>
      BY <2>2, Zenon DEF AssertGot
    <3> QED
      BY <1>1, <3>1, Parts DEF Stays, ProcTypes
  <2> QED
    BY <2>1, <2>2
<1>4. Told \subseteq Told' /\ \A p \in Processes : events'[p] \in Seq(Events)
  <2>1. changes[g] = {}
    BY Parts DEF LocalOf
  <2>2. \A p \in Processes : changes[p] \subseteq changes'[p] \cup notified' \cup dropped'
    BY <1>3, <2>1 DEF Stays
  <2> QED
    BY <1>1, <2>2, ToldGrows DEF Structure, Types, ProcTypes
<1>5. ResidentCurrent' /\ WriteFresh'
  <2>1. \A p \in Processes : pc'[p] = "set" =>
           pc[p] = "set" /\ want'[p] = want[p] /\ writing'[p] = writing[p]
    BY <1>3 DEF Stays
  <2> QED
    BY <1>1, <1>2, <2>1, AssertedMemory
<1>6. regressed \subseteq regressed'
  BY <1>1, AssertedKeeps DEF Structure
<1>7. Reached' /\ HeadsTold' /\ DurableApart' /\ AckedNotified'
  <2>1. \A p \in Processes : pc'[p] \notin {"done", "failed"} =>
           pc[p] \notin {"done", "failed"} /\ events'[p] = events[p] /\ current'[p] = current[p]
    BY <1>1, <1>3 DEF Stays
  <2> QED
    BY <1>1, <1>4, <1>6, <2>1, PastKept
<1> QED
  BY <1>5, <1>7 DEF Data

\* Memory after the body of commit_events_local
LEMMA TakeData ==
    ASSUME Structure, Structure', Data,
           NEW p \in Txns \cup Requests, NEW e \in Entities, NEW obj \in Object,
           obj.ent = e, ~obj.new, pc[p] \in {"next", "loaded"}, current[p] \in DOMAIN events[p],
           Take(p, e, obj), regressed \subseteq regressed',
           e \notin regressed' =>
               /\ DocsOf(stored[e]) \subseteq obj.docs
               /\ Alive(e) => heap[entities[e]].docs \subseteq obj.docs,
           UNCHANGED <<stored, list, events, current, changes, created, notified, acked, dropped>>
    PROVE  Data'
<1> p \in Processes
  BY Kinds
<1> DEFINE ev == events[p][current[p]]
           new == ApplyEvent(obj, ev)
<1>1. /\ Resident(e, new) /\ writing' = [writing EXCEPT ![p] = ToState(new)]
      /\ want' = [want EXCEPT ![p] = e] /\ pc' = [pc EXCEPT ![p] = "set"]
      /\ raced' = IF \E q \in Processes : pc[q] = "set" /\ want[q] = e THEN raced \cup {e} ELSE raced
  BY DEF Take
<1>2. ev \in Events
  BY SeqEvents
<1>3. /\ new \in Object /\ new.ent = e /\ ~new.new /\ ToState(new).docs = new.docs
      /\ obj.docs \subseteq new.docs
  BY <1>2 DEF ApplyEvent, ToState, Object
<1> HIDE DEF ev, new
<1>4. /\ heap'[entities'[e]] = new
      /\ \A x \in Entities \ {e} : /\ entities'[x] = entities[x]
                                   /\ Alive(x) => heap'[entities[x]] = heap[entities[x]]
  BY <1>1, <1>3, ResidentStep DEF Structure
<1>5. /\ pc'[p] = "set" /\ want'[p] = e /\ writing'[p] = ToState(new)
      /\ \A q \in Processes \ {p} : pc'[q] = pc[q] /\ want'[q] = want[q] /\ writing'[q] = writing[q]
  BY <1>1, Parts DEF ProcTypes
<1>6. ResidentCurrent'
  <2> SUFFICES ASSUME NEW x \in Entities \ regressed', entities'[x] \in Objects
               PROVE  /\ DocsOf(stored[x]) \subseteq heap'[entities'[x]].docs
                      /\ \A q \in Processes : pc'[q] = "set" /\ want'[q] = x =>
                             writing'[q].docs \subseteq heap'[entities'[x]].docs
    BY DEF ResidentCurrent, Alive, DocsOf
  <2>0. Alive(x) => /\ DocsOf(stored[x]) \subseteq heap[entities[x]].docs
                    /\ \A q \in Processes : pc[q] = "set" /\ want[q] = x =>
                           writing[q].docs \subseteq heap[entities[x]].docs
    BY DEF Data, ResidentCurrent
  <2>1. CASE x = e
    <3>1. DocsOf(stored[e]) \subseteq new.docs
      BY <1>3, <2>1
    <3>2. ASSUME NEW q \in Processes \ {p}, pc'[q] = "set", want'[q] = e
          PROVE  writing'[q].docs \subseteq new.docs
      <4>1. pc[q] = "set" /\ want[q] = e /\ writing'[q] = writing[q]
        BY <1>5, <3>2
      <4>2. Alive(e)
        BY <4>1, SettingFacts DEF Structure
      <4> QED
        BY <1>3, <2>0, <2>1, <4>1, <4>2
    <3> QED
      BY <1>3, <1>4, <1>5, <2>1, <3>1, <3>2
  <2>2. CASE x # e
    BY <1>4, <1>5, <2>0, <2>2 DEF Alive
  <2> QED
    BY <2>1, <2>2
<1>7. WriteFresh'
  <2> SUFFICES ASSUME NEW q \in Processes, pc'[q] = "set"
               PROVE  /\ \A r \in Processes \ {q} : pc'[r] = "set" /\ want'[r] = want'[q] => want'[q] \in raced'
                      /\ want'[q] \notin regressed' \cup raced' => DocsOf(stored[want'[q]]) \subseteq writing'[q].docs
    BY DEF WriteFresh, DocsOf
  <2>1. CASE q = p
    <3>1. \A r \in Processes \ {p} : pc'[r] = "set" /\ want'[r] = e => e \in raced'
      BY <1>1, <1>5
    <3>2. e \notin regressed' => DocsOf(stored[e]) \subseteq ToState(new).docs
      BY <1>3
    <3> QED
      BY <1>5, <2>1, <3>1, <3>2
  <2>2. CASE q # p
    <3>1. pc[q] = "set" /\ want'[q] = want[q] /\ writing'[q] = writing[q]
      BY <1>5, <2>2
    <3>2. /\ \A r \in Processes \ {q} : pc[r] = "set" /\ want[r] = want[q] => want[q] \in raced
          /\ want[q] \notin regressed \cup raced => DocsOf(stored[want[q]]) \subseteq writing[q].docs
      BY <3>1 DEF Data, WriteFresh
    <3>3. raced \subseteq raced'
      BY <1>1
    <3>4. \A r \in Processes \ {q} : pc'[r] = "set" /\ want'[r] = want[q] => want[q] \in raced'
      <4>1. ASSUME want[q] = e PROVE e \in raced'
        BY <1>1, <3>1, <4>1
      <4> QED
        BY <1>5, <3>2, <3>3, <4>1
    <3> QED
      BY <3>1, <3>2, <3>3, <3>4
  <2> QED
    BY <2>1, <2>2
<1>8. Reached' /\ HeadsTold' /\ DurableApart' /\ AckedNotified'
  <2>1. Told \subseteq Told'
    BY ToldGrows
  <2>2. \A q \in Processes : events'[q] \in Seq(Events)
    BY DEF Structure, Types, ProcTypes
  <2>3. raced \subseteq raced'
    BY <1>1
  <2>4. \A q \in Processes : pc'[q] \notin {"done", "failed"} =>
           pc[q] \notin {"done", "failed"} /\ events'[q] = events[q] /\ current'[q] = current[q]
    BY <1>5
  <2> QED
    BY <2>1, <2>2, <2>3, <2>4, PastKept
<1> QED
  BY <1>6, <1>7, <1>8 DEF Data

LEMMA NextEventData ==
    ASSUME Structure, Structure', Data, NEW p \in Txns \cup Requests, NextEvent(p)
    PROVE  Data'
<1> p \in Processes
  BY Kinds
<1> DEFINE e == events[p][current[p]].ent
<1>1. /\ pc[p] = "next" /\ current[p] <= Len(events[p])
      /\ UNCHANGED <<stored, list, got, events, current, changes, created, notified, acked,
                     dropped, regressed, restarts>>
  BY Zenon DEF NextEvent
<1>2. current[p] \in DOMAIN events[p] /\ e \in Entities
  <2>1. current[p] \in DOMAIN events[p]
    BY <1>1, SeqEvents
  <2> QED
    BY <2>1, SeqEvents
<1>3. CASE Alive(e)
  <2> DEFINE obj == heap[entities[e]]
  <2>1. Take(p, e, obj)
    BY <1>3, Zenon DEF NextEvent
  <2>2. obj \in Object /\ obj.ent = e /\ ~obj.new
    BY <1>2, <1>3, Parts DEF HeapType, Objective, Mapped, Live, Alive
  <2>3. e \notin regressed => DocsOf(stored[e]) \subseteq obj.docs
    BY <1>2, <1>3 DEF Data, ResidentCurrent
  <2>4. heap[entities[e]].docs \subseteq obj.docs
    OBVIOUS
  <2> HIDE DEF e, obj
  <2> QED
    BY <1>1, <1>2, <2>1, <2>2, <2>3, <2>4, TakeData
<1>4. CASE ~Alive(e)
  <2>1. /\ pc' = [pc EXCEPT ![p] = "load"] /\ want' = [want EXCEPT ![p] = e]
        /\ UNCHANGED <<entities, heap, writing, raced>>
    BY <1>4, Zenon DEF NextEvent
  <2>2. pc'[p] = "load" /\ \A q \in Processes \ {p} : pc'[q] = pc[q] /\ want'[q] = want[q]
    BY <2>1, Parts DEF ProcTypes
  <2>3. Told \subseteq Told'
    BY <1>1, ToldGrows
  <2> QED
    BY <1>1, <2>1, <2>2, <2>3, QuietData
<1> QED
  BY <1>3, <1>4

LEMMA NextLoadedData ==
    ASSUME Structure, Structure', Data, NEW r \in Requests, NextLoaded(r)
    PROVE  Data'
<1> r \in Processes /\ r \notin Txns /\ r \notin Readers
  BY Kinds
<1> DEFINE e == want[r]
           st == got[r][e]
<1>1. /\ pc[r] = "loaded" /\ Take(r, e, Asserted(e, st)) /\ Regress(e, st)
      /\ UNCHANGED <<stored, list, events, current, changes, created, notified, acked,
                     dropped, restarts>>
  BY Zenon DEF NextLoaded
<1>2. e \in Entities /\ e \in DOMAIN got[r] /\ current[r] \in DOMAIN events[r]
  BY <1>1, SeqEvents, Parts DEF LocalOf, ProcTypes
<1>3. st \in State \cup {None}
  <2>1. got[r] \in Answers
    BY Parts DEF ProcTypes
  <2> QED
    BY <1>2, <2>1 DEF Answers
<1> HIDE DEF e, st
<1>4. Asserted(e, st) \in Object /\ Asserted(e, st).ent = e /\ ~Asserted(e, st).new
  BY <1>2, <1>3, AssertedFacts, Parts DEF Objective
<1>5. /\ regressed \subseteq regressed'
      /\ e \notin regressed' =>
            /\ DocsOf(stored[e]) \subseteq Asserted(e, st).docs
            /\ Alive(e) => heap[entities[e]].docs \subseteq Asserted(e, st).docs
  BY <1>1, <1>2, AssertedKeeps DEF Structure
<1> QED
  BY <1>1, <1>2, <1>4, <1>5, TakeData

LEMMA SetStateData ==
    ASSUME Structure, Structure', Data, NEW p \in Txns \cup Requests, SetState(p)
    PROVE  Data'
<1> p \in Processes
  BY Kinds
<1> DEFINE e == want[p]
           ev == events[p][current[p]]
<1>1. /\ pc[p] = "set" /\ stored' = [stored EXCEPT ![e] = writing[p]]
      /\ current' = [current EXCEPT ![p] = @ + 1] /\ writing' = [writing EXCEPT ![p] = None]
      /\ want' = [want EXCEPT ![p] = None] /\ pc' = [pc EXCEPT ![p] = "next"]
      /\ UNCHANGED <<entities, heap, list, got, events, created, notified, acked, dropped,
                     regressed, raced, restarts>>
  BY DEF SetState, history
<1>2. /\ stored[e] # writing[p] => changes' = [changes EXCEPT ![p] = @ \cup {ev}]
      /\ stored[e] = writing[p] => changes' = changes
  BY Zenon DEF SetState, Changed
<1>3. /\ e \in Entities /\ Alive(e) /\ writing[p] \in State /\ ev \in Events
      /\ current[p] \in DOMAIN events[p] /\ e = ev.ent
      /\ ev \in writing[p].docs /\ writing[p].head = ev
  <2>1. SettingOf(p)
    BY Parts
  <2> QED
    BY <1>1, <2>1, SettingFacts DEF Structure, SettingOf
<1>4. ev # None /\ writing[p] # None
  BY <1>3, NoneFacts
<1> HIDE DEF e, ev
<1>5. /\ stored'[e] = writing[p] /\ \A x \in Entities \ {e} : stored'[x] = stored[x]
      /\ pc'[p] = "next" /\ current'[p] = current[p] + 1
      /\ \A q \in Processes \ {p} : /\ pc'[q] = pc[q] /\ want'[q] = want[q]
                                    /\ writing'[q] = writing[q] /\ current'[q] = current[q]
  BY <1>1, <1>3, Parts DEF ProcTypes, OtherTypes
<1>6. Told \subseteq Told' /\ ev \in Told'
  <2>1. CASE stored[e] # writing[p]
    <3>1. changes'[p] = changes[p] \cup {ev} /\ \A q \in Processes \ {p} : changes'[q] = changes[q]
      BY <1>2, <2>1, Parts DEF ProcTypes
    <3>2. Told \subseteq Told'
      BY <1>1, <3>1, ToldGrows
    <3> QED
      BY <3>1, <3>2 DEF Told
  <2>2. CASE stored[e] = writing[p]
    <3>1. Told \subseteq Told'
      BY <1>1, <1>2, <2>2, ToldGrows
    <3>2. ev \in Told
      BY <1>3, <1>4, <2>2 DEF Data, HeadsTold
    <3> QED
      BY <3>1, <3>2
  <2> QED
    BY <2>1, <2>2
<1>7. e \notin regressed \cup raced => DocsOf(stored[e]) \subseteq writing[p].docs
  BY <1>1 DEF Data, WriteFresh, e
<1>8. \A v \in Events : Saved(v) => Saved(v)'
  <2> SUFFICES ASSUME NEW v \in Events, Saved(v), v.ent \notin regressed \cup raced
               PROVE  stored'[v.ent] # None /\ v \in stored'[v.ent].docs
    BY <1>1 DEF Saved
  <2>1. stored[v.ent] # None /\ v \in stored[v.ent].docs
    BY DEF Saved
  <2>2. CASE v.ent = e
    BY <1>4, <1>5, <1>7, <2>1, <2>2 DEF DocsOf
  <2>3. CASE v.ent # e
    BY <1>5, <2>1, <2>3, EventEnts
  <2> QED
    BY <2>2, <2>3
<1>9. ResidentCurrent'
  <2> SUFFICES ASSUME NEW x \in Entities \ regressed, Alive(x)
               PROVE  /\ DocsOf(stored'[x]) \subseteq heap[entities[x]].docs
                      /\ \A q \in Processes : pc'[q] = "set" /\ want'[q] = x =>
                             writing'[q].docs \subseteq heap[entities[x]].docs
    BY <1>1 DEF ResidentCurrent, Alive, DocsOf
  <2>1. /\ DocsOf(stored[x]) \subseteq heap[entities[x]].docs
        /\ \A q \in Processes : pc[q] = "set" /\ want[q] = x =>
               writing[q].docs \subseteq heap[entities[x]].docs
    BY DEF Data, ResidentCurrent
  <2>2. DocsOf(stored'[x]) \subseteq heap[entities[x]].docs
    <3>1. CASE x = e
      BY <1>1, <1>4, <1>5, <2>1, <3>1 DEF DocsOf, e
    <3>2. CASE x # e
      BY <1>5, <2>1, <3>2 DEF DocsOf
    <3> QED
      BY <3>1, <3>2
  <2> QED
    BY <1>5, <2>1, <2>2
<1>10. WriteFresh'
  <2> SUFFICES ASSUME NEW q \in Processes, pc'[q] = "set"
               PROVE  /\ \A r \in Processes \ {q} : pc'[r] = "set" /\ want'[r] = want'[q] => want'[q] \in raced
                      /\ want'[q] \notin regressed \cup raced => DocsOf(stored'[want'[q]]) \subseteq writing'[q].docs
    BY <1>1 DEF WriteFresh, DocsOf
  <2>1. q # p /\ pc[q] = "set" /\ want'[q] = want[q] /\ writing'[q] = writing[q]
    BY <1>5
  <2>2. /\ \A r \in Processes \ {q} : pc[r] = "set" /\ want[r] = want[q] => want[q] \in raced
        /\ want[q] \notin regressed \cup raced => DocsOf(stored[want[q]]) \subseteq writing[q].docs
    BY <2>1 DEF Data, WriteFresh
  <2>3. want[q] = e => e \in raced
    BY <1>1, <2>1, <2>2 DEF e
  <2>4. \A r \in Processes \ {q} : pc'[r] = "set" /\ want'[r] = want[q] => want[q] \in raced
    BY <1>5, <2>2
  <2>5. want[q] \in Entities
    BY <2>1, SettingFacts DEF Structure
  <2>6. want[q] \notin regressed \cup raced => DocsOf(stored'[want[q]]) \subseteq writing[q].docs
    BY <1>5, <2>2, <2>3, <2>5
  <2> QED
    BY <2>1, <2>4, <2>6
<1>11. Reached'
  <2> SUFFICES ASSUME NEW q \in Processes, pc'[q] \notin {"done", "failed"},
                      NEW k \in DOMAIN events[q], k < current'[q]
               PROVE  events[q][k] \in Told' /\ Saved(events[q][k])'
    BY <1>1 DEF Reached
  <2>1. events[q][k] \in Events /\ current[q] \in Nat /\ k \in Nat
    BY SeqEvents
  <2>2. CASE k < current[q]
    <3>1. pc[q] \notin {"done", "failed"}
      BY <1>1, <1>5
    <3>2. events[q][k] \in Told /\ Saved(events[q][k])
      BY <2>2, <3>1 DEF Data, Reached
    <3>3. events[q][k].ent \notin regressed \cup raced =>
              stored'[events[q][k].ent] # None /\ events[q][k] \in stored'[events[q][k].ent].docs
      BY <1>1, <1>8, <2>1, <3>2 DEF Saved
    <3> QED
      BY <1>1, <1>6, <3>2, <3>3 DEF Saved
  <2>3. CASE ~(k < current[q])
    <3>1. q = p /\ k = current[p] /\ events[q][k] = ev
      BY <1>5, <2>1, <2>3 DEF ev
    <3>2. stored'[ev.ent] # None /\ ev \in stored'[ev.ent].docs
      BY <1>3, <1>4, <1>5
    <3> QED
      BY <1>1, <1>6, <3>1, <3>2 DEF Saved
  <2> QED
    BY <2>2, <2>3
<1>12. HeadsTold'
  <2> SUFFICES ASSUME NEW x \in Entities, stored'[x] # None, stored'[x].head # None
               PROVE  stored'[x].head \in Told'
    BY DEF HeadsTold
  <2>1. CASE x = e
    BY <1>3, <1>5, <1>6, <2>1
  <2>2. CASE x # e
    BY <1>5, <1>6, <2>2 DEF Data, HeadsTold
  <2> QED
    BY <2>1, <2>2
<1>13. DurableApart'
  <2> SUFFICES ASSUME NEW v \in acked, v.ent \in Entities \ (regressed \cup raced)
               PROVE  stored'[v.ent] # None /\ v \in stored'[v.ent].docs
    BY <1>1 DEF DurableApart, Kept
  <2>1. v \in Events
    BY Parts DEF OtherTypes
  <2>2. Saved(v)
    BY DEF Data, DurableApart, Kept, Saved
  <2>3. Saved(v)'
    BY <1>8, <2>1, <2>2
  <2> QED
    BY <1>1, <2>3 DEF Saved
<1>14. AckedNotified'
  <2>1. acked \subseteq Told
    BY DEF Data, AckedNotified, Told
  <2>2. acked' \subseteq Told'
    BY <1>1, <1>6, <2>1
  <2> QED
    BY <2>2 DEF AckedNotified, Told
<1> QED
  BY <1>9, <1>10, <1>11, <1>12, <1>13, <1>14 DEF Data

LEMMA NotifyData ==
    ASSUME Structure, Structure', Data, NEW p \in Txns \cup Requests, Notify(p)
    PROVE  Data'
<1> p \in Processes
  BY Kinds
<1>1. /\ pc[p] = "next" /\ current[p] > Len(events[p])
      /\ notified' = notified \cup changes[p] /\ acked' = acked \cup ToSet(events[p])
      /\ Leave(p, "done")
      /\ UNCHANGED <<entities, heap, stored, created, dropped, regressed, raced, restarts>>
  BY DEF Notify
<1>2. Told \subseteq Told'
  BY <1>1, LeaveQuiet, ToldGrows
<1>3. ASSUME NEW v \in ToSet(events[p]) PROVE v \in Told /\ Saved(v)
  <2>1. PICK k \in DOMAIN events[p] : v = events[p][k]
    BY <1>3 DEF ToSet
  <2>2. k < current[p]
    BY <1>1, SeqEvents
  <2> QED
    BY <1>1, <2>1, <2>2 DEF Data, Reached
<1>4. \A q \in Processes : pc'[q] \notin {"done", "failed"} =>
        /\ pc[q] \notin {"done", "failed"} /\ events'[q] = events[q] /\ current'[q] = current[q]
        /\ want'[q] = want[q] /\ writing'[q] = writing[q] /\ pc'[q] = pc[q]
  BY <1>1, LeaveQuiet
<1>5. Reached' /\ HeadsTold' /\ DurableApart' /\ AckedNotified'
  <2>1. \A q \in Processes : events'[q] \in Seq(Events)
    BY DEF Structure, Types, ProcTypes
  <2>2. \A v \in acked' : v \in acked \/ (v \in Told /\ Saved(v))
    BY <1>1, <1>3
  <2> QED
    BY <1>1, <1>2, <1>4, <2>1, <2>2, PastKept
<1>6. ResidentCurrent' /\ WriteFresh'
  <2>1. \A e \in Entities : entities'[e] \in Objects =>
           Alive(e) /\ heap[entities[e]].docs \subseteq heap'[entities'[e]].docs
    BY <1>1 DEF Alive
  <2> QED
    BY <1>1, <1>4, <2>1, MemoryKept
<1> QED
  BY <1>5, <1>6 DEF Data

-----------------------------------------------------------------------------
(* The invariant *)

LEMMA InitIInv == Init => IInv
<1> SUFFICES ASSUME Init PROVE IInv
  OBVIOUS
<1>1. /\ entities = [e \in Entities |-> None] /\ heap = [o \in Objects |-> None]
      /\ stored = [e \in Entities |-> IF e \in Known THEN [docs |-> {}, head |-> None] ELSE None]
      /\ pc = [p \in Processes |-> "start"] /\ list = [t \in Txns |-> <<>>]
      /\ want = [p \in Processes |-> None] /\ got = [p \in Processes |-> Nothing]
      /\ events = [p \in Processes |-> IF p \in Requests THEN Carried[p] ELSE <<>>]
      /\ current = [p \in Processes |-> 1] /\ writing = [p \in Processes |-> None]
      /\ changes = [p \in Processes |-> {}] /\ created = {}
      /\ notified = {} /\ acked = {} /\ dropped = {} /\ regressed = {} /\ raced = {}
      /\ restarts = 0
  BY DEF Init
<1>2. HeapType /\ MapType /\ Objective
  BY <1>1, NoneFacts DEF HeapType, MapType, Objective, Mapped, UniqueResident, NewOnce, New, Live, Alive
<1>3. ProcTypes
  <2>1. events \in [Processes -> Seq(Events)]
    BY <1>1
  <2> QED
    BY <1>1, <2>1, NothingTyped DEF ProcTypes
<1>4. OtherTypes
  <2>1. [docs |-> {}, head |-> None] \in State
    BY DEF State
  <2> QED
    BY <1>1, <2>1 DEF OtherTypes
<1>5. KnownIds
  <2>1. \A e \in Known : e \in Ids
    BY DEF Ids
  <2>2. \A e \in Entities : stored[e] # None => e \in Ids
    BY <1>1, <2>1
  <2>3. \A p \in Processes : KnownOf(p)
    BY <1>1 DEF KnownOf
  <2> QED
    BY <2>2, <2>3 DEF KnownIds
<1>6. ListHeld /\ Local /\ Setting
  BY <1>1, Kinds DEF ListHeld, ListHeldOf, Local, LocalOf, Before, Setting, SettingOf
<1>7. Structure
  BY <1>2, <1>3, <1>4, <1>5, <1>6 DEF Structure, Types
<1>8. ResidentCurrent /\ WriteFresh
  BY <1>1, NoneFacts DEF ResidentCurrent, WriteFresh, Alive
<1>9. Reached /\ HeadsTold /\ DurableApart /\ AckedNotified
  <2>1. Reached
    <3>1. \A p \in Processes : events[p] \in Seq(Events) /\ current[p] = 1
      BY <1>1, <1>3 DEF ProcTypes
    <3>2. \A p \in Processes : \A k \in DOMAIN events[p] : ~(k < current[p])
      BY <3>1
    <3> QED
      BY <3>2 DEF Reached
  <2> QED
    BY <1>1, <2>1 DEF HeadsTold, DurableApart, Kept, AckedNotified
<1> QED
  BY <1>7, <1>8, <1>9 DEF IInv, Data

LEMMA StructureStep == Structure /\ [Next]_vars => Structure'
<1> SUFFICES ASSUME Structure, [Next]_vars PROVE Structure'
  OBVIOUS
<1>1. ASSUME UNCHANGED vars PROVE Structure'
  <2>1. UNCHANGED <<entities, heap, stored, pc, list, want, got, events, current, writing, changes,
                    created, notified, acked, dropped, regressed, raced, restarts>>
    BY <1>1 DEF vars, procVars, history
  <2>2. HeapType' /\ MapType' /\ Objective' /\ HeldKeeps
    BY <2>1, QuietStep
  <2>3. \A q \in Processes : Stays(q)
    BY <2>1 DEF Stays
  <2>4. \A q \in Processes : KnownOf(q)' /\ (q \in Txns => ListHeldOf(q)') /\ LocalOf(q)' /\ SettingOf(q)'
    BY <2>1, <2>2, <2>3, OthersStep
  <2>5. KnownIds' /\ ListHeld' /\ Local' /\ Setting'
    BY <2>1, <2>4, Kinds DEF Structure, KnownIds, ListHeld, Local, Setting, Ids
  <2>6. ProcTypes' /\ OtherTypes'
    BY <2>1 DEF Structure, Types, ProcTypes, OtherTypes
  <2> QED
    BY <2>2, <2>5, <2>6 DEF Structure, Types
<1>2. CASE Next
  <2>1. \A t \in Txns : (\E e \in Entities : Edit(t, e)) \/ EditLoaded(t) \/ Create(t)
                        \/ Rollback(t) \/ Commit(t) => Structure'
    BY EditStructure, EditLoadedStructure, CreateStructure, RollbackStructure, CommitStructure
  <2>2. \A r \in Requests : Receive(r) \/ NextLoaded(r) => Structure'
    BY ReceiveStructure, NextLoadedStructure
  <2>3. \A p \in Txns \cup Requests : NextEvent(p) \/ SetState(p) \/ Notify(p) => Structure'
    BY NextEventStructure, SetStateStructure, NotifyStructure
  <2>4. \A g \in Readers : (\E e \in Entities : Get(g, e) \/ AssertGot(g, e)) \/ FetchStates(g) => Structure'
    BY GetStructure, AssertGotStructure, FetchStatesStructure
  <2>5. \A p \in Processes : GetState(p) \/ StorageFails(p) => Structure'
    BY GetStateStructure, StorageFailsStructure
  <2>6. \A o \in Objects : Drop(o) => Structure'
    BY DropStructure
  <2>7. Restart => Structure'
    BY RestartStructure
  <2>8. Idle => UNCHANGED vars
    BY Zenon DEF Idle
  <2> QED
    BY <1>1, <1>2, <2>1, <2>2, <2>3, <2>4, <2>5, <2>6, <2>7, <2>8, Zenon DEF Next
<1> QED
  BY <1>1, <1>2

LEMMA DataStep == Structure /\ Structure' /\ Data /\ [Next]_vars => Data'
<1> SUFFICES ASSUME Structure, Structure', Data, [Next]_vars PROVE Data'
  OBVIOUS
<1>1. ASSUME UNCHANGED vars PROVE Data'
  BY <1>1, QuietSteps
<1>2. CASE Next
  <2>1. \A t \in Txns : (\E e \in Entities : Edit(t, e)) \/ EditLoaded(t) \/ Create(t)
                        \/ Rollback(t) \/ Commit(t) => Data'
    BY QuietSteps, EditLoadedData, CreateData, CommitData
  <2>2. \A r \in Requests : Receive(r) \/ NextLoaded(r) => Data'
    BY QuietSteps, NextLoadedData
  <2>3. \A p \in Txns \cup Requests : NextEvent(p) \/ SetState(p) \/ Notify(p) => Data'
    BY NextEventData, SetStateData, NotifyData
  <2>4. \A g \in Readers : (\E e \in Entities : Get(g, e) \/ AssertGot(g, e)) \/ FetchStates(g) => Data'
    BY QuietSteps, AssertGotData
  <2>5. \A p \in Processes : GetState(p) \/ StorageFails(p) => Data'
    BY QuietSteps
  <2>6. \A o \in Objects : Drop(o) => Data'
    BY DropData
  <2>7. Restart => Data'
    BY RestartData
  <2>8. Idle => UNCHANGED vars
    BY Zenon DEF Idle
  <2> QED
    BY <1>1, <1>2, <2>1, <2>2, <2>3, <2>4, <2>5, <2>6, <2>7, <2>8, Zenon DEF Next
<1> QED
  BY <1>1, <1>2

LEMMA AlwaysIInv == Spec => []IInv
<1>1. Init => IInv
  BY InitIInv
<1>2. IInv /\ [Next]_vars => IInv'
  BY StructureStep, DataStep DEF IInv
<1> QED
  BY <1>1, <1>2, PTL DEF Spec

-----------------------------------------------------------------------------
(* The theorems *)

\* Every variable has its type: the sequences, states and answers that the paths of node.rs
\* hand on are of events and entities there are, whatever overlaps.
THEOREM TypeCorrect == Spec => []TypeOK
<1>1. IInv => TypeOK
  <2> SUFFICES ASSUME IInv PROVE TypeOK
    OBVIOUS
  <2>1. HeapType /\ MapType /\ ProcTypes /\ OtherTypes
    BY DEF IInv, Structure, Types
  <2>2. ASSUME NEW p \in Processes
        PROVE  DOMAIN got[p] \subseteq Entities /\ \A e \in DOMAIN got[p] : got[p][e] \in State \cup {None}
    <3>1. got[p] \in Answers
      BY <2>1 DEF ProcTypes
    <3>2. PICK S \in SUBSET Entities : got[p] \in [S -> State \cup {None}]
      BY <3>1, Zenon DEF Answers
    <3> QED
      BY <3>2
  <2>3. /\ list \in [Txns -> Seq([ent : Entities, obj : Objects])]
        /\ events \in [Processes -> Seq(Events)] /\ current \in [Processes -> Nat]
    BY <2>1 DEF ProcTypes, Entries
  <2> QED
    BY <2>1, <2>2, <2>3 DEF TypeOK, HeapType, MapType, ProcTypes, OtherTypes
<1> QED
  BY <1>1, AlwaysIInv, PTL

\* Whatever fetches, requests, creations and drops overlap, the map of resident entities has
\* each object that is alive and has been entered: assert_entity and insert_entity
\* (node.rs:341-386) leave one object per entity.
THEOREM OneResident == Spec => []UniqueResident
<1>1. IInv => UniqueResident
  BY DEF IInv, Structure, Objective
<1> QED
  BY <1>1, AlwaysIInv, PTL

\* An entity in memory has all that is stored of it, and all that a commit is about to
\* store, as long as no assert_entity has put it back to an older state (node.rs:361-386).
THEOREM MemoryCurrent == Spec => []ResidentCurrent
<1>1. IInv => ResidentCurrent
  BY DEF IInv, Data
<1> QED
  BY <1>1, AlwaysIInv, PTL

\* What commit_events has answered Ok to stays in the storage over drops, failed calls and
\* restarts, unless assert_entity put the entity back or two states of it were on their way
\* to set_state at once (node.rs:298-307).
THEOREM CommitsDurable == Spec => []DurableApart
<1>1. IInv => DurableApart
  BY DEF IInv, Data
<1> QED
  BY <1>1, AlwaysIInv, PTL

\* The reactor has been told of every event of a commit that returned Ok, or will be by the
\* commit that stored it unless that one has ended: set_state's answer "unchanged" never
\* swallows an event (node.rs:306-310).
THEOREM CommitsTold == Spec => []AckedNotified
<1>1. IInv => AckedNotified
  BY DEF IInv, Data
<1> QED
  BY <1>1, AlwaysIInv, PTL
=============================================================================
