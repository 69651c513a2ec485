--------------------------- MODULE ReactorProofs ---------------------------
(***************************************************************************)
(* What Reactor.tla promises for any number of entities, subscriptions and *)
(* commits: in every runtime the types, and the agreement of the entity    *)
(* watchers with the result sets; on the single thread of the browser that *)
(* the changes a subscriber gets amount to the recorded result set, and    *)
(* that in the end that set is right about every entity, if no             *)
(* notification overlapped the subscribe call and the last of its commits  *)
(* neither failed nor met another one in the storage.                      *)
(***************************************************************************)
EXTENDS Reactor, SequenceTheorems, TLAPS

\* A task that is notifying has a change to notify, and one that stores has an
\* entity to store.
TasksBusy ==
    \A t \in Tasks :
        /\ pc[t] = "store" => target[t] # None
        /\ pc[t] \in {"index", "watchers", "next", "evaluated", "compared"}
                => changes[t] # <<>>
        /\ pc[t] \in {"evaluated", "compared"} <=> sub[t] # None

\* subscriptions, the index and the local variables of subscribe are what the
\* phase of the subscription says.
PhaseAgrees ==
    \A s \in Subs :
        /\ s \in subscriptions <=> phase[s] \in {"inserted", "live"}
        /\ phase[s] \in {"unlinking", "gone"} => s \notin index
        /\ phase[s] \in {"new", "indexed"} => found[s] = {}
        /\ phase[s] = "fetched" => todo[s] \subseteq found[s]

\* A subscription whose guard a task holds stays in subscriptions.
GuardsHold == \A t \in Tasks : sub[t] # None => sub[t] \in subscriptions

IInv == TypeOK /\ TasksBusy /\ PhaseAgrees /\ GuardsHold /\ WatchersAgree

USE IndexAssumption, ConstantAssumption

LEMMA NotEmpty ==
    ASSUME NEW S, NEW q \in Seq(S), Len(q) > 0
    PROVE  q # <<>>
OBVIOUS

LEMMA SeqFacts ==
    ASSUME NEW S, NEW q \in Seq(S), q # <<>>
    PROVE  /\ Head(q) \in S /\ Tail(q) \in Seq(S)
           /\ Len(q) > 1 => Tail(q) # <<>>
<1>1. Head(q) \in S /\ Tail(q) \in Seq(S)
  BY HeadTailProperties
<1>2. Len(q) > 1 => Len(Tail(q)) > 0
  OBVIOUS
<1> QED
  BY <1>1, <1>2, NotEmpty

LEMMA NestedExcept ==
    ASSUME NEW A, NEW B, NEW C, NEW f \in [A -> [B -> C]],
           NEW a \in A, NEW b \in B, NEW c \in C
    PROVE  [f EXCEPT ![a][b] = c] \in [A -> [B -> C]]
OBVIOUS

LEMMA ItemsType ==
    ASSUME NEW m \in BOOLEAN, NEW d \in BOOLEAN, NEW e \in Entities
    PROVE  Items(m, d, e) \in Seq(ItemChange)
<1>1. ASSUME NEW k \in {"Add", "Update", "Remove"}
      PROVE  <<Item(k, e)>> \in Seq(ItemChange)
  BY DEF Item, ItemChange
<1> QED
  BY <1>1 DEF Items

LEMMA TaskTypes ==
    ASSUME TypeOK, TasksBusy, NEW t \in Tasks, TaskStep(t)
    PROVE  TypeOK'
<1> USE DEF TypeOK, TasksBusy, Pcs, Keep, Yield, dataVars, reactorVars, subVars,
            clientVars
<1>1. ASSUME NEW e \in Entities, NEW v \in Values, Apply(t, e, v)
      PROVE  TypeOK'
  <2>1. /\ value' \in [Entities -> Values]
        /\ target' \in [Tasks -> Entities \cup {None}]
        /\ pc' \in [Tasks -> Pcs]
    BY <1>1 DEF Apply
  <2>2. left' \in [Tasks -> 0..MaxBatch]
    BY <1>1 DEF Apply
  <2>3. writing' \in [Tasks -> Values] /\ adrift' \subseteq Entities
    BY <1>1 DEF Apply
  <2> QED
    BY <1>1, <2>1, <2>2, <2>3 DEF Apply
<1>2. CASE Store(t)
  <2>0. PICK c \in BOOLEAN : StoreAs(t, c)
    BY <1>2 DEF Store
  <2>1. target[t] \in Entities /\ stored' \in [Entities -> Values]
    BY <1>2, <2>0 DEF Store, StoreAs
  <2>2. changes' \in [Tasks -> Seq(Entities)] /\ adrift' \subseteq Entities
    BY <2>0, <2>1 DEF StoreAs
  <2>3. pc' \in [Tasks -> Pcs]
    BY <2>0 DEF StoreAs
  <2>4. target' \in [Tasks -> Entities \cup {None}] /\ writing' \in [Tasks -> Values]
    BY <1>2 DEF Store
  <2> QED
    BY <1>2, <2>1, <2>2, <2>3, <2>4 DEF Store
<1>3. CASE ReadIndex(t)
  BY <1>3 DEF ReadIndex
<1>4. CASE ReadWatchers(t)
  BY <1>4 DEF ReadWatchers
<1>5. ASSUME NEW s \in Subs, Skip(t, s)
      PROVE  TypeOK'
  BY <1>5 DEF Skip
<1>6. ASSUME NEW s \in Subs, Evaluate(t, s)
      PROVE  TypeOK'
  <2>1. matches' \in [Tasks -> BOOLEAN]
    BY <1>6 DEF Evaluate
  <2> QED
    BY <1>6, <2>1 DEF Evaluate
<1>7. CASE Compare(t)
  <2>1. did' \in [Tasks -> BOOLEAN]
    BY <1>7 DEF Compare
  <2> QED
    BY <1>7, <2>1 DEF Compare
<1>8. CASE Update(t)
  <2> DEFINE e == Head(changes[t])
             s == sub[t]
  <2>1. e \in Entities /\ s \in Subs
    BY <1>8, SeqFacts DEF Update
  <2>2. matching' \in [Subs -> SUBSET Entities]
    BY <1>8, <2>1 DEF Update, UpdateWatchers
  <2>3. watchers' \in [Entities -> [Subs -> Nat]]
    BY <1>8, <2>1 DEF Update, UpdateWatchers
  <2>4. out[t][s] \o Items(matches[t], did[t], e) \in Seq(ItemChange)
    BY <2>1, ItemsType
  <2>5. out' \in [Tasks -> [Subs -> Seq(ItemChange)]]
    BY <1>8, <2>1, <2>4, NestedExcept DEF Update
  <2>6. /\ sub' \in [Tasks -> Subs \cup {None}]
        /\ matches' \in [Tasks -> BOOLEAN]
        /\ did' \in [Tasks -> BOOLEAN]
        /\ pc' \in [Tasks -> Pcs]
    BY <1>8 DEF Update
  <2> QED
    BY <1>8, <2>2, <2>3, <2>5, <2>6 DEF Update
<1>9. CASE NextChange(t)
  <2>1. changes' \in [Tasks -> Seq(Entities)]
    BY <1>9, SeqFacts DEF NextChange
  <2> QED
    BY <1>9, <2>1 DEF NextChange
<1>10. ASSUME NEW s \in Subs, Deliver(t, s)
       PROVE  TypeOK'
  <2>1. out' \in [Tasks -> [Subs -> Seq(ItemChange)]]
    BY <1>10, NestedExcept, <<>> \in Seq(ItemChange) DEF Deliver
  <2>2. Fold(seen[s], out[t][s]) \subseteq Entities
    BY DEF Fold
  <2>3. seen' \in [Subs -> SUBSET Entities] /\ wrong' \subseteq Subs
    <3>1. CASE s \in subscriptions
      <4>1. Receive(s, out[t][s])
        BY <1>10, <3>1 DEF Deliver
      <4>2. seen' = [seen EXCEPT ![s] = Fold(seen[s], out[t][s])]
        BY <4>1 DEF Receive
      <4>3. wrong' = wrong \/ wrong' = wrong \cup {s}
        BY <4>1 DEF Receive
      <4> QED
        BY <2>2, <4>2, <4>3
    <3>2. CASE s \notin subscriptions
      BY <1>10, <3>2 DEF Deliver
    <3> QED
      BY <3>1, <3>2
  <2> QED
    BY <1>10, <2>1, <2>3 DEF Deliver
<1>11. CASE Finish(t)
  BY <1>11 DEF Finish
<1> QED
  BY <1>1, <1>2, <1>3, <1>4, <1>5, <1>6, <1>7, <1>8, <1>9, <1>10, <1>11
  DEF TaskStep

LEMMA TaskBusy ==
    ASSUME TypeOK, TasksBusy, NEW t \in Tasks, TaskStep(t)
    PROVE  TasksBusy'
<1> USE DEF TypeOK, TasksBusy
<1>1. ASSUME NEW e \in Entities, NEW v \in Values, Apply(t, e, v)
      PROVE  TasksBusy'
  BY <1>1 DEF Apply
<1>2. CASE Store(t)
  <2>1. PICK c \in BOOLEAN : StoreAs(t, c)
    BY <1>2 DEF Store
  <2>2. pc'[t] \in {"apply", "done", "index"} /\ (pc'[t] = "index" => changes'[t] # <<>>)
    BY <2>1 DEF StoreAs
  <2>3. \A u \in Tasks : u # t => pc'[u] = pc[u] /\ changes'[u] = changes[u]
                                 /\ target'[u] = target[u]
    BY <1>2, <2>1 DEF Store, StoreAs
  <2>4. pc[t] = "store" /\ sub' = sub
    BY <1>2 DEF Store
  <2> QED
    BY <2>2, <2>3, <2>4
<1>3. CASE ReadIndex(t)
  BY <1>3 DEF ReadIndex
<1>4. CASE ReadWatchers(t)
  BY <1>4 DEF ReadWatchers
<1>5. ASSUME NEW s \in Subs, Skip(t, s)
      PROVE  TasksBusy'
  BY <1>5 DEF Skip
<1>6. ASSUME NEW s \in Subs, Evaluate(t, s)
      PROVE  TasksBusy'
  BY <1>6 DEF Evaluate
<1>7. CASE Compare(t)
  BY <1>7 DEF Compare
<1>8. CASE Update(t)
  BY <1>8 DEF Update
<1>9. CASE NextChange(t)
  <2>1. changes[t] \in Seq(Entities) /\ changes[t] # <<>>
    BY <1>9 DEF NextChange
  <2>2. Len(changes[t]) > 1 => Tail(changes[t]) # <<>>
    BY <2>1, SeqFacts
  <2> QED
    BY <1>9, <2>2 DEF NextChange
<1>10. ASSUME NEW s \in Subs, Deliver(t, s)
       PROVE  TasksBusy'
  BY <1>10 DEF Deliver
<1>11. CASE Finish(t)
  BY <1>11 DEF Finish
<1> QED
  BY <1>1, <1>2, <1>3, <1>4, <1>5, <1>6, <1>7, <1>8, <1>9, <1>10, <1>11
  DEF TaskStep

\* A commit that fails leaves everything but its own variables as it is.
LEMMA FailTypes ==
    ASSUME TypeOK, TasksBusy, NEW t \in Tasks, CommitFails(t)
    PROVE  /\ TypeOK' /\ TasksBusy'
           /\ UNCHANGED <<runtime, running, dataVars, reactorVars, subVars, cands, sub,
                          matches, did, out, clientVars, overlapped>>
           /\ pc[t] \in {"apply", "store"} /\ pc' = [pc EXCEPT ![t] = "done"]
           /\ sub[t] = None
<1> USE DEF TypeOK, TasksBusy, Pcs
<1>1. /\ UNCHANGED <<runtime, running, dataVars, reactorVars, subVars, cands, sub,
                     matches, did, out, clientVars, overlapped>>
      /\ pc[t] \in {"apply", "store"} /\ pc' = [pc EXCEPT ![t] = "done"]
  BY DEF CommitFails
<1>2. sub[t] = None
  BY <1>1
<1>3. /\ target' \in [Tasks -> Entities \cup {None}] /\ pc' \in [Tasks -> Pcs]
      /\ writing' \in [Tasks -> Values] /\ adrift' \subseteq Entities
  BY <1>1 DEF CommitFails, Changed
<1>4. changes' \in [Tasks -> Seq(Entities)] /\ left' \in [Tasks -> 0..MaxBatch]
  BY DEF CommitFails
<1>5. TypeOK'
  BY <1>1, <1>3, <1>4 DEF dataVars, reactorVars, subVars, clientVars
<1>6. TasksBusy'
  BY <1>1, <1>2 DEF CommitFails
<1> QED
  BY <1>1, <1>2, <1>5, <1>6

LEMMA SubscriberTypes ==
    ASSUME TypeOK, TasksBusy, NEW s \in Subs,
           Subscribe(s) \/ SubscribeStep(s) \/ SubscribeFails(s) \/ Unsubscribe(s)
               \/ UnsubscribeStep(s)
    PROVE  TypeOK' /\ TasksBusy'
<1> USE DEF TypeOK, Phases, Pcs, Keep, Yield, dataVars, taskVars, clientVars, reactorVars
<1>1. TasksBusy'
  BY DEF TasksBusy, Subscribe, SubscribeStep, SubscribeFails, Unsubscribe,
         UnsubscribeStep, Fetch, Insert, CallInitial, Link, UnwatchIndex,
         Unsubscribed, Unlink
<1> SUFFICES TypeOK'
  BY <1>1
<1>2. CASE Subscribe(s)
  BY <1>2 DEF Subscribe
<1>10. CASE SubscribeFails(s)
  BY <1>10 DEF SubscribeFails
<1>3. CASE Fetch(s)
  <2>1. found' \in [Subs -> SUBSET Entities] /\ todo' \in [Subs -> SUBSET Entities]
    BY <1>3 DEF Fetch
  <2> QED
    BY <1>3, <2>1 DEF Fetch
<1>4. CASE Insert(s)
  BY <1>4 DEF Insert
<1>5. CASE CallInitial(s)
  BY <1>5 DEF CallInitial
<1>6. ASSUME NEW e \in Entities, Link(s, e)
      PROVE  TypeOK'
  <2>1. watchers' \in [Entities -> [Subs -> Nat]]
    BY <1>6, NestedExcept DEF Link
  <2> QED
    BY <1>6, <2>1 DEF Link
<1>7. CASE Unsubscribe(s)
  BY <1>7 DEF Unsubscribe
<1>8. CASE UnwatchIndex(s)
  BY <1>8 DEF UnwatchIndex
<1>11. CASE Unsubscribed(s)
  BY <1>11 DEF Unsubscribed
<1>9. ASSUME NEW e \in Entities, Unlink(s, e)
      PROVE  TypeOK'
  <2>1. watchers' \in [Entities -> [Subs -> Nat]]
    BY <1>9, NestedExcept DEF Unlink
  <2> QED
    BY <1>9, <2>1 DEF Unlink
<1> QED
  BY <1>2, <1>3, <1>4, <1>5, <1>6, <1>7, <1>8, <1>9, <1>10, <1>11
  DEF SubscribeStep, UnsubscribeStep

\* A step that leaves the watchers and what they depend on alone.
LEMMA WatchersSame ==
    ASSUME WatchersAgree, UNCHANGED <<watchers, matching, phase, found, todo>>
    PROVE  WatchersAgree'
BY DEF WatchersAgree, Linked

\* Nothing but Update touches a result set, and it holds the guard.
LEMMA TaskKeeps ==
    ASSUME IInv, NEW t \in Tasks, TaskStep(t)
    PROVE  PhaseAgrees' /\ GuardsHold' /\ WatchersAgree'
<1> USE DEF IInv, TypeOK, dataVars, subVars, reactorVars, clientVars
<1>1. UNCHANGED <<subscriptions, index, phase, found, todo>>
  BY DEF TaskStep, Apply, Store, StoreAs, ReadIndex, ReadWatchers, Skip, Evaluate, Compare,
         Update, NextChange, Deliver, Finish
<1>2. PhaseAgrees'
  BY <1>1 DEF PhaseAgrees
<1>3. GuardsHold'
  <2>1. ASSUME NEW s \in Subs, Evaluate(t, s)
        PROVE  GuardsHold'
    BY <2>1 DEF Evaluate, GuardsHold
  <2>2. CASE Update(t)
    BY <2>2 DEF Update, GuardsHold
  <2>3. CASE UNCHANGED sub
    BY <1>1, <2>3 DEF GuardsHold
  <2>4. \/ UNCHANGED sub \/ Update(t)
        \/ \E s \in Subs : Evaluate(t, s)
    BY DEF TaskStep, Apply, Store, StoreAs, ReadIndex, ReadWatchers, Skip, Compare,
           NextChange, Deliver, Finish
  <2> QED
    BY <2>1, <2>2, <2>3, <2>4
<1>4. WatchersAgree'
  <2>1. CASE Update(t)
    <3>1. PICK e \in Entities, s \in Subs : e = Head(changes[t]) /\ s = sub[t]
      BY <2>1, SeqFacts DEF Update, TasksBusy
    <3>2. phase[s] \in {"inserted", "live"}
      BY <2>1, <3>1 DEF Update, TasksBusy, GuardsHold, PhaseAgrees
    <3>3. Linked(s) = matching[s] /\ Linked(s)' = matching'[s]
      BY <1>1, <3>2 DEF Linked
    <3>4. matching'[s] = IF matches[t] THEN matching[s] \cup {e} ELSE matching[s] \ {e}
      BY <2>1, <3>1 DEF Update, UpdateWatchers
    <3>5. \A r \in Subs \ {s} : Linked(r)' = Linked(r)
      BY <1>1, <2>1, <3>1 DEF Update, UpdateWatchers, Linked
    <3>6. watchers'[e][s] = IF matches[t] /\ e \notin matching[s] THEN watchers[e][s] + 1
                            ELSE IF ~matches[t] /\ e \in matching[s] THEN 0
                            ELSE watchers[e][s]
      BY <2>1, <3>1 DEF Update, UpdateWatchers
    <3>7. \A r \in Subs, d \in Entities :
              r # s \/ d # e => watchers'[d][r] = watchers[d][r]
      BY <2>1, <3>1 DEF Update, UpdateWatchers
    <3>8. watchers'[e][s] = IF e \in matching'[s] THEN 1 ELSE 0
      BY <3>1, <3>3, <3>4, <3>6 DEF WatchersAgree
    <3>9. \A d \in Entities \ {e} :
              watchers'[d][s] = IF d \in matching'[s] THEN 1 ELSE 0
      BY <3>1, <3>3, <3>4, <3>7 DEF WatchersAgree
    <3>10. ASSUME NEW r \in Subs, NEW d \in Entities
           PROVE  watchers'[d][r] = IF d \in Linked(r)' THEN 1 ELSE 0
      <4>1. CASE r = s
        <5>1. watchers'[d][s] = IF d \in matching'[s] THEN 1 ELSE 0
          BY <3>8, <3>9
        <5> QED
          BY <3>3, <4>1, <5>1
      <4>2. CASE r # s
        BY <3>5, <3>7, <4>2 DEF WatchersAgree
      <4> QED
        BY <4>1, <4>2
    <3> QED
      BY <3>10 DEF WatchersAgree
  <2>2. CASE UNCHANGED <<watchers, matching>>
    BY <1>1, <2>2, WatchersSame
  <2>3. Update(t) \/ UNCHANGED <<watchers, matching>>
    BY DEF TaskStep, Apply, Store, StoreAs, ReadIndex, ReadWatchers, Skip, Evaluate,
           Compare, NextChange, Deliver, Finish
  <2> QED
    BY <2>1, <2>2, <2>3
<1> QED
  BY <1>2, <1>3, <1>4

\* Each step of subscribe and unsubscribe moves one subscription from phase to
\* phase; the others, and the guards of others, are left as they are.
LEMMA SubscriberKeeps ==
    ASSUME IInv, NEW s \in Subs,
           Subscribe(s) \/ SubscribeStep(s) \/ SubscribeFails(s) \/ Unsubscribe(s)
               \/ UnsubscribeStep(s)
    PROVE  PhaseAgrees' /\ GuardsHold' /\ WatchersAgree'
<1> USE DEF IInv, TypeOK, dataVars, taskVars, clientVars, reactorVars
<1>1. CASE Subscribe(s)
  <2>1. PhaseAgrees' /\ GuardsHold'
    BY <1>1 DEF Subscribe, PhaseAgrees, GuardsHold
  <2>2. \A r \in Subs : Linked(r)' = Linked(r)
    BY <1>1 DEF Subscribe, Linked
  <2> QED
    BY <1>1, <2>1, <2>2 DEF Subscribe, WatchersAgree
<1>2. CASE Fetch(s)
  <2>1. PhaseAgrees' /\ GuardsHold'
    BY <1>2 DEF Fetch, PhaseAgrees, GuardsHold
  <2>2. Linked(s)' = found'[s] \ todo'[s] /\ found'[s] = todo'[s] /\ Linked(s) = {}
    BY <1>2 DEF Fetch, Linked
  <2>3. \A r \in Subs \ {s} : Linked(r)' = Linked(r)
    BY <1>2 DEF Fetch, Linked
  <2>4. Linked(s)' = Linked(s)
    BY <2>2
  <2>7. \A r \in Subs : Linked(r)' = Linked(r)
    BY <2>3, <2>4
  <2> QED
    BY <1>2, <2>1, <2>7 DEF Fetch, WatchersAgree
<1>3. CASE SubscribeFails(s)
  <2>1. PhaseAgrees' /\ GuardsHold'
    BY <1>3 DEF SubscribeFails, PhaseAgrees, GuardsHold
  <2>2. Linked(s)' = found[s] \ todo[s]
    BY <1>3 DEF SubscribeFails, Linked
  <2>3. phase[s] = "indexed" => Linked(s) = {} /\ found[s] = {}
    BY DEF Linked, PhaseAgrees
  <2>4. phase[s] = "fetched" => Linked(s) = found[s] \ todo[s]
    BY DEF Linked
  <2>5. \A r \in Subs \ {s} : Linked(r)' = Linked(r)
    BY <1>3 DEF SubscribeFails, Linked
  <2>6. Linked(s)' = Linked(s)
    BY <1>3, <2>2, <2>3, <2>4 DEF SubscribeFails
  <2>7. \A r \in Subs : Linked(r)' = Linked(r)
    BY <2>5, <2>6
  <2> QED
    BY <1>3, <2>1, <2>7 DEF SubscribeFails, WatchersAgree
<1>4. CASE Insert(s)
  <2>1. PhaseAgrees' /\ GuardsHold'
    BY <1>4 DEF Insert, PhaseAgrees, GuardsHold
  <2>2. Linked(s)' = found[s] /\ Linked(s) = found[s] \ todo[s] /\ todo[s] = {}
    BY <1>4 DEF Insert, Linked
  <2>3. \A r \in Subs \ {s} : Linked(r)' = Linked(r)
    BY <1>4 DEF Insert, Linked
  <2>4. Linked(s)' = Linked(s)
    BY <2>2
  <2>7. \A r \in Subs : Linked(r)' = Linked(r)
    BY <2>3, <2>4
  <2> QED
    BY <1>4, <2>1, <2>7 DEF Insert, WatchersAgree
<1>5. CASE CallInitial(s)
  <2>1. PhaseAgrees' /\ GuardsHold'
    BY <1>5 DEF CallInitial, PhaseAgrees, GuardsHold
  <2>2. \A r \in Subs : Linked(r)' = Linked(r)
    BY <1>5 DEF CallInitial, Linked
  <2> QED
    BY <1>5, <2>1, <2>2 DEF CallInitial, WatchersAgree
<1>6. ASSUME NEW e \in Entities, Link(s, e)
      PROVE  PhaseAgrees' /\ GuardsHold' /\ WatchersAgree'
  <2>1. PhaseAgrees' /\ GuardsHold'
    BY <1>6 DEF Link, PhaseAgrees, GuardsHold
  <2>2. Linked(s)' = Linked(s) \cup {e} /\ e \notin Linked(s)
    BY <1>6 DEF Link, Linked, PhaseAgrees
  <2>3. \A r \in Subs \ {s} : Linked(r)' = Linked(r)
    BY <1>6 DEF Link, Linked
  <2>4. watchers' = [watchers EXCEPT ![e][s] = @ + 1]
    BY <1>6 DEF Link
  <2>5. watchers[e][s] = 0
    BY <2>2 DEF WatchersAgree
  <2> QED
    BY <2>1, <2>2, <2>3, <2>4, <2>5 DEF WatchersAgree
<1>7. CASE Unsubscribe(s)
  <2>1. PhaseAgrees' /\ GuardsHold'
    BY <1>7 DEF Unsubscribe, PhaseAgrees, GuardsHold
  <2>2. \A r \in Subs : Linked(r)' = Linked(r)
    BY <1>7 DEF Unsubscribe, Linked
  <2> QED
    BY <1>7, <2>1, <2>2 DEF Unsubscribe, WatchersAgree
<1>8. CASE UnwatchIndex(s)
  <2>1. PhaseAgrees' /\ GuardsHold'
    BY <1>8 DEF UnwatchIndex, PhaseAgrees, GuardsHold
  <2>2. \A r \in Subs : Linked(r)' = Linked(r)
    BY <1>8 DEF UnwatchIndex, Linked
  <2> QED
    BY <1>8, <2>1, <2>2 DEF UnwatchIndex, WatchersAgree
<1>9. ASSUME NEW e \in Entities, Unlink(s, e)
      PROVE  PhaseAgrees' /\ GuardsHold' /\ WatchersAgree'
  <2>1. PhaseAgrees' /\ GuardsHold'
    BY <1>9 DEF Unlink, PhaseAgrees, GuardsHold
  <2>2. Linked(s)' = Linked(s) \ {e}
    BY <1>9 DEF Unlink, Linked
  <2>3. \A r \in Subs \ {s} : Linked(r)' = Linked(r)
    BY <1>9 DEF Unlink, Linked
  <2>4. watchers' = [watchers EXCEPT ![e][s] = 0]
    BY <1>9 DEF Unlink
  <2> QED
    BY <2>1, <2>2, <2>3, <2>4 DEF WatchersAgree
<1>10. CASE Unsubscribed(s)
  <2>1. PhaseAgrees' /\ GuardsHold'
    BY <1>10 DEF Unsubscribed, PhaseAgrees, GuardsHold
  <2>2. \A r \in Subs : Linked(r)' = Linked(r)
    BY <1>10 DEF Unsubscribed, Linked
  <2> QED
    BY <1>10, <2>1, <2>2 DEF Unsubscribed, WatchersAgree
<1> QED
  BY <1>1, <1>2, <1>3, <1>4, <1>5, <1>6, <1>7, <1>8, <1>9, <1>10
  DEF SubscribeStep, UnsubscribeStep

LEMMA Inductive == IInv /\ [Next]_vars => IInv'
<1> SUFFICES ASSUME IInv, [Next]_vars
             PROVE  IInv'
  OBVIOUS
<1>1. ASSUME NEW t \in Tasks, TaskStep(t)
      PROVE  IInv'
  <2>1. TypeOK /\ TasksBusy
    BY DEF IInv
  <2>2. TypeOK' /\ TasksBusy'
    BY <1>1, <2>1, TaskTypes, TaskBusy
  <2> QED
    BY <1>1, <2>2, TaskKeeps DEF IInv
<1>2. ASSUME NEW s \in Subs,
             Subscribe(s) \/ SubscribeStep(s) \/ SubscribeFails(s)
                 \/ Unsubscribe(s) \/ UnsubscribeStep(s)
      PROVE  IInv'
  <2>1. TypeOK' /\ TasksBusy'
    BY <1>2, SubscriberTypes DEF IInv
  <2> QED
    BY <1>2, <2>1, SubscriberKeeps DEF IInv
<1>4. ASSUME NEW t \in Tasks, CommitFails(t)
      PROVE  IInv'
  <2>1. TypeOK /\ TasksBusy /\ PhaseAgrees /\ GuardsHold /\ WatchersAgree
    BY DEF IInv
  <2>2. /\ TypeOK' /\ TasksBusy'
        /\ UNCHANGED <<reactorVars, subVars, sub>>
    BY <1>4, <2>1, FailTypes
  <2>3. PhaseAgrees' /\ GuardsHold'
    BY <2>1, <2>2 DEF reactorVars, subVars, PhaseAgrees, GuardsHold
  <2>4. WatchersAgree'
    BY <2>1, <2>2, WatchersSame DEF reactorVars, subVars
  <2> QED
    BY <2>2, <2>3, <2>4 DEF IInv
<1>3. CASE UNCHANGED vars
  <2>1. TypeOK' /\ TasksBusy'
    BY <1>3 DEF vars, dataVars, reactorVars, subVars, taskVars, clientVars, IInv,
                TypeOK, TasksBusy
  <2>2. PhaseAgrees' /\ GuardsHold'
    BY <1>3 DEF vars, reactorVars, subVars, taskVars, IInv, PhaseAgrees, GuardsHold
  <2>3. WatchersAgree'
    BY <1>3, WatchersSame DEF vars, reactorVars, subVars, IInv
  <2> QED
    BY <2>1, <2>2, <2>3 DEF IInv
<1> QED
  BY <1>1, <1>2, <1>3, <1>4 DEF Next, Idle

LEMMA InitInv == Init => IInv
<1> SUFFICES ASSUME Init
             PROVE  IInv
  OBVIOUS
<1>1. TypeOK /\ TasksBusy
  BY DEF Init, TypeOK, TasksBusy, Phases, Pcs
<1>2. PhaseAgrees /\ GuardsHold
  BY DEF Init, PhaseAgrees, GuardsHold
<1>3. WatchersAgree
  BY DEF Init, WatchersAgree, Linked
<1> QED
  BY <1>1, <1>2, <1>3 DEF IInv

LEMMA Invariance == Spec => []IInv
BY InitInv, Inductive, PTL DEF Spec

\* Every variable keeps its type, for any number of tasks, on either runtime.
THEOREM TypeCorrect == Spec => []TypeOK
<1>1. IInv => TypeOK
  BY DEF IInv
<1> QED
  BY <1>1, Invariance, PTL

\* However notify_change, subscribe and unsubscribe interleave, the watchers
\* of an entity are the subscriptions whose result set has it.
THEOREM WatchersConsistent == Spec => []WatchersAgree
<1>1. IInv => WatchersAgree
  BY DEF IInv
<1> QED
  BY <1>1, Invariance, PTL

\* No task can leave, or put back, a watcher of a subscription that is gone.
THEOREM GoneIsGone == Spec => []NothingLeftBehind
<1>1. IInv => NothingLeftBehind
  BY DEF IInv, PhaseAgrees, WatchersAgree, Linked, NothingLeftBehind
<1> QED
  BY <1>1, Invariance, PTL

----------------------------------------------------------------------------
\* On the single thread of the browser.
Notifying == {"watchers", "next", "evaluated", "compared"}
Collecting == Notifying \cup {"index", "deliver"}

\* Who is in the middle of a synchronous stretch has the thread, so what it has read is
\* still so; changes are collected by the task that has the thread.
ThreadAgrees ==
    /\ \A t \in Tasks : /\ pc[t] \in Notifying \cup {"deliver"} => running = t
                        /\ running = t => pc[t] \in Collecting
                        /\ \A s \in Subs : out[t][s] # <<>> => running = t
    /\ \A s \in Subs : phase[s] \in {"inserted", "dropping", "unlinking"} => running = s

ReadsHold ==
    \A t \in Tasks :
        /\ pc[t] \in {"evaluated", "compared"} =>
              (matches[t] <=> value[Head(changes[t])] \in Matches[sub[t]])
        /\ pc[t] = "compared" => (did[t] <=> Head(changes[t]) \in matching[sub[t]])

\* What a subscriber has been told, with what the task that runs will tell it, amounts to
\* the recorded result set; before the first callback it has been told nothing.
Streams ==
    /\ wrong = {}
    /\ \A s \in Subs :
        /\ phase[s] \in {"new", "indexed", "fetched", "inserted"} => seen[s] = {}
        /\ phase[s] = "inserted" => matching[s] = found[s]
        /\ phase[s] = "live" =>
              /\ running \notin Tasks => seen[s] = matching[s]
              /\ \A t \in Tasks : running = t =>
                    /\ Lawful(seen[s], out[t][s])
                    /\ Fold(seen[s], out[t][s]) = matching[s]

Holds(q, e) == \E i \in 1..Len(q) : q[i] = e

\* A change of e waits to be notified to everybody.
WaitsAt(t, e) ==
    \/ pc[t] \in {"apply", "store", "index"} /\ Holds(changes[t], e)
    \/ pc[t] \in Notifying /\ Holds(Tail(changes[t]), e)

Waits(e) == \E t \in Tasks : WaitsAt(t, e)

\* The task that notifies a change of e is still to come to s.
ComesAt(t, e, s) ==
    /\ pc[t] \in Notifying /\ Head(changes[t]) = e
    /\ \/ s \in cands[t] \/ s = sub[t]
       \/ pc[t] = "watchers" /\ watchers[e][s] > 0

Comes(e, s) == \E t \in Tasks : ComesAt(t, e, s)

Agrees(set, e, s) == \/ e \in set <=> stored[e] \in Matches[s]
                     \/ e \in set <=> value[e] \in Matches[s]

\* A result set that was not overlapped is right about e, unless a change of e is coming
\* or e is adrift.
ResultsRight ==
    \A s \in Subs \ overlapped, e \in Entities \ adrift :
        /\ phase[s] = "fetched" => Agrees(found[s], e, s) \/ Waits(e)
        /\ s \in subscriptions => Agrees(matching[s], e, s) \/ Waits(e) \/ Comes(e, s)

\* The storage is behind by what is being stored, and the index knows who has subscribed.
\* Of an entity that is not adrift one commit is storing the present value, or none.
Stores ==
    /\ \A t \in Tasks : target[t] # None => pc[t] = "store"
    /\ \A e \in Entities \ adrift : value[e] = stored[e] \/ \E t \in Tasks : target[t] = e
    /\ \A e \in Entities \ adrift, t \in Tasks :
           target[t] = e => writing[t] = value[e] /\ Storing(e) = {t}
    /\ \A s \in Subs : phase[s] \in {"indexed", "fetched", "inserted", "live"} => s \in index

SInv == runtime = "single" => ThreadAgrees /\ ReadsHold /\ Streams /\ ResultsRight /\ Stores

----------------------------------------------------------------------------
\* What a batch of changes amounts to, one change at a time.

LEMMA FoldNone ==
    ASSUME NEW S \in SUBSET Entities
    PROVE  Fold(S, <<>>) = S /\ Lawful(S, <<>>)
BY DEF Fold, Lawful

LEMMA FoldType ==
    ASSUME NEW S, NEW q
    PROVE  Fold(S, q) \in SUBSET Entities
BY DEF Fold

LEMMA FoldAdd ==
    ASSUME NEW S \in SUBSET Entities, NEW q \in Seq(ItemChange), NEW x \in ItemChange,
           x.kind # "Remove"
    PROVE  Fold(S, Append(q, x)) = Fold(S, q) \cup {x.ent}
<1> DEFINE p == Append(q, x)
<1>1. /\ Len(p) = Len(q) + 1 /\ Len(q) \in Nat
      /\ DOMAIN p = 1..(Len(q) + 1) /\ DOMAIN q = 1..Len(q)
      /\ p[Len(q) + 1] = x
      /\ \A n \in 1..Len(q) : p[n] = q[n]
  BY AppendProperties
<1> HIDE DEF p
<1>2. x.ent \in Entities
  BY DEF ItemChange
<1>3. x.ent \in Fold(S, p)
  BY <1>1, <1>2 DEF Fold, Final
<1>4. ASSUME NEW e \in Entities, e # x.ent
      PROVE  e \in Fold(S, p) <=> e \in Fold(S, q)
  <2>1. (\A n \in DOMAIN p : p[n].ent # e) <=> (\A n \in DOMAIN q : q[n].ent # e)
    BY <1>1, <1>4
  <2>2. \A n \in DOMAIN q : Final(p, e, n) <=> Final(q, e, n)
    BY <1>1, <1>4 DEF Final
  <2>3. ~ Final(p, e, Len(q) + 1)
    BY <1>1, <1>4 DEF Final
  <2>4. (\E n \in DOMAIN p : Final(p, e, n) /\ p[n].kind # "Remove")
            <=> (\E n \in DOMAIN q : Final(q, e, n) /\ q[n].kind # "Remove")
    BY <1>1, <2>2, <2>3
  <2> QED
    BY <2>1, <2>4 DEF Fold
<1> QED
  BY <1>2, <1>3, <1>4, FoldType DEF p

LEMMA FoldRemove ==
    ASSUME NEW S \in SUBSET Entities, NEW q \in Seq(ItemChange), NEW x \in ItemChange,
           x.kind = "Remove"
    PROVE  Fold(S, Append(q, x)) = Fold(S, q) \ {x.ent}
<1> DEFINE p == Append(q, x)
<1>1. /\ Len(p) = Len(q) + 1 /\ Len(q) \in Nat
      /\ DOMAIN p = 1..(Len(q) + 1) /\ DOMAIN q = 1..Len(q)
      /\ p[Len(q) + 1] = x
      /\ \A n \in 1..Len(q) : p[n] = q[n]
  BY AppendProperties
<1> HIDE DEF p
<1>3. x.ent \notin Fold(S, p)
  <2>1. ~ (\A n \in DOMAIN p : p[n].ent # x.ent)
    BY <1>1
  <2>2. ASSUME NEW n \in DOMAIN p, Final(p, x.ent, n)
        PROVE  p[n].kind = "Remove"
    <3>1. n = Len(q) + 1
      BY <1>1, <2>2 DEF Final
    <3> QED
      BY <1>1, <3>1
  <2> QED
    BY <2>1, <2>2 DEF Fold
<1>4. ASSUME NEW e \in Entities, e # x.ent
      PROVE  e \in Fold(S, p) <=> e \in Fold(S, q)
  <2>1. (\A n \in DOMAIN p : p[n].ent # e) <=> (\A n \in DOMAIN q : q[n].ent # e)
    BY <1>1, <1>4
  <2>2. \A n \in DOMAIN q : Final(p, e, n) <=> Final(q, e, n)
    BY <1>1, <1>4 DEF Final
  <2>3. ~ Final(p, e, Len(q) + 1)
    BY <1>1, <1>4 DEF Final
  <2>4. (\E n \in DOMAIN p : Final(p, e, n) /\ p[n].kind # "Remove")
            <=> (\E n \in DOMAIN q : Final(q, e, n) /\ q[n].kind # "Remove")
    BY <1>1, <2>2, <2>3
  <2> QED
    BY <2>1, <2>4 DEF Fold
<1> QED
  BY <1>3, <1>4, FoldType DEF p

LEMMA LawfulAppend ==
    ASSUME NEW S, NEW q \in Seq(ItemChange), NEW x \in ItemChange, Lawful(S, q),
           x.kind = "Add" <=> x.ent \notin Fold(S, q)
    PROVE  Lawful(S, Append(q, x))
<1> DEFINE p == Append(q, x)
<1>1. /\ Len(p) = Len(q) + 1 /\ Len(q) \in Nat
      /\ DOMAIN p = 1..(Len(q) + 1) /\ DOMAIN q = 1..Len(q)
      /\ p[Len(q) + 1] = x
      /\ \A n \in 1..Len(q) : p[n] = q[n]
      /\ p \in Seq(ItemChange)
  BY AppendProperties
<1> HIDE DEF p
<1>2. ASSUME NEW n \in 1..(Len(q) + 1)
      PROVE  SubSeq(p, 1, n - 1) = SubSeq(q, 1, n - 1)
  BY <1>1
<1>3. SubSeq(q, 1, Len(q)) = q
  OBVIOUS
<1>4. ASSUME NEW n \in DOMAIN p
      PROVE  p[n].kind = "Add" <=> p[n].ent \notin Fold(S, SubSeq(p, 1, n - 1))
  <2>0. n \in 1..(Len(q) + 1)
    BY <1>1
  <2>1. CASE n = Len(q) + 1
    <3>1. SubSeq(p, 1, n - 1) = q
      BY <1>1, <1>2, <1>3, <2>0, <2>1
    <3> QED
      BY <1>1, <2>1, <3>1
  <2>2. CASE n # Len(q) + 1
    <3>1. n \in 1..Len(q) /\ p[n] = q[n]
      BY <1>1, <2>0, <2>2
    <3>2. SubSeq(p, 1, n - 1) = SubSeq(q, 1, n - 1)
      BY <1>2, <2>0
    <3>3. q[n].kind = "Add" <=> q[n].ent \notin Fold(S, SubSeq(q, 1, n - 1))
      BY <1>1, <3>1 DEF Lawful
    <3> QED
      BY <3>1, <3>2, <3>3
  <2> QED
    BY <2>1, <2>2
<1> QED
  BY <1>4 DEF Lawful, p

\* The items collected, and one more.
Plus(q, k, e) == q \o <<Item(k, e)>>

LEMMA PlusRight ==
    ASSUME NEW S \in SUBSET Entities, NEW q \in Seq(ItemChange), Lawful(S, q),
           NEW e \in Entities
    PROVE  /\ e \notin Fold(S, q) => /\ Lawful(S, Plus(q, "Add", e))
                                    /\ Fold(S, Plus(q, "Add", e)) = Fold(S, q) \cup {e}
           /\ e \in Fold(S, q) => /\ Lawful(S, Plus(q, "Update", e))
                                 /\ Fold(S, Plus(q, "Update", e)) = Fold(S, q)
           /\ e \in Fold(S, q) => /\ Lawful(S, Plus(q, "Remove", e))
                                 /\ Fold(S, Plus(q, "Remove", e)) = Fold(S, q) \ {e}
<1>1. ASSUME NEW k \in {"Add", "Update", "Remove"}
      PROVE  \E x \in ItemChange : x.kind = k /\ x.ent = e /\ Plus(q, k, e) = Append(q, x)
  <2>1. Item(k, e) \in ItemChange /\ Item(k, e).kind = k /\ Item(k, e).ent = e
    BY DEF Item, ItemChange
  <2>2. Plus(q, k, e) = Append(q, Item(k, e))
    BY <2>1 DEF Plus
  <2> QED
    BY <2>1, <2>2
<1>2. ASSUME e \notin Fold(S, q)
      PROVE  /\ Lawful(S, Plus(q, "Add", e))
             /\ Fold(S, Plus(q, "Add", e)) = Fold(S, q) \cup {e}
  <2>1. PICK x \in ItemChange :
            x.kind = "Add" /\ x.ent = e /\ Plus(q, "Add", e) = Append(q, x)
    BY <1>1
  <2>2. Lawful(S, Append(q, x))
    BY <1>2, <2>1, LawfulAppend
  <2>3. Fold(S, Append(q, x)) = Fold(S, q) \cup {e}
    BY <2>1, FoldAdd
  <2> QED
    BY <2>1, <2>2, <2>3
<1>3. ASSUME e \in Fold(S, q)
      PROVE  /\ Lawful(S, Plus(q, "Update", e))
             /\ Fold(S, Plus(q, "Update", e)) = Fold(S, q)
  <2>1. PICK x \in ItemChange :
            x.kind = "Update" /\ x.ent = e /\ Plus(q, "Update", e) = Append(q, x)
    BY <1>1
  <2>2. Lawful(S, Append(q, x))
    BY <1>3, <2>1, LawfulAppend
  <2>3. Fold(S, Append(q, x)) = Fold(S, q) \cup {e}
    BY <2>1, FoldAdd
  <2> QED
    <3>1. Fold(S, q) \cup {e} = Fold(S, q)
      BY <1>3
    <3> QED
      BY <2>1, <2>2, <2>3, <3>1
<1>4. ASSUME e \in Fold(S, q)
      PROVE  /\ Lawful(S, Plus(q, "Remove", e))
             /\ Fold(S, Plus(q, "Remove", e)) = Fold(S, q) \ {e}
  <2>1. PICK x \in ItemChange :
            x.kind = "Remove" /\ x.ent = e /\ Plus(q, "Remove", e) = Append(q, x)
    BY <1>1
  <2>2. Lawful(S, Append(q, x))
    BY <1>4, <2>1, LawfulAppend
  <2>3. Fold(S, Append(q, x)) = Fold(S, q) \ {e}
    BY <2>1, FoldRemove
  <2> QED
    BY <2>1, <2>2, <2>3
<1> QED
  BY <1>2, <1>3, <1>4

----------------------------------------------------------------------------
\* Who has the thread.

SubscriberStep(s) ==
    \/ Subscribe(s) \/ SubscribeStep(s) \/ SubscribeFails(s)
    \/ Unsubscribe(s) \/ UnsubscribeStep(s)

\* A process that can run finds nobody else in the middle of a stretch.
LEMMA Alone ==
    ASSUME IInv, ThreadAgrees, NEW p \in Tasks \cup Subs, CanRun(p)
    PROVE  /\ \A u \in Tasks : u # p =>
                /\ pc[u] \notin Notifying \cup {"deliver"}
                /\ \A s \in Subs : out[u][s] = <<>>
           /\ \A s \in Subs : s # p => phase[s] \notin {"inserted", "dropping", "unlinking"}
<1>1. \A q \in Tasks \cup Subs : q # p => running # q
  BY DEF CanRun
<1> QED
  BY <1>1 DEF ThreadAgrees

LEMMA TaskThread ==
    ASSUME IInv, runtime = "single", ThreadAgrees, NEW t \in Tasks, TaskStep(t)
    PROVE  ThreadAgrees'
<1> USE DEF Notifying, Collecting, Keep, Yield, CanRun, subVars
<1>0. TypeOK /\ TasksBusy
  BY DEF IInv
<1> USE DEF TypeOK
<1>1. ASSUME NEW e \in Entities, NEW v \in Values, Apply(t, e, v)
      PROVE  ThreadAgrees'
  BY <1>0, <1>1 DEF Apply, ThreadAgrees
<1>2. CASE Store(t)
  <2>1. running # t /\ pc[t] = "store"
    BY <1>2 DEF Store, ThreadAgrees
  <2>2. PICK c \in BOOLEAN : StoreAs(t, c)
    BY <1>2 DEF Store
  <2>3. pc'[t] \in {"apply", "done", "index"} /\ \A u \in Tasks : u # t => pc'[u] = pc[u]
    BY <1>0, <2>2 DEF StoreAs
  <2>4. UNCHANGED <<running, phase, out>>
    BY <1>2 DEF Store
  <2> QED
    BY <2>1, <2>3, <2>4 DEF ThreadAgrees
<1>3. CASE ReadIndex(t)
  BY <1>0, <1>3, Alone DEF ReadIndex, ThreadAgrees
<1>4. CASE ReadWatchers(t)
  BY <1>0, <1>4, Alone DEF ReadWatchers, ThreadAgrees
<1>5. ASSUME NEW s \in Subs, Skip(t, s)
      PROVE  ThreadAgrees'
  BY <1>0, <1>5, Alone DEF Skip, ThreadAgrees
<1>6. ASSUME NEW s \in Subs, Evaluate(t, s)
      PROVE  ThreadAgrees'
  BY <1>0, <1>6, Alone DEF Evaluate, ThreadAgrees
<1>7. CASE Compare(t)
  BY <1>0, <1>7, Alone DEF Compare, ThreadAgrees
<1>8. CASE Update(t)
  <2>1. running = t /\ running' = t
    BY <1>8 DEF Update, ThreadAgrees
  <2>2. \A u \in Tasks \ {t} : out'[u] = out[u] /\ pc'[u] = pc[u]
    BY <1>0, <1>8 DEF Update
  <2>3. pc'[t] = "next"
    BY <1>0, <1>8 DEF Update
  <2>4. phase' = phase
    BY <1>8 DEF Update
  <2> QED
    BY <2>1, <2>2, <2>3, <2>4 DEF ThreadAgrees
<1>9. CASE NextChange(t)
  BY <1>0, <1>9, Alone DEF NextChange, ThreadAgrees
<1>10. ASSUME NEW s \in Subs, Deliver(t, s)
       PROVE  ThreadAgrees'
  <2>1. running = t /\ running' = t
    BY <1>10 DEF Deliver, ThreadAgrees
  <2>2. \A u \in Tasks \ {t} : out'[u] = out[u]
    BY <1>0, <1>10 DEF Deliver
  <2>3. pc' = pc /\ phase' = phase
    BY <1>10 DEF Deliver
  <2> QED
    BY <2>1, <2>2, <2>3 DEF ThreadAgrees
<1>11. CASE Finish(t)
  <2>1. running = t /\ running' = None
    BY <1>11 DEF Finish, ThreadAgrees
  <2>2. \A u \in Tasks : u # t => pc'[u] = pc[u] /\ running # u
    BY <1>0, <1>11, <2>1 DEF Finish
  <2>3. pc'[t] = "done" /\ (\A s \in Subs : out[t][s] = <<>>) /\ out' = out /\ phase' = phase
    BY <1>0, <1>11 DEF Finish
  <2>4. None \notin Tasks \cup Subs /\ t \notin Subs
    OBVIOUS
  <2> QED
    BY <2>1, <2>2, <2>3, <2>4 DEF ThreadAgrees
<1> QED
  BY <1>1, <1>2, <1>3, <1>4, <1>5, <1>6, <1>7, <1>8, <1>9, <1>10, <1>11 DEF TaskStep

LEMMA SubscriberThread ==
    ASSUME IInv, runtime = "single", ThreadAgrees, NEW s \in Subs, SubscriberStep(s)
    PROVE  ThreadAgrees'
<1> USE DEF Keep, Yield, taskVars
<1>0. TypeOK
  BY DEF IInv
<1> USE DEF TypeOK
<1>1. UNCHANGED <<pc, out>>
  BY DEF SubscriberStep, SubscribeStep, UnsubscribeStep, Subscribe, Fetch,
         SubscribeFails, Link, Insert, CallInitial, Unsubscribe, UnwatchIndex, Unlink,
         Unsubscribed
<1>2. \A r \in Subs : r # s => phase'[r] = phase[r]
  BY <1>0 DEF SubscriberStep, SubscribeStep, UnsubscribeStep, Subscribe, Fetch,
         SubscribeFails, Link, Insert, CallInitial, Unsubscribe, UnwatchIndex, Unlink,
         Unsubscribed
<1>3. CASE Fetch(s)
  BY <1>0, <1>3 DEF Fetch, ThreadAgrees
<1> DEFINE Here == /\ CanRun(s)
                   /\ \/ running' = s
                      \/ /\ running' = None
                         /\ phase'[s] \notin {"inserted", "dropping", "unlinking"}
<1>4. CASE Here
  <2>1. running' \notin Tasks
    BY <1>4
  <2>2. \A u \in Tasks : /\ pc[u] \notin Notifying \cup {"deliver"}
                         /\ \A r \in Subs : out[u][r] = <<>>
    BY <1>4, Alone
  <2>3. \A r \in Subs : r # s => phase[r] \notin {"inserted", "dropping", "unlinking"}
    BY <1>4, Alone
  <2>4. phase'[s] \in {"inserted", "dropping", "unlinking"} => running' = s
    BY <1>4
  <2> QED
    BY <1>1, <1>2, <2>1, <2>2, <2>3, <2>4 DEF ThreadAgrees
<1>5. Subscribe(s) => Here
  BY <1>0 DEF Subscribe
<1>6. SubscribeFails(s) => Here
  BY <1>0 DEF SubscribeFails
<1>7. Insert(s) => Here
  BY <1>0 DEF Insert
<1>8. CallInitial(s) => Here
  BY <1>0 DEF CallInitial
<1>9. \A e \in Entities : Link(s, e) => Here
  BY <1>0 DEF Link
<1>10. Unsubscribe(s) => Here
  BY <1>0 DEF Unsubscribe
<1>11. UnwatchIndex(s) => Here
  BY <1>0 DEF UnwatchIndex
<1>12. \A e \in Entities : Unlink(s, e) => Here
  BY <1>0 DEF Unlink
<1>13. Unsubscribed(s) => Here
  BY <1>0 DEF Unsubscribed
<1> QED
  BY <1>3, <1>4, <1>5, <1>6, <1>7, <1>8, <1>9, <1>10, <1>11, <1>12, <1>13
  DEF SubscriberStep, SubscribeStep, UnsubscribeStep

----------------------------------------------------------------------------
\* What is read on the thread stays so.

LEMMA TaskReads ==
    ASSUME IInv, runtime = "single", ThreadAgrees, ReadsHold, NEW t \in Tasks, TaskStep(t)
    PROVE  ReadsHold'
<1>0. TypeOK /\ TasksBusy
  BY DEF IInv
<1> USE DEF TypeOK, dataVars, reactorVars
<1>1. ASSUME NEW e \in Entities, NEW v \in Values, Apply(t, e, v)
      PROVE  ReadsHold'
  <2>1. \A u \in Tasks : pc[u] \notin {"evaluated", "compared"}
    BY <1>0, <1>1 DEF Apply, ThreadAgrees, CanRun, Notifying, Collecting
  <2> QED
    BY <1>0, <1>1, <2>1 DEF Apply, ReadsHold
<1>2. CASE Store(t)
  <2>1. PICK c \in BOOLEAN : StoreAs(t, c)
    BY <1>2 DEF Store
  <2>2. pc'[t] \notin {"evaluated", "compared"}
    BY <1>0, <2>1 DEF StoreAs
  <2>3. \A u \in Tasks : u # t => pc'[u] = pc[u] /\ changes'[u] = changes[u]
    BY <1>0, <2>1 DEF StoreAs
  <2>4. UNCHANGED <<value, matching, matches, did, sub>>
    BY <1>2 DEF Store
  <2> QED
    BY <2>2, <2>3, <2>4 DEF ReadsHold
<1>3. CASE ReadIndex(t)
  BY <1>0, <1>3 DEF ReadIndex, ReadsHold
<1>4. CASE ReadWatchers(t)
  BY <1>0, <1>4 DEF ReadWatchers, ReadsHold
<1>5. ASSUME NEW s \in Subs, Skip(t, s)
      PROVE  ReadsHold'
  BY <1>0, <1>5 DEF Skip, ReadsHold
<1>6. ASSUME NEW s \in Subs, Evaluate(t, s)
      PROVE  ReadsHold'
  BY <1>0, <1>6 DEF Evaluate, ReadsHold
<1>7. CASE Compare(t)
  BY <1>0, <1>7 DEF Compare, ReadsHold
<1>8. CASE Update(t)
  <2>1. \A u \in Tasks : u # t => pc[u] \notin {"evaluated", "compared"}
    BY <1>8, Alone DEF Update, Notifying
  <2> QED
    BY <1>0, <1>8, <2>1 DEF Update, ReadsHold
<1>9. CASE NextChange(t)
  BY <1>0, <1>9 DEF NextChange, ReadsHold
<1>10. ASSUME NEW s \in Subs, Deliver(t, s)
       PROVE  ReadsHold'
  BY <1>0, <1>10 DEF Deliver, ReadsHold
<1>11. CASE Finish(t)
  BY <1>0, <1>11 DEF Finish, ReadsHold
<1> QED
  BY <1>1, <1>2, <1>3, <1>4, <1>5, <1>6, <1>7, <1>8, <1>9, <1>10, <1>11 DEF TaskStep

LEMMA SubscriberReads ==
    ASSUME IInv, runtime = "single", ThreadAgrees, ReadsHold, NEW s \in Subs, SubscriberStep(s)
    PROVE  ReadsHold'
<1>1. UNCHANGED <<pc, changes, matches, did, sub, value>>
  BY DEF SubscriberStep, SubscribeStep, UnsubscribeStep, Subscribe, Fetch,
         SubscribeFails, Link, Insert, CallInitial, Unsubscribe, UnwatchIndex, Unlink,
         Unsubscribed, taskVars, dataVars
<1>2. CASE UNCHANGED matching
  BY <1>1, <1>2 DEF ReadsHold
<1>3. CASE Insert(s)
  <2>1. \A u \in Tasks : pc[u] \notin {"evaluated", "compared"}
    BY <1>3, Alone DEF Insert, Notifying
  <2> QED
    BY <1>1, <2>1 DEF ReadsHold
<1>4. Insert(s) \/ UNCHANGED matching
  BY DEF SubscriberStep, SubscribeStep, UnsubscribeStep, Subscribe, Fetch,
         SubscribeFails, Link, CallInitial, Unsubscribe, UnwatchIndex, Unlink,
         Unsubscribed, reactorVars
<1> QED
  BY <1>2, <1>3, <1>4

\* A step that stores nothing and applies nothing.
LEMMA StoresSame ==
    ASSUME TypeOK, Stores, UNCHANGED <<value, stored, target, writing, adrift, index, phase>>,
           \A u \in Tasks : pc'[u] = pc[u] \/ pc[u] # "store"
    PROVE  Stores'
BY DEF Stores, Storing

LEMMA TaskStores ==
    ASSUME IInv, runtime = "single", ThreadAgrees, Stores, NEW t \in Tasks, TaskStep(t)
    PROVE  Stores'
<1>0. TypeOK /\ TasksBusy
  BY DEF IInv
<1> USE DEF dataVars, reactorVars, subVars
<1>1. ASSUME NEW e \in Entities, NEW v \in Values, Apply(t, e, v)
      PROVE  Stores'
  <2>1. /\ value' = [value EXCEPT ![e] = v] /\ target' = [target EXCEPT ![t] = e]
        /\ writing' = [writing EXCEPT ![t] = v]
        /\ adrift' = IF Storing(e) = {} THEN adrift ELSE adrift \cup {e}
    BY <1>1 DEF Apply
  <2>2. pc' = [pc EXCEPT ![t] = "store"] /\ UNCHANGED <<stored, index, phase>>
    BY <1>1 DEF Apply
  <2>3. target[t] = None /\ target'[t] = e
    BY <1>0, <1>1, <2>1 DEF Apply, Stores, TypeOK
  <2>4. \A u \in Tasks : target'[u] # None => pc'[u] = "store"
    BY <1>0, <2>1, <2>2 DEF Stores, TypeOK
  <2>5. ASSUME NEW d \in Entities \ adrift'
        PROVE  value'[d] = stored'[d] \/ \E u \in Tasks : target'[u] = d
    <3>1. d \notin adrift
      BY <2>1
    <3> QED
      BY <1>0, <2>1, <2>2, <2>3, <3>1 DEF Stores, TypeOK
  <2>6. ASSUME NEW d \in Entities \ adrift', NEW u \in Tasks, target'[u] = d
        PROVE  writing'[u] = value'[d] /\ Storing(d)' = {u}
    <3>0. d \notin adrift
      BY <2>1
    <3>1. CASE d = e
      <4>1. Storing(e) = {}
        BY <2>1, <2>6, <3>1
      <4>2. \A w \in Tasks : target'[w] = e <=> w = t
        BY <1>0, <2>1, <4>1 DEF Storing, TypeOK
      <4>3. u = t
        BY <2>6, <3>1, <4>2
      <4>4. writing'[t] = v /\ value'[e] = v
        BY <1>0, <2>1 DEF TypeOK
      <4> QED
        BY <3>1, <4>2, <4>3, <4>4 DEF Storing
    <3>2. CASE d # e
      <4>1. u # t /\ target[u] = d
        BY <1>0, <2>1, <2>6, <3>2 DEF TypeOK
      <4>2. Storing(d)' = Storing(d)
        BY <1>0, <2>1, <2>3, <3>2 DEF Storing, TypeOK
      <4>3. writing'[u] = writing[u] /\ value'[d] = value[d]
        BY <1>0, <2>1, <3>2, <4>1 DEF TypeOK
      <4>4. writing[u] = value[d] /\ Storing(d) = {u}
        BY <3>0, <4>1 DEF Stores
      <4> QED
        BY <4>2, <4>3, <4>4
    <3> QED
      BY <3>1, <3>2
  <2> QED
    BY <2>2, <2>4, <2>5, <2>6 DEF Stores
<1>2. CASE Store(t)
  <2>0. PICK c \in BOOLEAN : StoreAs(t, c)
    BY <1>2 DEF Store
  <2>1. PICK e \in Entities : e = target[t]
    BY <1>0, <1>2 DEF Store, TypeOK, TasksBusy
  <2>2. /\ stored' = [stored EXCEPT ![e] = writing[t]] /\ target' = [target EXCEPT ![t] = None]
        /\ writing' = [writing EXCEPT ![t] = Initial]
        /\ adrift' = IF c /\ Storing(e) = {t} /\ writing[t] = value[e]
                     THEN adrift \ {e} ELSE adrift
    BY <1>2, <2>0, <2>1 DEF Store, StoreAs
  <2>3. UNCHANGED <<value, index, phase>> /\ \A u \in Tasks : u # t => pc'[u] = pc[u]
    BY <1>0, <1>2, <2>0 DEF Store, StoreAs, TypeOK
  <2>4. \A u \in Tasks : target'[u] # None => pc'[u] = "store"
    BY <1>0, <2>2, <2>3 DEF Stores, TypeOK
  <2>5. e \notin adrift' => writing[t] = value[e] /\ Storing(e) = {t}
    BY <2>1, <2>2 DEF Stores
  <2>6. ASSUME NEW d \in Entities \ adrift'
        PROVE  /\ value'[d] = stored'[d] \/ \E u \in Tasks : target'[u] = d
               /\ \A u \in Tasks : target'[u] = d =>
                      writing'[u] = value'[d] /\ Storing(d)' = {u}
    <3>1. CASE d = e
      <4>1. value'[d] = stored'[d]
        BY <1>0, <2>2, <2>3, <2>5, <2>6, <3>1 DEF TypeOK
      <4>2. ASSUME NEW u \in Tasks, target'[u] = d
            PROVE  FALSE
        <5>1. u # t /\ target[u] = e
          BY <1>0, <2>2, <3>1, <4>2 DEF TypeOK
        <5>2. u \in Storing(e)
          BY <5>1 DEF Storing
        <5> QED
          BY <2>5, <2>6, <3>1, <5>1, <5>2
      <4> QED
        BY <4>1, <4>2
    <3>2. CASE d # e
      <4>1. d \notin adrift /\ value'[d] = value[d] /\ stored'[d] = stored[d]
        BY <1>0, <2>2, <2>3, <2>6, <3>2 DEF TypeOK
      <4>2. \A u \in Tasks : target'[u] = d <=> target[u] = d
        BY <1>0, <2>1, <2>2, <3>2 DEF TypeOK
      <4>3. \A u \in Tasks : target[u] = d => writing'[u] = writing[u]
        BY <1>0, <2>1, <2>2, <3>2 DEF TypeOK
      <4>4. Storing(d)' = Storing(d)
        BY <4>2 DEF Storing
      <4> QED
        BY <4>1, <4>2, <4>3, <4>4 DEF Stores
    <3> QED
      BY <3>1, <3>2
  <2> QED
    BY <2>3, <2>4, <2>6 DEF Stores
<1>3. CASE UNCHANGED <<value, stored, target, writing, adrift, index, phase>> /\ pc[t] # "store"
  <2>1. \A u \in Tasks : u # t => pc'[u] = pc[u]
    <3>1. ASSUME \/ \E e \in Entities, v \in Values : Apply(t, e, v)
                 \/ Store(t) \/ ReadIndex(t) \/ ReadWatchers(t) \/ NextChange(t)
          PROVE  \A u \in Tasks : u # t => pc'[u] = pc[u]
      BY <1>0, <3>1, SMTT(30)
         DEF TypeOK, Apply, Store, StoreAs, ReadIndex, ReadWatchers, NextChange
    <3>2. ASSUME NEW s \in Subs, Skip(t, s) \/ Evaluate(t, s) \/ Deliver(t, s)
          PROVE  \A u \in Tasks : u # t => pc'[u] = pc[u]
      BY <1>0, <3>2, SMTT(30) DEF TypeOK, Skip, Evaluate, Deliver
    <3>3. ASSUME Compare(t) \/ Update(t) \/ Finish(t)
          PROVE  \A u \in Tasks : u # t => pc'[u] = pc[u]
      <4>1. ASSUME Compare(t)
            PROVE  \A u \in Tasks : u # t => pc'[u] = pc[u]
        BY <1>0, <4>1, SMTT(30) DEF TypeOK, Compare
      <4>2. ASSUME Update(t)
            PROVE  \A u \in Tasks : u # t => pc'[u] = pc[u]
        BY <1>0, <4>2, SMTT(30) DEF TypeOK, Update
      <4>3. ASSUME Finish(t)
            PROVE  \A u \in Tasks : u # t => pc'[u] = pc[u]
        BY <1>0, <4>3, SMTT(30) DEF TypeOK, Finish
      <4> QED
        BY <3>3, <4>1, <4>2, <4>3
    <3> QED
      <4>1. TaskStep(t)
        BY <1>0
      <4> QED
        BY <3>1, <3>2, <3>3, <4>1 DEF TaskStep
  <2> QED
    BY <1>0, <1>3, <2>1, StoresSame
<1>4. \/ \E e \in Entities, v \in Values : Apply(t, e, v)
      \/ Store(t)
      \/ UNCHANGED <<value, stored, target, writing, adrift, index, phase>> /\ pc[t] # "store"
  BY DEF TaskStep, ReadIndex, ReadWatchers, Skip, Evaluate, Compare, Update, NextChange,
         Deliver, Finish
<1> QED
  BY <1>1, <1>2, <1>3, <1>4

LEMMA FailStores ==
    ASSUME IInv, Stores, NEW t \in Tasks, CommitFails(t)
    PROVE  Stores'
<1>0. TypeOK
  BY DEF IInv
<1>1. /\ target' = [target EXCEPT ![t] = None] /\ writing' = [writing EXCEPT ![t] = Initial]
      /\ adrift' = adrift \cup Changed(t) \cup ({target[t]} \ {None})
      /\ pc' = [pc EXCEPT ![t] = "done"]
      /\ UNCHANGED <<value, stored, index, phase>>
  BY DEF CommitFails, dataVars, reactorVars, subVars
<1>2. \A u \in Tasks : target'[u] # None => pc'[u] = "store"
  BY <1>0, <1>1 DEF Stores, TypeOK
<1>3. ASSUME NEW d \in Entities \ adrift'
      PROVE  /\ value'[d] = stored'[d] \/ \E u \in Tasks : target'[u] = d
             /\ \A u \in Tasks : target'[u] = d =>
                    writing'[u] = value'[d] /\ Storing(d)' = {u}
  <2>1. d \notin adrift /\ d # target[t]
    BY <1>1
  <2>2. \A u \in Tasks : target'[u] = d <=> target[u] = d
    BY <1>0, <1>1, <2>1 DEF TypeOK
  <2>3. \A u \in Tasks : target[u] = d => writing'[u] = writing[u]
    BY <1>0, <1>1, <2>1 DEF TypeOK
  <2>4. Storing(d)' = Storing(d)
    BY <2>2 DEF Storing
  <2> QED
    BY <1>1, <2>1, <2>2, <2>3, <2>4 DEF Stores
<1> QED
  BY <1>1, <1>2, <1>3 DEF Stores

LEMMA SubscriberStores ==
    ASSUME IInv, Stores, NEW s \in Subs, SubscriberStep(s)
    PROVE  Stores'
<1>0. TypeOK
  BY DEF IInv
<1>1. UNCHANGED <<value, stored, target, writing, adrift, pc>>
  BY DEF SubscriberStep, SubscribeStep, UnsubscribeStep, Subscribe, Fetch,
         SubscribeFails, Link, Insert, CallInitial, Unsubscribe, UnwatchIndex, Unlink,
         Unsubscribed, taskVars, dataVars
<1> DEFINE Watching(r) == phase[r] \in {"indexed", "fetched", "inserted", "live"} => r \in index
<1>2. \A r \in Subs : Watching(r)
  BY DEF Stores
<1> USE DEF TypeOK, reactorVars
<1>3. Subscribe(s) => \A r \in Subs : Watching(r)'
  BY <1>0, <1>2 DEF Subscribe
<1>4. Fetch(s) => \A r \in Subs : Watching(r)'
  BY <1>0, <1>2 DEF Fetch
<1>5. SubscribeFails(s) => \A r \in Subs : Watching(r)'
  BY <1>0, <1>2 DEF SubscribeFails
<1>6. ASSUME NEW e \in Entities, Link(s, e)
      PROVE  \A r \in Subs : Watching(r)'
  BY <1>2, <1>6 DEF Link
<1>7. Insert(s) => \A r \in Subs : Watching(r)'
  BY <1>0, <1>2 DEF Insert
<1>8. CallInitial(s) => \A r \in Subs : Watching(r)'
  BY <1>0, <1>2 DEF CallInitial
<1>9. Unsubscribe(s) => \A r \in Subs : Watching(r)'
  BY <1>0, <1>2 DEF Unsubscribe
<1>10. UnwatchIndex(s) => \A r \in Subs : Watching(r)'
  BY <1>0, <1>2 DEF UnwatchIndex
<1>11. ASSUME NEW e \in Entities, Unlink(s, e)
       PROVE  \A r \in Subs : Watching(r)'
  BY <1>2, <1>11 DEF Unlink
<1>12. Unsubscribed(s) => \A r \in Subs : Watching(r)'
  BY <1>0, <1>2 DEF Unsubscribed
<1>13. \A r \in Subs : Watching(r)'
  BY <1>3, <1>4, <1>5, <1>6, <1>7, <1>8, <1>9, <1>10, <1>11, <1>12
  DEF SubscriberStep, SubscribeStep, UnsubscribeStep
<1> QED
  BY <1>1, <1>13 DEF Stores, Storing

----------------------------------------------------------------------------
\* What subscribers are told.

LEMMA StreamsRun ==
    ASSUME IInv, ThreadAgrees, Streams, NEW t \in Tasks, CanRun(t), running' = t,
           UNCHANGED <<wrong, seen, phase, matching, found, out>>
    PROVE  Streams'
<1>0. TypeOK
  BY DEF IInv
<1>1. CASE running = t
  BY <1>1 DEF Streams
<1>2. CASE running = None
  <2>1. \A s \in Subs : out[t][s] = <<>>
    BY <1>2 DEF ThreadAgrees
  <2>2. \A s \in Subs : phase[s] = "live" => seen[s] = matching[s]
    BY <1>2 DEF Streams
  <2>3. ASSUME NEW s \in Subs, phase[s] = "live"
        PROVE  Lawful(seen[s], out[t][s]) /\ Fold(seen[s], out[t][s]) = matching[s]
    <3>1. seen[s] \in SUBSET Entities
      BY <1>0 DEF TypeOK
    <3> QED
      BY <2>1, <2>2, <2>3, <3>1, FoldNone
  <2>4. \A s \in Subs : phase[s] = "live" =>
            Lawful(seen[s], out[t][s]) /\ Fold(seen[s], out[t][s]) = matching[s]
    BY <2>3
  <2>5. /\ running' \in Tasks
        /\ \A u \in Tasks : running' = u => u = t
    OBVIOUS
  <2> QED
    BY <2>4, <2>5 DEF Streams
<1> QED
  BY <1>1, <1>2 DEF CanRun

LEMMA UpdateStreams ==
    ASSUME IInv, runtime = "single", ThreadAgrees, ReadsHold, Streams,
           NEW t \in Tasks, Update(t)
    PROVE  Streams'
<1>0. TypeOK /\ TasksBusy
  BY DEF IInv
<1> USE DEF TypeOK
<1>1. PICK e \in Entities, s \in Subs : e = Head(changes[t]) /\ s = sub[t]
  BY <1>0, SeqFacts DEF Update, TasksBusy
<1>2. PICK m \in BOOLEAN, d \in BOOLEAN : m = matches[t] /\ d = did[t]
  BY <1>0
<1>3. running = t /\ running' = t
  BY DEF Update, ThreadAgrees, Notifying, Keep
<1>4. d <=> e \in matching[s]
  BY <1>0, <1>1, <1>2 DEF Update, ReadsHold
<1>5. phase[s] \in {"inserted", "live"}
  BY <1>1 DEF Update, IInv, TasksBusy, GuardsHold, PhaseAgrees
<1>6. phase[s] = "live"
  BY <1>3, <1>5 DEF ThreadAgrees
<1>7. UNCHANGED <<wrong, seen, phase, found>>
  BY DEF Update, subVars, clientVars
<1>8. \A r \in Subs : r # s => /\ matching'[r] = matching[r]
                               /\ out'[t][r] = out[t][r]
  BY <1>0, <1>1 DEF Update, UpdateWatchers
<1>9. /\ matching' = [matching EXCEPT ![s] = IF m THEN matching[s] \cup {e} ELSE matching[s] \ {e}]
      /\ out' = [out EXCEPT ![t][s] = out[t][s] \o Items(m, d, e)]
  BY <1>1, <1>2, Zenon DEF Update, UpdateWatchers
<1>10. /\ seen[s] \in SUBSET Entities /\ out[t][s] \in Seq(ItemChange)
       /\ Lawful(seen[s], out[t][s]) /\ Fold(seen[s], out[t][s]) = matching[s]
  BY <1>0, <1>3, <1>6 DEF Streams
<1>11. /\ Lawful(seen[s], out'[t][s])
       /\ Fold(seen[s], out'[t][s]) = matching'[s]
  <2>1. PICK S \in SUBSET Entities, q \in Seq(ItemChange) : S = seen[s] /\ q = out[t][s]
    BY <1>10
  <2>2. Lawful(S, q) /\ Fold(S, q) = matching[s] /\ (d <=> e \in Fold(S, q))
    BY <1>4, <1>10, <2>1
  <2>3. out'[t][s] = q \o Items(m, d, e)
    BY <1>0, <1>9, <2>1, SMTT(30)
  <2>4. matching'[s] = IF m THEN Fold(S, q) \cup {e} ELSE Fold(S, q) \ {e}
    BY <1>0, <1>9, <2>2
  <2>5. CASE m /\ ~d
    <3>1. out'[t][s] = Plus(q, "Add", e)
      BY <2>3, <2>5 DEF Items, Plus
    <3>2. Lawful(S, Plus(q, "Add", e))
      BY <2>2, <2>5, PlusRight
    <3>3. Fold(S, Plus(q, "Add", e)) = Fold(S, q) \cup {e}
      BY <2>2, <2>5, PlusRight
    <3>4. matching'[s] = Fold(S, q) \cup {e}
      BY <2>4, <2>5
    <3> QED
      BY <2>1, <3>1, <3>2, <3>3, <3>4
  <2>6. CASE m /\ d
    <3>1. out'[t][s] = Plus(q, "Update", e)
      BY <2>3, <2>6 DEF Items, Plus
    <3>2. Lawful(S, Plus(q, "Update", e))
      BY <2>2, <2>6, PlusRight
    <3>3. Fold(S, Plus(q, "Update", e)) = Fold(S, q)
      BY <2>2, <2>6, PlusRight
    <3>4. matching'[s] = Fold(S, q)
      BY <2>2, <2>4, <2>6
    <3> QED
      BY <2>1, <3>1, <3>2, <3>3, <3>4
  <2>7. CASE ~m /\ d
    <3>1. out'[t][s] = Plus(q, "Remove", e)
      BY <2>3, <2>7 DEF Items, Plus
    <3>2. Lawful(S, Plus(q, "Remove", e))
      BY <2>2, <2>7, PlusRight
    <3>3. Fold(S, Plus(q, "Remove", e)) = Fold(S, q) \ {e}
      BY <2>2, <2>7, PlusRight
    <3>4. matching'[s] = Fold(S, q) \ {e}
      BY <2>4, <2>7
    <3> QED
      BY <2>1, <3>1, <3>2, <3>3, <3>4
  <2>8. CASE ~m /\ ~d
    <3>1. Items(m, d, e) = <<>>
      BY <2>8 DEF Items
    <3>2. q \o <<>> = q
      OBVIOUS
    <3>3. out'[t][s] = q /\ matching'[s] = Fold(S, q)
      BY <2>2, <2>3, <2>4, <2>8, <3>1, <3>2
    <3> QED
      BY <2>1, <2>2, <3>3
  <2> QED
    BY <2>5, <2>6, <2>7, <2>8
<1>12. ASSUME NEW r \in Subs
       PROVE  /\ phase[r] \in {"new", "indexed", "fetched", "inserted"} => seen[r] = {}
              /\ phase[r] = "inserted" => matching'[r] = found[r]
              /\ phase[r] = "live" => /\ Lawful(seen[r], out'[t][r])
                                      /\ Fold(seen[r], out'[t][r]) = matching'[r]
  <2>1. CASE r = s
    BY <1>6, <1>11, <2>1
  <2>2. CASE r # s
    BY <1>3, <1>8, <2>2 DEF Streams
  <2> QED
    BY <2>1, <2>2
<1>13. wrong = {}
  BY DEF Streams
<1>14. \A u \in Tasks : running' = u => u = t
  BY <1>3
<1> QED
  BY <1>3, <1>7, <1>12, <1>13, <1>14 DEF Streams

LEMMA DeliverStreams ==
    ASSUME IInv, runtime = "single", ThreadAgrees, Streams,
           NEW t \in Tasks, NEW s \in Subs, Deliver(t, s)
    PROVE  Streams'
<1>0. TypeOK
  BY DEF IInv
<1> USE DEF TypeOK
<1>1. running = t /\ running' = t
  BY DEF Deliver, ThreadAgrees, Keep
<1>2. UNCHANGED <<phase, matching, found>>
  BY DEF Deliver, subVars, reactorVars
<1>3. out'[t][s] = <<>> /\ \A r \in Subs : r # s => out'[t][r] = out[t][r]
  BY <1>0 DEF Deliver
<1>4. phase[s] = "live" <=> s \in subscriptions
  BY <1>1 DEF IInv, PhaseAgrees, ThreadAgrees
<1>5. wrong = {} /\ \A r \in Subs :
          /\ phase[r] \in {"new", "indexed", "fetched", "inserted"} => seen[r] = {}
          /\ phase[r] = "inserted" => matching[r] = found[r]
          /\ phase[r] = "live" => /\ Lawful(seen[r], out[t][r])
                                  /\ Fold(seen[r], out[t][r]) = matching[r]
  BY <1>1 DEF Streams
<1>6. /\ wrong' = {}
      /\ \A r \in Subs : r # s => seen'[r] = seen[r]
      /\ phase[s] = "live" => seen'[s] = matching[s]
      /\ phase[s] # "live" => seen'[s] = seen[s]
  <2>1. CASE s \in subscriptions
    <3>1. Receive(s, out[t][s])
      BY <2>1 DEF Deliver
    <3>2. seen' = [seen EXCEPT ![s] = Fold(seen[s], out[t][s])]
      BY <3>1 DEF Receive
    <3>3. Lawful(seen[s], out[t][s]) => wrong' = wrong
      BY <3>1 DEF Receive
    <3> QED
      BY <1>0, <1>4, <1>5, <2>1, <3>2, <3>3
  <2>2. CASE s \notin subscriptions
    BY <1>4, <1>5, <2>2 DEF Deliver, clientVars
  <2> QED
    BY <2>1, <2>2
<1>7. ASSUME NEW r \in Subs
      PROVE  /\ phase[r] \in {"new", "indexed", "fetched", "inserted"} => seen'[r] = {}
             /\ phase[r] = "live" => /\ Lawful(seen'[r], out'[t][r])
                                     /\ Fold(seen'[r], out'[t][r]) = matching[r]
  <2>1. CASE r = s
    <3>1. phase[s] = "live" => /\ Lawful(seen'[s], out'[t][s])
                               /\ Fold(seen'[s], out'[t][s]) = matching[s]
      <4>1. matching[s] \in SUBSET Entities
        BY <1>0
      <4> QED
        BY <1>3, <1>6, <4>1, FoldNone
    <3> QED
      BY <1>5, <1>6, <2>1, <3>1
  <2>2. CASE r # s
    BY <1>3, <1>5, <1>6, <2>2
  <2> QED
    BY <2>1, <2>2
<1>8. \A u \in Tasks : running' = u => u = t
  BY <1>1
<1> QED
  BY <1>1, <1>2, <1>5, <1>6, <1>7, <1>8 DEF Streams

LEMMA TaskStreams ==
    ASSUME IInv, runtime = "single", ThreadAgrees, ReadsHold, Streams,
           NEW t \in Tasks, TaskStep(t)
    PROVE  Streams'
<1>0. TypeOK
  BY DEF IInv
<1> USE DEF TypeOK, dataVars, subVars, reactorVars, clientVars, Keep, Yield
<1>1. ASSUME NEW e \in Entities, NEW v \in Values, Apply(t, e, v)
      PROVE  Streams'
  <2>1. running = None /\ running' = None
    BY <1>1 DEF Apply, CanRun, ThreadAgrees, Collecting, Notifying
  <2> QED
    BY <1>1, <2>1 DEF Apply, Streams
<1>2. CASE Store(t)
  BY <1>2 DEF Store, Streams
<1>3. CASE ReadIndex(t)
  BY <1>3, StreamsRun DEF ReadIndex
<1>4. CASE ReadWatchers(t)
  BY <1>4, StreamsRun DEF ReadWatchers
<1>5. ASSUME NEW s \in Subs, Skip(t, s)
      PROVE  Streams'
  BY <1>5, StreamsRun DEF Skip
<1>6. ASSUME NEW s \in Subs, Evaluate(t, s)
      PROVE  Streams'
  BY <1>6, StreamsRun DEF Evaluate
<1>7. CASE Compare(t)
  BY <1>7, StreamsRun DEF Compare
<1>8. CASE NextChange(t)
  BY <1>8, StreamsRun DEF NextChange
<1>9. CASE Finish(t)
  <2>1. running = t /\ running' = None
    BY <1>9 DEF Finish, ThreadAgrees
  <2>2. \A s \in Subs : out[t][s] = <<>>
    BY <1>9 DEF Finish
  <2>3. UNCHANGED <<wrong, seen, phase, matching, found, out>>
    BY <1>9 DEF Finish
  <2>4. ASSUME NEW s \in Subs, phase[s] = "live"
        PROVE  seen[s] = matching[s]
    <3>1. Fold(seen[s], out[t][s]) = matching[s] /\ seen[s] \in SUBSET Entities
      BY <1>0, <2>1, <2>4 DEF Streams
    <3> QED
      BY <2>2, <3>1, FoldNone
  <2>5. \A u \in Tasks : running' # u
    BY <2>1
  <2> QED
    BY <2>3, <2>4, <2>5 DEF Streams
<1> QED
  BY <1>1, <1>2, <1>3, <1>4, <1>5, <1>6, <1>7, <1>8, <1>9, UpdateStreams,
     DeliverStreams DEF TaskStep

LEMMA SubscriberStreams ==
    ASSUME IInv, runtime = "single", ThreadAgrees, Streams, NEW s \in Subs, SubscriberStep(s)
    PROVE  Streams'
<1>0. TypeOK
  BY DEF IInv
<1> USE DEF TypeOK, taskVars, subVars, reactorVars, clientVars, Keep, Yield
<1>1. CASE Fetch(s)
  BY <1>0, <1>1 DEF Fetch, Streams
<1> DEFINE Told(r) ==
             /\ phase[r] \in {"new", "indexed", "fetched", "inserted"} => seen[r] = {}
             /\ phase[r] = "inserted" => matching[r] = found[r]
             /\ phase[r] = "live" => seen[r] = matching[r]
<1>2. ASSUME CanRun(s), running' \in {s, None}, wrong' = {}, \A r \in Subs : Told(r)'
      PROVE  Streams'
  BY <1>2 DEF Streams
<1>3. ASSUME CanRun(s)
      PROVE  wrong = {} /\ \A r \in Subs : Told(r)
  BY <1>3 DEF Streams, CanRun
<1>4. CASE Subscribe(s)
  BY <1>0, <1>2, <1>3, <1>4 DEF Subscribe
<1>5. CASE SubscribeFails(s)
  BY <1>0, <1>2, <1>3, <1>5 DEF SubscribeFails
<1>6. ASSUME NEW e \in Entities, Link(s, e)
      PROVE  Streams'
  BY <1>0, <1>2, <1>3, <1>6 DEF Link
<1>7. CASE Insert(s)
  BY <1>0, <1>2, <1>3, <1>7 DEF Insert
<1>8. CASE CallInitial(s)
  BY <1>0, <1>2, <1>3, <1>8 DEF CallInitial
<1>9. CASE Unsubscribe(s)
  BY <1>0, <1>2, <1>3, <1>9 DEF Unsubscribe
<1>10. CASE UnwatchIndex(s)
  BY <1>0, <1>2, <1>3, <1>10 DEF UnwatchIndex
<1>11. ASSUME NEW e \in Entities, Unlink(s, e)
       PROVE  Streams'
  BY <1>0, <1>2, <1>3, <1>11 DEF Unlink
<1>12. CASE Unsubscribed(s)
  BY <1>0, <1>2, <1>3, <1>12 DEF Unsubscribed
<1> QED
  BY <1>1, <1>4, <1>5, <1>6, <1>7, <1>8, <1>9, <1>10, <1>11, <1>12
  DEF SubscriberStep, SubscribeStep, UnsubscribeStep

----------------------------------------------------------------------------
\* Which changes are still to come.

LEMMA HoldsNone == \A e : ~ Holds(<<>>, e)
BY DEF Holds

LEMMA HoldsAppend ==
    ASSUME NEW q \in Seq(Entities), NEW x \in Entities
    PROVE  /\ Append(q, x) # <<>> /\ Holds(Append(q, x), x)
           /\ \A e : Holds(q, e) => Holds(Append(q, x), e)
<1> DEFINE p == Append(q, x)
<1>1. /\ Len(p) = Len(q) + 1 /\ Len(q) \in Nat /\ p \in Seq(Entities)
      /\ p[Len(q) + 1] = x
      /\ \A n \in 1..Len(q) : p[n] = q[n]
  BY AppendProperties
<1> HIDE DEF p
<1>2. p # <<>>
  BY <1>1
<1>3. Holds(p, x)
  BY <1>1 DEF Holds
<1>4. ASSUME NEW e, Holds(q, e)
      PROVE  Holds(p, e)
  <2>1. PICK i \in 1..Len(q) : q[i] = e
    BY <1>4 DEF Holds
  <2>2. i \in 1..Len(p) /\ p[i] = e
    BY <1>1, <2>1
  <2> QED
    BY <2>2 DEF Holds
<1> QED
  BY <1>2, <1>3, <1>4 DEF p

LEMMA HoldsTail ==
    ASSUME NEW q \in Seq(Entities), q # <<>>
    PROVE  /\ \A e : Holds(q, e) => Head(q) = e \/ Holds(Tail(q), e)
           /\ \A e : Holds(Tail(q), e) => Len(q) > 1
<1> DEFINE p == Tail(q)
<1>1. /\ Len(q) \in Nat \ {0} /\ Len(p) = Len(q) - 1 /\ Head(q) = q[1]
      /\ \A i \in 1..(Len(q) - 1) : p[i] = q[i + 1]
  BY HeadTailProperties
<1> HIDE DEF p
<1>2. ASSUME NEW e, Holds(q, e)
      PROVE  Head(q) = e \/ Holds(p, e)
  <2>1. PICK i \in 1..Len(q) : q[i] = e
    BY <1>2 DEF Holds
  <2>2. CASE i = 1
    BY <1>1, <2>1, <2>2
  <2>3. CASE i # 1
    <3>1. i - 1 \in 1..Len(p) /\ p[i - 1] = q[(i - 1) + 1] /\ (i - 1) + 1 = i
      BY <1>1, <2>1, <2>3
    <3> QED
      BY <2>1, <3>1 DEF Holds
  <2> QED
    BY <2>2, <2>3
<1>3. ASSUME NEW e, Holds(p, e)
      PROVE  Len(q) > 1
  BY <1>1, <1>3 DEF Holds
<1> QED
  BY <1>2, <1>3 DEF p

\* A step that moves no entity in or out of a value, a stored state or a result set.
LEMMA RightMoved ==
    ASSUME ResultsRight,
           UNCHANGED <<value, stored, matching, found, phase, subscriptions, overlapped,
                       adrift>>,
           \A e \in Entities, u \in Tasks : WaitsAt(u, e) => WaitsAt(u, e)',
           \A e \in Entities, s \in subscriptions, u \in Tasks :
               ComesAt(u, e, s) => ComesAt(u, e, s)'
    PROVE  ResultsRight'
<1>1. ASSUME NEW e \in Entities, Waits(e)
      PROVE  Waits(e)'
  BY <1>1 DEF Waits
<1>2. ASSUME NEW e \in Entities, NEW s \in subscriptions, Comes(e, s)
      PROVE  Comes(e, s)'
  BY <1>2 DEF Comes
<1>3. ASSUME NEW s \in Subs \ overlapped', NEW e \in Entities \ adrift'
      PROVE  /\ phase'[s] = "fetched" => Agrees(found[s], e, s)' \/ Waits(e)'
             /\ s \in subscriptions' => Agrees(matching[s], e, s)' \/ Waits(e)' \/ Comes(e, s)'
  <2>1. /\ Agrees(found[s], e, s)' <=> Agrees(found[s], e, s)
        /\ Agrees(matching[s], e, s)' <=> Agrees(matching[s], e, s)
    BY DEF Agrees
  <2>2. /\ phase[s] = "fetched" => Agrees(found[s], e, s) \/ Waits(e)
        /\ s \in subscriptions => Agrees(matching[s], e, s) \/ Waits(e) \/ Comes(e, s)
    BY DEF ResultsRight
  <2> QED
    BY <1>1, <1>2, <2>1, <2>2
<1> QED
  BY <1>3 DEF ResultsRight

\* A task that keeps quiet.
LEMMA OtherTasks ==
    ASSUME NEW u \in Tasks, NEW e \in Entities, NEW s \in Subs,
           pc'[u] = pc[u], changes'[u] = changes[u], cands'[u] = cands[u], sub'[u] = sub[u],
           watchers' = watchers
    PROVE  /\ WaitsAt(u, e)' <=> WaitsAt(u, e)
           /\ ComesAt(u, e, s)' <=> ComesAt(u, e, s)
BY DEF WaitsAt, ComesAt

\* A step of a commit that only moves the task along.
LEMMA MoveRight ==
    ASSUME IInv, runtime = "single", ThreadAgrees, ResultsRight, NEW t \in Tasks,
           \/ ReadWatchers(t) \/ Compare(t) \/ NextChange(t) \/ Finish(t)
           \/ \E s \in Subs : Skip(t, s) \/ Evaluate(t, s) \/ Deliver(t, s)
    PROVE  ResultsRight'
<1>0. TypeOK /\ TasksBusy
  BY DEF IInv
<1> USE DEF TypeOK, dataVars, subVars, reactorVars
<1>1. UNCHANGED <<value, stored, matching, found, phase, subscriptions, overlapped,
                  adrift, watchers>>
  BY DEF ReadWatchers, Compare, NextChange, Finish, Skip, Evaluate, Deliver
<1>2. ASSUME NEW u \in Tasks, u # t
      PROVE  /\ pc'[u] = pc[u] /\ changes'[u] = changes[u]
             /\ cands'[u] = cands[u] /\ sub'[u] = sub[u]
  BY <1>0, <1>2 DEF ReadWatchers, Compare, NextChange, Finish, Skip, Evaluate, Deliver
<1> DEFINE Kept == \A e \in Entities :
              /\ WaitsAt(t, e) => WaitsAt(t, e)'
              /\ \A r \in subscriptions : ComesAt(t, e, r) => ComesAt(t, e, r)'
<1>3. ASSUME ReadWatchers(t)
      PROVE  Kept
  <2>1. pc[t] = "watchers" /\ pc'[t] = "next" /\ UNCHANGED <<changes, sub>>
    BY <1>0, <1>3 DEF ReadWatchers
  <2>2. cands'[t] = cands[t] \cup {s \in Subs : watchers[Head(changes[t])][s] > 0}
    BY <1>0, <1>3 DEF ReadWatchers
  <2> QED
    BY <1>0, <2>1, <2>2 DEF WaitsAt, ComesAt, Notifying
<1>4. ASSUME NEW s \in Subs, Skip(t, s)
      PROVE  Kept
  <2>1. UNCHANGED <<pc, changes, sub, watchers>> /\ cands'[t] = cands[t] \ {s}
    BY <1>0, <1>4 DEF Skip
  <2>2. s \notin subscriptions
    BY <1>4 DEF Skip
  <2> QED
    BY <2>1, <2>2 DEF WaitsAt, ComesAt
<1>5. ASSUME NEW s \in Subs, Evaluate(t, s)
      PROVE  Kept
  <2>1. /\ UNCHANGED <<changes, watchers>> /\ cands'[t] = cands[t] \ {s} /\ sub'[t] = s
        /\ pc[t] = "next" /\ pc'[t] = "evaluated"
    BY <1>0, <1>5 DEF Evaluate
  <2>2. sub[t] = None /\ \A r \in Subs : r # None
    BY <1>0, <2>1 DEF TasksBusy
  <2> QED
    BY <1>0, <2>1, <2>2 DEF WaitsAt, ComesAt, Notifying
<1>6. ASSUME Compare(t)
      PROVE  Kept
  <2>1. /\ UNCHANGED <<changes, watchers, cands, sub>>
        /\ pc[t] = "evaluated" /\ pc'[t] = "compared"
    BY <1>0, <1>6 DEF Compare
  <2> QED
    BY <2>1 DEF WaitsAt, ComesAt, Notifying
<1>7. ASSUME NextChange(t)
      PROVE  Kept
  <2>1. /\ changes'[t] = Tail(changes[t]) /\ pc[t] = "next" /\ cands[t] = {}
        /\ pc'[t] = IF Len(changes[t]) > 1 THEN "index" ELSE "deliver"
    BY <1>0, <1>7 DEF NextChange
  <2>2. sub[t] = None /\ \A r \in Subs : r # None
    BY <1>0, <2>1 DEF TasksBusy
  <2>3. ASSUME NEW e \in Entities, WaitsAt(t, e)
        PROVE  WaitsAt(t, e)'
    <3>1. Holds(Tail(changes[t]), e)
      BY <2>1, <2>3 DEF WaitsAt
    <3>2. Len(changes[t]) > 1
      BY <1>0, <2>1, <3>1, HoldsTail DEF TasksBusy
    <3> QED
      BY <2>1, <3>1, <3>2 DEF WaitsAt
  <2>4. ASSUME NEW e \in Entities, NEW r \in subscriptions, ComesAt(t, e, r)
        PROVE  FALSE
    BY <1>0, <2>1, <2>2, <2>4 DEF ComesAt
  <2> QED
    BY <2>3, <2>4
<1>8. ASSUME NEW s \in Subs, Deliver(t, s)
      PROVE  Kept
  BY <1>0, <1>8 DEF Deliver, WaitsAt, ComesAt
<1>9. ASSUME Finish(t)
      PROVE  Kept
  BY <1>0, <1>9 DEF Finish, WaitsAt, ComesAt, Notifying
<1>10. Kept
  BY <1>3, <1>4, <1>5, <1>6, <1>7, <1>8, <1>9
<1> HIDE DEF Kept
<1>11. ASSUME NEW e \in Entities, NEW u \in Tasks
       PROVE  /\ WaitsAt(u, e) => WaitsAt(u, e)'
              /\ \A r \in subscriptions : ComesAt(u, e, r) => ComesAt(u, e, r)'
  <2>1. CASE u = t
    BY <1>10, <2>1 DEF Kept
  <2>2. CASE u # t
    <3>1. \A r \in subscriptions : r \in Subs
      BY <1>0
    <3>2. WaitsAt(u, e) => WaitsAt(u, e)'
      BY <1>1, <1>2, <2>2 DEF WaitsAt
    <3>3. ASSUME NEW r \in Subs
          PROVE  ComesAt(u, e, r) => ComesAt(u, e, r)'
      BY <1>1, <1>2, <2>2 DEF ComesAt
    <3> QED
      BY <3>1, <3>2, <3>3
  <2> QED
    BY <2>1, <2>2
<1> QED
  BY <1>1, <1>11, RightMoved

LEMMA ApplyRight ==
    ASSUME IInv, runtime = "single", ThreadAgrees, Stores, ResultsRight, NEW t \in Tasks,
           NEW d \in Entities, NEW v \in Values, Apply(t, d, v)
    PROVE  ResultsRight'
<1>0. TypeOK
  BY DEF IInv
<1>1. value' = [value EXCEPT ![d] = v] /\ pc[t] = "apply" /\ pc' = [pc EXCEPT ![t] = "store"]
  BY DEF Apply
<1>2. UNCHANGED <<stored, matching, found, phase, subscriptions, overlapped, watchers, changes,
                  cands, sub>>
  BY DEF Apply, subVars, reactorVars
<1>3. /\ adrift \subseteq adrift'
      /\ d \notin adrift' => value[d] = stored[d]
  <2>1. adrift' = IF Storing(d) = {} THEN adrift ELSE adrift \cup {d}
    BY DEF Apply
  <2> QED
    BY <2>1 DEF Stores, Storing
<1>4. ASSUME NEW e \in Entities \ adrift', NEW set, NEW s \in Subs, Agrees(set, e, s)
      PROVE  Agrees(set, e, s)'
  BY <1>0, <1>1, <1>2, <1>3, <1>4 DEF Agrees, TypeOK
<1>5. ASSUME NEW e \in Entities, NEW s \in Subs
      PROVE  /\ Waits(e) => Waits(e)'
             /\ Comes(e, s) => Comes(e, s)'
  <2>1. ASSUME NEW u \in Tasks
        PROVE  /\ WaitsAt(u, e) => WaitsAt(u, e)'
               /\ ComesAt(u, e, s) => ComesAt(u, e, s)'
    BY <1>0, <1>1, <1>2 DEF WaitsAt, ComesAt, Notifying, TypeOK
  <2> QED
    BY <2>1 DEF Waits, Comes
<1>6. \A s \in Subs : found[s] = found'[s] /\ matching[s] = matching'[s]
  BY <1>2
<1>7. ASSUME NEW s \in Subs \ overlapped', NEW e \in Entities \ adrift'
      PROVE  /\ phase'[s] = "fetched" => Agrees(found[s], e, s)' \/ Waits(e)'
             /\ s \in subscriptions' => Agrees(matching[s], e, s)' \/ Waits(e)' \/ Comes(e, s)'
  <2>1. PICK F, M : F = found[s] /\ M = matching[s] /\ F = found'[s] /\ M = matching'[s]
    BY <1>6
  <2>2. /\ phase[s] = "fetched" => Agrees(F, e, s) \/ Waits(e)
        /\ s \in subscriptions => Agrees(M, e, s) \/ Waits(e) \/ Comes(e, s)
    BY <1>2, <1>3, <2>1 DEF ResultsRight
  <2>3. /\ Agrees(F, e, s)' => Agrees(found[s], e, s)'
        /\ Agrees(M, e, s)' => Agrees(matching[s], e, s)'
    BY <2>1 DEF Agrees
  <2> QED
    BY <1>2, <1>4, <1>5, <2>2, <2>3
<1> QED
  BY <1>7 DEF ResultsRight

LEMMA StoreRight ==
    ASSUME IInv, runtime = "single", ThreadAgrees, ResultsRight, NEW t \in Tasks, Store(t)
    PROVE  ResultsRight'
<1>0. TypeOK /\ TasksBusy
  BY DEF IInv
<1>1. PICK d \in Entities : d = target[t]
  BY <1>0 DEF Store, TypeOK, TasksBusy
<1>9. PICK c \in BOOLEAN : StoreAs(t, c) /\ (~c => stored[d] = writing[t])
  BY <1>1 DEF Store
<1>2. /\ pc[t] = "store" /\ stored' = [stored EXCEPT ![d] = writing[t]]
      /\ changes' = IF c THEN [changes EXCEPT ![t] = Append(changes[t], d)] ELSE changes
      /\ adrift' = IF c /\ Storing(d) = {t} /\ writing[t] = value[d]
                   THEN adrift \ {d} ELSE adrift
      /\ pc' = [pc EXCEPT ![t] = IF left[t] > 0 THEN "apply"
                                 ELSE IF changes'[t] = <<>> THEN "done" ELSE "index"]
  BY <1>1, <1>9, Zenon DEF Store, StoreAs
<1>3. UNCHANGED <<value, matching, found, phase, subscriptions, overlapped, watchers, cands,
                  sub>>
  BY DEF Store, subVars, reactorVars
<1>4. ASSUME NEW e, Holds(changes[t], e)
      PROVE  Holds(changes'[t], e)
  <2>1. changes[t] \in Seq(Entities) /\ changes \in [Tasks -> Seq(Entities)]
    BY <1>0 DEF TypeOK
  <2>2. changes'[t] = changes[t] \/ changes'[t] = Append(changes[t], d)
    BY <1>2, <2>1
  <2>3. Holds(Append(changes[t], d), e)
    BY <1>4, <2>1, HoldsAppend
  <2> QED
    BY <1>4, <2>2, <2>3
<1>5. ASSUME NEW e, Holds(changes'[t], e)
      PROVE  WaitsAt(t, e)'
  <2>1. changes'[t] # <<>>
    BY <1>5, HoldsNone
  <2>2. pc'[t] \in {"apply", "index"}
    BY <1>0, <1>2, <2>1 DEF TypeOK
  <2> QED
    BY <1>5, <2>2 DEF WaitsAt
<1>6. ASSUME NEW e \in Entities, NEW s \in Subs
      PROVE  /\ Waits(e) => Waits(e)'
             /\ Comes(e, s) => Comes(e, s)'
  <2>1. ASSUME NEW u \in Tasks, u # t
        PROVE  /\ WaitsAt(u, e) => WaitsAt(u, e)'
               /\ ComesAt(u, e, s) => ComesAt(u, e, s)'
    <3>1. pc'[u] = pc[u] /\ changes'[u] = changes[u]
      BY <1>0, <1>2, <2>1 DEF TypeOK
    <3> QED
      BY <1>3, <3>1, OtherTasks
  <2>2. WaitsAt(t, e) => WaitsAt(t, e)'
    <3>1. WaitsAt(t, e) => Holds(changes[t], e)
      BY <1>2 DEF WaitsAt, Notifying
    <3> QED
      BY <1>4, <1>5, <3>1
  <2>3. ~ ComesAt(t, e, s)
    BY <1>2 DEF ComesAt, Notifying
  <2> QED
    BY <2>1, <2>2, <2>3 DEF Waits, Comes
<1>7. ASSUME NEW e \in Entities, NEW set, NEW s \in Subs, Agrees(set, e, s)
      PROVE  Agrees(set, e, s)' \/ Waits(e)'
  <2>1. CASE e = d /\ c
    <3>1. changes'[t] = Append(changes[t], d) /\ changes[t] \in Seq(Entities)
      BY <1>0, <1>2, <2>1 DEF TypeOK
    <3>2. Holds(changes'[t], e)
      BY <2>1, <3>1, HoldsAppend
    <3> QED
      BY <1>5, <3>2 DEF Waits
  <2>2. CASE ~(e = d /\ c)
    <3>1. stored'[e] = stored[e] /\ value'[e] = value[e]
      BY <1>0, <1>2, <1>3, <1>9, <2>2 DEF TypeOK
    <3> QED
      BY <1>7, <3>1 DEF Agrees
  <2> QED
    BY <2>1, <2>2
<1>8. ASSUME NEW s \in Subs \ overlapped', NEW e \in Entities \ adrift'
      PROVE  /\ phase'[s] = "fetched" => Agrees(found[s], e, s)' \/ Waits(e)'
             /\ s \in subscriptions' => Agrees(matching[s], e, s)' \/ Waits(e)' \/ Comes(e, s)'
  <2>1. PICK F, M : F = found[s] /\ M = matching[s] /\ F = found'[s] /\ M = matching'[s]
    BY <1>3
  <2>4. e \in adrift => Waits(e)'
    <3>1. ASSUME e \in adrift
          PROVE  changes'[t] = Append(changes[t], e) /\ changes[t] \in Seq(Entities)
      BY <1>0, <1>2, <3>1 DEF TypeOK
    <3>2. ASSUME e \in adrift
          PROVE  Holds(changes'[t], e)
      BY <3>1, <3>2, HoldsAppend
    <3> QED
      BY <1>5, <3>2 DEF Waits
  <2>2. e \notin adrift =>
        /\ phase[s] = "fetched" => Agrees(F, e, s) \/ Waits(e)
        /\ s \in subscriptions => Agrees(M, e, s) \/ Waits(e) \/ Comes(e, s)
    BY <1>3, <2>1 DEF ResultsRight
  <2>3. /\ Agrees(F, e, s)' => Agrees(found[s], e, s)'
        /\ Agrees(M, e, s)' => Agrees(matching[s], e, s)'
    BY <2>1 DEF Agrees
  <2> QED
    BY <1>3, <1>6, <1>7, <2>2, <2>3, <2>4
<1> QED
  BY <1>8 DEF ResultsRight

LEMMA UpdateRight ==
    ASSUME IInv, runtime = "single", ThreadAgrees, ReadsHold, ResultsRight,
           NEW t \in Tasks, Update(t)
    PROVE  ResultsRight'
<1>0. TypeOK /\ TasksBusy
  BY DEF IInv
<1>1. PICK d \in Entities, r \in Subs : d = Head(changes[t]) /\ r = sub[t]
  BY <1>0, SeqFacts DEF Update, TasksBusy, TypeOK
<1>2. PICK m \in BOOLEAN : m = matches[t]
  BY <1>0 DEF TypeOK
<1>3. /\ pc[t] = "compared" /\ pc' = [pc EXCEPT ![t] = "next"]
      /\ matching' = [matching EXCEPT ![r] = IF m THEN matching[r] \cup {d} ELSE matching[r] \ {d}]
  BY <1>1, <1>2, Zenon DEF Update, UpdateWatchers
<1>4. UNCHANGED <<value, stored, found, phase, subscriptions, overlapped, adrift, changes, cands>>
  BY DEF Update, subVars, dataVars
<1>5. m <=> value[d] \in Matches[r]
  BY <1>1, <1>2, <1>3 DEF ReadsHold
<1>6. d \in matching'[r] <=> value'[d] \in Matches[r]
  BY <1>0, <1>3, <1>4, <1>5 DEF TypeOK
<1>7. Agrees(matching[r], d, r)'
  BY <1>6 DEF Agrees
<1>8. ASSUME NEW e \in Entities, NEW s \in Subs, e # d \/ s # r
      PROVE  /\ e \in matching'[s] <=> e \in matching[s]
             /\ Comes(e, s) => Comes(e, s)'
  <2>1. e \in matching'[s] <=> e \in matching[s]
    BY <1>0, <1>3, <1>8 DEF TypeOK
  <2>2. ASSUME NEW u \in Tasks, ComesAt(u, e, s)
        PROVE  ComesAt(u, e, s)'
    <3>1. u = t
      BY <1>3, <2>2, Alone DEF ComesAt, Update
    <3>2. s \in cands[t] /\ Head(changes[t]) = e
      BY <1>1, <1>3, <1>8, <2>2, <3>1 DEF ComesAt
    <3> QED
      BY <1>0, <1>3, <1>4, <3>1, <3>2 DEF ComesAt, Notifying, TypeOK
  <2> QED
    BY <2>1, <2>2 DEF Comes
<1>9. ASSUME NEW e \in Entities, Waits(e)
      PROVE  Waits(e)'
  <2>1. ASSUME NEW u \in Tasks, WaitsAt(u, e)
        PROVE  WaitsAt(u, e)'
    BY <1>0, <1>3, <1>4, <2>1 DEF WaitsAt, Notifying, TypeOK
  <2> QED
    BY <1>9, <2>1 DEF Waits
<1>10. ASSUME NEW s \in Subs \ overlapped', NEW e \in Entities \ adrift'
       PROVE  /\ phase'[s] = "fetched" => Agrees(found[s], e, s)' \/ Waits(e)'
              /\ s \in subscriptions' => Agrees(matching[s], e, s)' \/ Waits(e)' \/ Comes(e, s)'
  <2>1. /\ phase[s] = "fetched" => Agrees(found[s], e, s) \/ Waits(e)
        /\ s \in subscriptions => Agrees(matching[s], e, s) \/ Waits(e) \/ Comes(e, s)
    BY <1>4 DEF ResultsRight
  <2>2. Agrees(found[s], e, s) => Agrees(found[s], e, s)'
    BY <1>4 DEF Agrees
  <2>3. CASE e = d /\ s = r
    BY <1>4, <1>7, <1>9, <2>1, <2>2, <2>3
  <2>4. CASE e # d \/ s # r
    <3>1. Agrees(matching[s], e, s) => Agrees(matching[s], e, s)'
      BY <1>4, <1>8, <2>4 DEF Agrees
    <3> QED
      BY <1>4, <1>8, <1>9, <2>1, <2>2, <2>4, <3>1
  <2> QED
    BY <2>3, <2>4
<1> QED
  BY <1>10 DEF ResultsRight

\* Who is neither found in the index nor recorded as a watcher is right to be left out.
LEMMA ReadIndexRight ==
    ASSUME IInv, runtime = "single", ThreadAgrees, Stores, ResultsRight,
           NEW t \in Tasks, ReadIndex(t)
    PROVE  ResultsRight'
<1>0. TypeOK /\ TasksBusy
  BY DEF IInv
<1>1. PICK d \in Entities : d = Head(changes[t])
  BY <1>0, SeqFacts DEF ReadIndex, TasksBusy, TypeOK
<1>2. /\ pc[t] = "index" /\ pc' = [pc EXCEPT ![t] = "watchers"]
      /\ cands' = [cands EXCEPT ![t] = {s \in index : value[d] \in IndexHits[s]}]
      /\ overlapped' = overlapped \cup {s \in Subs : phase[s] = "fetched"}
  BY <1>1, Zenon DEF ReadIndex
<1>3. UNCHANGED <<value, stored, matching, found, phase, subscriptions, changes, sub, watchers,
                  adrift>>
  BY DEF ReadIndex, subVars, dataVars, reactorVars
<1>4. changes[t] \in Seq(Entities) /\ changes[t] # <<>>
  BY <1>0, <1>2 DEF TypeOK, TasksBusy
<1>5. ASSUME NEW e \in Entities, e # d, Waits(e)
      PROVE  Waits(e)'
  <2>1. PICK u \in Tasks : WaitsAt(u, e)
    BY <1>5 DEF Waits
  <2>2. CASE u = t
    <3>1. Holds(changes[t], e)
      BY <1>2, <2>1, <2>2 DEF WaitsAt, Notifying
    <3>2. Holds(Tail(changes[t]), e)
      BY <1>1, <1>4, <1>5, <3>1, HoldsTail
    <3> QED
      BY <1>0, <1>2, <1>3, <3>2 DEF Waits, WaitsAt, Notifying, TypeOK
  <2>3. CASE u # t
    BY <1>0, <1>2, <1>3, <2>1, <2>3 DEF Waits, WaitsAt, TypeOK
  <2> QED
    BY <2>2, <2>3
<1>6. ASSUME NEW e \in Entities, NEW s \in Subs, Comes(e, s)
      PROVE  Comes(e, s)'
  <2>1. PICK u \in Tasks : ComesAt(u, e, s)
    BY <1>6 DEF Comes
  <2>2. u # t
    BY <1>2, <2>1 DEF ComesAt, Notifying
  <2>3. pc'[u] = pc[u] /\ cands'[u] = cands[u]
    BY <1>0, <1>2, <2>2 DEF TypeOK
  <2>4. ComesAt(u, e, s)'
    BY <1>3, <2>1, <2>3 DEF ComesAt
  <2> QED
    BY <2>4 DEF Comes
<1>7. ASSUME NEW s \in subscriptions
      PROVE  Agrees(matching[s], d, s)' \/ Comes(d, s)'
  <2>1. s \in Subs /\ phase[s] \in {"inserted", "live"}
    BY <1>0, <1>7 DEF TypeOK, IInv, PhaseAgrees
  <2>2. s \in index /\ Linked(s) = matching[s]
    BY <2>1 DEF Stores, Linked
  <2>3. ASSUME s \in cands'[t] \/ watchers'[d][s] > 0
        PROVE  Comes(d, s)'
    BY <1>0, <1>1, <1>2, <1>3, <2>3 DEF Comes, ComesAt, Notifying, TypeOK
  <2>4. ASSUME s \notin cands'[t], ~(watchers'[d][s] > 0)
        PROVE  Agrees(matching[s], d, s)'
    <3>1. value[d] \notin IndexHits[s]
      BY <1>0, <1>2, <2>2, <2>4 DEF TypeOK
    <3>2. value[d] \notin Matches[s]
      BY <2>1, <3>1
    <3>3. d \notin matching[s]
      BY <1>3, <2>1, <2>2, <2>4 DEF IInv, WatchersAgree
    <3> QED
      BY <1>3, <3>2, <3>3 DEF Agrees
  <2> QED
    BY <2>3, <2>4
<1>8. ASSUME NEW s \in Subs \ overlapped', NEW e \in Entities \ adrift'
      PROVE  /\ phase'[s] = "fetched" => Agrees(found[s], e, s)' \/ Waits(e)'
             /\ s \in subscriptions' => Agrees(matching[s], e, s)' \/ Waits(e)' \/ Comes(e, s)'
  <2>1. phase'[s] # "fetched" /\ s \notin overlapped
    BY <1>2, <1>3
  <2>2. s \in subscriptions => Agrees(matching[s], e, s) \/ Waits(e) \/ Comes(e, s)
    BY <1>3, <2>1 DEF ResultsRight
  <2>3. Agrees(matching[s], e, s) => Agrees(matching[s], e, s)'
    BY <1>3 DEF Agrees
  <2>4. CASE e = d
    BY <1>3, <1>7, <2>1, <2>4
  <2>5. CASE e # d
    BY <1>3, <1>5, <1>6, <2>1, <2>2, <2>3, <2>5
  <2> QED
    BY <2>4, <2>5
<1> QED
  BY <1>8 DEF ResultsRight

LEMMA TaskRight ==
    ASSUME IInv, runtime = "single", ThreadAgrees, ReadsHold, Stores, ResultsRight,
           NEW t \in Tasks, TaskStep(t)
    PROVE  ResultsRight'
BY MoveRight, ApplyRight, StoreRight, UpdateRight, ReadIndexRight DEF TaskStep

\* What a commit that fails will not notify is adrift.
LEMMA FailRight ==
    ASSUME IInv, runtime = "single", ThreadAgrees, ResultsRight, NEW t \in Tasks,
           CommitFails(t)
    PROVE  ResultsRight'
<1>0. TypeOK /\ TasksBusy
  BY DEF IInv
<1>1. /\ adrift' = adrift \cup Changed(t) \cup ({target[t]} \ {None})
      /\ pc[t] \in {"apply", "store"} /\ pc' = [pc EXCEPT ![t] = "done"]
      /\ changes' = [changes EXCEPT ![t] = <<>>]
  BY DEF CommitFails
<1>2. UNCHANGED <<value, stored, matching, found, phase, subscriptions, overlapped, watchers,
                  cands, sub>>
  BY DEF CommitFails, dataVars, subVars, reactorVars
<1>3. ASSUME NEW e \in Entities \ adrift', NEW s \in Subs
      PROVE  /\ Waits(e) => Waits(e)'
             /\ Comes(e, s) => Comes(e, s)'
  <2>1. ASSUME NEW u \in Tasks, u # t
        PROVE  /\ WaitsAt(u, e) => WaitsAt(u, e)'
               /\ ComesAt(u, e, s) => ComesAt(u, e, s)'
    <3>1. pc'[u] = pc[u] /\ changes'[u] = changes[u]
      BY <1>0, <1>1, <2>1 DEF TypeOK
    <3> QED
      BY <1>2, <3>1, OtherTasks
  <2>2. ~ WaitsAt(t, e)
    <3>1. ~ Holds(changes[t], e)
      <4>1. e \notin Changed(t)
        BY <1>1
      <4>2. DOMAIN changes[t] = 1..Len(changes[t])
        BY <1>0 DEF TypeOK
      <4> QED
        BY <4>1, <4>2 DEF Changed, Holds
    <3> QED
      BY <1>1, <3>1 DEF WaitsAt, Notifying
  <2>3. ~ ComesAt(t, e, s)
    BY <1>1 DEF ComesAt, Notifying
  <2> QED
    BY <2>1, <2>2, <2>3 DEF Waits, Comes
<1>4. ASSUME NEW s \in Subs \ overlapped', NEW e \in Entities \ adrift'
      PROVE  /\ phase'[s] = "fetched" => Agrees(found[s], e, s)' \/ Waits(e)'
             /\ s \in subscriptions' => Agrees(matching[s], e, s)' \/ Waits(e)' \/ Comes(e, s)'
  <2>1. /\ Agrees(found[s], e, s)' <=> Agrees(found[s], e, s)
        /\ Agrees(matching[s], e, s)' <=> Agrees(matching[s], e, s)
    BY <1>2 DEF Agrees
  <2>2. /\ phase[s] = "fetched" => Agrees(found[s], e, s) \/ Waits(e)
        /\ s \in subscriptions => Agrees(matching[s], e, s) \/ Waits(e) \/ Comes(e, s)
    BY <1>1, <1>2 DEF ResultsRight
  <2> QED
    BY <1>2, <1>3, <2>1, <2>2
<1> QED
  BY <1>4 DEF ResultsRight

LEMMA SubscriberRight ==
    ASSUME IInv, runtime = "single", ResultsRight, NEW s \in Subs, SubscriberStep(s)
    PROVE  ResultsRight'
<1>0. TypeOK /\ PhaseAgrees
  BY DEF IInv
<1>1. UNCHANGED <<value, stored, pc, changes, cands, sub, overlapped, adrift>>
  BY DEF SubscriberStep, SubscribeStep, UnsubscribeStep, Subscribe, Fetch,
         SubscribeFails, Link, Insert, CallInitial, Unsubscribe, UnwatchIndex, Unlink,
         Unsubscribed, taskVars, dataVars
<1>2. ASSUME NEW e \in Entities, Waits(e)
      PROVE  Waits(e)'
  BY <1>1, <1>2 DEF Waits, WaitsAt
<1>3. ASSUME NEW r \in subscriptions', NEW e \in Entities
      PROVE  watchers[e][r] > 0 => watchers'[e][r] > 0
  <2>1. r \in Subs /\ (r \in subscriptions \/ (r = s /\ Insert(s)))
    <3>1. Insert(s) => subscriptions' = subscriptions \cup {s}
      BY DEF Insert
    <3>2. Insert(s) \/ subscriptions' \subseteq subscriptions
      BY DEF SubscriberStep, SubscribeStep, UnsubscribeStep, Subscribe, Fetch,
         SubscribeFails, Link, CallInitial, Unsubscribe, UnwatchIndex, Unlink, Unsubscribed,
         reactorVars
    <3>3. subscriptions \subseteq Subs
      BY <1>0 DEF TypeOK
    <3>4. CASE Insert(s)
      BY <1>3, <3>1, <3>3, <3>4
    <3>5. CASE subscriptions' \subseteq subscriptions
      BY <1>3, <3>3, <3>5
    <3> QED
      BY <3>2, <3>4, <3>5
  <2>2. CASE UNCHANGED watchers
    BY <2>2
  <2>3. ASSUME NEW d \in Entities, Link(s, d)
        PROVE  watchers[e][r] > 0 => watchers'[e][r] > 0
    <3>1. watchers' = [watchers EXCEPT ![d][s] = @ + 1]
      BY <2>3 DEF Link
    <3> QED
      BY <1>0, <2>1, <3>1 DEF TypeOK
  <2>4. ASSUME NEW d \in Entities, Unlink(s, d)
        PROVE  watchers[e][r] > 0 => watchers'[e][r] > 0
    <3>1. watchers' = [watchers EXCEPT ![d][s] = 0] /\ r # s
      BY <1>0, <1>3, <2>4 DEF Unlink, PhaseAgrees
    <3> QED
      BY <1>0, <2>1, <3>1 DEF TypeOK
  <2>5. \/ UNCHANGED watchers
        \/ \E d \in Entities : Link(s, d) \/ Unlink(s, d)
    BY DEF SubscriberStep, SubscribeStep, UnsubscribeStep, Subscribe, Fetch,
         SubscribeFails, Insert, CallInitial, Unsubscribe, UnwatchIndex, Unsubscribed,
         reactorVars
  <2> QED
    BY <2>2, <2>3, <2>4, <2>5
<1>4. ASSUME NEW r \in subscriptions', NEW e \in Entities, Comes(e, r)
      PROVE  Comes(e, r)'
  BY <1>1, <1>3, <1>4 DEF Comes, ComesAt
<1> DEFINE RightFor(r, e) ==
              /\ phase[r] = "fetched" => Agrees(found[r], e, r) \/ Waits(e)
              /\ r \in subscriptions => Agrees(matching[r], e, r) \/ Waits(e) \/ Comes(e, r)
<1>5. ASSUME NEW r \in Subs, NEW e \in Entities, RightFor(r, e),
             phase'[r] = "fetched" => phase[r] = "fetched" /\ found'[r] = found[r],
             r \in subscriptions' => r \in subscriptions /\ matching'[r] = matching[r]
      PROVE  RightFor(r, e)'
  <2>1. phase'[r] = "fetched" => (Agrees(found[r], e, r)' <=> Agrees(found[r], e, r))
    BY <1>1, <1>5 DEF Agrees
  <2>2. r \in subscriptions' => (Agrees(matching[r], e, r)' <=> Agrees(matching[r], e, r))
    BY <1>1, <1>5 DEF Agrees
  <2> QED
    BY <1>2, <1>4, <1>5, <2>1, <2>2
<1>6. ASSUME NEW e \in Entities, RightFor(s, e), Fetch(s)
      PROVE  RightFor(s, e)'
  <2>1. found'[s] = {x \in Entities : stored[x] \in Matches[s]} /\ s \notin subscriptions'
    BY <1>0, <1>6 DEF Fetch, TypeOK, PhaseAgrees, reactorVars
  <2>2. Agrees(found[s], e, s)'
    BY <1>1, <2>1 DEF Agrees
  <2> QED
    BY <2>1, <2>2
<1>7. ASSUME NEW e \in Entities, RightFor(s, e), Insert(s)
      PROVE  RightFor(s, e)'
  <2>1. phase[s] = "fetched" /\ phase'[s] = "inserted" /\ matching'[s] = found[s]
    BY <1>0, <1>7 DEF Insert, TypeOK
  <2>2. Agrees(matching[s], e, s)' <=> Agrees(found[s], e, s)
    BY <1>1, <2>1 DEF Agrees
  <2> QED
    BY <1>2, <1>7, <2>1, <2>2
<1>8. ASSUME NEW r \in Subs, r # s \/ ~ (Fetch(s) \/ Insert(s))
      PROVE  /\ phase'[r] = "fetched" => phase[r] = "fetched" /\ found'[r] = found[r]
             /\ r \in subscriptions' => r \in subscriptions /\ matching'[r] = matching[r]
  <2> USE DEF TypeOK, reactorVars
  <2>1. Fetch(s) => r # s
    BY <1>8
  <2>2. Insert(s) => r # s
    BY <1>8
  <2>3. CASE Fetch(s)
    BY <1>0, <2>1, <2>3 DEF Fetch
  <2>4. CASE Insert(s)
    BY <1>0, <2>2, <2>4 DEF Insert
  <2>5. CASE ~ Fetch(s) /\ ~ Insert(s)
    <3>1. /\ UNCHANGED <<found, matching>> /\ subscriptions' \subseteq subscriptions
          /\ phase'[r] = "fetched" => phase[r] = "fetched"
      BY <1>0, <2>5 DEF SubscriberStep, SubscribeStep, UnsubscribeStep, Subscribe,
         SubscribeFails, Link, CallInitial, Unsubscribe, UnwatchIndex, Unlink,
         Unsubscribed
    <3> QED
      BY <3>1
  <2> QED
    BY <2>3, <2>4, <2>5
<1>9. \A r \in Subs \ overlapped, e \in Entities \ adrift : RightFor(r, e)
  BY DEF ResultsRight
<1> HIDE DEF RightFor
<1>10. ASSUME NEW r \in Subs \ overlapped, NEW e \in Entities \ adrift
       PROVE  RightFor(r, e)'
  <2>1. CASE r # s \/ ~ (Fetch(s) \/ Insert(s))
    BY <1>5, <1>8, <1>9, <2>1
  <2>2. CASE r = s /\ (Fetch(s) \/ Insert(s))
    <3>1. RightFor(s, e)
      BY <1>9, <2>2
    <3>2. RightFor(s, e)'
      BY <1>6, <1>7, <2>2, <3>1
    <3> QED
      BY <2>2, <3>2
  <2> QED
    BY <2>1, <2>2
<1> QED
  BY <1>1, <1>10 DEF ResultsRight, RightFor

----------------------------------------------------------------------------

LEMMA SingleInductive == IInv /\ SInv /\ [Next]_vars => SInv'
<1> SUFFICES ASSUME IInv, SInv, [Next]_vars, runtime' = "single"
             PROVE  ThreadAgrees' /\ ReadsHold' /\ Streams' /\ ResultsRight' /\ Stores'
  BY DEF SInv
<1>1. runtime' = runtime
  <2>1. ASSUME NEW t \in Tasks, TaskStep(t) \/ CommitFails(t)
        PROVE  runtime' = runtime
    <3>1. ASSUME NEW e \in Entities, NEW v \in Values, Apply(t, e, v)
          PROVE  runtime' = runtime
      BY <3>1 DEF Apply
    <3>2. ASSUME Store(t) \/ CommitFails(t) \/ ReadIndex(t) \/ ReadWatchers(t) \/ NextChange(t)
          PROVE  runtime' = runtime
      BY <3>2 DEF CommitFails, Store, StoreAs, ReadIndex, ReadWatchers, NextChange
    <3>3. ASSUME NEW s \in Subs, Skip(t, s) \/ Evaluate(t, s) \/ Deliver(t, s)
          PROVE  runtime' = runtime
      BY <3>3 DEF Skip, Evaluate, Deliver
    <3>4. ASSUME Compare(t) \/ Update(t) \/ Finish(t)
          PROVE  runtime' = runtime
      BY <3>4 DEF Compare, Update, Finish
    <3> QED
      BY <2>1, <3>1, <3>2, <3>3, <3>4 DEF TaskStep
  <2>2. ASSUME NEW s \in Subs, SubscriberStep(s)
        PROVE  runtime' = runtime
    BY <2>2, SMTT(30)
       DEF SubscriberStep, SubscribeStep, UnsubscribeStep, Subscribe, Fetch, SubscribeFails, Link,
           Insert, CallInitial, Unsubscribe, UnwatchIndex, Unlink, Unsubscribed
  <2> QED
    BY <2>1, <2>2 DEF Next, Idle, vars, SubscriberStep
<1>2. runtime = "single" /\ ThreadAgrees /\ ReadsHold /\ Streams /\ ResultsRight /\ Stores
  BY <1>1 DEF SInv
<1>3. ASSUME NEW t \in Tasks, TaskStep(t)
      PROVE  ThreadAgrees' /\ ReadsHold' /\ Streams' /\ ResultsRight' /\ Stores'
  BY <1>2, <1>3, TaskThread, TaskReads, TaskStreams, TaskRight, TaskStores
<1>4. ASSUME NEW s \in Subs, SubscriberStep(s)
      PROVE  ThreadAgrees' /\ ReadsHold' /\ Streams' /\ ResultsRight' /\ Stores'
  BY <1>2, <1>4, SubscriberThread, SubscriberReads, SubscriberStreams, SubscriberRight,
     SubscriberStores
<1>6. ASSUME NEW t \in Tasks, CommitFails(t)
      PROVE  ThreadAgrees' /\ ReadsHold' /\ Streams' /\ ResultsRight' /\ Stores'
  <2>1. TypeOK /\ TasksBusy
    BY DEF IInv
  <2>2. /\ UNCHANGED <<running, dataVars, reactorVars, subVars, sub, matches, did, out,
                       clientVars>>
        /\ pc[t] \in {"apply", "store"} /\ pc' = [pc EXCEPT ![t] = "done"]
    BY <1>6, <2>1, FailTypes
  <2>3. \A u \in Tasks : u # t => pc'[u] = pc[u] /\ changes'[u] = changes[u]
    BY <1>6, <2>1 DEF CommitFails, TypeOK
  <2>4. pc'[t] = "done"
    BY <2>1, <2>2 DEF TypeOK
  <2>5. running # t
    BY <1>2, <2>2 DEF ThreadAgrees, Collecting, Notifying
  <2>6. ThreadAgrees'
    BY <1>2, <2>2, <2>3, <2>4, <2>5 DEF ThreadAgrees, Collecting, Notifying, subVars
  <2>7. ReadsHold'
    BY <1>2, <2>2, <2>3, <2>4 DEF ReadsHold, dataVars, reactorVars
  <2>8. Streams'
    BY <1>2, <2>2 DEF Streams, subVars, reactorVars, clientVars
  <2> QED
    BY <1>2, <1>6, <2>6, <2>7, <2>8, FailRight, FailStores
<1>5. CASE UNCHANGED vars
  <2> USE DEF vars, dataVars, reactorVars, subVars, taskVars, clientVars
  <2>1. ThreadAgrees'
    BY <1>2, <1>5 DEF ThreadAgrees
  <2>2. ReadsHold'
    BY <1>2, <1>5 DEF ReadsHold
  <2>3. Streams'
    BY <1>2, <1>5 DEF Streams
  <2>4. ResultsRight'
    <3>1. \A e \in Entities, u \in Tasks : WaitsAt(u, e) => WaitsAt(u, e)'
      BY <1>5 DEF WaitsAt
    <3>2. \A e \in Entities, s \in subscriptions, u \in Tasks :
              ComesAt(u, e, s) => ComesAt(u, e, s)'
      BY <1>5 DEF ComesAt
    <3> QED
      BY <1>2, <1>5, <3>1, <3>2, RightMoved
  <2>5. Stores'
    BY <1>2, <1>5 DEF Stores, Storing
  <2> QED
    BY <2>1, <2>2, <2>3, <2>4, <2>5
<1> QED
  BY <1>3, <1>4, <1>5, <1>6 DEF Next, Idle, SubscriberStep

LEMMA SingleInit == Init => SInv
<1> SUFFICES ASSUME Init
             PROVE  ThreadAgrees /\ ReadsHold /\ Streams /\ ResultsRight /\ Stores
  BY DEF SInv
<1>1. ThreadAgrees
  BY DEF Init, ThreadAgrees, Notifying, Collecting
<1>2. ReadsHold
  BY DEF Init, ReadsHold
<1>3. Streams
  BY DEF Init, Streams
<1>4. ResultsRight
  BY DEF Init, ResultsRight
<1>5. Stores
  BY DEF Init, Stores, Storing
<1> QED
  BY <1>1, <1>2, <1>3, <1>4, <1>5

LEMMA SingleInvariance == Spec => [](IInv /\ SInv)
<1>1. Init => IInv /\ SInv
  BY InitInv, SingleInit
<1>2. IInv /\ SInv /\ [Next]_vars => (IInv /\ SInv)'
  BY Inductive, SingleInductive
<1> QED
  BY <1>1, <1>2, PTL DEF Spec

\* In the browser, whenever nobody is in the middle of a stretch, the changes each
\* subscriber was told are possible one after the other and amount to the result set the
\* node has recorded for it, however commits, subscribe calls and dropped handles alternate.
THEOREM StreamsRight == Spec => []StreamAgrees
<1>1. IInv /\ SInv => StreamAgrees
  <2> SUFFICES ASSUME IInv, SInv, runtime = "single", running = None
               PROVE  wrong = {} /\ \A s \in subscriptions : seen[s] = matching[s]
    BY DEF StreamAgrees
  <2>1. ThreadAgrees /\ Streams
    BY DEF SInv
  <2>2. ASSUME NEW s \in subscriptions
        PROVE  seen[s] = matching[s]
    <3>1. s \in Subs /\ phase[s] \in {"inserted", "live"}
      BY DEF IInv, TypeOK, PhaseAgrees
    <3>2. phase[s] = "live"
      BY <2>1, <3>1 DEF ThreadAgrees
    <3> QED
      BY <2>1, <3>1, <3>2 DEF Streams
  <2> QED
    BY <2>1, <2>2 DEF Streams
<1> QED
  BY <1>1, SingleInvariance, PTL

\* In the browser, when all commits are done, the result set of every subscription whose
\* subscribe call no notification overlapped is right about every entity that is not adrift:
\* of which no commit failed after applying or storing, and no two stored at once, without
\* a later one alone having stored and notified it.
THEOREM SettledRight == Spec => []SettledSingle
<1>1. IInv /\ SInv => SettledSingle
  <2> SUFFICES ASSUME IInv, SInv, runtime = "single", Quiescent,
                      NEW s \in (Subs \ overlapped) \cap subscriptions,
                      NEW e \in Entities \ adrift
               PROVE  e \in matching[s] <=> value[e] \in Matches[s]
    BY DEF SettledSingle, SettledFor, Fits
  <2>1. ResultsRight /\ Stores
    BY DEF SInv
  <2>2. \A t \in Tasks : pc[t] = "done"
    BY DEF Quiescent
  <2>3. ~ Waits(e) /\ ~ Comes(e, s)
    BY <2>2 DEF Waits, Comes, WaitsAt, ComesAt, Notifying
  <2>4. Agrees(matching[s], e, s)
    BY <2>1, <2>3 DEF ResultsRight
  <2>5. value[e] = stored[e]
    BY <2>1, <2>2 DEF Stores
  <2> QED
    BY <2>4, <2>5 DEF Agrees
<1> QED
  BY <1>1, SingleInvariance, PTL
============================================================================
