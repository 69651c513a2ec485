--------------------------- MODULE PeeringProofs ---------------------------
(***************************************************************************)
(* What Peering.tla promises for any number of sockets, requests and       *)
(* ready() futures: the types, one connection or one reconnect, a peer     *)
(* that is registered when the client says it is connected, no future that *)
(* sleeps through it; a request that is awaited is at one place at most    *)
(* and at none only with a reason, and the server has the client           *)
(* registered over the socket they both use once all is settled.           *)
(***************************************************************************)
EXTENDS Peering, FiniteSetTheorems, TLAPS

PeerMessages == Messages \ {Presence}

Types ==
    /\ sock \in [Sockets -> {"none", "connecting", "up", "broken"}]
    /\ inbox \in [Ends -> [Sockets -> Seq(Messages)]]
    /\ noticed \in [Sockets -> {"no", "error", "closed"}]
    /\ cstate \in [Sockets -> {"Connecting", "Connected", "Closed", "Error"}]
    /\ current \in Sockets \cup {0} /\ timers \in Nat /\ delay \in 0..MaxDelay
    /\ wakers \subseteq Waiters /\ waiter \in [Waiters -> {"new", "pending", "woken", "ready"}]
    /\ handler \in [Sockets -> {"none", "Initial", "Established", "done"}]
    /\ peer \in [Ends -> Sockets \cup {0}]
    /\ tasks \subseteq [at : Ends, msg : PeerMessages, reply : Sockets \cup {0}]
    /\ request \in [Requests -> {"none", "waiting", "failed", "answered"}]
    /\ used \in [Requests -> SUBSET Sockets]

\* Sockets are made in the order of their numbers, and one that is not made yet has
\* fired no event.
InOrder ==
    /\ Cardinality(Made) \in Nat /\ Made = 1..Cardinality(Made)
    /\ \A s \in Sockets : sock[s] = "none" => noticed[s] = "no"

IInv == Types /\ InOrder /\ OneConnection /\ ConnectedMeansRegistered /\ NoSleeper

USE PeeringAssumption

-----------------------------------------------------------------------------
(* Messages and queues *)

LEMMA MessageTypes ==
    /\ Presence \in Messages
    /\ \A r \in Requests, type \in {"request", "response"} : Message(type, r) \in PeerMessages
    /\ \A m \in PeerMessages : m \in Messages /\ m.id \in Requests
<1>1. \A r \in Requests, type \in {"request", "response"} : Message(type, r) # Presence
  BY DEF Message, Presence
<1>2. \A r \in Requests, type \in {"request", "response"} : Message(type, r) \in PeerMessages
  BY <1>1 DEF Messages, PeerMessages
<1>3. ASSUME NEW m \in PeerMessages PROVE m \in Messages /\ m.id \in Requests
  <2>1. PICK type \in {"request", "response"}, r \in Requests : m = Message(type, r)
    BY DEF Messages, PeerMessages
  <2> QED
    BY <2>1 DEF Message, PeerMessages
<1>4. Presence \in Messages
  BY DEF Messages
<1> QED
  BY <1>2, <1>3, <1>4

LEMMA QueueTypes ==
    ASSUME Types, NEW end \in Ends, NEW s \in Sockets
    PROVE  /\ inbox[end][s] \in Seq(Messages)
           /\ \A m \in Messages : Append(inbox[end][s], m) \in Seq(Messages)
           /\ inbox[end][s] # <<>> => /\ Head(inbox[end][s]) \in Messages
                                     /\ Tail(inbox[end][s]) \in Seq(Messages)
<1>1. inbox[end][s] \in Seq(Messages)
  BY DEF Types
<1> QED
  BY <1>1

LEMMA ReplaceQueue ==
    ASSUME Types, NEW end \in Ends, NEW s \in Sockets, NEW q \in Seq(Messages)
    PROVE  [inbox EXCEPT ![end][s] = q] \in [Ends -> [Sockets -> Seq(Messages)]]
BY DEF Types

LEMMA RegisterTypes ==
    ASSUME Types, NEW end \in Ends, NEW s \in Sockets \cup {0}
    PROVE  [peer EXCEPT ![end] = s] \in [Ends -> Sockets \cup {0}]
<1>1. peer \in [Ends -> Sockets \cup {0}]
  BY DEF Types
<1> QED
  BY <1>1

LEMMA TakeTypes ==
    ASSUME Types, NEW end \in Ends, NEW s \in Sockets, inbox[end][s] # <<>>, Take(end, s)
    PROVE  inbox' \in [Ends -> [Sockets -> Seq(Messages)]]
BY QueueTypes, ReplaceQueue DEF Take, Types

LEMMA SendTypes ==
    ASSUME Types, NEW end \in Ends, NEW s \in Sockets, NEW msg \in PeerMessages,
           Send(end, s, msg)
    PROVE  /\ inbox' \in [Ends -> [Sockets -> Seq(Messages)]]
           /\ used' \in [Requests -> SUBSET Sockets]
<1>1. Other(end) \in Ends
  BY DEF Other, Ends
<1>2. inbox' \in [Ends -> [Sockets -> Seq(Messages)]]
  <2>1. Append(inbox[Other(end)][s], msg) \in Seq(Messages)
    BY <1>1, QueueTypes, MessageTypes
  <2>2. [inbox EXCEPT ![Other(end)][s] = Append(inbox[Other(end)][s], msg)]
            \in [Ends -> [Sockets -> Seq(Messages)]]
    BY <1>1, <2>1, ReplaceQueue
  <2> QED
    BY <2>2 DEF Send, Put, Types
<1>3. used' \in [Requests -> SUBSET Sockets]
  BY MessageTypes DEF Send, Types
<1> QED
  BY <1>2, <1>3

-----------------------------------------------------------------------------
(* The state of the client *)

\* What a state change of a connection leaves well-typed
LEMMA SetStateTypes ==
    ASSUME Types, NEW s \in Sockets, NEW new \in {"Connected", "Closed", "Error"},
           SetState(s, new)
    PROVE  /\ cstate' \in [Sockets -> {"Connecting", "Connected", "Closed", "Error"}]
           /\ current' \in Sockets \cup {0} /\ timers' \in Nat /\ delay' \in 0..MaxDelay
           /\ wakers' \subseteq Waiters
           /\ waiter' \in [Waiters -> {"new", "pending", "woken", "ready"}]
<1>1. NextDelay \in 0..MaxDelay
  BY DEF Types, NextDelay, Lesser
<1>2. CASE Concerns(s) /\ new = "Connected"
  BY <1>2 DEF SetState, Types, Woken
<1>3. CASE Concerns(s) /\ new # "Connected"
  BY <1>1, <1>3 DEF SetState, Types
<1>4. CASE ~Concerns(s)
  BY <1>4 DEF SetState, Types
<1> QED
  BY <1>2, <1>3, <1>4

LEMMA TypesStep ==
    ASSUME Types, [Next]_vars
    PROVE  Types'
<1> USE DEF netVars, clientVars, requestVars
<1>1. ASSUME NEW s \in Sockets, Accept(s) PROVE Types'
  <2>1. <<Presence>> \in Seq(Messages) /\ "client" \in Ends
    BY MessageTypes DEF Ends
  <2> QED
    BY <1>1, <2>1, ReplaceQueue DEF Accept, Greeting, Types
<1>2. ASSUME NEW s \in Sockets, Break(s) PROVE Types'
  BY <1>2 DEF Break, Types
<1>3. ASSUME NEW s \in Sockets, HandleError(s) PROVE Types'
  BY <1>3, SetStateTypes DEF HandleError, Types
<1>4. ASSUME NEW s \in Sockets, HandleClose(s) PROVE Types'
  BY <1>4, SetStateTypes DEF HandleClose, Types
<1>5. ASSUME NEW s \in Sockets, ReceivePresence(s) PROVE Types'
  <2>1. inbox' \in [Ends -> [Sockets -> Seq(Messages)]]
    <3>1. "client" \in Ends /\ "server" \in Ends /\ "client" # "server"
      BY DEF Ends
    <3>2. Tail(inbox["client"][s]) \in Seq(Messages)
          /\ Append(inbox["server"][s], Presence) \in Seq(Messages)
      BY <1>5, <3>1, QueueTypes, MessageTypes DEF ReceivePresence
    <3> QED
      BY <1>5, <3>1, <3>2 DEF ReceivePresence, Types
  <2>2. peer' \in [Ends -> Sockets \cup {0}]
    <3>1. peer' = peer \/ peer' = [peer EXCEPT !["client"] = s]
      BY <1>5, Zenon DEF ReceivePresence, RegisterServer
    <3>2. peer \in [Ends -> Sockets \cup {0}] /\ "client" \in Ends
      BY DEF Types, Ends
    <3> QED
      BY <3>1, <3>2, RegisterTypes
  <2> QED
    BY <1>5, <2>1, <2>2, SetStateTypes DEF ReceivePresence, Types
<1>6. ASSUME NEW s \in Sockets, ReceivePeerMessage(s) PROVE Types'
  <2> "client" \in Ends
    BY DEF Ends
  <2>1. inbox' \in [Ends -> [Sockets -> Seq(Messages)]]
    BY <1>6, TakeTypes DEF ReceivePeerMessage
  <2>2. Head(inbox["client"][s]) \in PeerMessages
    BY <1>6, QueueTypes DEF ReceivePeerMessage, PeerMessages
  <2> QED
    BY <1>6, <2>1, <2>2 DEF ReceivePeerMessage, Types
<1>7. ASSUME NEW s \in Sockets, ProcessPresence(s) PROVE Types'
  <2> "server" \in Ends
    BY DEF Ends
  <2>1. inbox' \in [Ends -> [Sockets -> Seq(Messages)]]
    BY <1>7, TakeTypes DEF ProcessPresence
  <2>2. peer' \in [Ends -> Sockets \cup {0}]
    <3>1. peer' = [peer EXCEPT !["server"] = s] \/ peer' = peer
      BY <1>7, Zenon DEF ProcessPresence, RegisterClient
    <3>2. peer \in [Ends -> Sockets \cup {0}]
      BY DEF Types
    <3> QED
      BY <3>1, <3>2, RegisterTypes
  <2>3. /\ handler' = [handler EXCEPT ![s] = "Established"]
        /\ UNCHANGED <<sock, clientVars, waiter, requestVars>>
    BY <1>7, Zenon DEF ProcessPresence
  <2> QED
    BY <2>1, <2>2, <2>3 DEF Types
<1>8. ASSUME NEW s \in Sockets, ProcessPeerMessage(s) PROVE Types'
  <2> "server" \in Ends
    BY DEF Ends
  <2>1. inbox' \in [Ends -> [Sockets -> Seq(Messages)]]
    BY <1>8, TakeTypes DEF ProcessPeerMessage
  <2>2. Head(inbox["server"][s]) \in PeerMessages
    BY <1>8, QueueTypes DEF ProcessPeerMessage, PeerMessages
  <2> QED
    BY <1>8, <2>1, <2>2 DEF ProcessPeerMessage, Types
<1>9. ASSUME NEW s \in Sockets, SocketEnds(s) PROVE Types'
  <2>1. peer' \in [Ends -> Sockets \cup {0}]
    <3>1. peer' = peer \/ peer' = [peer EXCEPT !["server"] = 0]
      BY <1>9, Zenon DEF SocketEnds
    <3>2. peer \in [Ends -> Sockets \cup {0}] /\ "server" \in Ends
      BY DEF Types, Ends
    <3> QED
      BY <3>1, <3>2, RegisterTypes
  <2>2. /\ handler' = [handler EXCEPT ![s] = "done"]
        /\ UNCHANGED <<netVars, clientVars, waiter, requestVars>>
    BY <1>9, Zenon DEF SocketEnds
  <2> QED
    BY <2>1, <2>2 DEF Types
<1>10. CASE Reconnect
  BY <1>10 DEF Reconnect, Types
<1>11. ASSUME NEW w \in Waiters, PollReady(w) PROVE Types'
  <2>1. /\ \E st \in {"ready", "pending"} : waiter' = [waiter EXCEPT ![w] = st]
        /\ wakers' \subseteq wakers \cup {w}
    BY <1>11 DEF PollReady
  <2>2. UNCHANGED <<netVars, noticed, cstate, current, timers, delay, handler, peer, requestVars>>
    BY <1>11, Zenon DEF PollReady
  <2> QED
    BY <2>1, <2>2 DEF Types
<1>12. ASSUME NEW r \in Requests, Request(r) PROVE Types'
  <2> DEFINE end == Owner(r)
  <2>1. end \in Ends /\ peer[end] \in Sockets \cup {0}
    BY DEF Owner, Ends, Types
  <2>2. request' \in [Requests -> {"none", "waiting", "failed", "answered"}]
    <3>1. \E st \in {"waiting", "failed"} : request' = [request EXCEPT ![r] = st]
      BY <1>12, Zenon DEF Request
    <3> QED
      BY <3>1 DEF Types
  <2>3. UNCHANGED <<sock, clientVars, waiter, handler, peer, tasks>>
    BY <1>12, Zenon DEF Request
  <2>4. CASE peer[end] # 0 /\ Send(end, peer[end], Message("request", r))
    <3>1. /\ inbox' \in [Ends -> [Sockets -> Seq(Messages)]]
          /\ used' \in [Requests -> SUBSET Sockets]
      BY <2>1, <2>4, MessageTypes, SendTypes
    <3> QED
      BY <2>2, <2>3, <3>1 DEF Types
  <2>5. CASE UNCHANGED <<inbox, used>>
    BY <2>2, <2>5, <2>3 DEF Types
  <2> QED
    BY <1>12, <2>4, <2>5, Zenon DEF Request
<1>13. ASSUME NEW t \in tasks, StartRequest(t) PROVE Types'
  <2>1. t \in [at : Ends, msg : PeerMessages, reply : Sockets \cup {0}]
    BY DEF Types
  <2>2. peer[t.at] \in Sockets \cup {0}
    BY <2>1 DEF Types
  <2>3. [t EXCEPT !.reply = peer[t.at]] \in [at : Ends, msg : PeerMessages, reply : Sockets \cup {0}]
    BY <2>1, <2>2
  <2>4. tasks' \subseteq tasks \cup {[t EXCEPT !.reply = peer[t.at]]}
    BY <1>13 DEF StartRequest
  <2>5. UNCHANGED <<netVars, clientVars, waiter, handler, peer, request, used>>
    BY <1>13, Zenon DEF StartRequest
  <2> QED
    BY <2>3, <2>4, <2>5 DEF Types
<1>14. ASSUME NEW t \in tasks, FinishRequest(t) PROVE Types'
  <2>1. t.at \in Ends /\ t.msg \in PeerMessages /\ t.reply \in Sockets
    BY <1>14 DEF Types, FinishRequest
  <2>2. Send(t.at, t.reply, Message("response", t.msg.id))
    BY <1>14, <2>1 DEF FinishRequest, AnswerOver, Sockets
  <2>3. /\ inbox' \in [Ends -> [Sockets -> Seq(Messages)]]
        /\ used' \in [Requests -> SUBSET Sockets]
    BY <2>1, <2>2, MessageTypes, SendTypes
  <2> QED
    BY <1>14, <2>3 DEF FinishRequest, Types
<1>15. ASSUME NEW t \in tasks, HandleResponse(t) PROVE Types'
  BY <1>15 DEF HandleResponse, Types
<1>16. CASE UNCHANGED vars
  BY <1>16 DEF vars, Types
<1> QED
  BY <1>1, <1>2, <1>3, <1>4, <1>5, <1>6, <1>7, <1>8, <1>9, <1>10, <1>11, <1>12, <1>13, <1>14,
     <1>15, <1>16 DEF Next, Client, Server, Handle

\* TypeOK says of a state what its readers see, Types what a step needs to know.
LEMMA TypesImplyTypeOK == Types => TypeOK
<1> SUFFICES ASSUME Types PROVE TypeOK
  OBVIOUS
<1>1. ASSUME NEW end \in Ends, NEW s \in Sockets, NEW i \in 1..Len(inbox[end][s])
      PROVE  inbox[end][s][i] \in Messages
  BY <1>1, QueueTypes
<1>2. ASSUME NEW t \in tasks
      PROVE  t.at \in Ends /\ t.msg \in Messages \ {Presence} /\ t.reply \in Sockets \cup {0}
  BY DEF Types, PeerMessages
<1> QED
  BY <1>1, <1>2 DEF Types, TypeOK

-----------------------------------------------------------------------------
(* One connection or one reconnect *)

\* The steps that do not make a socket leave the sockets that are made.
LEMMA MadeStays ==
    ASSUME Types, \/ sock' = sock
                  \/ \E s \in Sockets, st \in {"up", "broken"} :
                        sock[s] # "none" /\ sock' = [sock EXCEPT ![s] = st]
    PROVE  Made' = Made
BY DEF Types, Made

LEMMA ReconnectMakes ==
    ASSUME Types, InOrder, Reconnect
    PROVE  /\ Made' = 1..Cardinality(Made')
           /\ Cardinality(Made') = Cardinality(Made) + 1
           /\ current' = Cardinality(Made')
           /\ sock[current'] = "none"
<1> DEFINE n == Cardinality(Made)
<1>1. n \in Nat /\ Made = 1..n
  BY DEF InOrder
<1>2. n + 1 \in Sockets /\ current' = n + 1 /\ sock' = [sock EXCEPT ![n + 1] = "connecting"]
  BY Zenon DEF Reconnect
<1>3. sock[n + 1] = "none"
  BY <1>1, <1>2 DEF Made
<1>4. Made' = Made \cup {n + 1}
  BY <1>2 DEF Made, Types
<1>5. Made' = 1..(n + 1)
  BY <1>1, <1>4
<1>6. Cardinality(Made') = n + 1
  BY <1>1, <1>5, FS_Interval
<1> QED
  BY <1>2, <1>3, <1>5, <1>6

\* A state change of the current connection gives way to a reconnect, unless it is a success.
LEMMA SetStateOne ==
    ASSUME Types, OneConnection, NEW s \in Sockets,
           NEW new \in {"Connected", "Closed", "Error"}, SetState(s, new)
    PROVE  /\ timers' = IF current' = 0 THEN 1 ELSE 0
           /\ signal' = "Connected" => delay' = 0
           /\ current' # 0 => current' = current /\ (new # "Connected" => s # current)
<1>1. current # 0 => timers = 0
  BY DEF OneConnection
<1>2. s # 0 /\ 0 + 1 = 1
  BY DEF Sockets
<1> QED
  BY <1>1, <1>2 DEF SetState, Concerns, OneConnection

LEMMA OneConnectionStep ==
    ASSUME Types, InOrder, OneConnection, [Next]_vars
    PROVE  InOrder' /\ OneConnection'
<1> USE DEF netVars, clientVars, requestVars
<1>1. CASE Reconnect
  <2>1. current' # 0 /\ timers = 1
    BY <1>1, ReconnectMakes DEF Reconnect, OneConnection, InOrder, Types
  <2>2. timers' = 0 /\ noticed' = noticed /\ signal' = "Connecting"
        /\ \A s \in Sockets : sock'[s] = "none" => sock[s] = "none"
    BY <1>1, <2>1 DEF Reconnect, Types
  <2>3. current' \in Sockets
    BY <1>1 DEF Reconnect
  <2> QED
    BY <1>1, <2>1, <2>2, <2>3, ReconnectMakes DEF InOrder, OneConnection
<1>2. ASSUME NEW s \in Sockets, HandleError(s) \/ HandleClose(s)
      PROVE  InOrder' /\ OneConnection'
  <2>1. PICK new \in {"Error", "Closed"} : SetState(s, new)
    BY <1>2 DEF HandleError, HandleClose
  <2>2. sock[s] = "broken" /\ sock' = sock /\ \E ev \in {"error", "closed"} : noticed' = [noticed EXCEPT ![s] = ev]
    BY <1>2, Zenon DEF HandleError, HandleClose
  <2>3. Made' = Made
    BY <2>2, MadeStays
  <2>4. \A z \in Sockets : z # s => noticed'[z] = noticed[z]
    BY <2>2 DEF Types
  <2>5. InOrder'
    BY <2>2, <2>3, <2>4 DEF InOrder
  <2>6. current' # 0 => current' = current /\ s # current
    BY <2>1, SetStateOne
  <2> QED
    BY <2>1, <2>3, <2>4, <2>5, <2>6, SetStateOne DEF OneConnection, Types
<1>3. ASSUME NEW s \in Sockets, ReceivePresence(s) PROVE InOrder' /\ OneConnection'
  <2>1. SetState(s, "Connected") /\ UNCHANGED <<sock, noticed>>
    BY <1>3, Zenon DEF ReceivePresence
  <2>2. Made' = Made
    BY <2>1, MadeStays
  <2> QED
    BY <2>1, <2>2, SetStateOne DEF InOrder, OneConnection
<1>4. ASSUME UNCHANGED <<noticed, current, timers, delay, signal>>, Made' = Made,
             \A s \in Sockets : sock'[s] = "none" => sock[s] = "none"
      PROVE  InOrder' /\ OneConnection'
  BY <1>4 DEF InOrder, OneConnection
<1>5. ASSUME NEW s \in Sockets, Accept(s) \/ Break(s) PROVE InOrder' /\ OneConnection'
  <2>1. \E st \in {"up", "broken"} : sock[s] # "none" /\ sock' = [sock EXCEPT ![s] = st]
    BY <1>5 DEF Accept, Break
  <2>2. UNCHANGED <<noticed, current, timers, delay, signal>>
    BY <1>5, Zenon DEF Accept, Break
  <2> QED
    BY <1>4, <2>1, <2>2, MadeStays DEF Types
<1>6. ASSUME UNCHANGED <<sock, noticed, current, timers, delay, signal>>
      PROVE  InOrder' /\ OneConnection'
  BY <1>4, <1>6, MadeStays
<1>7. ASSUME NEW s \in Sockets, ReceivePeerMessage(s) \/ Server(s)
      PROVE  UNCHANGED <<sock, noticed, current, timers, delay, signal>>
  BY <1>7, Zenon DEF ReceivePeerMessage, Server, ProcessPresence, ProcessPeerMessage, SocketEnds
<1>8. ASSUME NEW w \in Waiters, PollReady(w)
      PROVE  UNCHANGED <<sock, noticed, current, timers, delay, signal>>
  BY <1>8, Zenon DEF PollReady
<1>9. ASSUME NEW r \in Requests, Request(r)
      PROVE  UNCHANGED <<sock, noticed, current, timers, delay, signal>>
  BY <1>9, Zenon DEF Request
<1>10. ASSUME NEW t \in tasks, Handle(t)
      PROVE  UNCHANGED <<sock, noticed, current, timers, delay, signal>>
  BY <1>10, Zenon DEF Handle, StartRequest, FinishRequest, HandleResponse
<1>11. CASE UNCHANGED vars
  BY <1>6, <1>11 DEF vars
<1> QED
  BY <1>1, <1>2, <1>3, <1>5, <1>6, <1>7, <1>8, <1>9, <1>10, <1>11 DEF Next, Client

-----------------------------------------------------------------------------
(* A registered server and futures that wake *)

LEMMA ConnectedStep ==
    ASSUME Types, OneConnection, ConnectedMeansRegistered, NoSleeper, [Next]_vars
    PROVE  ConnectedMeansRegistered' /\ NoSleeper'
<1> USE DEF netVars, clientVars, requestVars
<1> "client" # "server" /\ "client" \in Ends /\ "server" \in Ends
  BY DEF Ends
<1>1. CASE Reconnect
  BY <1>1 DEF Reconnect, ConnectedMeansRegistered, NoSleeper
<1>2. ASSUME NEW s \in Sockets, HandleError(s) \/ HandleClose(s)
      PROVE  ConnectedMeansRegistered' /\ NoSleeper'
  <2>1. peer' = peer /\ \E new \in {"Error", "Closed"} : SetState(s, new)
    BY <1>2, Zenon DEF HandleError, HandleClose
  <2>2. CASE Concerns(s)
    BY <2>1, <2>2 DEF SetState, ConnectedMeansRegistered, NoSleeper
  <2>3. CASE ~Concerns(s)
    BY <2>1, <2>3 DEF SetState, Concerns, ConnectedMeansRegistered, NoSleeper, Types
  <2> QED
    BY <2>2, <2>3
<1>3. ASSUME NEW s \in Sockets, ReceivePresence(s)
      PROVE  ConnectedMeansRegistered' /\ NoSleeper'
  <2>1. SetState(s, "Connected") /\ peer' = RegisterServer(s)
    BY <1>3 DEF ReceivePresence
  <2>2. CASE Concerns(s)
    <3>1. /\ cstate' = [cstate EXCEPT ![s] = "Connected"] /\ current' = s /\ wakers' = {}
          /\ waiter' = Woken /\ peer' = [peer EXCEPT !["client"] = s]
      BY <2>1, <2>2 DEF SetState, Concerns, RegisterServer
    <3>2. ConnectedMeansRegistered'
      BY <3>1 DEF ConnectedMeansRegistered, Types, Sockets
    <3>3. {w \in Waiters : waiter'[w] = "pending"} = {}
      BY <3>1 DEF NoSleeper, Woken
    <3> QED
      BY <3>1, <3>2, <3>3 DEF NoSleeper
  <2>3. CASE ~Concerns(s)
    BY <2>1, <2>3 DEF SetState, Concerns, RegisterServer, ConnectedMeansRegistered, NoSleeper, Types
  <2> QED
    BY <2>2, <2>3
<1>4. ASSUME NEW w \in Waiters, PollReady(w) PROVE ConnectedMeansRegistered' /\ NoSleeper'
  <2>1. UNCHANGED <<cstate, current, signal, peer>>
    BY <1>4, Zenon DEF PollReady
  <2>2. CASE signal = "Connected"
    BY <1>4, <2>1, <2>2 DEF PollReady, NoSleeper, ConnectedMeansRegistered, Types
  <2>3. CASE signal # "Connected"
    BY <1>4, <2>1, <2>3 DEF PollReady, NoSleeper, ConnectedMeansRegistered, Types
  <2> QED
    BY <2>2, <2>3
<1>5. ASSUME UNCHANGED <<cstate, current, signal, wakers, waiter>>, peer'["client"] = peer["client"]
      PROVE  ConnectedMeansRegistered' /\ NoSleeper'
  BY <1>5 DEF ConnectedMeansRegistered, NoSleeper
<1>6. ASSUME NEW s \in Sockets, Server(s) PROVE ConnectedMeansRegistered' /\ NoSleeper'
  <2>1. UNCHANGED <<cstate, current, signal, wakers, waiter>>
    BY <1>6, Zenon DEF Server, ProcessPresence, ProcessPeerMessage, SocketEnds
  <2>2. peer' = peer \/ \E z \in Sockets \cup {0} : peer' = [peer EXCEPT !["server"] = z]
    BY <1>6, Zenon DEF Server, ProcessPresence, RegisterClient, ProcessPeerMessage, SocketEnds
  <2> QED
    BY <1>5, <2>1, <2>2 DEF Types
<1>7. ASSUME NEW s \in Sockets, Accept(s) \/ Break(s) \/ ReceivePeerMessage(s)
      PROVE  UNCHANGED <<cstate, current, signal, wakers, waiter, peer>>
  BY <1>7, Zenon DEF Accept, Break, ReceivePeerMessage
<1>8. ASSUME NEW r \in Requests, Request(r)
      PROVE  UNCHANGED <<cstate, current, signal, wakers, waiter, peer>>
  BY <1>8, Zenon DEF Request
<1>9. ASSUME NEW t \in tasks, Handle(t)
      PROVE  UNCHANGED <<cstate, current, signal, wakers, waiter, peer>>
  BY <1>9, Zenon DEF Handle, StartRequest, FinishRequest, HandleResponse
<1>10. CASE UNCHANGED vars
  BY <1>5, <1>10 DEF vars
<1> QED
  BY <1>1, <1>2, <1>3, <1>4, <1>5, <1>6, <1>7, <1>8, <1>9, <1>10 DEF Next, Client

-----------------------------------------------------------------------------
(* The theorems *)

LEMMA InitIInv == Init => IInv
<1> SUFFICES ASSUME Init PROVE IInv
  OBVIOUS
<1>1. 1 \in Sockets /\ <<>> \in Seq(Messages)
  BY DEF Sockets
<1>2. Types
  BY <1>1 DEF Init, Types
<1>3. Made = {1}
  BY <1>1 DEF Init, Made
<1>4. Cardinality(Made) = 1
  BY <1>3, FS_Singleton
<1>5. InOrder
  BY <1>3, <1>4 DEF InOrder, Init
<1>6. OneConnection
  BY <1>1, <1>4 DEF OneConnection, Init
<1> QED
  BY <1>2, <1>5, <1>6 DEF Init, IInv, ConnectedMeansRegistered, NoSleeper

LEMMA StepIInv == IInv /\ [Next]_vars => IInv'
BY TypesStep, OneConnectionStep, ConnectedStep DEF IInv

LEMMA AlwaysIInv == Spec => []IInv
BY InitIInv, StepIInv, PTL DEF Spec

\* Queues, tasks and registrations hold what the connectors and Node::request put there,
\* for any number of sockets and requests (connection.rs, server.rs, node.rs).
THEOREM TypeCorrect == Spec => []TypeOK
<1>1. IInv => TypeOK
  BY TypesImplyTypeOK DEF IInv
<1> QED
  BY <1>1, AlwaysIInv, PTL

\* However many sockets break, in whatever order their error and close events arrive, the
\* client has one connection or one reconnect that sleeps (client.rs:74-135).
THEOREM OneConnectionAlways == Spec => []OneConnection
<1>1. IInv => OneConnection
  BY DEF IInv
<1> QED
  BY <1>1, AlwaysIInv, PTL

\* When the client says it is connected the server is registered over the current socket,
\* so what ready() promises is there (connection.rs:127).
THEOREM ConnectedIsRegistered == Spec => []ConnectedMeansRegistered
<1>1. IInv => ConnectedMeansRegistered
  BY DEF IInv
<1> QED
  BY <1>1, AlwaysIInv, PTL

\* No ready() future of any number of them sleeps while the client is connected
\* (client.rs:98 and 155).
THEOREM NobodySleeps == Spec => []NoSleeper
<1>1. IInv => NoSleeper
  BY DEF IInv
<1> QED
  BY <1>1, AlwaysIInv, PTL

----------------------------------------------------------------------------
\* The requests between the two nodes.
\* The life of a socket: only one that broke has fired an event or ended its handler, and
\* of those that were made only the current one has not fired one.
SocketLife ==
    \A s \in Sockets :
        /\ noticed[s] # "no" => sock[s] = "broken"
        /\ noticed[s] = "no" => cstate[s] \in {"Connecting", "Connected"}
        /\ sock[s] # "none" /\ s # current => noticed[s] # "no"
        /\ sock[s] \in {"none", "connecting"} => handler[s] = "none" /\ cstate[s] = "Connecting"
        /\ sock[s] = "up" => handler[s] \in {"Initial", "Established"}
        /\ handler[s] = "done" => sock[s] = "broken"

Reached(s) == sock[s] \in {"up", "broken"}
Greets(queue) == queue # <<>> => Head(queue) = Presence

\* Over every socket the presence of either end comes before all else it sends, so neither
\* end drops a message because it does not know the other yet.
Greeted ==
    \A s \in Sockets :
        /\ ~Reached(s) => inbox["client"][s] = <<>> /\ inbox["server"][s] = <<>>
        /\ cstate[s] = "Connecting" => Greets(inbox["client"][s])
        /\ cstate[s] = "Connecting" /\ sock[s] = "up" => inbox["client"][s] # <<>>
        /\ handler[s] = "Initial" => Greets(inbox["server"][s])
        /\ handler[s] = "Initial" /\ sock[s] = "up" /\ cstate[s] = "Connected"
             => inbox["server"][s] # <<>>

\* What an end sends over: a socket that was up, and at the client one with the presence
Usable(end, s) == Reached(s) /\ (end = "client" => cstate[s] # "Connecting")

\* Registrations and answers go over such sockets, and a client that has a connection or a
\* message of the server has it registered.
Registered ==
    /\ \A end \in Ends : peer[end] # 0 => Usable(end, peer[end])
    /\ \A t \in tasks : t.reply # 0 => Usable(t.at, t.reply)
    /\ \A s \in Sockets : cstate[s] = "Connected" /\ noticed[s] = "no" => peer["client"] # 0
    /\ \A t \in tasks : t.at = "client" => peer["client"] # 0

\* Unless handlers have crossed, the one of an unbroken socket has its client registered.
Uncrossed ==
    \/ crossed = TRUE
    \/ \A s \in Sockets : handler[s] = "Established" /\ sock[s] = "up" => peer["server"] = s

\* What the server has of a request came over a socket the request used, and a task of it
\* over one whose handler had the presence.
Travelled ==
    /\ \A r \in Requests, s \in Sockets : Slots("server", s, r) # {} => s \in used[r]
    /\ \A t \in tasks : t.at = "server" =>
          \E s \in used[t.msg.id] : handler[s] \in {"Established", "done"}

\* A request that is somewhere is there once, and its caller waits.
Single ==
    /\ \A r \in Requests, e, f \in Ends, s, z \in Sockets :
          \A i \in Slots(e, s, r), j \in Slots(f, z, r) : e = f /\ s = z /\ i = j
    /\ \A t \in tasks, e \in Ends, s \in Sockets : Slots(e, s, t.msg.id) = {}
    /\ \A t, u \in tasks : t.msg.id = u.msg.id => t = u
    /\ \A r \in Requests, e \in Ends, s \in Sockets : Slots(e, s, r) # {} => request[r] = "waiting"
    /\ \A t \in tasks : request[t.msg.id] = "waiting"

OnTheWay(r) == \E e \in Ends, s \in Sockets : Slots(e, s, r) # {}
InHand(r) == \E t \in tasks : t.msg.id = r

\* A request whose caller waits for nothing was lost with a socket or dropped.
Gone(r) == \/ \E s \in used[r] : sock[s] = "broken"
           \/ r \in ignored /\ crossed = TRUE
Followed == \A r \in Requests : request[r] = "waiting" => OnTheWay(r) \/ InHand(r) \/ Gone(r)

-----------------------------------------------------------------------------
(* Queues and what the steps do to them *)

LEMMA TwoEnds == "client" \in Ends /\ "server" \in Ends /\ "client" # "server"
BY DEF Ends

LEMMA TakeQueue ==
    ASSUME Types, NEW e \in Ends, NEW s \in Sockets, Take(e, s)
    PROVE  /\ inbox'[e][s] = Tail(inbox[e][s])
           /\ \A end \in Ends, z \in Sockets : end # e \/ z # s => inbox'[end][z] = inbox[end][z]
BY DEF Take, Types

LEMMA PutQueue ==
    ASSUME Types, NEW e \in Ends, NEW s \in Sockets, NEW msg \in Messages, Put(e, s, msg)
    PROVE  /\ inbox'[e][s] = IF sock[s] = "up" THEN Append(inbox[e][s], msg) ELSE inbox[e][s]
           /\ \A end \in Ends, z \in Sockets : end # e \/ z # s => inbox'[end][z] = inbox[end][z]
BY DEF Put, Types

\* The first message of a queue stays the first when one is appended.
LEMMA AppendGreets ==
    ASSUME NEW q \in Seq(Messages), NEW m \in Messages
    PROVE  /\ Append(q, m) # <<>>
           /\ q # <<>> => Head(Append(q, m)) = Head(q)
           /\ q = <<>> => Head(Append(q, m)) = m
<1>1. Len(q) \in Nat /\ Len(Append(q, m)) = Len(q) + 1 /\ Append(q, m) \in Seq(Messages)
  OBVIOUS
<1>2. Append(q, m) # <<>>
  BY <1>1
<1>3. Head(Append(q, m)) = Append(q, m)[1]
  BY <1>1
<1>4. CASE q # <<>>
  <2>1. 1 \in 1..Len(q) /\ Head(q) = q[1]
    BY <1>4
  <2> QED
    BY <1>2, <1>3, <1>4, <2>1
<1>5. CASE q = <<>>
  BY <1>2, <1>3, <1>5
<1> QED
  BY <1>2, <1>4, <1>5

\* The sends of a request and of an answer: over which socket, and with what effect
LEMMA RequestSends ==
    ASSUME Types, Registered, NEW r \in Requests, Request(r)
    PROVE  \/ /\ UNCHANGED <<inbox, used>>
              /\ request' = [request EXCEPT ![r] = "failed"]
           \/ \E end \in Ends, s \in Sockets :
                 /\ Usable(end, s) /\ Send(end, s, Message("request", r))
                 /\ request' = [request EXCEPT ![r] = "waiting"]
<1>1. Owner(r) \in Ends
  BY DEF Owner, Ends
<1>2. CASE /\ peer[Owner(r)] # 0
           /\ request' = [request EXCEPT ![r] = "waiting"]
           /\ Send(Owner(r), peer[Owner(r)], Message("request", r))
  <2>1. peer[Owner(r)] \in Sockets
    BY <1>1, <1>2 DEF Types
  <2>2. Usable(Owner(r), peer[Owner(r)])
    BY <1>1, <1>2 DEF Registered
  <2> QED
    BY <1>1, <1>2, <2>1, <2>2, Zenon
<1>3. CASE UNCHANGED <<inbox, used>> /\ request' = [request EXCEPT ![r] = "failed"]
  BY <1>3, Zenon
<1> QED
  BY <1>2, <1>3, Zenon DEF Request

LEMMA FinishSends ==
    ASSUME Types, Registered, NEW t \in tasks, FinishRequest(t)
    PROVE  /\ t.at \in Ends /\ t.reply \in Sockets /\ t.msg \in PeerMessages
           /\ t.msg.id \in Requests
           /\ Usable(t.at, t.reply) /\ Send(t.at, t.reply, Message("response", t.msg.id))
<1>1. t.at \in Ends /\ t.msg \in PeerMessages /\ t.reply \in Sockets /\ t.reply # 0
  BY DEF Types, FinishRequest
<1>2. Send(t.at, t.reply, Message("response", t.msg.id))
  BY <1>1 DEF FinishRequest, AnswerOver
<1> QED
  BY <1>1, <1>2, MessageTypes DEF Registered

-----------------------------------------------------------------------------
(* The life of a socket, and presence first *)

LEMMA LifeStep ==
    ASSUME Types, InOrder, OneConnection, SocketLife, Greeted, [Next]_vars
    PROVE  SocketLife'
<1> USE DEF netVars, clientVars, requestVars
<1>1. ASSUME UNCHANGED <<noticed, sock, cstate, current, handler>> PROVE SocketLife'
  BY <1>1 DEF SocketLife
<1>2. ASSUME NEW s \in Sockets, Accept(s) PROVE SocketLife'
  <2>1. /\ sock[s] = "connecting" /\ sock' = [sock EXCEPT ![s] = "up"]
        /\ handler' = [handler EXCEPT ![s] = "Initial"]
        /\ UNCHANGED <<noticed, cstate, current>>
    BY <1>2, Zenon DEF Accept
  <2> QED
    BY <2>1 DEF SocketLife, Types
<1>3. ASSUME NEW s \in Sockets, Break(s) PROVE SocketLife'
  <2>1. /\ sock[s] \in {"connecting", "up"} /\ sock' = [sock EXCEPT ![s] = "broken"]
        /\ UNCHANGED <<noticed, cstate, current, handler>>
    BY <1>3, Zenon DEF Break
  <2> QED
    BY <2>1 DEF SocketLife, Types
<1>4. ASSUME NEW s \in Sockets, HandleError(s) \/ HandleClose(s) PROVE SocketLife'
  <2>1. PICK new \in {"Error", "Closed"} : SetState(s, new)
    BY <1>4, Zenon DEF HandleError, HandleClose
  <2>2. /\ sock[s] = "broken" /\ UNCHANGED <<sock, handler>>
        /\ \E ev \in {"error", "closed"} : noticed' = [noticed EXCEPT ![s] = ev]
    BY <1>4, Zenon DEF HandleError, HandleClose
  <2>3. cstate' = [cstate EXCEPT ![s] = new] /\ (s # current => current' = current)
    BY <2>1, Zenon DEF SetState, Concerns
  <2> QED
    BY <2>2, <2>3 DEF SocketLife, Types
<1>5. ASSUME NEW s \in Sockets, ReceivePresence(s) PROVE SocketLife'
  <2>1. /\ UNCHANGED <<sock, noticed, handler>> /\ inbox["client"][s] # <<>>
        /\ noticed[s] = "no" /\ SetState(s, "Connected")
    BY <1>5, Zenon DEF ReceivePresence
  <2>2. cstate' = [cstate EXCEPT ![s] = "Connected"] /\ current' = current
    BY <2>1, Zenon DEF SetState
  <2>3. sock[s] \in {"up", "broken"}
    BY <2>1, TwoEnds DEF Greeted, Reached
  <2> QED
    BY <2>1, <2>2, <2>3 DEF SocketLife, Types
<1>6. ASSUME NEW s \in Sockets, ProcessPresence(s) PROVE SocketLife'
  <2>1. /\ handler[s] \in {"Initial", "Established"}
        /\ handler' = [handler EXCEPT ![s] = "Established"]
        /\ UNCHANGED <<noticed, sock, cstate, current>>
    BY <1>6, Zenon DEF ProcessPresence
  <2> QED
    BY <2>1 DEF SocketLife, Types
<1>7. ASSUME NEW s \in Sockets, SocketEnds(s) PROVE SocketLife'
  <2>1. /\ sock[s] = "broken" /\ handler' = [handler EXCEPT ![s] = "done"]
        /\ UNCHANGED <<noticed, sock, cstate, current>>
    BY <1>7, Zenon DEF SocketEnds
  <2> QED
    BY <2>1 DEF SocketLife, Types
<1>8. CASE Reconnect
  <2>1. /\ sock' = [sock EXCEPT ![current'] = "connecting"] /\ current' \in Sockets
        /\ UNCHANGED <<noticed, cstate, handler>> /\ timers > 0
    BY <1>8 DEF Reconnect
  <2>2. sock[current'] = "none"
    BY <1>8, ReconnectMakes
  <2>3. current = 0
    BY <2>1 DEF OneConnection
  <2>4. \A s \in Sockets : s # 0
    BY DEF Sockets
  <2>5. PICK n \in Sockets : n = current'
    BY <2>1
  <2>6. /\ sock' = [sock EXCEPT ![n] = "connecting"] /\ sock[n] = "none"
        /\ noticed[n] = "no" /\ handler[n] = "none" /\ cstate[n] = "Connecting"
    BY <2>1, <2>2, <2>5 DEF InOrder, SocketLife
  <2>7. ASSUME NEW s \in Sockets, s # n PROVE sock'[s] = sock[s] /\ s # current
    BY <2>3, <2>4, <2>6, <2>7 DEF Types
  <2>8. sock'[n] = "connecting"
    BY <2>6 DEF Types
  <2> QED
    BY <2>1, <2>5, <2>6, <2>7, <2>8 DEF SocketLife
<1>9. ASSUME NEW s \in Sockets, ReceivePeerMessage(s) \/ ProcessPeerMessage(s) PROVE SocketLife'
  BY <1>1, <1>9, Zenon DEF ReceivePeerMessage, ProcessPeerMessage
<1>10. ASSUME NEW w \in Waiters, PollReady(w) PROVE SocketLife'
  BY <1>1, <1>10, Zenon DEF PollReady
<1>11. ASSUME NEW r \in Requests, Request(r) PROVE SocketLife'
  BY <1>1, <1>11, Zenon DEF Request
<1>12. ASSUME NEW t \in tasks, Handle(t) PROVE SocketLife'
  BY <1>1, <1>12, Zenon DEF Handle, StartRequest, FinishRequest, HandleResponse
<1>13. CASE UNCHANGED vars
  BY <1>1, <1>13 DEF vars
<1> QED
  BY <1>2, <1>3, <1>4, <1>5, <1>6, <1>7, <1>8, <1>9, <1>10, <1>11, <1>12, <1>13
     DEF Next, Client, Server

\* A message that is sent over a usable socket never comes before the presence.
LEMMA SendGreeted ==
    ASSUME Types, SocketLife, Greeted, NEW end \in Ends, NEW s \in Sockets,
           NEW msg \in PeerMessages, Usable(end, s), Send(end, s, msg),
           UNCHANGED <<sock, cstate, handler>>
    PROVE  Greeted'
<1>1. CASE sock[s] # "up"
  <2>1. inbox' = inbox
    BY <1>1 DEF Send, Put
  <2> QED
    BY <2>1 DEF Greeted, Reached, Greets
<1>2. CASE sock[s] = "up"
  <2>1. PICK o \in Ends : o = Other(end) /\ Put(o, s, msg)
    BY DEF Send, Other, Ends
  <2>2. /\ inbox'[o][s] = Append(inbox[o][s], msg)
        /\ \A e \in Ends, z \in Sockets : e # o \/ z # s => inbox'[e][z] = inbox[e][z]
    BY <1>2, <2>1 DEF Put, Types
  <2>3. /\ inbox'[o][s] # <<>>
        /\ inbox[o][s] # <<>> => Head(inbox'[o][s]) = Head(inbox[o][s])
    BY <2>2, AppendGreets, QueueTypes, MessageTypes
  <2>4. \A z \in Sockets \ {s} : inbox'["client"][z] = inbox["client"][z]
                                /\ inbox'["server"][z] = inbox["server"][z]
    BY <2>2, TwoEnds
  <2>5. CASE end = "client"
    <3>1. cstate[s] = "Connected"
      BY <1>2, <2>5 DEF SocketLife, Usable, Types
    <3>2. inbox'["client"][s] = inbox["client"][s]
      BY <2>1, <2>2, <2>5, TwoEnds DEF Other
    <3>3. handler[s] = "Initial" => inbox["server"][s] # <<>> /\ Greets(inbox["server"][s])
      BY <1>2, <3>1 DEF Greeted
    <3>4. /\ inbox'["server"][s] # <<>>
          /\ inbox["server"][s] # <<>> => Head(inbox'["server"][s]) = Head(inbox["server"][s])
      BY <2>1, <2>3, <2>5 DEF Other
    <3> QED
      BY <1>2, <2>4, <3>1, <3>2, <3>3, <3>4 DEF Greeted, Greets, Reached
  <2>6. CASE end = "server"
    <3>1. inbox'["server"][s] = inbox["server"][s]
      BY <2>1, <2>2, <2>6, TwoEnds DEF Other
    <3>2. cstate[s] = "Connecting" => inbox["client"][s] # <<>> /\ Greets(inbox["client"][s])
      BY <1>2 DEF Greeted
    <3>3. /\ inbox'["client"][s] # <<>>
          /\ inbox["client"][s] # <<>> => Head(inbox'["client"][s]) = Head(inbox["client"][s])
      BY <2>1, <2>3, <2>6, TwoEnds DEF Other
    <3> QED
      BY <1>2, <2>4, <3>1, <3>2, <3>3 DEF Greeted, Greets, Reached
  <2> QED
    BY <2>5, <2>6 DEF Ends
<1> QED
  BY <1>1, <1>2

LEMMA GreetedStep ==
    ASSUME Types, InOrder, OneConnection, SocketLife, Greeted, Registered, [Next]_vars
    PROVE  Greeted'
<1> USE DEF netVars, clientVars, requestVars
<1>1. ASSUME UNCHANGED <<inbox, cstate, handler, sock>> PROVE Greeted'
  BY <1>1 DEF Greeted, Greets, Reached
<1>2. ASSUME NEW s \in Sockets, Accept(s) PROVE Greeted'
  <2>1. /\ sock[s] = "connecting" /\ sock' = [sock EXCEPT ![s] = "up"]
        /\ handler' = [handler EXCEPT ![s] = "Initial"] /\ cstate' = cstate
        /\ inbox' = [inbox EXCEPT !["client"][s] = <<Presence>>]
    BY <1>2, Zenon DEF Accept, Greeting
  <2>2. inbox["server"][s] = <<>> /\ cstate[s] = "Connecting"
    BY <2>1 DEF Greeted, Reached, SocketLife
  <2>3. inbox'["client"][s] = <<Presence>> /\ inbox'["server"][s] = <<>>
    BY <2>1, <2>2, TwoEnds DEF Types
  <2>4. \A z \in Sockets \ {s} : /\ inbox'["client"][z] = inbox["client"][z]
                                /\ inbox'["server"][z] = inbox["server"][z]
                                /\ sock'[z] = sock[z] /\ handler'[z] = handler[z]
    BY <2>1, TwoEnds DEF Types
  <2>5. <<Presence>> # <<>> /\ Head(<<Presence>>) = Presence
    OBVIOUS
  <2>6. sock'[s] = "up" /\ cstate'[s] = "Connecting"
    BY <2>1, <2>2 DEF Types
  <2> QED
    BY <2>1, <2>3, <2>4, <2>5, <2>6 DEF Greeted, Greets, Reached
<1>3. ASSUME NEW s \in Sockets, Break(s) PROVE Greeted'
  <2>1. /\ sock' = [sock EXCEPT ![s] = "broken"] /\ UNCHANGED <<inbox, cstate, handler>>
    BY <1>3, Zenon DEF Break
  <2> QED
    BY <2>1 DEF Greeted, Greets, Reached, Types
<1>4. ASSUME NEW s \in Sockets, HandleError(s) \/ HandleClose(s) PROVE Greeted'
  <2>1. PICK new \in {"Error", "Closed"} : SetState(s, new)
    BY <1>4, Zenon DEF HandleError, HandleClose
  <2>2. sock[s] = "broken" /\ UNCHANGED <<sock, inbox, handler>>
    BY <1>4, Zenon DEF HandleError, HandleClose
  <2>3. cstate' = [cstate EXCEPT ![s] = new]
    BY <2>1, Zenon DEF SetState
  <2> QED
    BY <2>2, <2>3 DEF Greeted, Greets, Reached, Types
<1>5. ASSUME NEW s \in Sockets, ReceivePresence(s) PROVE Greeted'
  <2>1. /\ noticed[s] = "no" /\ inbox["client"][s] # <<>> /\ UNCHANGED <<sock, handler>>
        /\ cstate' = [cstate EXCEPT ![s] = "Connected"]
        /\ inbox' = [inbox EXCEPT !["client"][s] = Tail(@),
                                  !["server"][s] = IF s = current /\ sock[s] = "up"
                                                   THEN Append(@, Presence) ELSE @]
    BY <1>5, Zenon DEF ReceivePresence, SetState
  <2>2. Reached(s) /\ s = current
    BY <2>1 DEF Greeted, SocketLife, Reached
  <2>3. /\ inbox'["server"][s] = IF sock[s] = "up" THEN Append(inbox["server"][s], Presence)
                                 ELSE inbox["server"][s]
        /\ \A z \in Sockets \ {s} : /\ inbox'["client"][z] = inbox["client"][z]
                                    /\ inbox'["server"][z] = inbox["server"][z]
    BY <2>1, <2>2, TwoEnds DEF Types
  <2>4. sock[s] = "up" => inbox'["server"][s] # <<>>
    BY <2>3, AppendGreets, QueueTypes, MessageTypes, TwoEnds
  <2>5. Greets(inbox["server"][s]) => Greets(inbox'["server"][s])
    BY <2>3, AppendGreets, QueueTypes, MessageTypes, TwoEnds DEF Greets
  <2>6. \A z \in Sockets : cstate'[z] = IF z = s THEN "Connected" ELSE cstate[z]
    BY <2>1 DEF Types
  <2>7. handler[s] = "Initial" => Greets(inbox'["server"][s])
    BY <2>5 DEF Greeted
  <2>8. \A z \in Sockets : Reached(z)' <=> Reached(z)
    BY <2>1 DEF Reached
  <2>9. ASSUME NEW z \in Sockets
        PROVE  /\ ~Reached(z)' => inbox'["client"][z] = <<>> /\ inbox'["server"][z] = <<>>
               /\ cstate'[z] = "Connecting" => Greets(inbox'["client"][z])
               /\ cstate'[z] = "Connecting" /\ sock'[z] = "up" => inbox'["client"][z] # <<>>
               /\ handler'[z] = "Initial" => Greets(inbox'["server"][z])
               /\ handler'[z] = "Initial" /\ sock'[z] = "up" /\ cstate'[z] = "Connected"
                    => inbox'["server"][z] # <<>>
    <3>1. CASE z = s
      BY <2>1, <2>2, <2>4, <2>6, <2>7, <2>8, <3>1
    <3>2. CASE z # s
      <4>1. inbox'["client"][z] = inbox["client"][z] /\ inbox'["server"][z] = inbox["server"][z]
        BY <2>3, <3>2
      <4> QED
        BY <2>1, <2>6, <2>8, <3>2, <4>1 DEF Greeted
    <3> QED
      BY <3>1, <3>2
  <2> QED
    BY <2>9 DEF Greeted, Greets
<1>6. ASSUME NEW s \in Sockets, ReceivePeerMessage(s) PROVE Greeted'
  <2>1. /\ inbox["client"][s] # <<>> /\ Head(inbox["client"][s]) # Presence
        /\ Take("client", s) /\ UNCHANGED <<sock, cstate, handler>>
    BY <1>6, Zenon DEF ReceivePeerMessage
  <2>2. cstate[s] # "Connecting" /\ Reached(s)
    BY <2>1 DEF Greeted, Greets
  <2>3. \A z \in Sockets : /\ z # s => inbox'["client"][z] = inbox["client"][z]
                           /\ inbox'["server"][z] = inbox["server"][z]
    BY <2>1, TakeQueue, TwoEnds
  <2> QED
    BY <2>1, <2>2, <2>3 DEF Greeted, Reached
<1>7. ASSUME NEW s \in Sockets, ProcessPresence(s) PROVE Greeted'
  <2>1. /\ inbox["server"][s] # <<>> /\ handler' = [handler EXCEPT ![s] = "Established"]
        /\ Take("server", s) /\ UNCHANGED <<sock, cstate>>
    BY <1>7, Zenon DEF ProcessPresence
  <2>2. Reached(s)
    BY <2>1 DEF Greeted
  <2>3. \A z \in Sockets : /\ z # s => inbox'["server"][z] = inbox["server"][z]
                           /\ inbox'["client"][z] = inbox["client"][z]
                           /\ handler'[z] = IF z = s THEN "Established" ELSE handler[z]
    BY <2>1, TakeQueue, TwoEnds DEF Types
  <2> QED
    BY <2>1, <2>2, <2>3 DEF Greeted, Reached
<1>8. ASSUME NEW s \in Sockets, ProcessPeerMessage(s) PROVE Greeted'
  <2>1. /\ inbox["server"][s] # <<>> /\ Head(inbox["server"][s]) # Presence
        /\ Take("server", s) /\ UNCHANGED <<sock, cstate, handler>>
    BY <1>8, Zenon DEF ProcessPeerMessage
  <2>2. handler[s] # "Initial" /\ Reached(s)
    BY <2>1 DEF Greeted, Greets
  <2>3. \A z \in Sockets : /\ z # s => inbox'["server"][z] = inbox["server"][z]
                           /\ inbox'["client"][z] = inbox["client"][z]
    BY <2>1, TakeQueue, TwoEnds
  <2> QED
    BY <2>1, <2>2, <2>3 DEF Greeted, Reached
<1>9. ASSUME NEW s \in Sockets, SocketEnds(s) PROVE Greeted'
  <2>1. handler' = [handler EXCEPT ![s] = "done"] /\ UNCHANGED <<inbox, sock, cstate>>
    BY <1>9, Zenon DEF SocketEnds
  <2> QED
    BY <2>1 DEF Greeted, Greets, Reached, Types
<1>10. CASE Reconnect
  <2>1. PICK n \in Sockets : n = current'
    BY <1>10 DEF Reconnect
  <2>2. sock' = [sock EXCEPT ![n] = "connecting"] /\ UNCHANGED <<inbox, cstate, handler>>
    BY <1>10, <2>1 DEF Reconnect
  <2>3. sock[n] = "none"
    BY <1>10, <2>1, ReconnectMakes
  <2>4. \A z \in Sockets : (Reached(z)' <=> Reached(z)) /\ (sock'[z] = "up" => sock[z] = "up")
    BY <2>2, <2>3 DEF Reached, Types
  <2> QED
    BY <2>2, <2>4 DEF Greeted, Greets
<1>11. ASSUME NEW r \in Requests, Request(r) PROVE Greeted'
  <2>1. UNCHANGED <<sock, cstate, handler>>
    BY <1>11, Zenon DEF Request
  <2>2. CASE UNCHANGED <<inbox, used>>
    BY <1>1, <2>1, <2>2
  <2>3. CASE \E end \in Ends, s \in Sockets :
                Usable(end, s) /\ Send(end, s, Message("request", r))
    <3>1. Message("request", r) \in PeerMessages
      BY MessageTypes
    <3> QED
      BY <2>1, <2>3, <3>1, SendGreeted
  <2> QED
    BY <1>11, <2>2, <2>3, RequestSends
<1>12. ASSUME NEW t \in tasks, FinishRequest(t) PROVE Greeted'
  <2>1. UNCHANGED <<sock, cstate, handler>>
    BY <1>12, Zenon DEF FinishRequest
  <2>2. Message("response", t.msg.id) \in PeerMessages
    BY <1>12, FinishSends, MessageTypes
  <2> QED
    BY <1>12, <2>1, <2>2, FinishSends, SendGreeted
<1>13. ASSUME NEW t \in tasks, StartRequest(t) \/ HandleResponse(t) PROVE Greeted'
  BY <1>1, <1>13, Zenon DEF StartRequest, HandleResponse
<1>14. ASSUME NEW w \in Waiters, PollReady(w) PROVE Greeted'
  BY <1>1, <1>14, Zenon DEF PollReady
<1>15. CASE UNCHANGED vars
  BY <1>1, <1>15 DEF vars
<1> QED
  BY <1>2, <1>3, <1>4, <1>5, <1>6, <1>7, <1>8, <1>9, <1>10, <1>11, <1>12, <1>13, <1>14, <1>15
     DEF Next, Client, Server, Handle

-----------------------------------------------------------------------------
(* Registrations *)

LEMMA UsableStays ==
    ASSUME Types, InOrder, [Next]_vars, NEW end \in Ends, NEW z \in Sockets, Usable(end, z)
    PROVE  Usable(end, z)'
<1> USE DEF netVars, clientVars, requestVars
<1>1. Reached(z)'
  <2>1. sock[z] \in {"up", "broken"}
    BY DEF Usable, Reached
  <2>2. CASE UNCHANGED sock
    BY <2>1, <2>2 DEF Reached
  <2>3. ASSUME NEW s \in Sockets, Accept(s) \/ Break(s) PROVE Reached(z)'
    BY <2>1, <2>3 DEF Accept, Break, Reached, Types
  <2>4. CASE Reconnect
    <3>1. PICK n \in Sockets : n = current'
      BY <2>4 DEF Reconnect
    <3>2. sock' = [sock EXCEPT ![n] = "connecting"]
      BY <2>4, <3>1 DEF Reconnect
    <3>3. sock[n] = "none"
      BY <2>4, <3>1, ReconnectMakes
    <3> QED
      BY <2>1, <3>2, <3>3 DEF Reached, Types
  <2>5. ASSUME NEW s \in Sockets, Client(s) \/ Server(s) PROVE UNCHANGED sock
    BY <2>5, Zenon DEF Client, HandleError, HandleClose, ReceivePresence, ReceivePeerMessage,
       Server, ProcessPresence, ProcessPeerMessage, SocketEnds
  <2>6. ASSUME NEW w \in Waiters, PollReady(w) PROVE UNCHANGED sock
    BY <2>6, Zenon DEF PollReady
  <2>7. ASSUME NEW r \in Requests, Request(r) PROVE UNCHANGED sock
    BY <2>7, Zenon DEF Request
  <2>8. ASSUME NEW t \in tasks, Handle(t) PROVE UNCHANGED sock
    BY <2>8, Zenon DEF Handle, StartRequest, FinishRequest, HandleResponse
  <2>9. UNCHANGED vars => UNCHANGED sock
    BY DEF vars
  <2> QED
    BY <2>2, <2>3, <2>4, <2>5, <2>6, <2>7, <2>8, <2>9 DEF Next
<1>2. cstate[z] # "Connecting" => cstate'[z] # "Connecting"
  <2>1. ASSUME NEW s \in Sockets, NEW new \in {"Connected", "Closed", "Error"}, SetState(s, new)
        PROVE  cstate[z] # "Connecting" => cstate'[z] # "Connecting"
    <3>1. cstate' = [cstate EXCEPT ![s] = new]
      BY <2>1, Zenon DEF SetState
    <3> QED
      BY <3>1 DEF Types
  <2>2. ASSUME NEW s \in Sockets, Client(s)
        PROVE  \/ \E new \in {"Connected", "Closed", "Error"} : SetState(s, new)
               \/ UNCHANGED cstate
    BY <2>2, Zenon DEF Client, HandleError, HandleClose, ReceivePresence, ReceivePeerMessage
  <2>3. ASSUME NEW s \in Sockets, Accept(s) \/ Break(s) \/ Server(s) PROVE UNCHANGED cstate
    BY <2>3, Zenon DEF Accept, Break, Server, ProcessPresence, ProcessPeerMessage, SocketEnds
  <2>4. Reconnect => UNCHANGED cstate
    BY DEF Reconnect
  <2>5. ASSUME NEW w \in Waiters, PollReady(w) PROVE UNCHANGED cstate
    BY <2>5, Zenon DEF PollReady
  <2>6. ASSUME NEW r \in Requests, Request(r) PROVE UNCHANGED cstate
    BY <2>6, Zenon DEF Request
  <2>7. ASSUME NEW t \in tasks, Handle(t) PROVE UNCHANGED cstate
    BY <2>7, Zenon DEF Handle, StartRequest, FinishRequest, HandleResponse
  <2>8. UNCHANGED vars => UNCHANGED cstate
    BY DEF vars
  <2> QED
    BY <2>1, <2>2, <2>3, <2>4, <2>5, <2>6, <2>7, <2>8 DEF Next
<1> QED
  BY <1>1, <1>2 DEF Usable

LEMMA RegisteredStep ==
    ASSUME Types, InOrder, OneConnection, SocketLife, Greeted, Registered, [Next]_vars
    PROVE  Registered'
<1> USE DEF netVars, clientVars, requestVars
<1>1. ASSUME UNCHANGED <<peer, tasks>>,
             \A s \in Sockets : cstate'[s] = "Connected" /\ noticed'[s] = "no"
                                  => cstate[s] = "Connected" /\ noticed[s] = "no"
      PROVE  Registered'
  <2>1. \A end \in Ends : peer[end] \in Sockets \cup {0}
    BY DEF Types
  <2>2. \A t \in tasks : t.at \in Ends /\ t.reply \in Sockets \cup {0}
    BY DEF Types
  <2> QED
    BY <1>1, <2>1, <2>2, UsableStays DEF Registered
<1>2. ASSUME tasks' \subseteq tasks, UNCHANGED <<peer, cstate, noticed>> PROVE Registered'
  <2>1. \A end \in Ends : peer[end] \in Sockets \cup {0}
    BY DEF Types
  <2>2. \A t \in tasks : t.at \in Ends /\ t.reply \in Sockets \cup {0}
    BY DEF Types
  <2> QED
    BY <1>2, <2>1, <2>2, UsableStays DEF Registered
<1>3. /\ \A end \in Ends : peer[end] \in Sockets \cup {0}
      /\ \A end \in Ends, z \in Sockets : peer[end] = z => Usable(end, z)'
  <2>1. \A end \in Ends : peer[end] \in Sockets \cup {0}
    BY DEF Types
  <2>2. \A z \in Sockets : z # 0
    BY DEF Sockets
  <2> QED
    BY <2>1, <2>2, UsableStays DEF Registered
<1>4. \A t \in tasks : t.reply # 0 => Usable(t.at, t.reply)'
  <2>1. \A t \in tasks : t.at \in Ends /\ t.reply \in Sockets \cup {0}
    BY DEF Types
  <2> QED
    BY <2>1, UsableStays DEF Registered
<1>5. ASSUME NEW s \in Sockets, HandleError(s) \/ HandleClose(s) PROVE Registered'
  <2>1. PICK new \in {"Error", "Closed"} : SetState(s, new)
    BY <1>5, Zenon DEF HandleError, HandleClose
  <2>2. /\ UNCHANGED <<peer, tasks>>
        /\ \E ev \in {"error", "closed"} : noticed' = [noticed EXCEPT ![s] = ev]
    BY <1>5, Zenon DEF HandleError, HandleClose
  <2>3. cstate' = [cstate EXCEPT ![s] = new]
    BY <2>1, Zenon DEF SetState
  <2> QED
    BY <1>1, <2>2, <2>3 DEF Types
<1>6. ASSUME NEW s \in Sockets, ReceivePresence(s) PROVE Registered'
  <2>1. /\ noticed[s] = "no" /\ inbox["client"][s] # <<>> /\ UNCHANGED <<sock, noticed, tasks>>
        /\ cstate' = [cstate EXCEPT ![s] = "Connected"] /\ peer' = RegisterServer(s)
    BY <1>6, Zenon DEF ReceivePresence, SetState
  <2>2. Reached(s) /\ s = current
    BY <2>1 DEF Greeted, SocketLife, Reached
  <2>3. /\ peer'["client"] = s /\ peer'["server"] = peer["server"] /\ s # 0
        /\ cstate'[s] = "Connected"
    BY <2>1, <2>2, TwoEnds DEF RegisterServer, Types, Sockets
  <2>4. Usable("client", s)'
    BY <2>1, <2>2, <2>3 DEF Usable, Reached
  <2>5. \A end \in Ends : peer'[end] # 0 => Usable(end, peer[end])'
    BY <1>3, <2>3, <2>4 DEF Ends
  <2> QED
    BY <1>4, <2>1, <2>3, <2>5 DEF Registered
<1>7. ASSUME NEW s \in Sockets, ReceivePeerMessage(s) PROVE Registered'
  <2>1. /\ noticed[s] = "no" /\ inbox["client"][s] # <<>> /\ Head(inbox["client"][s]) # Presence
        /\ tasks' = tasks \cup {[at |-> "client", msg |-> Head(inbox["client"][s]), reply |-> 0]}
        /\ UNCHANGED <<peer, cstate, noticed>>
    BY <1>7, Zenon DEF ReceivePeerMessage
  <2>2. cstate[s] = "Connected"
    BY <2>1 DEF Greeted, Greets, SocketLife
  <2>3. peer["client"] # 0
    BY <2>1, <2>2 DEF Registered
  <2> QED
    BY <1>3, <1>4, <2>1, <2>3 DEF Registered
<1>8. ASSUME NEW s \in Sockets, ProcessPeerMessage(s) PROVE Registered'
  <2>1. /\ tasks' \subseteq tasks
                    \cup {[at |-> "server", msg |-> Head(inbox["server"][s]), reply |-> 0]}
        /\ UNCHANGED <<peer, cstate, noticed>>
    BY <1>8 DEF ProcessPeerMessage
  <2> QED
    BY <1>3, <1>4, <2>1, TwoEnds DEF Registered
<1>9. ASSUME NEW s \in Sockets, NEW p \in {0, s}, peer' = [peer EXCEPT !["server"] = p],
             p # 0 => Reached(s), UNCHANGED <<sock, tasks, cstate, noticed>>
      PROVE  Registered'
  <2>1. peer'["server"] = p /\ peer'["client"] = peer["client"]
    BY <1>9, TwoEnds DEF Types
  <2>2. p # 0 => Usable("server", p)'
    BY <1>9, TwoEnds DEF Usable, Reached
  <2>3. \A end \in Ends : peer'[end] # 0 => Usable(end, peer[end])'
    BY <1>3, <2>1, <2>2 DEF Ends
  <2> QED
    BY <1>4, <1>9, <2>1, <2>3 DEF Registered
<1>10. ASSUME NEW s \in Sockets, ProcessPresence(s) PROVE Registered'
  <2>1. /\ inbox["server"][s] # <<>> /\ UNCHANGED <<sock, tasks, cstate, noticed>>
        /\ peer' = peer \/ peer' = [peer EXCEPT !["server"] = s]
    BY <1>10, Zenon DEF ProcessPresence, RegisterClient
  <2>2. Reached(s)
    BY <2>1 DEF Greeted
  <2> QED
    BY <1>2, <1>9, <2>1, <2>2
<1>11. ASSUME NEW s \in Sockets, SocketEnds(s) PROVE Registered'
  <2>1. /\ UNCHANGED <<sock, tasks, cstate, noticed>>
        /\ peer' = peer \/ peer' = [peer EXCEPT !["server"] = 0]
    BY <1>11, Zenon DEF SocketEnds
  <2> QED
    BY <1>2, <1>9, <2>1
<1>12. ASSUME NEW t \in tasks, StartRequest(t) PROVE Registered'
  <2>1. t \in [at : Ends, msg : PeerMessages, reply : Sockets \cup {0}]
    BY DEF Types
  <2>2. tasks' \subseteq tasks \cup {[t EXCEPT !.reply = peer[t.at]]}
    BY <1>12 DEF StartRequest
  <2>3. UNCHANGED <<peer, cstate, noticed>>
    BY <1>12, Zenon DEF StartRequest
  <2>4. PICK u : u = [t EXCEPT !.reply = peer[t.at]]
    OBVIOUS
  <2>5. u.at = t.at /\ u.reply = peer[t.at]
    BY <2>1, <2>4
  <2>6. u.reply # 0 => Usable(u.at, u.reply)'
    BY <1>3, <2>1, <2>5
  <2>7. u.at = "client" => peer["client"] # 0
    BY <2>5 DEF Registered
  <2> QED
    BY <1>3, <1>4, <2>2, <2>3, <2>4, <2>6, <2>7 DEF Registered
<1>13. ASSUME NEW t \in tasks, FinishRequest(t) \/ HandleResponse(t) PROVE Registered'
  <2>1. tasks' \subseteq tasks
    BY <1>13 DEF FinishRequest, HandleResponse
  <2>2. UNCHANGED <<peer, cstate, noticed>>
    BY <1>13, Zenon DEF FinishRequest, HandleResponse
  <2> QED
    BY <1>2, <2>1, <2>2
<1>14. ASSUME NEW s \in Sockets, Accept(s) \/ Break(s) PROVE Registered'
  <2>1. UNCHANGED <<peer, tasks, cstate, noticed>>
    BY <1>14, Zenon DEF Accept, Break
  <2> QED
    BY <1>2, <2>1
<1>15. CASE Reconnect
  BY <1>1, <1>15 DEF Reconnect
<1>16. ASSUME NEW w \in Waiters, PollReady(w) PROVE Registered'
  <2>1. UNCHANGED <<peer, tasks, cstate, noticed>>
    BY <1>16, Zenon DEF PollReady
  <2> QED
    BY <1>2, <2>1
<1>17. ASSUME NEW r \in Requests, Request(r) PROVE Registered'
  <2>1. UNCHANGED <<peer, tasks, cstate, noticed>>
    BY <1>17, Zenon DEF Request
  <2> QED
    BY <1>2, <2>1
<1>18. CASE UNCHANGED vars
  BY <1>1, <1>18 DEF vars
<1> QED
  BY <1>5, <1>6, <1>7, <1>8, <1>10, <1>11, <1>12, <1>13, <1>14, <1>15, <1>16, <1>17, <1>18
     DEF Next, Client, Server, Handle

LEMMA UncrossedStep ==
    ASSUME Types, InOrder, OneConnection, SocketLife, Uncrossed, [Next]_vars
    PROVE  Uncrossed'
<1> USE DEF netVars, clientVars, requestVars
\* An unbroken socket is the last one that was made.
<1>1. ASSUME NEW s \in Sockets, sock[s] = "up", NEW z \in Sockets, sock[z] # "none", z # s
      PROVE  z < s
  <2>1. s = current
    BY <1>1 DEF SocketLife
  <2>2. current = Cardinality(Made)
    BY <2>1 DEF OneConnection, Sockets
  <2>3. z \in 1..Cardinality(Made)
    BY <1>1 DEF InOrder, Made
  <2> QED
    BY <1>1, <2>1, <2>2, <2>3 DEF Sockets, InOrder
<1>2. ASSUME crossed = TRUE => crossed' = TRUE, peer'["server"] = peer["server"],
             \A s \in Sockets : handler'[s] = "Established" /\ sock'[s] = "up"
                                  => handler[s] = "Established" /\ sock[s] = "up"
      PROVE  Uncrossed'
  BY <1>2 DEF Uncrossed
<1>3. ASSUME NEW s \in Sockets, ProcessPresence(s) PROVE Uncrossed'
  <2>1. /\ handler[s] \in {"Initial", "Established"} /\ UNCHANGED sock
        /\ handler' = [handler EXCEPT ![s] = "Established"]
    BY <1>3, Zenon DEF ProcessPresence
  <2>2. CASE handler[s] = "Initial"
    <3>1. /\ peer' = [peer EXCEPT !["server"] = s]
          /\ crossed' = (crossed \/ peer["server"] > s
                           \/ \E z \in Sockets : z > s /\ handler[z] = "Established")
      BY <1>3, <2>2, Zenon DEF ProcessPresence, RegisterClient
    <3>2. ASSUME NEW z \in Sockets, z # s, handler[z] = "Established", sock[z] = "up"
          PROVE  s < z
      BY <1>1, <2>1, <3>2 DEF SocketLife
    <3>3. crossed = TRUE => crossed' = TRUE
      BY <3>1, Zenon
    <3>4. (\E z \in Sockets : z > s /\ handler[z] = "Established") => crossed' = TRUE
      BY <3>1, Zenon
    <3>5. peer'["server"] = s
      BY <3>1, TwoEnds DEF Types
    <3>6. \A z \in Sockets : z # s => handler'[z] = handler[z]
      BY <2>1 DEF Types
    <3> QED
      BY <2>1, <3>2, <3>3, <3>4, <3>5, <3>6 DEF Uncrossed, Sockets
  <2>3. CASE handler[s] = "Established"
    <3>1. UNCHANGED <<peer, crossed>>
      BY <1>3, <2>3, Zenon DEF ProcessPresence
    <3> QED
      BY <1>2, <2>1, <2>3, <3>1 DEF Types
  <2> QED
    BY <2>1, <2>2, <2>3
<1>4. ASSUME NEW s \in Sockets, SocketEnds(s) PROVE Uncrossed'
  <2>1. /\ sock[s] = "broken" /\ UNCHANGED sock
        /\ handler' = [handler EXCEPT ![s] = "done"]
    BY <1>4, Zenon DEF SocketEnds
  <2>2. \A z \in Sockets : /\ handler'[z] = "Established" => handler[z] = "Established"
                           /\ sock'[z] = "up" => z # s
    BY <2>1 DEF Types
  <2>3. CASE handler[s] = "Established"
    <3>1. crossed' = (crossed \/ peer["server"] \notin {0, s})
      BY <1>4, <2>3, Zenon DEF SocketEnds
    <3>2. crossed = TRUE => crossed' = TRUE
      BY <3>1, Zenon
    <3>3. peer["server"] \notin {0, s} => crossed' = TRUE
      BY <3>1, Zenon
    <3> QED
      BY <2>1, <2>2, <3>2, <3>3 DEF Uncrossed, Sockets
  <2>4. CASE handler[s] # "Established"
    <3>1. UNCHANGED <<peer, crossed>>
      BY <1>4, <2>4, Zenon DEF SocketEnds
    <3> QED
      BY <1>2, <2>1, <2>2, <3>1
  <2> QED
    BY <2>3, <2>4
<1>5. ASSUME NEW s \in Sockets, Accept(s) PROVE Uncrossed'
  <2>1. /\ handler' = [handler EXCEPT ![s] = "Initial"] /\ sock' = [sock EXCEPT ![s] = "up"]
        /\ UNCHANGED <<peer, crossed>>
    BY <1>5, Zenon DEF Accept
  <2> QED
    BY <1>2, <2>1 DEF Types
<1>6. ASSUME NEW s \in Sockets, Break(s) PROVE Uncrossed'
  <2>1. sock' = [sock EXCEPT ![s] = "broken"] /\ UNCHANGED <<handler, peer, crossed>>
    BY <1>6, Zenon DEF Break
  <2> QED
    BY <1>2, <2>1 DEF Types
<1>7. CASE Reconnect
  <2>1. PICK n \in Sockets : n = current'
    BY <1>7 DEF Reconnect
  <2>2. sock' = [sock EXCEPT ![n] = "connecting"] /\ UNCHANGED <<handler, peer, crossed>>
    BY <1>7, <2>1 DEF Reconnect
  <2> QED
    BY <1>2, <2>2 DEF Types
<1>8. ASSUME NEW s \in Sockets, Client(s) PROVE Uncrossed'
  <2>1. UNCHANGED <<sock, handler, crossed>>
    BY <1>8, Zenon DEF Client, HandleError, HandleClose, ReceivePresence, ReceivePeerMessage
  <2>2. peer' = peer \/ peer' = [peer EXCEPT !["client"] = s]
    BY <1>8, Zenon DEF Client, HandleError, HandleClose, ReceivePresence, ReceivePeerMessage,
       RegisterServer
  <2>3. peer'["server"] = peer["server"]
    BY <2>2, TwoEnds DEF Types
  <2> QED
    BY <1>2, <2>1, <2>3
<1>9. ASSUME UNCHANGED <<sock, handler, peer, crossed>> PROVE Uncrossed'
  BY <1>2, <1>9
<1>10. ASSUME NEW s \in Sockets, ProcessPeerMessage(s) PROVE Uncrossed'
  BY <1>9, <1>10, Zenon DEF ProcessPeerMessage
<1>11. ASSUME NEW w \in Waiters, PollReady(w) PROVE Uncrossed'
  BY <1>9, <1>11, Zenon DEF PollReady
<1>12. ASSUME NEW r \in Requests, Request(r) PROVE Uncrossed'
  BY <1>9, <1>12, Zenon DEF Request
<1>13. ASSUME NEW t \in tasks, Handle(t) PROVE Uncrossed'
  BY <1>9, <1>13, Zenon DEF Handle, StartRequest, FinishRequest, HandleResponse
<1>14. CASE UNCHANGED vars
  BY <1>9, <1>14 DEF vars
<1> QED
  BY <1>3, <1>4, <1>5, <1>6, <1>7, <1>8, <1>10, <1>11, <1>12, <1>13, <1>14 DEF Next, Server

-----------------------------------------------------------------------------
(* Where the requests are *)

\* What the first message of a queue and the rest of it hold
LEMMA TakeSlots ==
    ASSUME Types, NEW e \in Ends, NEW s \in Sockets, inbox[e][s] # <<>>,
           inbox'[e][s] = Tail(inbox[e][s]), NEW r \in Requests
    PROVE  /\ \A i \in Slots(e, s, r)' : i + 1 \in Slots(e, s, r)
           /\ \A i \in Slots(e, s, r) : i # 1 => i - 1 \in Slots(e, s, r)'
           /\ 1 \in Slots(e, s, r) <=> Head(inbox[e][s]) # Presence /\ Head(inbox[e][s]).id = r
           /\ \A i \in Slots(e, s, r) \cup Slots(e, s, r)' : i \in Nat \ {0}
<1> DEFINE q == inbox[e][s]
<1>1. q \in Seq(Messages) /\ Len(q) \in Nat \ {0} /\ Head(q) = q[1]
  BY QueueTypes
<1>2. /\ Len(Tail(q)) = Len(q) - 1
      /\ \A i \in 1..Len(Tail(q)) : Tail(q)[i] = q[i + 1]
  BY <1>1
<1>3. /\ Slots(e, s, r) = {i \in 1..Len(q) : q[i] # Presence /\ q[i].id = r}
      /\ Slots(e, s, r)' = {i \in 1..Len(Tail(q)) : Tail(q)[i] # Presence /\ Tail(q)[i].id = r}
  BY DEF Slots
<1> HIDE DEF q
<1>4. /\ \A i \in Slots(e, s, r)' : i + 1 \in Slots(e, s, r)
      /\ \A i \in Slots(e, s, r) : i # 1 => i - 1 \in Slots(e, s, r)'
      /\ 1 \in Slots(e, s, r) <=> Head(q) # Presence /\ Head(q).id = r
      /\ \A i \in Slots(e, s, r) \cup Slots(e, s, r)' : i \in Nat \ {0}
  BY <1>1, <1>2, <1>3
<1> QED
  BY <1>4 DEF q

LEMMA PutSlots ==
    ASSUME Types, NEW e \in Ends, NEW s \in Sockets, NEW m \in Messages,
           inbox'[e][s] = Append(inbox[e][s], m), NEW r \in Requests
    PROVE  Slots(e, s, r)' = Slots(e, s, r)
              \cup (IF m # Presence /\ m.id = r THEN {Len(inbox[e][s]) + 1} ELSE {})
<1> DEFINE q == inbox[e][s]
<1>1. q \in Seq(Messages) /\ Len(q) \in Nat
  BY QueueTypes
<1>2. /\ Len(Append(q, m)) = Len(q) + 1 /\ Append(q, m)[Len(q) + 1] = m
      /\ \A i \in 1..Len(q) : Append(q, m)[i] = q[i]
  BY <1>1
<1>3. /\ Slots(e, s, r) = {i \in 1..Len(q) : q[i] # Presence /\ q[i].id = r}
      /\ Slots(e, s, r)' = {i \in 1..Len(Append(q, m)) :
                              Append(q, m)[i] # Presence /\ Append(q, m)[i].id = r}
  BY DEF Slots
<1>4. 1..(Len(q) + 1) = 1..Len(q) \cup {Len(q) + 1}
  BY <1>1
<1> HIDE DEF q
<1>5. Slots(e, s, r)' = Slots(e, s, r)
              \cup (IF m # Presence /\ m.id = r THEN {Len(q) + 1} ELSE {})
  BY <1>1, <1>2, <1>3, <1>4
<1> QED
  BY <1>5 DEF q

LEMMA SameSlots ==
    ASSUME NEW e, NEW s, inbox'[e][s] = inbox[e][s], NEW r
    PROVE  Slots(e, s, r)' = Slots(e, s, r)
BY DEF Slots

\* A step that moves the messages of a request up in its queue at most
Shifted(e, s, r) ==
    /\ \/ \A i \in Slots(e, s, r)' : i \in Slots(e, s, r)
       \/ \A i \in Slots(e, s, r)' : i + 1 \in Slots(e, s, r)
    /\ \A i \in Slots(e, s, r)' : i \in Nat
    /\ Slots(e, s, r) # {} => Slots(e, s, r)' # {}

LEMMA SameShifted ==
    ASSUME Types, NEW e \in Ends, NEW s \in Sockets, NEW r, Slots(e, s, r)' = Slots(e, s, r)
    PROVE  Shifted(e, s, r)
<1>1. Len(inbox[e][s]) \in Nat
  BY QueueTypes
<1>2. \A i \in Slots(e, s, r) : i \in Nat
  BY <1>1 DEF Slots
<1> QED
  BY <1>2 DEF Shifted

LEMMA TakeShifted ==
    ASSUME Types, NEW e \in Ends, NEW s \in Sockets, inbox[e][s] # <<>>, Take(e, s),
           NEW r \in Requests, 1 \notin Slots(e, s, r), NEW f \in Ends, NEW z \in Sockets
    PROVE  Shifted(f, z, r)
<1>1. CASE f = e /\ z = s
  <2>1. inbox'[e][s] = Tail(inbox[e][s])
    BY TakeQueue
  <2> QED
    BY <1>1, <2>1, TakeSlots DEF Shifted
<1>2. CASE f # e \/ z # s
  <2>1. inbox'[f][z] = inbox[f][z]
    BY <1>2, TakeQueue
  <2> QED
    BY <2>1, SameSlots, SameShifted
<1> QED
  BY <1>1, <1>2

LEMMA UniqueKept ==
    ASSUME Types, Single, NEW r \in Requests,
           \A e \in Ends, s \in Sockets : Shifted(e, s, r)
    PROVE  \A e, f \in Ends, s, z \in Sockets :
              \A i \in Slots(e, s, r)', j \in Slots(f, z, r)' : e = f /\ s = z /\ i = j
<1> SUFFICES ASSUME NEW e \in Ends, NEW f \in Ends, NEW s \in Sockets, NEW z \in Sockets,
                    NEW i \in Slots(e, s, r)', NEW j \in Slots(f, z, r)'
             PROVE  e = f /\ s = z /\ i = j
  OBVIOUS
<1>1. PICK k \in {0, 1} : \A n \in Slots(e, s, r)' : n + k \in Slots(e, s, r)
  BY DEF Shifted
<1>2. PICK l \in {0, 1} : \A n \in Slots(f, z, r)' : n + l \in Slots(f, z, r)
  BY DEF Shifted
<1>3. e = f /\ s = z
  BY <1>1, <1>2 DEF Single
<1>4. j + k \in Slots(e, s, r) /\ i + k \in Slots(e, s, r)
  BY <1>1, <1>3
<1>5. i + k = j + k /\ i \in Nat /\ j \in Nat
  BY <1>3, <1>4 DEF Single, Shifted
<1> QED
  BY <1>3, <1>5

\* Steps that leave the tasks and the requests
LEMMA QueuesKept ==
    ASSUME Types, Single, UNCHANGED <<tasks, request>>,
           \A r \in Requests, e \in Ends, s \in Sockets : Shifted(e, s, r)
    PROVE  /\ Single'
           /\ \A r \in Requests : OnTheWay(r) \/ InHand(r) => OnTheWay(r)' \/ InHand(r)'
<1>1. \A t \in tasks : t.msg.id \in Requests
  BY MessageTypes DEF Types
<1>2. \A e \in Ends, s \in Sockets, r \in Requests : Slots(e, s, r)' # {} <=> Slots(e, s, r) # {}
  BY DEF Shifted
<1>3. Single'
  <2>1. \A t \in tasks, e \in Ends, s \in Sockets : Slots(e, s, t.msg.id)' = {}
    BY <1>1, <1>2 DEF Single
  <2>2. \A r \in Requests, e \in Ends, s \in Sockets :
            Slots(e, s, r)' # {} => request[r] = "waiting"
    BY <1>2 DEF Single
  <2>3. /\ \A t, u \in tasks : t.msg.id = u.msg.id => t = u
        /\ \A t \in tasks : request[t.msg.id] = "waiting"
    BY DEF Single
  <2> QED
    BY <2>1, <2>2, <2>3, UniqueKept DEF Single
<1> QED
  BY <1>2, <1>3 DEF OnTheWay, InHand

\* A message that leaves its queue for a task
LEMMA TakenByTask ==
    ASSUME Types, Single, NEW e \in Ends, NEW s \in Sockets, Take(e, s),
           inbox[e][s] # <<>>, Head(inbox[e][s]) # Presence, request' = request,
           tasks' = tasks \cup {[at |-> e, msg |-> Head(inbox[e][s]), reply |-> 0]}
    PROVE  /\ Single'
           /\ \A r \in Requests : OnTheWay(r) \/ InHand(r) => OnTheWay(r)' \/ InHand(r)'
<1>1. PICK m : m = Head(inbox[e][s])
  OBVIOUS
<1>2. m \in PeerMessages
  BY <1>1, QueueTypes DEF PeerMessages
<1>3. PICK q \in Requests : q = m.id
  BY <1>2, MessageTypes
<1>4. PICK n : n = [at |-> e, msg |-> m, reply |-> 0]
  OBVIOUS
<1>5. tasks' = tasks \cup {n} /\ n.msg.id = q
  BY <1>1, <1>3, <1>4
<1>6. inbox'[e][s] = Tail(inbox[e][s])
      /\ \A f \in Ends, z \in Sockets : f # e \/ z # s => inbox'[f][z] = inbox[f][z]
  BY TakeQueue
<1>7. 1 \in Slots(e, s, q)
  BY <1>1, <1>3, <1>6, TakeSlots
<1>8. \A f \in Ends, z \in Sockets : Slots(f, z, q)' = {}
  <2>1. Slots(e, s, q)' = {}
    <3>1. \A i \in Slots(e, s, q)' : i + 1 \in Slots(e, s, q) /\ i \in Nat \ {0}
      BY <1>6, TakeSlots
    <3> QED
      BY <1>7, <3>1 DEF Single
  <2>2. ASSUME NEW f \in Ends, NEW z \in Sockets, f # e \/ z # s PROVE Slots(f, z, q)' = {}
    <3>1. Slots(f, z, q)' = Slots(f, z, q)
      BY <1>6, <2>2, SameSlots
    <3> QED
      BY <1>7, <2>2, <3>1 DEF Single
  <2> QED
    BY <2>1, <2>2
<1>9. ASSUME NEW r \in Requests, r # q, NEW f \in Ends, NEW z \in Sockets
      PROVE  Shifted(f, z, r)
  <2>1. 1 \notin Slots(e, s, r)
    BY <1>1, <1>3, <1>6, <1>9, TakeSlots
  <2> QED
    BY <2>1, TakeShifted
<1>10. \A r \in Requests, f \in Ends, z \in Sockets :
          r # q => (Slots(f, z, r)' # {} <=> Slots(f, z, r) # {})
  BY <1>9 DEF Shifted
<1>11. \A t \in tasks : t.msg.id \in Requests /\ t.msg.id # q
  BY <1>7, MessageTypes DEF Types, Single
<1>12. request[q] = "waiting"
  BY <1>7 DEF Single
<1>13. Single'
  <2>1. ASSUME NEW r \in Requests
        PROVE  \A f, g \in Ends, y, z \in Sockets :
                  \A i \in Slots(f, y, r)', j \in Slots(g, z, r)' : f = g /\ y = z /\ i = j
    BY <1>8, <1>9, UniqueKept
  <2>2. ASSUME NEW t \in tasks', NEW f \in Ends, NEW z \in Sockets
        PROVE  Slots(f, z, t.msg.id)' = {}
    <3>1. PICK r \in Requests : r = t.msg.id
      BY <1>5, <1>11
    <3>2. CASE r = q
      BY <1>8, <3>1, <3>2
    <3>3. CASE r # q
      <4>1. t \in tasks
        BY <1>5, <3>1, <3>3
      <4>2. Slots(f, z, r) = {}
        BY <3>1, <4>1 DEF Single
      <4> QED
        BY <1>10, <3>1, <3>3, <4>2
    <3> QED
      BY <3>2, <3>3
  <2>3. \A t, u \in tasks' : t.msg.id = u.msg.id => t = u
    BY <1>5, <1>11 DEF Single
  <2>4. \A r \in Requests, f \in Ends, z \in Sockets :
            Slots(f, z, r)' # {} => request'[r] = "waiting"
    BY <1>8, <1>10 DEF Single
  <2>5. \A t \in tasks' : request'[t.msg.id] = "waiting"
    BY <1>5, <1>12 DEF Single
  <2> QED
    BY <2>1, <2>2, <2>3, <2>4, <2>5 DEF Single
<1>14. ASSUME NEW r \in Requests, OnTheWay(r) \/ InHand(r) PROVE OnTheWay(r)' \/ InHand(r)'
  <2>1. CASE r = q
    BY <1>5, <2>1 DEF InHand
  <2>2. CASE r # q
    BY <1>5, <1>10, <1>14, <2>2 DEF OnTheWay, InHand
  <2> QED
    BY <2>1, <2>2
<1> QED
  BY <1>13, <1>14

\* A message of a request that is nowhere else is sent.
LEMMA SentOnce ==
    ASSUME Types, Single, NEW end \in Ends, NEW s \in Sockets, NEW m \in PeerMessages,
           Usable(end, s), Send(end, s, m), tasks' \subseteq tasks,
           \A e \in Ends, z \in Sockets : Slots(e, z, m.id) = {},
           \A t \in tasks' : t.msg.id # m.id,
           \A t \in tasks : t.msg.id # m.id => t \in tasks',
           request'[m.id] = "waiting", \A r \in Requests : r # m.id => request'[r] = request[r]
    PROVE  /\ Single'
           /\ \A r \in Requests : r # m.id /\ (OnTheWay(r) \/ InHand(r))
                                    => OnTheWay(r)' \/ InHand(r)'
           /\ OnTheWay(m.id)' \/ (sock[s] = "broken" /\ s \in used'[m.id])
<1>1. PICK o \in Ends : o = Other(end) /\ Put(o, s, m)
  BY DEF Send, Other, Ends
<1>2. PICK q \in Requests : q = m.id
  BY MessageTypes
<1>3. m \in Messages /\ m # Presence
  BY MessageTypes DEF PeerMessages
<1>4. \A e \in Ends, z \in Sockets : e # o \/ z # s => inbox'[e][z] = inbox[e][z]
  BY <1>1 DEF Put, Types
<1>5. \A r \in Requests, e \in Ends, z \in Sockets :
         r # q \/ e # o \/ z # s => Slots(e, z, r)' = Slots(e, z, r)
  <2>1. CASE sock[s] = "up"
    <3>1. inbox'[o][s] = Append(inbox[o][s], m)
      BY <1>1, <2>1 DEF Put, Types
    <3>2. ASSUME NEW r \in Requests, r # q PROVE Slots(o, s, r)' = Slots(o, s, r)
      <4>1. Slots(o, s, r)' = Slots(o, s, r)
                \cup (IF m # Presence /\ m.id = r THEN {Len(inbox[o][s]) + 1} ELSE {})
        BY <1>3, <3>1, PutSlots
      <4> QED
        BY <1>2, <3>2, <4>1
    <3> QED
      BY <1>4, <3>2, SameSlots
  <2>2. CASE sock[s] # "up"
    <3>1. inbox' = inbox
      BY <1>1, <2>2 DEF Put
    <3> QED
      BY <3>1, SameSlots
  <2> QED
    BY <2>1, <2>2
<1>6. PICK n : Slots(o, s, q)' \subseteq {n} /\ (sock[s] = "up" => Slots(o, s, q)' = {n})
  <2>1. CASE sock[s] = "up"
    <3>1. inbox'[o][s] = Append(inbox[o][s], m)
      BY <1>1, <2>1 DEF Put, Types
    <3>2. Slots(o, s, q)' = {Len(inbox[o][s]) + 1}
      BY <1>2, <1>3, <3>1, PutSlots
    <3> QED
      BY <3>2
  <2>2. CASE sock[s] # "up"
    <3>1. inbox' = inbox
      BY <1>1, <2>2 DEF Put
    <3>2. Slots(o, s, q)' = {}
      BY <1>2, <3>1, SameSlots
    <3> QED
      BY <2>2, <3>2
  <2> QED
    BY <2>1, <2>2
<1>7. \A e \in Ends, z \in Sockets : e # o \/ z # s => Slots(e, z, q)' = {}
  BY <1>2, <1>5
<1>8. \A t \in tasks : t.msg.id \in Requests
  BY MessageTypes DEF Types
<1>9. Single'
  <2>1. ASSUME NEW r \in Requests, NEW e \in Ends, NEW f \in Ends, NEW y \in Sockets,
               NEW z \in Sockets, NEW i \in Slots(e, y, r)', NEW j \in Slots(f, z, r)'
        PROVE  e = f /\ y = z /\ i = j
    <3>1. CASE r = q
      BY <1>6, <1>7, <3>1
    <3>2. CASE r # q
      BY <1>5, <3>2 DEF Single
    <3> QED
      BY <3>1, <3>2
  <2>2. \A t \in tasks', e \in Ends, z \in Sockets : Slots(e, z, t.msg.id)' = {}
    BY <1>2, <1>5, <1>8 DEF Single
  <2>3. \A t, u \in tasks' : t.msg.id = u.msg.id => t = u
    BY DEF Single
  <2>4. \A r \in Requests, e \in Ends, z \in Sockets :
            Slots(e, z, r)' # {} => request'[r] = "waiting"
    BY <1>2, <1>5 DEF Single
  <2>5. \A t \in tasks' : request'[t.msg.id] = "waiting"
    BY <1>8 DEF Single
  <2> QED
    BY <2>1, <2>2, <2>3, <2>4, <2>5 DEF Single
<1>10. ASSUME NEW r \in Requests, r # q, OnTheWay(r) \/ InHand(r) PROVE OnTheWay(r)' \/ InHand(r)'
  BY <1>2, <1>5, <1>10 DEF OnTheWay, InHand
<1>11. OnTheWay(q)' \/ (sock[s] = "broken" /\ s \in used'[q])
  <2>1. CASE sock[s] = "up"
    <3>1. Slots(o, s, q)' # {}
      BY <1>6, <2>1
    <3> QED
      BY <1>1, <3>1 DEF OnTheWay
  <2>2. CASE sock[s] # "up"
    <3>1. sock[s] = "broken"
      BY <2>2 DEF Usable, Reached
    <3>2. used' = [used EXCEPT ![q] = @ \cup {s}]
      BY <1>2 DEF Send
    <3> QED
      BY <3>1, <3>2 DEF Types
  <2> QED
    BY <2>1, <2>2
<1> QED
  BY <1>2, <1>9, <1>10, <1>11

-----------------------------------------------------------------------------
(* What never ends, and the ways of the requests *)

LEMMA GrowStep ==
    ASSUME Types, InOrder, SocketLife, [Next]_vars
    PROVE  /\ \A s \in Sockets : sock[s] = "broken" => sock'[s] = "broken"
           /\ \A s \in Sockets : handler[s] \in {"Established", "done"}
                                   => handler'[s] \in {"Established", "done"}
           /\ \A r \in Requests : used[r] \subseteq used'[r]
           /\ ignored \subseteq ignored' /\ (crossed = TRUE => crossed' = TRUE)
<1> USE DEF netVars, clientVars, requestVars
<1> DEFINE Grow == /\ \A s \in Sockets : sock[s] = "broken" => sock'[s] = "broken"
                   /\ \A s \in Sockets : handler[s] \in {"Established", "done"}
                                           => handler'[s] \in {"Established", "done"}
                   /\ \A r \in Requests : used[r] \subseteq used'[r]
                   /\ ignored \subseteq ignored' /\ (crossed = TRUE => crossed' = TRUE)
<1>1. ASSUME NEW s \in Sockets, Accept(s) PROVE Grow
  <2>1. /\ sock[s] = "connecting" /\ sock' = [sock EXCEPT ![s] = "up"]
        /\ handler' = [handler EXCEPT ![s] = "Initial"] /\ UNCHANGED <<used, ignored, crossed>>
    BY <1>1, Zenon DEF Accept
  <2> QED
    BY <2>1 DEF SocketLife, Types
<1>2. ASSUME NEW s \in Sockets, Break(s) PROVE Grow
  <2>1. /\ sock' = [sock EXCEPT ![s] = "broken"] /\ UNCHANGED <<handler, used, ignored, crossed>>
    BY <1>2, Zenon DEF Break
  <2> QED
    BY <2>1 DEF Types
<1>3. ASSUME UNCHANGED <<sock, handler, used, ignored, crossed>> PROVE Grow
  BY <1>3
<1>4. ASSUME NEW s \in Sockets, Client(s) \/ ProcessPeerMessage(s) PROVE Grow
  BY <1>3, <1>4, Zenon DEF Client, HandleError, HandleClose, ReceivePresence, ReceivePeerMessage,
     ProcessPeerMessage
<1>5. ASSUME NEW s \in Sockets, ProcessPresence(s) \/ SocketEnds(s) PROVE Grow
  <2>1. /\ UNCHANGED <<sock, used, ignored>>
        /\ \E h \in {"Established", "done"} : handler' = [handler EXCEPT ![s] = h]
    BY <1>5, Zenon DEF ProcessPresence, SocketEnds
  <2>2. crossed = TRUE => crossed' = TRUE
    BY <1>5, Zenon DEF ProcessPresence, SocketEnds
  <2> QED
    BY <2>1, <2>2 DEF Types
<1>6. CASE Reconnect
  <2>1. PICK n \in Sockets : n = current'
    BY <1>6 DEF Reconnect
  <2>2. /\ sock' = [sock EXCEPT ![n] = "connecting"]
        /\ UNCHANGED <<handler, used, ignored, crossed>>
    BY <1>6, <2>1 DEF Reconnect
  <2>3. sock[n] = "none"
    BY <1>6, <2>1, ReconnectMakes
  <2> QED
    BY <2>2, <2>3 DEF Types
<1>7. ASSUME NEW w \in Waiters, PollReady(w) PROVE Grow
  BY <1>3, <1>7, Zenon DEF PollReady
<1>8. ASSUME NEW end \in Ends, NEW s \in Sockets, NEW m \in PeerMessages, Send(end, s, m)
      PROVE  \A r \in Requests : used[r] \subseteq used'[r]
  BY <1>8, MessageTypes DEF Send, Types
<1>9. ASSUME NEW r \in Requests, Request(r) PROVE Grow
  <2>1. UNCHANGED <<sock, handler, ignored, crossed>>
    BY <1>9, Zenon DEF Request
  <2>2. \A q \in Requests : used[q] \subseteq used'[q]
    <3>1. CASE UNCHANGED used
      BY <3>1
    <3>2. CASE peer[Owner(r)] # 0 /\ Send(Owner(r), peer[Owner(r)], Message("request", r))
      <4>1. Owner(r) \in Ends /\ Message("request", r) \in PeerMessages
        BY MessageTypes DEF Owner, Ends
      <4>2. peer[Owner(r)] \in Sockets
        BY <3>2, <4>1 DEF Types
      <4> QED
        BY <1>8, <3>2, <4>1, <4>2
    <3> QED
      BY <1>9, <3>1, <3>2, Zenon DEF Request
  <2> QED
    BY <2>1, <2>2
<1>10. ASSUME NEW t \in tasks, FinishRequest(t) PROVE Grow
  <2>1. UNCHANGED <<sock, handler, ignored, crossed>>
    BY <1>10, Zenon DEF FinishRequest
  <2>2. t.at \in Ends /\ t.msg \in PeerMessages /\ t.reply \in Sockets
    BY <1>10 DEF FinishRequest, Types
  <2>3. Send(t.at, t.reply, Message("response", t.msg.id))
    BY <1>10, <2>2 DEF FinishRequest, AnswerOver, Sockets
  <2>4. Message("response", t.msg.id) \in PeerMessages
    BY <2>2, MessageTypes
  <2> QED
    BY <1>8, <2>1, <2>2, <2>3, <2>4
<1>11. ASSUME NEW t \in tasks, StartRequest(t) PROVE Grow
  <2>1. UNCHANGED <<sock, handler, used, crossed>>
    BY <1>11, Zenon DEF StartRequest
  <2>2. ignored \subseteq ignored'
    BY <1>11 DEF StartRequest
  <2> QED
    BY <2>1, <2>2
<1>12. ASSUME NEW t \in tasks, HandleResponse(t) PROVE Grow
  BY <1>3, <1>12, Zenon DEF HandleResponse
<1>13. CASE UNCHANGED vars
  BY <1>3, <1>13 DEF vars
<1> QED
  BY <1>1, <1>2, <1>4, <1>5, <1>6, <1>7, <1>9, <1>10, <1>11, <1>12, <1>13
     DEF Next, Server, Handle

LEMMA GoneStays ==
    ASSUME Types, InOrder, SocketLife, [Next]_vars, NEW r \in Requests, Gone(r)
    PROVE  Gone(r)'
<1>1. used[r] \subseteq Sockets
  BY DEF Types
<1>2. CASE \E s \in used[r] : sock[s] = "broken"
  <2>1. \E s \in used'[r] : sock'[s] = "broken"
    BY <1>1, <1>2, GrowStep
  <2> QED
    BY <2>1 DEF Gone
<1>3. CASE r \in ignored /\ crossed = TRUE
  <2>1. r \in ignored' /\ crossed' = TRUE
    BY <1>3, GrowStep
  <2> QED
    BY <2>1 DEF Gone
<1> QED
  BY <1>2, <1>3 DEF Gone

\* The queues of a presence that comes or goes
LEMMA PresenceSlots ==
    ASSUME Types, NEW e \in Ends, NEW s \in Sockets,
           inbox'[e][s] = Append(inbox[e][s], Presence), NEW r \in Requests
    PROVE  Slots(e, s, r)' = Slots(e, s, r)
<1>1. Slots(e, s, r)' = Slots(e, s, r)
          \cup (IF Presence # Presence /\ Presence.id = r THEN {Len(inbox[e][s]) + 1} ELSE {})
  BY PutSlots, MessageTypes
<1> QED
  BY <1>1

LEMMA TravelledStep ==
    ASSUME Types, InOrder, OneConnection, SocketLife, Greeted, Registered, Travelled, [Next]_vars
    PROVE  Travelled'
<1> USE DEF netVars, clientVars, requestVars
<1>1. \A t \in tasks : t.msg.id \in Requests
  BY MessageTypes DEF Types
<1>2. ASSUME NEW t \in tasks, t.at = "server"
      PROVE  \E s \in used'[t.msg.id] : handler'[s] \in {"Established", "done"}
  <2>1. PICK r \in Requests : r = t.msg.id
    BY <1>1
  <2>2. PICK s \in used[r] : handler[s] \in {"Established", "done"}
    BY <1>2, <2>1 DEF Travelled
  <2>3. s \in Sockets
    BY <2>2 DEF Types
  <2> QED
    BY <2>1, <2>2, <2>3, GrowStep
<1>3. ASSUME tasks' \subseteq tasks,
             \A r \in Requests, s \in Sockets :
                Slots("server", s, r)' # {} => Slots("server", s, r) # {} \/ s \in used'[r]
      PROVE  Travelled'
  <2>1. \A r \in Requests, s \in Sockets : Slots("server", s, r)' # {} => s \in used'[r]
    BY <1>3, GrowStep DEF Travelled
  <2> QED
    BY <1>2, <1>3, <2>1 DEF Travelled
<1>4. ASSUME UNCHANGED <<tasks, inbox>> PROVE Travelled'
  BY <1>3, <1>4, SameSlots
<1>5. ASSUME NEW s \in Sockets, Accept(s) PROVE Travelled'
  <2>1. inbox' = [inbox EXCEPT !["client"][s] = Greeting] /\ tasks' = tasks
    BY <1>5, Zenon DEF Accept
  <2>2. \A z \in Sockets : inbox'["server"][z] = inbox["server"][z]
    BY <2>1, TwoEnds DEF Types
  <2> QED
    BY <1>3, <2>1, <2>2, SameSlots
<1>6. ASSUME NEW s \in Sockets, ReceivePresence(s) PROVE Travelled'
  <2>1. /\ tasks' = tasks
        /\ inbox' = [inbox EXCEPT !["client"][s] = Tail(@),
                                  !["server"][s] = IF s = current /\ sock[s] = "up"
                                                   THEN Append(@, Presence) ELSE @]
    BY <1>6, Zenon DEF ReceivePresence
  <2>2. \A z \in Sockets : \/ inbox'["server"][z] = inbox["server"][z]
                           \/ inbox'["server"][z] = Append(inbox["server"][z], Presence)
    BY <2>1, TwoEnds DEF Types
  <2> QED
    BY <1>3, <2>1, <2>2, SameSlots, PresenceSlots, TwoEnds
<1>7. ASSUME NEW s \in Sockets, NEW e \in Ends, Take(e, s), inbox[e][s] # <<>>
      PROVE  \A r \in Requests, z \in Sockets :
                Slots("server", z, r)' # {} => Slots("server", z, r) # {}
  <2>1. inbox'[e][s] = Tail(inbox[e][s])
        /\ \A f \in Ends, z \in Sockets : f # e \/ z # s => inbox'[f][z] = inbox[f][z]
    BY <1>7, TakeQueue
  <2>2. ASSUME NEW r \in Requests, NEW z \in Sockets, Slots("server", z, r)' # {}
        PROVE  Slots("server", z, r) # {}
    <3>1. CASE e = "server" /\ z = s
      BY <1>7, <2>1, <2>2, <3>1, TakeSlots
    <3>2. CASE e # "server" \/ z # s
      BY <2>1, <2>2, <3>2, SameSlots, TwoEnds
    <3> QED
      BY <3>1, <3>2
  <2> QED
    BY <2>2
<1>8. ASSUME NEW s \in Sockets, ReceivePeerMessage(s) PROVE Travelled'
  <2>1. /\ Take("client", s) /\ inbox["client"][s] # <<>>
        /\ tasks' = tasks \cup {[at |-> "client", msg |-> Head(inbox["client"][s]), reply |-> 0]}
    BY <1>8, Zenon DEF ReceivePeerMessage
  <2>2. \A r \in Requests, z \in Sockets : Slots("server", z, r)' # {} => z \in used'[r]
    BY <1>7, <2>1, TwoEnds, GrowStep DEF Travelled
  <2> QED
    BY <1>2, <2>1, <2>2, TwoEnds DEF Travelled
<1>9. ASSUME NEW s \in Sockets, ProcessPresence(s) PROVE Travelled'
  <2>1. Take("server", s) /\ inbox["server"][s] # <<>> /\ tasks' = tasks
    BY <1>9, Zenon DEF ProcessPresence
  <2> QED
    BY <1>3, <1>7, <2>1, TwoEnds
<1>10. ASSUME NEW s \in Sockets, ProcessPeerMessage(s) PROVE Travelled'
  <2>1. /\ Take("server", s) /\ inbox["server"][s] # <<>>
        /\ Head(inbox["server"][s]) # Presence
        /\ UNCHANGED <<handler, used>> /\ handler[s] \in {"Initial", "Established"}
    BY <1>10, Zenon DEF ProcessPeerMessage
  <2>2. handler[s] = "Established"
    BY <2>1 DEF Greeted, Greets
  <2>3. PICK m \in PeerMessages : m = Head(inbox["server"][s])
    BY <2>1, QueueTypes, TwoEnds DEF PeerMessages
  <2>4. PICK n : n = [at |-> "server", msg |-> m, reply |-> 0]
    OBVIOUS
  <2>5. tasks' = tasks \cup {n} /\ n.msg.id = m.id /\ m.id \in Requests
    BY <1>10, <2>2, <2>3, <2>4, MessageTypes DEF ProcessPeerMessage
  <2>6. PICK r \in Requests : r = m.id
    BY <2>5
  <2>7. 1 \in Slots("server", s, r)
    <3>1. inbox'["server"][s] = Tail(inbox["server"][s])
      BY <2>1, TakeQueue, TwoEnds
    <3> QED
      BY <2>1, <2>3, <2>6, <3>1, TakeSlots, TwoEnds
  <2>8. s \in used[r]
    BY <2>7 DEF Travelled
  <2>9. \A q \in Requests, z \in Sockets : Slots("server", z, q)' # {} => z \in used'[q]
    BY <1>7, <2>1, TwoEnds, GrowStep DEF Travelled
  <2>10. \A t \in tasks' : t.at = "server" =>
            \E z \in used'[t.msg.id] : handler'[z] \in {"Established", "done"}
    BY <1>2, <2>1, <2>2, <2>5, <2>6, <2>8
  <2> QED
    BY <2>9, <2>10 DEF Travelled
<1>11. ASSUME NEW end \in Ends, NEW s \in Sockets, NEW m \in PeerMessages, Send(end, s, m)
       PROVE  \A r \in Requests, z \in Sockets :
                Slots("server", z, r)' # {} => Slots("server", z, r) # {} \/ z \in used'[r]
  <2>1. PICK o \in Ends : o = Other(end) /\ Put(o, s, m)
    BY <1>11 DEF Send, Other, Ends
  <2>2. \A z \in Sockets : z # s => inbox'["server"][z] = inbox["server"][z]
    BY <2>1, TwoEnds DEF Put, Types
  <2>3. \/ inbox'["server"][s] = inbox["server"][s]
        \/ inbox'["server"][s] = Append(inbox["server"][s], m)
    BY <2>1, TwoEnds DEF Put, Types
  <2>4. PICK q \in Requests : q = m.id
    BY MessageTypes
  <2>5. s \in used'[q]
    BY <1>11, <2>4 DEF Send, Types
  <2>6. ASSUME NEW r \in Requests, r # q PROVE Slots("server", s, r)' = Slots("server", s, r)
    <3>1. CASE inbox'["server"][s] = inbox["server"][s]
      BY <3>1, SameSlots
    <3>2. CASE inbox'["server"][s] = Append(inbox["server"][s], m)
      <4>1. Slots("server", s, r)' = Slots("server", s, r)
                \cup (IF m # Presence /\ m.id = r THEN {Len(inbox["server"][s]) + 1} ELSE {})
        BY <3>2, MessageTypes, PutSlots, TwoEnds
      <4> QED
        BY <2>4, <2>6, <4>1
    <3> QED
      BY <2>3, <3>1, <3>2
  <2> QED
    BY <2>2, <2>5, <2>6, SameSlots
<1>12. ASSUME NEW r \in Requests, Request(r) PROVE Travelled'
  <2>1. tasks' = tasks
    BY <1>12, Zenon DEF Request
  <2>2. CASE UNCHANGED <<inbox, used>>
    BY <1>4, <2>1, <2>2
  <2>3. CASE \E end \in Ends, s \in Sockets : Send(end, s, Message("request", r))
    <3>1. Message("request", r) \in PeerMessages
      BY MessageTypes
    <3> QED
      BY <1>3, <1>11, <2>1, <2>3, <3>1
  <2> QED
    BY <1>12, <2>2, <2>3, RequestSends
<1>13. ASSUME NEW t \in tasks, FinishRequest(t) PROVE Travelled'
  <2>1. tasks' \subseteq tasks
    BY <1>13 DEF FinishRequest
  <2>2. Message("response", t.msg.id) \in PeerMessages
    BY <1>13, FinishSends, MessageTypes
  <2> QED
    BY <1>3, <1>11, <1>13, <2>1, <2>2, FinishSends
<1>14. ASSUME NEW t \in tasks, HandleResponse(t) PROVE Travelled'
  <2>1. tasks' \subseteq tasks /\ UNCHANGED inbox
    BY <1>14 DEF HandleResponse
  <2> QED
    BY <1>3, <2>1, SameSlots
<1>15. ASSUME NEW t \in tasks, StartRequest(t) PROVE Travelled'
  <2>1. t \in [at : Ends, msg : PeerMessages, reply : Sockets \cup {0}]
    BY DEF Types
  <2>2. PICK u : u = [t EXCEPT !.reply = peer[t.at]]
    OBVIOUS
  <2>3. u.at = t.at /\ u.msg = t.msg
    BY <2>1, <2>2
  <2>4. tasks' \subseteq tasks \cup {u} /\ UNCHANGED inbox
    BY <1>15, <2>2 DEF StartRequest
  <2>5. \A v \in tasks' : v.at = "server" =>
            \E z \in used'[v.msg.id] : handler'[z] \in {"Established", "done"}
    BY <1>2, <2>3, <2>4
  <2>6. \A q \in Requests, z \in Sockets : Slots("server", z, q)' # {} => z \in used'[q]
    BY <2>4, SameSlots, GrowStep DEF Travelled
  <2> QED
    BY <2>5, <2>6 DEF Travelled
<1>16. ASSUME NEW s \in Sockets, Break(s) \/ HandleError(s) \/ HandleClose(s) \/ SocketEnds(s)
       PROVE  Travelled'
  BY <1>4, <1>16, Zenon DEF Break, HandleError, HandleClose, SocketEnds
<1>17. ASSUME NEW w \in Waiters, PollReady(w) PROVE Travelled'
  BY <1>4, <1>17, Zenon DEF PollReady
<1>18. CASE Reconnect
  BY <1>4, <1>18 DEF Reconnect
<1>19. CASE UNCHANGED vars
  BY <1>4, <1>19 DEF vars
<1> QED
  BY <1>5, <1>6, <1>8, <1>9, <1>10, <1>12, <1>13, <1>14, <1>15, <1>16, <1>17, <1>18, <1>19
     DEF Next, Client, Server, Handle

LEMMA FollowedStep ==
    ASSUME Types, InOrder, OneConnection, SocketLife, Greeted, Registered, Uncrossed, Travelled,
           Single, Followed, [Next]_vars
    PROVE  Single' /\ Followed'
<1> USE DEF netVars, clientVars, requestVars
<1>1. \A t \in tasks : t.msg.id \in Requests
  BY MessageTypes DEF Types
<1>2. ASSUME UNCHANGED request,
             \A r \in Requests : OnTheWay(r) \/ InHand(r) => OnTheWay(r)' \/ InHand(r)' \/ Gone(r)'
      PROVE  Followed'
  BY <1>2, GoneStays DEF Followed
<1>3. ASSUME UNCHANGED <<inbox, tasks, request>> PROVE Single' /\ Followed'
  <2>1. \A r \in Requests, e \in Ends, s \in Sockets : Shifted(e, s, r)
    BY <1>3, SameSlots, SameShifted
  <2> QED
    BY <1>2, <1>3, <2>1, QueuesKept
<1>4. ASSUME NEW s \in Sockets, Accept(s) PROVE Single' /\ Followed'
  <2>1. /\ inbox' = [inbox EXCEPT !["client"][s] = <<Presence>>] /\ sock[s] = "connecting"
        /\ UNCHANGED <<tasks, request>>
    BY <1>4, Zenon DEF Accept, Greeting
  <2>2. inbox["client"][s] = <<>>
    BY <2>1 DEF Greeted, Reached
  <2>3. /\ inbox'["client"][s] = Append(inbox["client"][s], Presence)
        /\ \A e \in Ends, z \in Sockets : e # "client" \/ z # s => inbox'[e][z] = inbox[e][z]
    BY <2>1, <2>2, TwoEnds DEF Types
  <2>4. \A r \in Requests, e \in Ends, z \in Sockets : Slots(e, z, r)' = Slots(e, z, r)
    BY <2>3, SameSlots, PresenceSlots, TwoEnds
  <2>5. \A r \in Requests, e \in Ends, z \in Sockets : Shifted(e, z, r)
    BY <2>4, SameShifted
  <2> QED
    BY <1>2, <2>1, <2>5, QueuesKept
<1>5. ASSUME NEW s \in Sockets, ReceivePresence(s) PROVE Single' /\ Followed'
  <2>1. /\ inbox' = [inbox EXCEPT !["client"][s] = Tail(@),
                                  !["server"][s] = IF s = current /\ sock[s] = "up"
                                                   THEN Append(@, Presence) ELSE @]
        /\ inbox["client"][s] # <<>> /\ Head(inbox["client"][s]) = Presence
        /\ UNCHANGED <<tasks, request>>
    BY <1>5, Zenon DEF ReceivePresence
  <2>2. /\ inbox'["client"][s] = Tail(inbox["client"][s])
        /\ \/ inbox'["server"][s] = inbox["server"][s]
           \/ inbox'["server"][s] = Append(inbox["server"][s], Presence)
        /\ \A e \in Ends, z \in Sockets : z # s => inbox'[e][z] = inbox[e][z]
    BY <2>1, TwoEnds DEF Types
  <2>3. ASSUME NEW r \in Requests PROVE Shifted("client", s, r)
    <3>1. /\ \A i \in Slots("client", s, r)' : i + 1 \in Slots("client", s, r)
          /\ \A i \in Slots("client", s, r) : i # 1 => i - 1 \in Slots("client", s, r)'
          /\ 1 \notin Slots("client", s, r)
          /\ \A i \in Slots("client", s, r)' : i \in Nat
      BY <2>1, <2>2, TakeSlots, TwoEnds
    <3> QED
      BY <3>1 DEF Shifted
  <2>4. \A r \in Requests : Slots("server", s, r)' = Slots("server", s, r)
    BY <2>2, SameSlots, PresenceSlots, TwoEnds
  <2>5. \A r \in Requests, e \in Ends, z \in Sockets : z # s => Slots(e, z, r)' = Slots(e, z, r)
    BY <2>2, SameSlots
  <2>6. \A r \in Requests, e \in Ends, z \in Sockets : Shifted(e, z, r)
    BY <2>3, <2>4, <2>5, SameShifted DEF Ends
  <2> QED
    BY <1>2, <2>1, <2>6, QueuesKept
<1>6. ASSUME NEW s \in Sockets, ReceivePeerMessage(s) PROVE Single' /\ Followed'
  <2>1. /\ inbox["client"][s] # <<>> /\ Head(inbox["client"][s]) # Presence
        /\ Take("client", s) /\ request' = request
        /\ tasks' = tasks \cup {[at |-> "client", msg |-> Head(inbox["client"][s]), reply |-> 0]}
    BY <1>6, Zenon DEF ReceivePeerMessage
  <2> QED
    BY <1>2, <2>1, TakenByTask, TwoEnds
<1>7. ASSUME NEW s \in Sockets, ProcessPresence(s) PROVE Single' /\ Followed'
  <2>1. /\ Take("server", s) /\ inbox["server"][s] # <<>>
        /\ Head(inbox["server"][s]) = Presence /\ UNCHANGED <<tasks, request>>
    BY <1>7, Zenon DEF ProcessPresence
  <2>2. inbox'["server"][s] = Tail(inbox["server"][s])
    BY <2>1, TakeQueue, TwoEnds
  <2>3. \A r \in Requests : 1 \notin Slots("server", s, r)
    BY <2>1, <2>2, TakeSlots, TwoEnds
  <2>4. \A r \in Requests, e \in Ends, z \in Sockets : Shifted(e, z, r)
    BY <2>1, <2>3, TakeShifted, TwoEnds
  <2> QED
    BY <1>2, <2>1, <2>4, QueuesKept
<1>8. ASSUME NEW s \in Sockets, ProcessPeerMessage(s) PROVE Single' /\ Followed'
  <2>1. /\ Take("server", s) /\ inbox["server"][s] # <<>>
        /\ Head(inbox["server"][s]) # Presence /\ request' = request
        /\ handler[s] \in {"Initial", "Established"}
    BY <1>8, Zenon DEF ProcessPeerMessage
  <2>2. handler[s] = "Established"
    BY <2>1 DEF Greeted, Greets
  <2>3. tasks' = tasks \cup {[at |-> "server", msg |-> Head(inbox["server"][s]), reply |-> 0]}
    BY <1>8, <2>2 DEF ProcessPeerMessage
  <2> QED
    BY <1>2, <2>1, <2>3, TakenByTask, TwoEnds
<1>9. ASSUME NEW r \in Requests, Request(r) PROVE Single' /\ Followed'
  <2>1. tasks' = tasks /\ request[r] = "none"
    BY <1>9, Zenon DEF Request
  <2>2. /\ \A e \in Ends, z \in Sockets : Slots(e, z, r) = {}
        /\ \A t \in tasks : t.msg.id # r
    BY <2>1 DEF Single
  <2>3. CASE UNCHANGED <<inbox, used>> /\ request' = [request EXCEPT ![r] = "failed"]
    <3>1. request'[r] = "failed" /\ \A q \in Requests : q # r => request'[q] = request[q]
      BY <2>3 DEF Types
    <3>2. \A e \in Ends, z \in Sockets, q \in Requests : Slots(e, z, q)' = Slots(e, z, q)
      BY <2>3, SameSlots
    <3>3. Single'
      BY <1>1, <2>1, <2>2, <3>1, <3>2 DEF Single
    <3>4. \A q \in Requests : (OnTheWay(q) => OnTheWay(q)') /\ (InHand(q) => InHand(q)')
      BY <2>1, <3>2 DEF OnTheWay, InHand
    <3> QED
      BY <3>1, <3>3, <3>4, GoneStays DEF Followed
  <2>4. ASSUME NEW end \in Ends, NEW s \in Sockets, Usable(end, s),
               Send(end, s, Message("request", r)), request' = [request EXCEPT ![r] = "waiting"]
        PROVE  Single' /\ Followed'
    <3>1. PICK m \in PeerMessages : m = Message("request", r)
      BY MessageTypes
    <3>2. m.id = r
      BY <3>1 DEF Message
    <3>3. request'[m.id] = "waiting" /\ \A q \in Requests : q # m.id => request'[q] = request[q]
      BY <2>4, <3>2 DEF Types
    <3>4. /\ Single'
          /\ \A q \in Requests : q # m.id /\ (OnTheWay(q) \/ InHand(q))
                                   => OnTheWay(q)' \/ InHand(q)'
          /\ OnTheWay(m.id)' \/ (sock[s] = "broken" /\ s \in used'[m.id])
      BY <2>1, <2>2, <2>4, <3>1, <3>2, <3>3, SentOnce
    <3>5. OnTheWay(r)' \/ Gone(r)'
      BY <3>2, <3>4, GrowStep DEF Gone
    <3> QED
      BY <3>2, <3>3, <3>4, <3>5, GoneStays DEF Followed
  <2> QED
    BY <1>9, <2>3, <2>4, RequestSends
<1>10. ASSUME NEW t \in tasks, FinishRequest(t) PROVE Single' /\ Followed'
  <2>1. tasks' = tasks \ {t} /\ request' = request
    BY <1>10, Zenon DEF FinishRequest
  <2>2. PICK m \in PeerMessages : m = Message("response", t.msg.id)
    BY <1>1, MessageTypes
  <2>3. m.id = t.msg.id
    BY <2>2 DEF Message
  <2>4. /\ \A e \in Ends, z \in Sockets : Slots(e, z, m.id) = {}
        /\ \A u \in tasks' : u.msg.id # m.id
        /\ \A u \in tasks : u.msg.id # m.id => u \in tasks'
        /\ request'[m.id] = "waiting"
    BY <2>1, <2>3 DEF Single
  <2>5. /\ t.at \in Ends /\ t.reply \in Sockets
        /\ Usable(t.at, t.reply) /\ Send(t.at, t.reply, m)
    BY <1>10, <2>2, FinishSends
  <2>6. /\ Single'
        /\ \A q \in Requests : q # m.id /\ (OnTheWay(q) \/ InHand(q))
                                 => OnTheWay(q)' \/ InHand(q)'
        /\ OnTheWay(m.id)' \/ (sock[t.reply] = "broken" /\ t.reply \in used'[m.id])
    BY <2>1, <2>4, <2>5, SentOnce
  <2>7. OnTheWay(m.id)' \/ Gone(m.id)'
    BY <2>5, <2>6, GrowStep DEF Gone
  <2> QED
    BY <1>2, <2>1, <2>6, <2>7
<1>11. ASSUME NEW t \in tasks, StartRequest(t) PROVE Single' /\ Followed'
  <2>1. t \in [at : Ends, msg : PeerMessages, reply : Sockets \cup {0}]
    BY DEF Types
  <2>2. PICK u : u = [t EXCEPT !.reply = peer[t.at]]
    OBVIOUS
  <2>3. u.msg = t.msg
    BY <2>1, <2>2
  <2>4. UNCHANGED <<inbox, request, used, crossed, sock>>
    BY <1>11, Zenon DEF StartRequest
  <2>5. \A e \in Ends, z \in Sockets, r \in Requests : Slots(e, z, r)' = Slots(e, z, r)
    BY <2>4, SameSlots
  <2>6. PICK q \in Requests : q = t.msg.id
    BY <1>1
  <2>7. tasks' \subseteq (tasks \ {t}) \cup {u} /\ tasks \ {t} \subseteq tasks'
    BY <1>11, <2>2 DEF StartRequest
  <2>8. Single'
    <3>1. \A v \in tasks' : \E x \in tasks : v.msg = x.msg
      BY <2>3, <2>7
    <3>2. \A v \in tasks', e \in Ends, z \in Sockets : Slots(e, z, v.msg.id)' = {}
      BY <1>1, <2>5, <3>1 DEF Single
    <3>3. \A v, w \in tasks' : v.msg.id = w.msg.id => v = w
      BY <2>3, <2>7 DEF Single
    <3>4. \A v \in tasks' : request'[v.msg.id] = "waiting"
      BY <2>4, <3>1 DEF Single
    <3> QED
      BY <2>4, <2>5, <3>2, <3>3, <3>4 DEF Single
  <2>9. \A r \in Requests : (OnTheWay(r) => OnTheWay(r)') /\ (r # q /\ InHand(r) => InHand(r)')
    BY <2>5, <2>6, <2>7 DEF OnTheWay, InHand
  <2>10. InHand(q)' \/ Gone(q)'
    <3>1. CASE peer[t.at] # 0
      <4>1. u \in tasks'
        BY <1>11, <2>2, <3>1 DEF StartRequest
      <4> QED
        BY <2>3, <2>6, <4>1 DEF InHand
    <3>2. CASE peer[t.at] = 0
      <4>1. q \in ignored'
        BY <1>11, <2>6, <3>2 DEF StartRequest
      <4>2. t.at = "server"
        BY <2>1, <3>2 DEF Registered, Ends
      <4>3. PICK s \in used[q] : handler[s] \in {"Established", "done"}
        BY <2>6, <4>2 DEF Travelled
      <4>4. s \in Sockets
        BY <4>3 DEF Types
      <4>5. sock[s] = "broken" \/ (sock[s] = "up" /\ handler[s] = "Established")
        <5>1. sock[s] \in {"none", "connecting", "up", "broken"}
          BY <4>4 DEF Types
        <5>2. sock[s] \in {"up", "broken"} /\ (handler[s] = "done" => sock[s] = "broken")
          BY <4>3, <4>4, <5>1 DEF SocketLife
        <5> QED
          BY <4>3, <5>2
      <4>6. CASE sock[s] = "broken"
        BY <2>4, <4>3, <4>6 DEF Gone
      <4>7. CASE sock[s] = "up" /\ handler[s] = "Established"
        <5>1. crossed = TRUE
          BY <3>2, <4>2, <4>4, <4>7 DEF Uncrossed, Sockets
        <5> QED
          BY <2>4, <4>1, <5>1 DEF Gone
      <4> QED
        BY <4>5, <4>6, <4>7
    <3> QED
      BY <3>1, <3>2
  <2> QED
    BY <1>2, <2>4, <2>8, <2>9, <2>10
<1>12. ASSUME NEW t \in tasks, HandleResponse(t) PROVE Single' /\ Followed'
  <2>1. PICK q \in Requests : q = t.msg.id
    BY <1>1
  <2>2. request[q] = "waiting"
    BY <2>1 DEF Single
  <2>3. tasks' = tasks \ {t} /\ UNCHANGED inbox /\ request' = [request EXCEPT ![q] = "answered"]
    BY <1>12, <2>1, <2>2 DEF HandleResponse
  <2>4. request'[q] = "answered" /\ \A r \in Requests : r # q => request'[r] = request[r]
    BY <2>3 DEF Types
  <2>5. \A e \in Ends, z \in Sockets, r \in Requests : Slots(e, z, r)' = Slots(e, z, r)
    BY <2>3, SameSlots
  <2>6. /\ \A e \in Ends, z \in Sockets : Slots(e, z, q) = {}
        /\ \A u \in tasks' : u.msg.id # q
    BY <2>1, <2>3 DEF Single
  <2>7. Single'
    <3>1. \A u \in tasks', e \in Ends, z \in Sockets : Slots(e, z, u.msg.id)' = {}
      BY <1>1, <2>3, <2>5 DEF Single
    <3>2. \A u, v \in tasks' : u.msg.id = v.msg.id => u = v
      BY <2>3 DEF Single
    <3>3. \A u \in tasks' : request'[u.msg.id] = "waiting"
      BY <1>1, <2>3, <2>4, <2>6 DEF Single
    <3>4. \A r \in Requests, e \in Ends, z \in Sockets :
            Slots(e, z, r)' # {} => request'[r] = "waiting"
      BY <2>4, <2>5, <2>6 DEF Single
    <3> QED
      BY <2>5, <3>1, <3>2, <3>3, <3>4 DEF Single
  <2>8. \A r \in Requests : (OnTheWay(r) => OnTheWay(r)') /\ (r # q /\ InHand(r) => InHand(r)')
    BY <2>1, <2>3, <2>5 DEF OnTheWay, InHand
  <2> QED
    BY <2>4, <2>7, <2>8, GoneStays DEF Followed
<1>13. ASSUME NEW s \in Sockets, Break(s) \/ HandleError(s) \/ HandleClose(s) \/ SocketEnds(s)
       PROVE  Single' /\ Followed'
  BY <1>3, <1>13, Zenon DEF Break, HandleError, HandleClose, SocketEnds
<1>14. ASSUME NEW w \in Waiters, PollReady(w) PROVE Single' /\ Followed'
  BY <1>3, <1>14, Zenon DEF PollReady
<1>15. CASE Reconnect
  BY <1>3, <1>15 DEF Reconnect
<1>16. CASE UNCHANGED vars
  BY <1>3, <1>16 DEF vars
<1> QED
  BY <1>4, <1>5, <1>6, <1>7, <1>8, <1>9, <1>10, <1>11, <1>12, <1>13, <1>14, <1>15, <1>16
     DEF Next, Client, Server, Handle

-----------------------------------------------------------------------------
(* The theorems *)

RInv == /\ IInv /\ SocketLife /\ Greeted /\ Registered /\ Uncrossed /\ Travelled
        /\ Single /\ Followed

LEMMA InitRInv == Init => RInv
<1> SUFFICES ASSUME Init PROVE RInv
  OBVIOUS
<1>1. 1 \in Sockets
  BY DEF Sockets
<1>2. \A end \in Ends, s \in Sockets : inbox[end][s] = <<>>
  BY DEF Init
<1>3. \A end \in Ends, s \in Sockets, r \in Requests : Slots(end, s, r) = {}
  BY <1>2 DEF Slots
<1>4. SocketLife
  BY <1>1 DEF Init, SocketLife
<1>5. Greeted
  BY <1>2, TwoEnds DEF Init, Greeted, Greets
<1>6. Registered
  BY DEF Init, Registered
<1>7. Uncrossed
  BY DEF Init, Uncrossed
<1>8. Travelled
  BY <1>3, TwoEnds DEF Init, Travelled
<1>9. Single
  BY <1>3 DEF Init, Single
<1>10. Followed
  BY DEF Init, Followed
<1> QED
  BY <1>4, <1>5, <1>6, <1>7, <1>8, <1>9, <1>10, InitIInv DEF RInv

LEMMA StepRInv == RInv /\ [Next]_vars => RInv'
<1> SUFFICES ASSUME RInv, [Next]_vars PROVE RInv'
  OBVIOUS
<1>1. IInv /\ Types /\ InOrder /\ OneConnection
  BY DEF RInv, IInv
<1>2. IInv'
  BY <1>1, StepIInv
<1>3. SocketLife' /\ Greeted' /\ Registered' /\ Uncrossed'
  BY <1>1, LifeStep, GreetedStep, RegisteredStep, UncrossedStep DEF RInv
<1>4. Travelled' /\ Single' /\ Followed'
  BY <1>1, TravelledStep, FollowedStep DEF RInv
<1> QED
  BY <1>2, <1>3, <1>4 DEF RInv

LEMMA AlwaysRInv == Spec => []RInv
BY InitRInv, StepRInv, PTL DEF Spec

\* A request that is awaited is at one place at most, so it is answered once at most; it is
\* at none only with a reason (node.rs:151), for any number of sockets and of requests.
THEOREM RequestsFollowed == Spec => []LostWithSocket
<1>1. ASSUME RInv, NEW r \in Requests, request[r] = "waiting"
      PROVE  /\ Cardinality(Traces(r)) <= 1
             /\ Traces(r) = {} => \/ \E s \in used[r] : sock[s] = "broken"
                                  \/ r \in ignored /\ crossed
  <2>1. ASSUME NEW a \in Traces(r)
        PROVE  \/ a \in tasks /\ a.msg.id = r
               \/ \E e \in Ends, s \in Sockets : \E i \in Slots(e, s, r) : a = <<<<e, s>>, i>>
    <3>1. CASE a \in Queued(r)
      <4>1. PICK p \in Ends \X Sockets : \E i \in Slots(p[1], p[2], r) : a = <<p, i>>
        BY <3>1 DEF Queued
      <4>2. PICK e \in Ends, s \in Sockets : p = <<e, s>>
        BY <4>1
      <4> QED
        BY <4>1, <4>2
    <3> QED
      BY <3>1 DEF Traces
  <2>2. \A t \in tasks : t.msg.id = r => t \in Traces(r)
    BY DEF Traces
  <2>3. ASSUME NEW e \in Ends, NEW s \in Sockets, NEW i \in Slots(e, s, r)
        PROVE  Traces(r) # {}
    <3>1. PICK p : p = <<e, s>>
      OBVIOUS
    <3>2. p \in Ends \X Sockets /\ i \in Slots(p[1], p[2], r)
      BY <3>1
    <3>3. <<p, i>> \in Queued(r)
      BY <3>2 DEF Queued
    <3> QED
      BY <3>3 DEF Traces
  <2>4. ASSUME NEW a \in Traces(r), NEW b \in Traces(r) PROVE a = b
    <3>1. CASE \E e \in Ends, s \in Sockets : Slots(e, s, r) # {}
      <4>1. \A t \in tasks : t.msg.id # r
        BY <1>1, <3>1 DEF RInv, Single
      <4>2. PICK e \in Ends, s \in Sockets : \E i \in Slots(e, s, r) : a = <<<<e, s>>, i>>
        BY <2>1, <4>1
      <4>3. PICK f \in Ends, z \in Sockets : \E j \in Slots(f, z, r) : b = <<<<f, z>>, j>>
        BY <2>1, <4>1
      <4> QED
        BY <1>1, <4>2, <4>3 DEF RInv, Single
    <3>2. CASE \A e \in Ends, s \in Sockets : Slots(e, s, r) = {}
      BY <1>1, <2>1, <3>2 DEF RInv, Single
    <3> QED
      BY <3>1, <3>2
  <2>5. Cardinality(Traces(r)) <= 1
    <3>1. CASE Traces(r) = {}
      <4>1. Cardinality({}) = 0
        BY FS_EmptySet
      <4> QED
        BY <3>1, <4>1
    <3>2. ASSUME NEW a \in Traces(r) PROVE Cardinality(Traces(r)) <= 1
      <4>1. Traces(r) = {a}
        BY <2>4
      <4>2. Cardinality({a}) = 1
        BY FS_Singleton
      <4> QED
        BY <4>1, <4>2
    <3> QED
      BY <3>1, <3>2
  <2>6. ASSUME Traces(r) = {} PROVE Gone(r)
    BY <1>1, <2>2, <2>3, <2>6 DEF RInv, Followed, OnTheWay, InHand
  <2>7. Gone(r) => \/ \E s \in used[r] : sock[s] = "broken"
                   \/ r \in ignored /\ crossed
    BY Zenon DEF Gone
  <2> QED
    BY <2>5, <2>6, <2>7, Zenon
<1>2. RInv => LostWithSocket
  BY <1>1, Zenon DEF LostWithSocket
<1> QED
  BY <1>2, AlwaysRInv, PTL

\* However many sockets came and went, the server has the client registered over the socket
\* they both use once all is settled and no handlers crossed (server.rs:86).
THEOREM SettledAgrees == Spec => []AgreeWhenSettled
<1>1. ASSUME RInv, signal = "Connected", sock[current] = "up", crossed # TRUE,
             \A s \in Sockets : inbox["server"][s] = <<>>
      PROVE  peer["server"] = current
  <2>1. current \in Sockets /\ cstate[current] = "Connected"
    BY <1>1 DEF RInv, IInv, Types, ConnectedMeansRegistered
  <2>2. handler[current] = "Established"
    BY <1>1, <2>1 DEF RInv, SocketLife, Greeted
  <2> QED
    BY <1>1, <2>1, <2>2 DEF RInv, Uncrossed
<1>2. ASSUME RInv PROVE AgreeWhenSettled
  <2> SUFFICES ASSUME signal = "Connected", sock[current] = "up", ~crossed,
                      \A s \in Sockets : inbox["server"][s] = <<>>
               PROVE  peer["server"] = current
    BY Zenon DEF AgreeWhenSettled
  <2>1. crossed # TRUE
    BY Zenon
  <2> QED
    BY <1>1, <1>2, <2>1
<1>3. RInv => AgreeWhenSettled
  BY <1>2
<1> QED
  BY <1>3, AlwaysRInv, PTL
=============================================================================
