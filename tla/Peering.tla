------------------------------ MODULE Peering ------------------------------
(***************************************************************************)
(* A node in a browser and a server node, over WebSockets that break and   *)
(* are opened again (connectors/websocket-client-wasm: client.rs and       *)
(* connection.rs; connectors/websocket-server: server.rs, sender.rs and    *)
(* state.rs), with the requests that travel over them (core/src/node.rs).  *)
(*                                                                         *)
(* The browser runs one callback or task at a time, the server one task    *)
(* per socket and one per message.  Sockets are numbered as they are made. *)
(* The writer task of sender.rs and the socket are one queue.              *)
(***************************************************************************)
EXTENDS Naturals, Sequences, FiniteSets

CONSTANTS
    MaxSockets,      \* bound: WebSockets the client makes; none breaks after the last
    ClientRequests,  \* Node::request calls at the client
    ServerRequests,  \* Node::request calls at the server
    MaxCalls,        \* bound: how many of these are made
    Waiters,         \* ready() futures
    MaxDelay         \* MAX_RECONNECT_DELAY, in steps of 500 ms (20 in the code)

Sockets == 1..MaxSockets
Requests == ClientRequests \cup ServerRequests
Ends == {"client", "server"}

ASSUME PeeringAssumption ==
    /\ MaxSockets \in Nat \ {0} /\ MaxDelay \in Nat \ {0} /\ MaxCalls \in Nat
    /\ ClientRequests \cap ServerRequests = {}

VARIABLES
    sock,      \* sock[s]: the network's view of the WebSocket
    inbox,     \* inbox[end][s]: messages on their way to that end
    noticed,   \* noticed[s]: "no", "error" or "closed", the last event of s the client got
    cstate,    \* cstate[s]: ConnectionInner.state
    current,   \* ClientInner.connection, 0 for None
    timers,    \* reconnect tasks that sleep
    delay,     \* ClientInner.reconnect_delay
    signal,    \* ClientInner.state
    wakers,    \* pending_ready_wakers
    waiter,    \* waiter[w]: the ready() future w
    handler,   \* handler[s]: the server's handle_socket task, with its Connection state
    peer,      \* peer[end]: the socket of the sender registered for the other node, or 0
    tasks,     \* spawned handle_message tasks, and those that are handling a request
    request,   \* request[r]: the call
    used,      \* used[r]: the sockets the request and its answer were sent over
    ignored,   \* requests handle_message dropped: their sender was not registered
    crossed    \* a handler (de)registered the client while another socket's was registered

netVars == <<sock, inbox>>
clientVars == <<noticed, cstate, current, timers, delay, signal, wakers>>
requestVars == <<tasks, request, used, ignored>>
vars == <<netVars, clientVars, waiter, handler, peer, requestVars, crossed>>

Other(end) == IF end = "client" THEN "server" ELSE "client"
Owner(r) == IF r \in ClientRequests THEN "client" ELSE "server"
Presence == [type |-> "presence"]
Message(type, r) == [type |-> type, id |-> r]

Lesser(x, y) == IF x < y THEN x ELSE y

\* WebsocketClient::new connects at once
Init ==
    /\ sock = [s \in Sockets |-> IF s = 1 THEN "connecting" ELSE "none"]
    /\ inbox = [end \in Ends |-> [s \in Sockets |-> <<>>]]
    /\ noticed = [s \in Sockets |-> "no"]
    /\ cstate = [s \in Sockets |-> "Connecting"]
    /\ current = 1 /\ timers = 0 /\ delay = 0 /\ signal = "Connecting"
    /\ wakers = {} /\ waiter = [w \in Waiters |-> "new"]
    /\ handler = [s \in Sockets |-> "none"]
    /\ peer = [end \in Ends |-> 0]
    /\ tasks = {} /\ request = [r \in Requests |-> "none"]
    /\ used = [r \in Requests |-> {}] /\ ignored = {} /\ crossed = FALSE

Made == {s \in Sockets : sock[s] # "none"}
Put(end, s, msg) ==   \* a socket that broke swallows what is sent
    inbox' = IF sock[s] = "up" THEN [inbox EXCEPT ![end][s] = Append(@, msg)] ELSE inbox
Take(end, s) == inbox' = [inbox EXCEPT ![end][s] = Tail(@)]

-----------------------------------------------------------------------------
(* The network *)

\* mutant: a client the server knows gets no presence
GreetingOnce == IF peer["server"] = 0 THEN <<Presence>> ELSE <<>>
Greeting == <<Presence>>

\* the upgrade succeeds: handle_socket starts and sends the server's presence
Accept(s) ==
    /\ sock[s] = "connecting"
    /\ sock' = [sock EXCEPT ![s] = "up"]
    /\ inbox' = [inbox EXCEPT !["client"][s] = Greeting]
    /\ handler' = [handler EXCEPT ![s] = "Initial"]
    /\ UNCHANGED <<clientVars, waiter, peer, requestVars, crossed>>

\* a connection attempt fails, or a connection breaks; either end notices later
Break(s) ==
    /\ sock[s] \in {"connecting", "up"} /\ s < MaxSockets
    /\ sock' = [sock EXCEPT ![s] = "broken"]
    /\ UNCHANGED <<inbox, clientVars, waiter, handler, peer, requestVars, crossed>>

-----------------------------------------------------------------------------
(* The client *)

\* mutant: no cap
NextDelayUncapped == delay + 1
NextDelay == Lesser(delay + 1, MaxDelay)

\* mutant: the wakers are dropped
WokenNone == waiter
Woken == [w \in Waiters |-> IF w \in wakers THEN "woken" ELSE waiter[w]]

\* mutant: the events of any socket count
ConcernsAny(s) == TRUE
Concerns(s) == s = current

\* Connection::set_state and ClientInner::handle_state_change
SetState(s, new) ==
    /\ cstate' = [cstate EXCEPT ![s] = new]
    /\ IF ~Concerns(s) THEN UNCHANGED <<current, timers, delay, signal, wakers, waiter>>
       ELSE /\ signal' = new
            /\ IF new = "Connected"
               THEN /\ delay' = 0
                    /\ wakers' = {}
                    /\ waiter' = Woken
                    /\ UNCHANGED <<current, timers>>
               ELSE /\ current' = 0
                    /\ delay' = NextDelay
                    /\ timers' = timers + 1
                    /\ UNCHANGED <<wakers, waiter>>

\* the reconnect task wakes up and connects
Reconnect ==
    LET s == Cardinality(Made) + 1 IN
    /\ timers > 0 /\ s \in Sockets
    /\ timers' = timers - 1
    /\ sock' = [sock EXCEPT ![s] = "connecting"]
    /\ current' = s
    /\ signal' = "Connecting"
    /\ UNCHANGED <<inbox, noticed, cstate, delay, wakers, waiter, handler, peer, requestVars, crossed>>

\* a socket that fails fires an error event first
HandleError(s) ==
    /\ sock[s] = "broken" /\ noticed[s] = "no"
    /\ noticed' = [noticed EXCEPT ![s] = "error"]
    /\ SetState(s, "Error")
    /\ UNCHANGED <<netVars, handler, peer, requestVars, crossed>>

HandleClose(s) ==
    /\ sock[s] = "broken" /\ noticed[s] # "closed"
    /\ noticed' = [noticed EXCEPT ![s] = "closed"]
    /\ SetState(s, "Closed")
    /\ UNCHANGED <<netVars, handler, peer, requestVars, crossed>>

\* mutant: a server that is registered already stays as it is
RegisterServerOnce(s) == IF s = current /\ peer["client"] = 0 THEN [peer EXCEPT !["client"] = s] ELSE peer
RegisterServer(s) == IF s = current THEN [peer EXCEPT !["client"] = s] ELSE peer

\* receive_message, the server's presence: register it and answer with our own
ReceivePresence(s) ==
    /\ noticed[s] = "no" /\ inbox["client"][s] # <<>>
    /\ Head(inbox["client"][s]) = Presence
    /\ cstate[s] = "Connecting"
    /\ SetState(s, "Connected")
    /\ peer' = RegisterServer(s)
    /\ inbox' = [inbox EXCEPT !["client"][s] = Tail(@),
                              !["server"][s] = IF s = current /\ sock[s] = "up"
                                               THEN Append(@, Presence) ELSE @]
    /\ UNCHANGED <<sock, noticed, handler, requestVars, crossed>>

\* receive_message, a message of the peer: a task of its own handles it
ReceivePeerMessage(s) ==
    LET msg == Head(inbox["client"][s]) IN
    /\ noticed[s] = "no" /\ inbox["client"][s] # <<>> /\ msg # Presence
    /\ Take("client", s)
    /\ tasks' = tasks \cup {[at |-> "client", msg |-> msg, reply |-> 0]}
    /\ UNCHANGED <<sock, clientVars, waiter, handler, peer, request, used, ignored, crossed>>

\* mutant: never polled again
PollableNew(w) == waiter[w] = "new"
Pollable(w) == waiter[w] \in {"new", "woken"}

\* ReadyFuture::poll, the first time and when it has been woken
PollReady(w) ==
    /\ Pollable(w)
    /\ IF signal = "Connected"
       THEN waiter' = [waiter EXCEPT ![w] = "ready"] /\ UNCHANGED wakers
       ELSE waiter' = [waiter EXCEPT ![w] = "pending"] /\ wakers' = wakers \cup {w}
    /\ UNCHANGED <<netVars, noticed, cstate, current, timers, delay, signal, handler, peer,
                   requestVars, crossed>>

-----------------------------------------------------------------------------
(* The server *)

\* mutant: a client that is registered already stays as it is
RegisterClientOnce(s) == IF peer["server"] = 0 THEN [peer EXCEPT !["server"] = s] ELSE peer
RegisterClient(s) == [peer EXCEPT !["server"] = s]

\* process_message: the first presence registers the client over this socket
ProcessPresence(s) ==
    /\ handler[s] \in {"Initial", "Established"} /\ inbox["server"][s] # <<>>
    /\ Head(inbox["server"][s]) = Presence
    /\ Take("server", s)
    /\ handler' = [handler EXCEPT ![s] = "Established"]
    /\ IF handler[s] = "Initial"
       THEN /\ peer' = RegisterClient(s)
            /\ crossed' = (crossed \/ peer["server"] > s
                             \/ \E z \in Sockets : z > s /\ handler[z] = "Established")
       ELSE UNCHANGED <<peer, crossed>>
    /\ UNCHANGED <<sock, clientVars, waiter, requestVars>>

ProcessPeerMessage(s) ==
    LET msg == Head(inbox["server"][s]) IN
    /\ handler[s] \in {"Initial", "Established"} /\ inbox["server"][s] # <<>> /\ msg # Presence
    /\ Take("server", s)
    /\ tasks' = IF handler[s] = "Established"
                THEN tasks \cup {[at |-> "server", msg |-> msg, reply |-> 0]} ELSE tasks
    /\ UNCHANGED <<sock, clientVars, waiter, handler, peer, request, used, ignored, crossed>>

\* the receiver ends: a close message, an error, or the end of the stream
SocketEnds(s) ==
    /\ sock[s] = "broken" /\ handler[s] \in {"Initial", "Established"}
    /\ handler' = [handler EXCEPT ![s] = "done"]
    /\ IF handler[s] = "Established"
       THEN /\ peer' = [peer EXCEPT !["server"] = 0]
            /\ crossed' = (crossed \/ peer["server"] \notin {0, s})
       ELSE UNCHANGED <<peer, crossed>>
    /\ UNCHANGED <<netVars, clientVars, waiter, requestVars>>

-----------------------------------------------------------------------------
(* Node::request and Node::handle_message at either end *)

Send(end, s, msg) ==
    /\ Put(Other(end), s, msg)
    /\ used' = [used EXCEPT ![msg.id] = @ \cup {s}]

\* The browser takes what is sent over a broken socket and forgets it; the
\* server's channel takes it until the writer task has failed on the socket.
Request(r) ==
    LET end == Owner(r)  s == peer[end] IN
    /\ request[r] = "none"
    /\ Cardinality({q \in Requests : request[q] # "none"}) < MaxCalls
    /\ \/ /\ s # 0
          /\ request' = [request EXCEPT ![r] = "waiting"]
          /\ Send(end, s, Message("request", r))
       \/ /\ s # 0 => end = "server" /\ sock[s] = "broken"
          /\ request' = [request EXCEPT ![r] = "failed"]
          /\ UNCHANGED <<inbox, used>>
    /\ UNCHANGED <<sock, clientVars, waiter, handler, peer, tasks, ignored, crossed>>

\* handle_message of a request looks its sender up, and drops the request if it is not there
StartRequest(t) ==
    LET s == peer[t.at] IN
    /\ t \in tasks /\ t.msg.type = "request" /\ t.reply = 0
    /\ IF s # 0
       THEN tasks' = (tasks \ {t}) \cup {[t EXCEPT !.reply = s]} /\ UNCHANGED ignored
       ELSE tasks' = tasks \ {t} /\ ignored' = ignored \cup {t.msg.id}
    /\ UNCHANGED <<netVars, clientVars, waiter, handler, peer, request, used, crossed>>

\* mutant: the answer looks its way up when it is ready
AnswerOverLate(t) == peer[t.at]
AnswerOver(t) == t.reply

FinishRequest(t) ==
    /\ t \in tasks /\ t.reply # 0
    /\ tasks' = tasks \ {t}
    /\ IF AnswerOver(t) = 0 THEN UNCHANGED <<inbox, used>>
       ELSE Send(t.at, AnswerOver(t), Message("response", t.msg.id))
    /\ UNCHANGED <<sock, clientVars, waiter, handler, peer, request, ignored, crossed>>

HandleResponse(t) ==
    /\ t \in tasks /\ t.msg.type = "response"
    /\ tasks' = tasks \ {t}
    /\ request' = IF request[t.msg.id] = "waiting"
                  THEN [request EXCEPT ![t.msg.id] = "answered"] ELSE request
    /\ UNCHANGED <<netVars, clientVars, waiter, handler, peer, used, ignored, crossed>>

Client(s) == HandleError(s) \/ HandleClose(s) \/ ReceivePresence(s) \/ ReceivePeerMessage(s)
Server(s) == ProcessPresence(s) \/ ProcessPeerMessage(s) \/ SocketEnds(s)
Handle(t) == StartRequest(t) \/ FinishRequest(t) \/ HandleResponse(t)

Next ==
    \/ \E s \in Sockets : Accept(s) \/ Break(s) \/ Client(s) \/ Server(s)
    \/ Reconnect
    \/ \E w \in Waiters : PollReady(w)
    \/ \E r \in Requests : Request(r)
    \/ \E t \in tasks : Handle(t)

\* Attempts succeed or fail, events are delivered, timers fire, woken tasks are polled.
Fairness ==
    /\ \A s \in Sockets : WF_vars(Accept(s)) /\ WF_vars(Client(s)) /\ WF_vars(Server(s))
    /\ WF_vars(Reconnect)
    /\ \A w \in Waiters : WF_vars(PollReady(w))

Spec == Init /\ [][Next]_vars /\ Fairness

-----------------------------------------------------------------------------
(* Properties *)

Messages == {Presence} \cup {Message(type, r) : type \in {"request", "response"}, r \in Requests}

\* What is in the queues, the tasks and the registrations is what the connectors put there.
TypeOK ==
    /\ \A s \in Sockets :
        /\ sock[s] \in {"none", "connecting", "up", "broken"}
        /\ noticed[s] \in {"no", "error", "closed"}
        /\ cstate[s] \in {"Connecting", "Connected", "Closed", "Error"}
        /\ handler[s] \in {"none", "Initial", "Established", "done"}
        /\ \A end \in Ends : \A i \in 1..Len(inbox[end][s]) : inbox[end][s][i] \in Messages
    /\ current \in Sockets \cup {0} /\ delay \in 0..MaxDelay
    /\ \A end \in Ends : peer[end] \in Sockets \cup {0}
    /\ \A t \in tasks : t.at \in Ends /\ t.msg \in Messages \ {Presence} /\ t.reply \in Sockets \cup {0}
    /\ \A r \in Requests : used[r] \subseteq Sockets

\* Whatever error and close events the sockets fire, late ones included, the client has a
\* connection or exactly one reconnect that sleeps, and not both (client.rs:74-135), and
\* starts over with the delay once it has been connected.
OneConnection ==
    /\ timers = IF current = 0 THEN 1 ELSE 0
    /\ current # 0 => current = Cardinality(Made) /\ noticed[current] = "no"
    /\ signal = "Connected" => delay = 0

\* When the client says it is connected, requests go over the current socket, whose server
\* presence it has: ready() does not resolve before the node can be used (connection.rs:127).
ConnectedMeansRegistered ==
    signal = "Connected" => current # 0 /\ peer["client"] = current /\ cstate[current] = "Connected"

\* No ready() future sleeps while the client is connected: a waker pushed between two state
\* changes is woken by the next Connected (client.rs:98 and 155).
NoSleeper ==
    /\ {w \in Waiters : waiter[w] = "pending"} = wakers
    /\ signal = "Connected" => wakers = {}

\* When the server has noticed every broken socket and no message is on its way, the server
\* has the client registered over the socket on which the client is connected, unless the
\* handler of one socket worked on the registration of another (server.rs:86).
AgreeWhenSettled ==
    /\ signal = "Connected" /\ sock[current] = "up" /\ ~crossed
    /\ \A s \in Sockets : /\ inbox["server"][s] = <<>>
                          /\ sock[s] = "broken" => handler[s] \in {"none", "done"}
    => peer["server"] = current

\* The places where a request or its answer is
Slots(end, s, r) ==
    {i \in 1..Len(inbox[end][s]) : inbox[end][s][i] # Presence /\ inbox[end][s][i].id = r}
Queued(r) == UNION {{<<p, i>> : i \in Slots(p[1], p[2], r)} : p \in Ends \X Sockets}
Traces(r) == Queued(r) \cup {t \in tasks : t.msg.id = r}

\* A request that is awaited is at one place at most, so it is answered once at most; it is at
\* none only if a socket it travelled over broke, or the server did not know the client when it
\* came, which over an unbroken socket happens only after handlers have crossed (node.rs:151).
LostWithSocket ==
    \A r \in Requests : request[r] = "waiting" =>
        /\ Cardinality(Traces(r)) <= 1
        /\ Traces(r) = {} => \/ \E s \in used[r] : sock[s] = "broken"
                             \/ r \in ignored /\ crossed

\* Once the network stops failing the client is connected for good.
Reconnects == <>[](signal = "Connected")

\* Every ready() future resolves.
EventuallyReady == \A w \in Waiters : <>(waiter[w] = "ready")
=============================================================================
