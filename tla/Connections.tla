---------------------------- MODULE Connections ----------------------------
(***************************************************************************)
(* How the processes of a Gengar installation connect to one server and    *)
(* leave it.  The watcher makes one connection, a client two: the connect  *)
(* transport, and after it the poll transport.  The server tells by the    *)
(* peer's address which transports belong together (link_trans), keeps     *)
(* those of the clients in client_list, counts them in cur_connections,    *)
(* and sends the watcher the accounts of each pair whenever one of them    *)
(* changes or a transport goes.                                            *)
(*                                                                         *)
(* Every process has a main thread, whose calls dhmp_client_init and       *)
(* dhmp_client_destroy are chains of spins, and an epoll thread, which     *)
(* handles the events of the connection manager and completions one by     *)
(* one, and looks at ctx->stop after each.  The server does all its work   *)
(* in its epoll thread, on which all its connections' events arrive in     *)
(* order.  What the kernel does is modelled as it is used: messages and    *)
(* handshakes of one process arrive in the order they were sent, and a     *)
(* process that exits or dies takes its established connections along.     *)
(***************************************************************************)
EXTENDS Integers, FiniteSets, Sequences, SequencesExt

CONSTANTS
  Clients,     \* the clients: one process at a time on each host
  Watcher,     \* the process of dhmp_watcher.c
  Null,        \* a null pointer
  MaxLives,    \* bound: how often a client is started
  MaxUsed,     \* bound: transports with something on their account
  MaxFaults,   \* bound: processes that die and calls that fail in a run
  SlowMain     \* whether a main thread may be slower than the handshake

Processes == Clients \cup {Watcher}
Lives == 1 .. MaxLives
Faults == 0 .. MaxFaults

ASSUME ProcessesAssumption == Watcher \notin Clients
ASSUME BoundsAssumption ==
  /\ MaxLives \in Nat \ {0} /\ MaxUsed \in Nat /\ MaxFaults \in Nat
  /\ SlowMain \in BOOLEAN

VARIABLES
  conn,        \* the connections, each with its two transports
  life,        \* how often each process was started
  main,        \* where the main thread of each process is
  loop,        \* where its epoll thread is
  stop,        \* its ctx->stop
  wire,        \* the messages under way
  events,      \* the server's connection manager events, in order
  watcherTrans,  \* server->watcher_trans
  clientList,  \* server->client_list
  curConnections,  \* server->cur_connections
  view,        \* what the watcher's last MEM_CHANGE said of each pair
  faults       \* how many faults there were

process == <<life, main, loop, stop>>
server == <<watcherTrans, clientList, curConnections, view>>
vars == <<conn, process, wire, events, server, faults>>

----------------------------------------------------------------------------
\* Transports

States == {"none", "init", "connecting", "connected", "disconnected", "error"}
\* A connection is named by its process, its kind and the life of the process
\* that made it.
Conns == [owner : Processes, poll : BOOLEAN, life : Lives]
ASSUME NullAssumption == Null \notin Conns
ConnectTrans(p) == [owner |-> p, poll |-> FALSE, life |-> life[p]]
PollTrans(p) == [owner |-> p, poll |-> TRUE, life |-> life[p]]
Connection ==
  [mine : States,            \* trans_state at the process
   marked : BOOLEAN,         \* dhmp_transport_connect has returned
   up : {"no", "yes", "ending"},  \* what it is for the kernels
   srv : States,             \* trans_state at the server
   known : BOOLEAN,          \* the server's peer_addr is set
   isPoll : BOOLEAN,         \* is_poll_qp at the server
   link : Conns \cup {Null}, \* link_trans
   used : 0 .. 1]            \* the bytes on its account, capped
NoConnection ==
  [mine |-> "none", marked |-> FALSE, up |-> "no", srv |-> "none",
   known |-> FALSE, isPoll |-> FALSE, link |-> Null, used |-> 0]

\* The transports of a running process, and whether c is one.
Held(c) == conn[c].mine # "none"
Transports(p) == {c \in Conns : c.owner = p /\ Held(c)}

\* trans_state<DHMP_TRANSPORT_STATE_CONNECTED, for which init spins
SlipWaiting(c) == conn[c].mine # "connected"
Waiting(c) == conn[c].mine \in {"init", "connecting"}
\* dhmp_transport_connect has returned and the spin is over.
SlipSettled(c) == conn[c].marked
Settled(c) == conn[c].marked /\ ~Waiting(c)
Message(kind, c) == [kind |-> kind, conn |-> c]
Send(kind, c) == wire' = wire \cup {Message(kind, c)}
Enqueue(kind, c) == events' = Append(events, Message(kind, c))
\* A request whose answer dhmp_post_send has dropped; kept for the properties.
Lost(c) == Message("lost", c)
AnswerLost(p) == \E c \in Transports(p) : Lost(c) \in wire
Fault == faults < MaxFaults /\ faults' = faults + 1

----------------------------------------------------------------------------
\* What the server tells the watcher

\* dhmp_inform_watcher_func lists the connect transports that have a
\* partner, each with what both have on their accounts.
Listing(list, cs) ==
  {[conn |-> c, used |-> cs[c].used + cs[cs[c].link].used] :
     c \in {d \in ToSet(list) : cs[d].link # Null /\ ~cs[d].isPoll}}

WatcherIsUp ==
  watcherTrans # Null /\ conn[watcherTrans].srv = "connected"
SlipInform(list, cs) ==
  view' = IF WatcherIsUp THEN Listing(clientList, conn) ELSE view
Inform(list, cs) == view' = IF WatcherIsUp THEN Listing(list, cs) ELSE view

----------------------------------------------------------------------------
\* The main thread of a process

Init ==
  /\ conn = [c \in Conns |-> NoConnection]
  /\ life = [p \in Processes |-> 0]
  /\ main = [p \in Processes |-> "off"]
  /\ loop = [p \in Processes |-> "off"]
  /\ stop = [p \in Processes |-> FALSE]
  /\ wire = {}
  /\ events = <<>>
  /\ watcherTrans = Null /\ clientList = <<>> /\ curConnections = 0
  /\ view = {}
  /\ faults = 0

\* dhmp_transport_create and dhmp_transport_connect, which returns after the
\* assignment of Mark; unless SlowMain no event can come before that.
Create(c) ==
  /\ conn' = [conn EXCEPT
                ![c].mine = IF SlowMain THEN "init" ELSE "connecting",
                ![c].marked = ~SlowMain]
  /\ Send("route", c)

\* Nothing on the server may still come from an earlier process of the host.
ForgottenByServer(p) == \A c \in Conns : c.owner = p =>
  /\ conn[c].up = "no" /\ conn[c].srv # "connected"
  /\ \A i \in DOMAIN events : events[i].conn # c

\* The README starts the servers, then the watcher, then the clients; the
\* watcher is started once.
MayStart(p) ==
  IF p = Watcher THEN life[p] = 0
  ELSE /\ watcherTrans # Null
       /\ conn[watcherTrans].srv \in {"connected", "disconnected"}
       /\ life[p] < MaxLives

Start(p) ==
  /\ main[p] = "off" /\ MayStart(p) /\ ForgottenByServer(p)
  /\ life' = [life EXCEPT ![p] = @ + 1]
  /\ main' = [main EXCEPT ![p] = "connect"]
  /\ loop' = [loop EXCEPT ![p] = "waiting"]
  /\ stop' = [stop EXCEPT ![p] = FALSE]
  /\ Create([ConnectTrans(p) EXCEPT !.life = life'[p]])
  /\ UNCHANGED <<events, server, faults>>

\* The last assignment of dhmp_transport_connect, whatever came before it
Mark(p) == \E c \in Transports(p) :
  /\ ~conn[c].marked
  /\ conn' = [conn EXCEPT ![c].marked = TRUE, ![c].mine = "connecting"]
  /\ UNCHANGED <<process, wire, events, server, faults>>

\* A client goes on to its poll transport; the watcher asks for the sizes of
\* the server's memory and spins until they come.
ConnectDone(p) ==
  /\ main[p] = "connect"
  /\ LET c == ConnectTrans(p) IN
     /\ Settled(c)
     /\ IF p = Watcher
        THEN /\ main' = [main EXCEPT ![p] = "fetch"]
             /\ IF conn[c].mine = "connected"
                THEN Send("info_request", c)
                ELSE UNCHANGED wire
             /\ UNCHANGED conn
        ELSE /\ main' = [main EXCEPT ![p] = "poll"]
             /\ Create(PollTrans(p))
  /\ UNCHANGED <<life, loop, stop, events, server, faults>>

PollDone(p) ==
  /\ main[p] = "poll"
  /\ Settled(PollTrans(p))
  /\ main' = [main EXCEPT ![p] = "running"]
  /\ UNCHANGED <<conn, life, loop, stop, wire, events, server, faults>>

\* dhmp_client_destroy: dhmp_close_connection for one transport, then for
\* the other.  It returns at once from a transport that is not connected;
\* else the work thread sends the message, unless it spins for a lost answer.
Close(p, from, to, c) ==
  /\ main[p] = from
  /\ main' = [main EXCEPT ![p] = to]
  /\ \/ conn[c].mine = "connected" /\ ~AnswerLost(p) /\ Send("close", c)
     \/ conn[c].mine # "connected" /\ UNCHANGED wire
  /\ UNCHANGED <<conn, life, loop, stop, events, server, faults>>

CloseConnect(p) ==
  p \in Clients /\ Close(p, "running", "closing", ConnectTrans(p))
ClosePoll(p) == Close(p, "closing", "leaving", PollTrans(p))

\* Then it sets ctx->stop and waits for the epoll thread, which may still have
\* to look at it after the last event.
SlipGoneForGood(c) == conn[c].mine = "disconnected"
GoneForGood(c) == conn[c].mine # "connected"
Leave(p) ==
  /\ main[p] = "leaving"
  /\ \A c \in Transports(p) : GoneForGood(c)
  /\ main' = [main EXCEPT ![p] = "joining"]
  /\ stop' = [stop EXCEPT ![p] = TRUE]
  /\ \/ UNCHANGED loop
     \/ loop' = [loop EXCEPT ![p] = "ended"]
  /\ UNCHANGED <<conn, life, wire, events, server, faults>>

\* The process is gone: the kernel ends what it leaves behind.
Gone(p) ==
  /\ main' = [main EXCEPT ![p] = "off"]
  /\ loop' = [loop EXCEPT ![p] = "off"]
  /\ stop' = [stop EXCEPT ![p] = FALSE]
  /\ conn' = [c \in Conns |->
                IF c.owner = p
                THEN [conn[c] EXCEPT !.mine = "none", !.marked = FALSE]
                ELSE conn[c]]
  /\ wire' = {m \in wire : m.conn.owner # p}
  /\ view' = IF p = Watcher THEN {} ELSE view
  /\ UNCHANGED <<life, events, watcherTrans, clientList, curConnections>>

\* pthread_join of the epoll thread
Exit(p) ==
  main[p] = "joining" /\ loop[p] = "ended" /\ Gone(p) /\ UNCHANGED faults
Die(p) == main[p] # "off" /\ Fault /\ Gone(p)

----------------------------------------------------------------------------
\* The epoll thread of a process

\* ctx->stop is looked at after every event, and only then.
Handling(p, stopped) ==
  /\ loop[p] = "waiting"
  /\ loop' = [loop EXCEPT ![p] = IF stopped THEN "ended" ELSE "waiting"]

\* An event for transport c
Receive(p, kind, c) ==
  /\ c \in Transports(p)
  /\ Message(kind, c) \in wire
  /\ Handling(p, stop'[p])

\* on_cm_addr_resolved and on_cm_route_resolved.  Of the failures, that of
\* dhmp_qp_create leaves no trace and that of rdma_connect ends the loop.
RouteResolved(p) == \E c \in Conns :
  /\ \/ Enqueue("request", c) /\ UNCHANGED <<conn, stop, faults>>
     \/ Fault /\ UNCHANGED <<conn, stop, events>>
     \/ /\ Fault
        /\ conn' = [conn EXCEPT ![c].mine = "error"]
        /\ stop' = [stop EXCEPT ![p] = TRUE]
        /\ UNCHANGED events
  /\ Receive(p, "route", c)
  /\ wire' = wire \ {Message("route", c)}
  /\ UNCHANGED <<life, main, server>>

\* on_cm_established, or on_cm_error; the server is told of the latter by an
\* event that it ignores.
Established(p) == \E c \in Conns :
  /\ UNCHANGED <<life, main, stop, server>>
  /\ Receive(p, "accept", c)
  /\ wire' = wire \ {Message("accept", c)}
  /\ \/ /\ conn' = [conn EXCEPT ![c].mine = "connected", ![c].up = "yes"]
        /\ Enqueue("established", c)
        /\ UNCHANGED faults
     \/ /\ Fault
        /\ conn' = [conn EXCEPT ![c].mine = "error"]
        /\ UNCHANGED events

\* on_cm_disconnected at the process
Disconnected(p) == \E c \in Conns :
  /\ UNCHANGED <<life, main, stop, events, server, faults>>
  /\ Receive(p, "disconnect", c)
  /\ wire' = wire \ {Message("disconnect", c)}
  /\ conn' = [conn EXCEPT ![c].mine = "disconnected"]

\* dhmp_server_info_response_handler ends the watcher's spin.
InfoResponse(p) == \E c \in Conns :
  /\ UNCHANGED <<conn, life, stop, events, server, faults>>
  /\ Receive(p, "info_response", c)
  /\ wire' = wire \ {Message("info_response", c)}
  /\ main' = [main EXCEPT ![p] = "running"]

----------------------------------------------------------------------------
\* The server

\* The next event is about c.
Event(kind, c) ==
  /\ events # <<>>
  /\ Head(events) = Message(kind, c)
  /\ events' = Tail(events)

\* dhmp_is_exist_connection: the first transport of the list with the same
\* peer address; what an unset peer_addr holds is nobody's address.
SlipIsExistConnection(c) ==
  LET i == SelectInSeq(clientList, LAMBDA d : d.owner = c.owner)
  IN  IF i = 0 THEN Null ELSE clientList[i]
IsExistConnection(c) ==
  LET i == SelectInSeq(clientList,
                       LAMBDA d : conn[d].known /\ d.owner = c.owner)
  IN  IF i = 0 THEN Null ELSE clientList[i]

\* The transports after c was accepted: both ends of a pair are linked.
SlipAccepted(c, normal, state) ==
  [d \in Conns |->
     IF d = c THEN [conn[c] EXCEPT !.srv = state, !.known = TRUE,
                      !.isPoll = normal # Null, !.link = normal]
     ELSE IF d = normal THEN [conn[d] EXCEPT !.link = c]
     ELSE conn[d]]
Accepted(c, normal, state) ==
  [d \in Conns |->
     IF d = c THEN [conn[c] EXCEPT !.srv = state,
                      !.isPoll = normal # Null, !.link = normal]
     ELSE IF d = normal THEN [conn[d] EXCEPT !.link = c]
     ELSE conn[d]]

\* on_cm_connect_request.  The failures leave what was done before them:
\* dhmp_qp_create fails before the transport is in the list, rdma_accept
\* after it.
ConnectRequest == \E c \in Conns :
  /\ Event("request", c)
  /\ \/ /\ Fault
        /\ UNCHANGED <<conn, wire, server>>
     \/ /\ \/ /\ conn' = Accepted(c, IsExistConnection(c), "connecting")
              /\ IF Held(c) THEN Send("accept", c) ELSE UNCHANGED wire
              /\ UNCHANGED faults
           \/ /\ Fault
              /\ conn' = Accepted(c, IsExistConnection(c), "init")
              /\ UNCHANGED wire
        /\ IF watcherTrans = Null
           THEN watcherTrans' = c /\ UNCHANGED <<clientList, curConnections>>
           ELSE /\ clientList' = Append(clientList, c)
                /\ curConnections' = curConnections + 1
                /\ UNCHANGED watcherTrans
        /\ UNCHANGED view
  /\ UNCHANGED process

\* on_cm_established at the server
ServerEstablished == \E c \in Conns :
  /\ Event("established", c)
  /\ conn' = [conn EXCEPT ![c].srv = "connected", ![c].known = TRUE]
  /\ UNCHANGED <<process, wire, server, faults>>

\* The watcher's connection is not in the list.
SlipIsClient(c) == TRUE
IsClient(c) == c # watcherTrans
SlipWithout(c) == clientList
Without(c) == RemoveFirst(clientList, c)

\* on_cm_disconnected at the server
ServerDisconnected == \E c \in Conns :
  /\ Event("disconnected", c)
  /\ conn' = [conn EXCEPT ![c].srv = "disconnected"]
  /\ IF IsClient(c)
     THEN /\ curConnections' = curConnections - 1
          /\ clientList' = Without(c)
          /\ Inform(clientList', conn')
     ELSE UNCHANGED <<curConnections, clientList, view>>
  /\ UNCHANGED <<process, wire, watcherTrans, faults>>

\* A message is handled while the server's end of the connection is alive,
\* which it is from the request on.
Alive(c) == conn[c].srv \in {"connecting", "connected"}

\* DHMP_MSG_CLOSE_CONNECTION: rdma_disconnect
CloseRequest == \E c \in Conns :
  /\ Message("close", c) \in wire /\ Alive(c)
  /\ wire' = (wire \ {Message("close", c)}) \cup {Message("disconnect", c)}
  /\ conn' = [conn EXCEPT ![c].up = "ending"]
  /\ UNCHANGED <<process, events, server, faults>>

\* dhmp_post_send drops an answer while trans_state is not CONNECTED.
SlipAnswer(c) ==
  IF conn[c].srv = "connected"
  THEN {m \in {Message("info_response", c)} : Contains(clientList, c)}
  ELSE {Lost(c)}
Answer(c) ==
  IF conn[c].srv = "connected" THEN {Message("info_response", c)}
  ELSE {Lost(c)}

\* dhmp_server_info_request_handler
InfoRequest == \E c \in Conns :
  /\ Message("info_request", c) \in wire /\ Alive(c)
  /\ wire' = (wire \ {Message("info_request", c)}) \cup Answer(c)
  /\ UNCHANGED <<conn, process, events, server, faults>>

\* A malloc or a free on the connect transport, an APPLY or a CLEAR on the
\* poll transport: the account changes and the watcher is informed.
Account(p) == \E c \in Transports(p) :
  /\ main[p] = "running" /\ p \in Clients
  /\ conn[c].mine = "connected" /\ Alive(c)
  /\ \/ conn[c].used = 1
     \/ Cardinality({d \in Conns : conn[d].used = 1}) < MaxUsed
  /\ conn' = [conn EXCEPT ![c].used = 1 - @]
  /\ Inform(clientList, conn')
  /\ wire' = IF conn[c].srv = "connected" THEN wire ELSE wire \cup {Lost(c)}
  /\ UNCHANGED <<process, events, watcherTrans, clientList,
                 curConnections, faults>>

\* The kernel tells the server that an established connection has ended.
ConnectionEnds == \E c \in Conns :
  /\ \/ conn[c].up = "ending"
     \/ conn[c].up = "yes" /\ ~Held(c)
  /\ conn' = [conn EXCEPT ![c].up = "no"]
  /\ Enqueue("disconnected", c)
  /\ UNCHANGED <<process, wire, server, faults>>

----------------------------------------------------------------------------

MainSteps(p) ==
  Mark(p) \/ ConnectDone(p) \/ PollDone(p) \/ ClosePoll(p) \/ Leave(p)
    \/ Exit(p)
EpollSteps(p) ==
  RouteResolved(p) \/ Established(p) \/ Disconnected(p) \/ InfoResponse(p)
ServerSteps ==
  ConnectRequest \/ ServerEstablished \/ ServerDisconnected \/ CloseRequest
    \/ InfoRequest

Next ==
  \/ \E p \in Processes :
       \/ Start(p) \/ CloseConnect(p) \/ Die(p) \/ Account(p)
       \/ MainSteps(p) \/ EpollSteps(p)
  \/ ServerSteps
  \/ ConnectionEnds

Spec == Init /\ [][Next]_vars

\* Threads run, messages arrive, and a connection whose end was asked for
\* ends; nobody has to start, to die or to call dhmp_client_destroy.
FairSpec ==
  /\ Spec
  /\ \A p \in Processes : WF_vars(MainSteps(p)) /\ WF_vars(EpollSteps(p))
  /\ WF_vars(ServerSteps)
  /\ WF_vars(ConnectionEnds)

----------------------------------------------------------------------------
\* Properties

\* Every variable has its type; cur_connections does not go below zero.
TypeOK ==
  /\ conn \in [Conns -> Connection]
  /\ life \in [Processes -> 0 .. MaxLives]
  /\ main \in [Processes -> {"off", "connect", "poll", "fetch", "running",
                             "closing", "leaving", "joining"}]
  /\ loop \in [Processes -> {"off", "waiting", "ended"}]
  /\ stop \in [Processes -> BOOLEAN]
  /\ \A m \in wire : m.conn \in Conns
  /\ \A i \in DOMAIN events : events[i].conn \in Conns
  /\ watcherTrans \in Conns \cup {Null}
  /\ clientList \in Seq(Conns)
  /\ view \subseteq [conn : Conns, used : 0 .. 2]
  /\ curConnections \in Nat
  /\ faults \in Faults

\* The list holds exactly the accepted transports that have not been told
\* to be disconnected, once each, and cur_connections, by which an APPLY
\* divides, counts them (dhmp_transport.c:1273, 1351).
ListExact ==
  /\ IsInjective(clientList)
  /\ ToSet(clientList) =
       {c \in Conns : conn[c].srv \in {"init", "connecting", "connected"}}
         \ {watcherTrans}
  /\ curConnections = Len(clientList)

\* Both transports of p, as the client sees them, are connected.
Connected(p) ==
  main[p] = "running" /\ \A c \in Transports(p) : conn[c].mine = "connected"

\* When dhmp_client_init has returned, the server has taken the client's
\* two transports for a pair, and for its poll transport the one that the
\* client posts large receives on, whatever other clients, dead handshakes
\* and failures are about (dhmp_transport.c:1245).
PairsRight == \A p \in Clients : Connected(p) =>
  LET n == ConnectTrans(p)
      q == PollTrans(p)
  IN  /\ conn[n].link = q /\ conn[q].link = n
      /\ ~conn[n].isPoll /\ conn[q].isPoll

\* The first malloc finds the server's end of the connect transport
\* CONNECTED, so that its answer is not dropped (dhmp_transport.c:1742): the
\* request for the poll transport came after the event that says so.
ReadyBeforeUse == \A p \in Clients :
  Connected(p) => conn[ConnectTrans(p)].srv = "connected"

\* An entry that nothing will ever remove, since its handshake died, has no
\* peer address: no later transport is taken for its partner.
DeadEntriesAreNameless == \A i \in DOMAIN clientList :
  LET c == clientList[i]
  IN  (/\ ~Held(c) /\ conn[c].up = "no"
       /\ \A j \in DOMAIN events : events[j].conn # c) => ~conn[c].known

\* What the watcher was told last is what it would be told now, but for
\* pairs that have used nothing yet: dhmp_inform_watcher_func is called at
\* every change of an account and at every disconnect.
ViewCurrent ==
  WatcherIsUp /\ Held(watcherTrans) =>
    LET now == Listing(clientList, conn)
    IN  /\ view \subseteq now
        /\ \A e \in now \ view : e.used = 0

\* The request of c was refused, or never sent: nothing will come of it.
Refused(c) ==
  /\ Waiting(c) /\ conn[c].srv \in {"none", "init"}
  /\ \A m \in wire : m.conn # c
  /\ \A i \in DOMAIN events : events[i].conn # c

\* The server's answer has been handled, and dhmp_transport_connect has then
\* stored CONNECTING over CONNECTED or ERROR (dhmp_transport.c:1669).
Overwritten(c) ==
  /\ conn[c].mine = "connecting" /\ conn[c].srv \notin {"none", "init"}
  /\ Message("accept", c) \notin wire

\* dhmp_client_init and dhmp_watcher_init stop spinning for their
\* transports (dhmp_client.c:327, 355), unless the server has refused one,
\* the main thread has overwritten its state, or the epoll thread has ended.
InitReturns == \A p \in Processes :
  main[p] \in {"connect", "poll"} ~>
    \/ main[p] \notin {"connect", "poll"}
    \/ loop[p] = "ended"
    \/ \E c \in Transports(p) : Refused(c) \/ Overwritten(c)

\* dhmp_fetch_server_info stops spinning (dhmp_watcher.c:164), unless its
\* request was handled before the server knew the connection to be up, or
\* there is no connection.
FetchReturns ==
  main[Watcher] = "fetch" ~>
    \/ main[Watcher] # "fetch" \/ AnswerLost(Watcher)
    \/ loop[Watcher] = "ended"
    \/ conn[ConnectTrans(Watcher)].mine = "error"

\* dhmp_client_destroy sees both transports go (dhmp_client.c:449, 456),
\* unless its epoll thread has ended or its work thread waits in vain.
DestroyJoins == \A p \in Clients :
  main[p] \in {"closing", "leaving"} ~>
    \/ main[p] \notin {"closing", "leaving"}
    \/ loop[p] = "ended" \/ AnswerLost(p)
=============================================================================
