-------------------------- MODULE ConnectionsProofs --------------------------
(***************************************************************************)
(* The connections of a server, for any number of clients, lives of a      *)
(* client and failures.                                                    *)
(*                                                                         *)
(* The invariant follows each connection through its handshake: the token  *)
(* of the handshake is a message on the wire or an event in the queue of   *)
(* the server, and it is in one place.  From that, and from the order in   *)
(* which one process enqueues, comes what a pair of transports may rely    *)
(* on: when the server handles the request for the poll transport, the     *)
(* connect transport of the same process is the one and only transport in  *)
(* its list with that address.                                             *)
(***************************************************************************)
EXTENDS Connections, CountingTheorems, SequenceTheorems

Pair(c) == [owner |-> c.owner, poll |-> ~c.poll, life |-> c.life]

\* A message is on the wire w; an event is in the queue e.
In(w, kind, c) == Message(kind, c) \in w
Queued(e, kind, c) == \E i \in 1 .. Len(e) : e[i] = Message(kind, c)
NoneQueued(e, c) ==
  /\ ~Queued(e, "request", c) /\ ~Queued(e, "established", c)
  /\ ~Queued(e, "disconnected", c)

EventMessages == [kind : {"request", "established", "disconnected"}, conn : Conns]

(***************************************************************************)
(* One connection: r is its record, w the wire, e the queue, l the life    *)
(* its process is in, and m where the main thread of that is.              *)
(***************************************************************************)
RWaiting(r) == r.mine \in {"init", "connecting"}
RHeld(r) == r.mine # "none"

\* The transports that a process has.
HeldInv(c, r, l, m) ==
  /\ RHeld(r) <=>
       /\ c.life = l /\ m # "off"
       /\ c.poll => /\ c.owner \in Clients
                    /\ m \in {"poll", "running", "closing", "leaving", "joining"}
  /\ ~RHeld(r) => ~r.marked
  /\ RHeld(r) /\ m # (IF c.poll THEN "poll" ELSE "connect") => r.marked /\ ~RWaiting(r)

\* Where the token of the handshake may be.
TokenInv(c, r, w, e) ==
  /\ In(w, "route", c) =>
       RWaiting(r) /\ r.srv = "none" /\ r.up = "no" /\ NoneQueued(e, c)
  /\ Queued(e, "request", c) =>
       (~RHeld(r) \/ RWaiting(r)) /\ r.srv = "none" /\ r.up = "no"
  /\ In(w, "accept", c) =>
       RWaiting(r) /\ r.srv = "connecting" /\ r.up = "no" /\ NoneQueued(e, c)
  /\ Queued(e, "established", c) => r.srv = "connecting"

\* An established connection has an end that is still to come, and that the
\* server is told of once.
EndInv(c, r, w, e, m) ==
  /\ (r.srv = "connected" \/ Queued(e, "established", c)) <=>
       (r.up # "no" \/ Queued(e, "disconnected", c))
  /\ r.up # "no" => ~Queued(e, "disconnected", c)
  /\ r.mine = "connected" => r.up = "yes" \/ In(w, "disconnect", c)
  /\ In(w, "close", c) => r.up = "yes"
  /\ m \in {"connect", "fetch", "poll", "running"} \/ (c.poll /\ m = "closing") =>
       r.up # "ending" /\ ~In(w, "close", c) /\ ~In(w, "disconnect", c)

\* What the server has stored.
ServerInv(c, r) ==
  /\ r.known <=> r.srv \in {"connected", "disconnected"}
  /\ r.srv = "none" => r.used = 0
  /\ r.link \in {Null, Pair(c)}
  /\ r.isPoll <=> c.poll /\ r.link # Null

\* Nothing comes from an earlier life, or from one that is still to come.
Later(c, l, m) ==
  c.life > l \/ (c.poll /\ (c.owner = Watcher \/ (c.life = l /\ m = "connect")))
LifeInv(c, r, e, l, m) ==
  /\ c.life < l => r.srv # "connected" /\ r.up = "no" /\ NoneQueued(e, c)
  /\ Later(c, l, m) => r.srv = "none" /\ r.up = "no" /\ NoneQueued(e, c)

ConnInv(c, r, w, e, l, m) ==
  /\ HeldInv(c, r, l, m) /\ TokenInv(c, r, w, e) /\ EndInv(c, r, w, e, m)
  /\ ServerInv(c, r) /\ LifeInv(c, r, e, l, m)

(***************************************************************************)
(* The two connections of one process in one life: n and rn are the        *)
(* connect transport, q and rq the poll transport.                         *)
(***************************************************************************)
PairInv(n, rn, q, rq, e, l, m) ==
  /\ rq.srv = "none" => rn.link = Null
  /\ Queued(e, "request", q) \/ (n.life = l /\ m \in {"connect", "poll"}) =>
       rn.used = 0
  /\ rn.mine = "connected" /\ rq.srv # "none" =>
       rn.known /\ rn.link = q /\ rq.link = n
  /\ RHeld(rq) \/ Queued(e, "request", q) \/ rq.srv # "none" =>
       ~Queued(e, "request", n)

\* Of one connection only the end may follow in the queue, on its beginning;
\* the request of a poll transport comes after the event of its partner.
OrderInv(e) == \A i, j \in 1 .. Len(e) : i < j =>
  /\ e[i].conn = e[j].conn => e[i].kind = "established" /\ e[j].kind = "disconnected"
  /\ ~(/\ e[i].kind = "request" /\ e[j].kind = "established"
       /\ e[i].conn.poll /\ e[i].conn = Pair(e[j].conn))

WireInv == \A m \in wire :
  /\ m.conn \in Conns /\ Held(m.conn)
  /\ m.kind \in {"info_request", "info_response"} =>
       m.conn.owner = Watcher /\ main[Watcher] \in {"fetch", "running"}

\* The watcher comes before all clients, and once; it is told nothing before
\* the server knows its connection to be up.
WatcherInv ==
  /\ life[Watcher] <= 1
  /\ watcherTrans # Null =>
       watcherTrans.owner = Watcher /\ conn[watcherTrans].srv # "none"
  /\ \A p \in Clients : life[p] >= 1 =>
       watcherTrans # Null /\ conn[watcherTrans].known
  /\ \A c \in Conns : conn[c].srv # "none" /\ c.owner = Watcher => c = watcherTrans
  /\ view # {} => watcherTrans # Null /\ conn[watcherTrans].known

Types == TypeOK /\ events \in Seq(EventMessages)
  /\ \A p \in Processes : main[p] # "off" => life[p] >= 1

EachConn == \A c \in Conns :
  ConnInv(c, conn[c], wire, events, life[c.owner], main[c.owner])
EachPair == \A c \in Conns : ~c.poll =>
  PairInv(c, conn[c], Pair(c), conn[Pair(c)], events, life[c.owner], main[c.owner])

ConnectionsInv ==
  /\ Types /\ EachConn /\ EachPair /\ OrderInv(events)
  /\ WireInv /\ WatcherInv /\ ListExact /\ ViewCurrent

(***************************************************************************)
(* Names, messages and queues.                                             *)
(***************************************************************************)
LEMMA ConnNames ==
  /\ \A c, d \in Conns : c.owner = d.owner /\ c.poll = d.poll /\ c.life = d.life => c = d
  /\ \A c \in Conns : /\ c.owner \in Processes /\ c.poll \in BOOLEAN /\ c.life \in Lives
                      /\ c.life \in Nat /\ c.life >= 1
                      /\ Pair(c) \in Conns /\ Pair(Pair(c)) = c /\ Pair(c) # c
                      /\ Pair(c).owner = c.owner /\ Pair(c).life = c.life
                      /\ Pair(c).poll = ~c.poll
<1>1. ASSUME NEW c \in Conns, NEW d \in Conns,
             c.owner = d.owner, c.poll = d.poll, c.life = d.life
      PROVE  c = d
  BY <1>1 DEF Conns
<1>2. ASSUME NEW c \in Conns
      PROVE  /\ c.owner \in Processes /\ c.poll \in BOOLEAN /\ c.life \in Lives
             /\ c.life \in Nat /\ c.life >= 1
             /\ Pair(c) \in Conns /\ Pair(c).owner = c.owner /\ Pair(c).life = c.life
             /\ Pair(c).poll = ~c.poll
  BY BoundsAssumption DEF Conns, Lives, Pair
<1>3. ASSUME NEW c \in Conns PROVE Pair(Pair(c)) = c /\ Pair(c) # c
  <2>1. Pair(Pair(c)) \in Conns /\ Pair(Pair(c)).poll = c.poll
    BY <1>2
  <2> QED BY <1>1, <1>2, <2>1
<1> QED BY <1>1, <1>2, <1>3

LEMMA TransNames ==
  ASSUME NEW p \in Processes, life[p] \in Lives
  PROVE  /\ ConnectTrans(p) \in Conns /\ PollTrans(p) \in Conns
         /\ ConnectTrans(p).owner = p /\ PollTrans(p).owner = p
         /\ ConnectTrans(p).life = life[p] /\ PollTrans(p).life = life[p]
         /\ ~ConnectTrans(p).poll /\ PollTrans(p).poll
         /\ Pair(ConnectTrans(p)) = PollTrans(p)
BY DEF ConnectTrans, PollTrans, Conns, Pair

LEMMA MessageIs ==
  /\ \A k, c : Message(k, c).kind = k /\ Message(k, c).conn = c
  /\ \A k, c, j, d : Message(k, c) = Message(j, d) <=> k = j /\ c = d
BY DEF Message

LEMMA WireAdd ==
  ASSUME NEW w, NEW k, NEW c
  PROVE  \A j, d : In(w \cup {Message(k, c)}, j, d) <=> In(w, j, d) \/ (j = k /\ d = c)
BY MessageIs DEF In

LEMMA WireTake ==
  ASSUME NEW w, NEW k, NEW c
  PROVE  \A j, d : In(w \ {Message(k, c)}, j, d) <=> In(w, j, d) /\ ~(j = k /\ d = c)
BY MessageIs DEF In

LEMMA WireSwap ==
  ASSUME NEW w, NEW k, NEW i, NEW c
  PROVE  \A j, d : In((w \ {Message(k, c)}) \cup {Message(i, c)}, j, d) <=>
                     (In(w, j, d) /\ ~(j = k /\ d = c)) \/ (j = i /\ d = c)
<1> DEFINE v == w \ {Message(k, c)}
<1>1. \A j, d : In(v, j, d) <=> In(w, j, d) /\ ~(j = k /\ d = c)
  BY WireTake
<1> HIDE DEF v
<1>2. \A j, d : In(v \cup {Message(i, c)}, j, d) <=> In(v, j, d) \/ (j = i /\ d = c)
  BY WireAdd
<1> QED BY <1>1, <1>2 DEF v

LEMMA WireIs ==
  ASSUME WireInv, NEW k, NEW c, Message(k, c) \in wire
  PROVE  /\ c \in Conns /\ Held(c)
         /\ k \in {"info_request", "info_response"} =>
              c.owner = Watcher /\ main[Watcher] \in {"fetch", "running"}
<1> DEFINE m == Message(k, c)
<1>1. m \in wire /\ m.kind = k /\ m.conn = c
  BY MessageIs
<1> HIDE DEF m
<1> QED BY <1>1 DEF WireInv

\* An event is enqueued.
LEMMA QueueAdd ==
  ASSUME NEW e \in Seq(EventMessages), NEW k, NEW c, Message(k, c) \in EventMessages
  PROVE  /\ Append(e, Message(k, c)) \in Seq(EventMessages)
         /\ \A j, d : Queued(Append(e, Message(k, c)), j, d) <=>
                        Queued(e, j, d) \/ (j = k /\ d = c)
<1> DEFINE x == Message(k, c)
           f == Append(e, x)
<1>1. /\ f \in Seq(EventMessages) /\ Len(f) = Len(e) + 1 /\ f[Len(e) + 1] = x
      /\ \A i \in 1 .. Len(e) : f[i] = e[i]
  BY AppendProperties
<1>2. Len(e) \in Nat
  BY LenProperties
<1> HIDE DEF f
<1>3. ASSUME NEW j, NEW d
      PROVE  Queued(f, j, d) <=> Queued(e, j, d) \/ Message(j, d) = x
  <2>1. \A i \in 1 .. Len(f) : i = Len(e) + 1 \/ i \in 1 .. Len(e)
    BY <1>1, <1>2
  <2>2. Len(e) + 1 \in 1 .. Len(f) /\ \A i \in 1 .. Len(e) : i \in 1 .. Len(f)
    BY <1>1, <1>2
  <2> QED BY <1>1, <2>1, <2>2 DEF Queued
<1> QED BY <1>1, <1>3, MessageIs DEF f

LEMMA QueueAddOrder ==
  ASSUME NEW e \in Seq(EventMessages), NEW k, NEW c, Message(k, c) \in EventMessages,
         OrderInv(e),
         ~Queued(e, "request", c), ~Queued(e, "disconnected", c),
         Queued(e, "established", c) => k = "disconnected",
         k = "established" /\ ~c.poll => ~Queued(e, "request", Pair(c))
  PROVE  OrderInv(Append(e, Message(k, c)))
<1> DEFINE x == Message(k, c)
           f == Append(e, x)
<1>1. /\ Len(f) = Len(e) + 1 /\ f[Len(e) + 1] = x
      /\ \A i \in 1 .. Len(e) : f[i] = e[i]
  BY AppendProperties
<1>2. Len(e) \in Nat /\ \A i \in 1 .. Len(e) : e[i] \in EventMessages
  BY LenProperties, ElementOfSeq
<1>3. x.kind = k /\ x.conn = c /\ c \in Conns
  BY MessageIs DEF EventMessages, Message
<1> HIDE DEF f, x
<1>4. ASSUME NEW i \in 1 .. Len(e)
      PROVE  /\ e[i].conn = c => e[i].kind = "established" /\ k = "disconnected"
             /\ ~(/\ e[i].kind = "request" /\ k = "established"
                  /\ e[i].conn.poll /\ e[i].conn = Pair(c))
  <2>1. /\ e[i] = Message(e[i].kind, e[i].conn)
        /\ e[i].kind \in {"request", "established", "disconnected"}
    BY <1>2 DEF EventMessages, Message
  <2>2. Queued(e, e[i].kind, e[i].conn)
    BY <2>1 DEF Queued
  <2>3. Pair(c).poll => ~c.poll
    BY <1>3, ConnNames
  <2> QED BY <2>1, <2>2, <2>3
<1>5. ASSUME NEW i \in 1 .. Len(f), NEW j \in 1 .. Len(f), i < j
      PROVE  /\ f[i].conn = f[j].conn =>
                  f[i].kind = "established" /\ f[j].kind = "disconnected"
             /\ ~(/\ f[i].kind = "request" /\ f[j].kind = "established"
                  /\ f[i].conn.poll /\ f[i].conn = Pair(f[j].conn))
  <2>1. i \in 1 .. Len(e) /\ (j \in 1 .. Len(e) \/ j = Len(e) + 1)
    BY <1>1, <1>2, <1>5
  <2>2. CASE j \in 1 .. Len(e)
    BY <1>1, <1>5, <2>1, <2>2 DEF OrderInv
  <2>3. CASE j = Len(e) + 1
    BY <1>1, <1>3, <1>4, <2>1, <2>3
  <2> QED BY <2>1, <2>2, <2>3
<1> QED BY <1>5 DEF OrderInv, f, x

\* The first event is handled.
LEMMA QueueTake ==
  ASSUME NEW e \in Seq(EventMessages), OrderInv(e), e # <<>>,
         NEW k, NEW c, Head(e) = Message(k, c)
  PROVE  /\ Tail(e) \in Seq(EventMessages) /\ OrderInv(Tail(e)) /\ Queued(e, k, c)
         /\ \A j, d : Queued(Tail(e), j, d) <=> Queued(e, j, d) /\ ~(j = k /\ d = c)
         /\ k = "disconnected" => ~Queued(e, "established", c)
         /\ k = "request" /\ c.poll => ~Queued(e, "established", Pair(c))
<1> DEFINE f == Tail(e)
           x == Message(k, c)
<1>1. /\ f \in Seq(EventMessages) /\ Len(f) = Len(e) - 1 /\ Head(e) \in EventMessages
      /\ \A i \in 1 .. Len(f) : f[i] = e[i + 1]
  BY HeadTailProperties
<1>2. Len(e) \in Nat /\ Len(e) # 0 /\ Head(e) = e[1]
  BY LenProperties, EmptySeq
<1>3. e[1] = x /\ x.kind = k /\ x.conn = c /\ c \in Conns
  BY <1>1, <1>2, MessageIs DEF EventMessages, Message
<1>4. \A i \in 1 .. Len(f) : i + 1 \in 1 .. Len(e) /\ 1 < i + 1
  BY <1>1, <1>2
<1>5. \A i \in 1 .. Len(e) : i # 1 => i - 1 \in 1 .. Len(f) /\ (i - 1) + 1 = i /\ 1 < i
  BY <1>1, <1>2
<1>6. 1 \in 1 .. Len(e)
  BY <1>2
<1> HIDE DEF f, x
<1>7. Queued(e, k, c)
  BY <1>3, <1>6 DEF Queued, x
<1>8. \A i \in 1 .. Len(e) : i # 1 =>
        /\ e[i].conn = c => k = "established" /\ e[i].kind = "disconnected"
        /\ ~(k = "request" /\ e[i].kind = "established" /\ c.poll /\ c = Pair(e[i].conn))
  BY <1>3, <1>5, <1>6 DEF OrderInv
<1>9. ASSUME NEW j, NEW d
      PROVE  Queued(f, j, d) <=> Queued(e, j, d) /\ ~(j = k /\ d = c)
  <2>1. ASSUME Queued(f, j, d)
        PROVE  Queued(e, j, d) /\ ~(j = k /\ d = c)
    <3>1. PICK i \in 1 .. Len(f) : f[i] = Message(j, d)
      BY <2>1 DEF Queued
    <3>2. i + 1 \in 1 .. Len(e) /\ i + 1 # 1 /\ e[i + 1] = Message(j, d)
      BY <1>1, <1>4, <3>1
    <3>3. e[i + 1].conn = d /\ e[i + 1].kind = j
      BY <3>2, MessageIs
    <3> QED BY <1>8, <3>2, <3>3 DEF Queued
  <2>2. ASSUME Queued(e, j, d), ~(j = k /\ d = c)
        PROVE  Queued(f, j, d)
    <3>1. PICK i \in 1 .. Len(e) : e[i] = Message(j, d)
      BY <2>2 DEF Queued
    <3>2. i # 1
      BY <1>3, <2>2, <3>1, MessageIs DEF x
    <3>3. i - 1 \in 1 .. Len(f) /\ f[i - 1] = Message(j, d)
      BY <1>1, <1>5, <3>1, <3>2
    <3> QED BY <3>3 DEF Queued
  <2> QED BY <2>1, <2>2
<1>10. OrderInv(f)
  <2> SUFFICES ASSUME NEW i \in 1 .. Len(f), NEW j \in 1 .. Len(f), i < j
               PROVE  /\ f[i].conn = f[j].conn =>
                           f[i].kind = "established" /\ f[j].kind = "disconnected"
                      /\ ~(/\ f[i].kind = "request" /\ f[j].kind = "established"
                           /\ f[i].conn.poll /\ f[i].conn = Pair(f[j].conn))
    BY DEF OrderInv
  <2>1. i + 1 \in 1 .. Len(e) /\ j + 1 \in 1 .. Len(e) /\ i + 1 < j + 1
    BY <1>4
  <2>2. f[i] = e[i + 1] /\ f[j] = e[j + 1]
    BY <1>1
  <2> QED BY <2>1, <2>2 DEF OrderInv
<1>11. ASSUME k = "disconnected" PROVE ~Queued(e, "established", c)
  <2> SUFFICES ASSUME NEW i \in 1 .. Len(e), e[i] = Message("established", c)
               PROVE  FALSE
    BY DEF Queued
  <2>1. e[i].conn = c /\ e[i].kind = "established"
    BY MessageIs
  <2>2. i # 1
    BY <1>3, <1>11, <2>1
  <2> QED BY <1>8, <1>11, <2>1, <2>2
<1>12. ASSUME k = "request", c.poll PROVE ~Queued(e, "established", Pair(c))
  <2> SUFFICES ASSUME NEW i \in 1 .. Len(e), e[i] = Message("established", Pair(c))
               PROVE  FALSE
    BY DEF Queued
  <2>1. e[i].conn = Pair(c) /\ e[i].kind = "established"
    BY MessageIs
  <2>2. i # 1
    BY <1>3, <1>12, <2>1
  <2>3. Pair(e[i].conn) = c
    BY <1>3, <2>1, ConnNames
  <2> QED BY <1>8, <1>12, <2>1, <2>2, <2>3
<1> QED BY <1>1, <1>7, <1>9, <1>10, <1>11, <1>12 DEF f

(***************************************************************************)
(* What a step leaves alone.                                               *)
(***************************************************************************)
SameWire(w, v, c) == \A k : In(v, k, c) <=> In(w, k, c)
SameQueue(e, f, c) == \A k : Queued(f, k, c) <=> Queued(e, k, c)

LEMMA ConnSame ==
  ASSUME NEW c, NEW r, NEW w, NEW e, NEW v, NEW f, NEW l, NEW m,
         SameWire(w, v, c), SameQueue(e, f, c), ConnInv(c, r, w, e, l, m)
  PROVE  ConnInv(c, r, v, f, l, m)
<1>1. NoneQueued(f, c) <=> NoneQueued(e, c)
  BY DEF SameQueue, NoneQueued
<1>2. HeldInv(c, r, l, m) /\ ServerInv(c, r)
  BY DEF ConnInv
<1>3. TokenInv(c, r, v, f)
  BY <1>1 DEF ConnInv, TokenInv, SameWire, SameQueue
<1>4. EndInv(c, r, v, f, m)
  BY DEF ConnInv, EndInv, SameWire, SameQueue
<1>5. LifeInv(c, r, f, l, m)
  BY <1>1 DEF ConnInv, LifeInv
<1> QED BY <1>2, <1>3, <1>4, <1>5 DEF ConnInv

LEMMA PairSame ==
  ASSUME NEW n, NEW rn, NEW q, NEW rq, NEW e, NEW f, NEW l, NEW m,
         SameQueue(e, f, n), SameQueue(e, f, q), PairInv(n, rn, q, rq, e, l, m)
  PROVE  PairInv(n, rn, q, rq, f, l, m)
BY DEF PairInv, SameQueue

\* Only c changes, and what is under way of it.
OnlyConn(c) ==
  /\ \A d \in Conns : d # c => /\ conn'[d] = conn[d] /\ SameWire(wire, wire', d)
                               /\ SameQueue(events, events', d)
  /\ \A p \in Processes : life'[p] = life[p] /\ main'[p] = main[p]

\* The invariant of c and of its pair afterwards.
ConnInvNext(c) ==
  ConnInv(c, conn'[c], wire', events', life'[c.owner], main'[c.owner])
PairInvNext(c) ==
  /\ ~c.poll => PairInv(c, conn'[c], Pair(c), conn'[Pair(c)], events',
                        life'[c.owner], main'[c.owner])
  /\ c.poll => PairInv(Pair(c), conn'[Pair(c)], c, conn'[c], events',
                       life'[c.owner], main'[c.owner])
EachNext ==
  /\ \A c \in Conns : ConnInv(c, conn'[c], wire', events', life'[c.owner], main'[c.owner])
  /\ \A c \in Conns : ~c.poll =>
       PairInv(c, conn'[c], Pair(c), conn'[Pair(c)], events', life'[c.owner], main'[c.owner])

LEMMA EachNextIs == EachNext => EachConn' /\ EachPair'
BY DEF EachNext, EachConn, EachPair

LEMMA OneConn ==
  ASSUME EachConn, EachPair, NEW c \in Conns, OnlyConn(c), ConnInvNext(c), PairInvNext(c)
  PROVE  EachNext
<1>1. ASSUME NEW d \in Conns
      PROVE  ConnInv(d, conn'[d], wire', events', life'[d.owner], main'[d.owner])
  <2>1. CASE d = c
    BY <2>1 DEF ConnInvNext
  <2>2. CASE d # c
    <3>1. /\ ConnInv(d, conn[d], wire, events, life[d.owner], main[d.owner])
          /\ conn'[d] = conn[d] /\ SameWire(wire, wire', d) /\ SameQueue(events, events', d)
      BY <2>2 DEF EachConn, OnlyConn
    <3>2. life'[d.owner] = life[d.owner] /\ main'[d.owner] = main[d.owner]
      BY ConnNames DEF OnlyConn
    <3>3. ConnInv(d, conn[d], wire', events', life[d.owner], main[d.owner])
      BY <3>1, ConnSame
    <3> QED BY <3>1, <3>2, <3>3
  <2> QED BY <2>1, <2>2
<1>2. ASSUME NEW d \in Conns, ~d.poll
      PROVE  PairInv(d, conn'[d], Pair(d), conn'[Pair(d)], events',
                     life'[d.owner], main'[d.owner])
  <2>1. Pair(d) \in Conns /\ Pair(d).poll /\ Pair(Pair(d)) = d /\ Pair(d).owner = d.owner
    BY <1>2, ConnNames
  <2>2. CASE d = c
    BY <1>2, <2>2 DEF PairInvNext
  <2>3. CASE Pair(d) = c
    BY <2>1, <2>3 DEF PairInvNext
  <2>4. CASE d # c /\ Pair(d) # c
    <3>1. /\ PairInv(d, conn[d], Pair(d), conn[Pair(d)], events, life[d.owner], main[d.owner])
          /\ conn'[d] = conn[d] /\ conn'[Pair(d)] = conn[Pair(d)]
          /\ SameQueue(events, events', d) /\ SameQueue(events, events', Pair(d))
      BY <1>2, <2>1, <2>4 DEF EachPair, OnlyConn
    <3>2. life'[d.owner] = life[d.owner] /\ main'[d.owner] = main[d.owner]
      BY ConnNames DEF OnlyConn
    <3>3. PairInv(d, conn[d], Pair(d), conn[Pair(d)], events', life[d.owner], main[d.owner])
      BY <3>1, PairSame
    <3> QED BY <3>1, <3>2, <3>3
  <2> QED BY <2>2, <2>3, <2>4
<1> QED BY <1>1, <1>2 DEF EachNext

\* Only what the process p has changes.
OnlyProcess(p) ==
  \A d \in Conns : d.owner # p =>
    /\ conn'[d] = conn[d] /\ SameWire(wire, wire', d) /\ SameQueue(events, events', d)
    /\ life'[d.owner] = life[d.owner] /\ main'[d.owner] = main[d.owner]

LEMMA OneProcess ==
  ASSUME EachConn, EachPair, NEW p \in Processes, OnlyProcess(p),
         \A c \in Conns : c.owner = p => ConnInvNext(c),
         \A c \in Conns : c.owner = p /\ ~c.poll => PairInvNext(c)
  PROVE  EachNext
<1>1. ASSUME NEW d \in Conns
      PROVE  ConnInv(d, conn'[d], wire', events', life'[d.owner], main'[d.owner])
  <2>1. CASE d.owner = p
    BY <2>1 DEF ConnInvNext
  <2>2. CASE d.owner # p
    <3>1. /\ ConnInv(d, conn[d], wire, events, life[d.owner], main[d.owner])
          /\ conn'[d] = conn[d] /\ SameWire(wire, wire', d) /\ SameQueue(events, events', d)
          /\ life'[d.owner] = life[d.owner] /\ main'[d.owner] = main[d.owner]
      BY <2>2 DEF EachConn, OnlyProcess
    <3>2. ConnInv(d, conn[d], wire', events', life[d.owner], main[d.owner])
      BY <3>1, ConnSame
    <3> QED BY <3>1, <3>2
  <2> QED BY <2>1, <2>2
<1>2. ASSUME NEW d \in Conns, ~d.poll
      PROVE  PairInv(d, conn'[d], Pair(d), conn'[Pair(d)], events',
                     life'[d.owner], main'[d.owner])
  <2>1. Pair(d) \in Conns /\ Pair(d).owner = d.owner
    BY ConnNames
  <2>2. CASE d.owner = p
    BY <1>2, <2>2 DEF PairInvNext
  <2>3. CASE d.owner # p
    <3>1. /\ PairInv(d, conn[d], Pair(d), conn[Pair(d)], events, life[d.owner], main[d.owner])
          /\ conn'[d] = conn[d] /\ conn'[Pair(d)] = conn[Pair(d)]
          /\ SameQueue(events, events', d) /\ SameQueue(events, events', Pair(d))
          /\ life'[d.owner] = life[d.owner] /\ main'[d.owner] = main[d.owner]
      BY <1>2, <2>1, <2>3 DEF EachPair, OnlyProcess
    <3>2. PairInv(d, conn[d], Pair(d), conn[Pair(d)], events', life[d.owner], main[d.owner])
      BY <3>1, PairSame
    <3> QED BY <3>1, <3>2
  <2> QED BY <2>2, <2>3
<1> QED BY <1>1, <1>2 DEF EachNext

(***************************************************************************)
(* The view of the watcher, and steps that do not change what the server   *)
(* has stored.                                                             *)
(***************************************************************************)
LEMMA ListingIs ==
  ASSUME NEW list, NEW cs
  PROVE  \A x : x \in Listing(list, cs) <=>
           \E c \in ToSet(list) :
             /\ cs[c].link # Null /\ ~cs[c].isPoll
             /\ x = [conn |-> c, used |-> cs[c].used + cs[cs[c].link].used]
BY DEF Listing

\* The same transports with the same accounts give the same listing.
LEMMA ListingSame ==
  ASSUME NEW list \in Seq(Conns), NEW cs, NEW ds,
         \A c \in Conns : /\ cs[c].link \in Conns \cup {Null}
                          /\ cs[c].link = ds[c].link /\ cs[c].isPoll = ds[c].isPoll
                          /\ cs[c].used = ds[c].used
  PROVE  Listing(list, ds) = Listing(list, cs)
<1>1. ToSet(list) \subseteq Conns
  <2>1. \A i \in 1 .. Len(list) : list[i] \in Conns
    BY ElementOfSeq
  <2>2. DOMAIN list = 1 .. Len(list)
    BY LenProperties
  <2> QED BY <2>1, <2>2 DEF ToSet
<1>2. ASSUME NEW c \in ToSet(list), cs[c].link # Null
      PROVE  cs[c].used + cs[cs[c].link].used = ds[c].used + ds[ds[c].link].used
  BY <1>1, <1>2
<1>3. \A x : x \in Listing(list, ds) <=> x \in Listing(list, cs)
  BY <1>1, <1>2, ListingIs
<1> QED BY <1>3

ServerFieldsKept == \A c \in Conns :
  /\ conn'[c].srv = conn[c].srv /\ conn'[c].known = conn[c].known
  /\ conn'[c].isPoll = conn[c].isPoll /\ conn'[c].link = conn[c].link
  /\ conn'[c].used = conn[c].used

LEMMA ServerKept ==
  ASSUME Types, WatcherInv, ListExact, ViewCurrent, ServerFieldsKept,
         watcherTrans' = watcherTrans, clientList' = clientList,
         curConnections' = curConnections,
         view' = view \/ (watcherTrans # Null => ~RHeld(conn'[watcherTrans])),
         watcherTrans # Null /\ ~RHeld(conn[watcherTrans]) => ~RHeld(conn'[watcherTrans])
  PROVE  ListExact' /\ ViewCurrent'
<1>1. watcherTrans \in Conns \cup {Null} /\ clientList \in Seq(Conns)
      /\ \A c \in Conns : conn[c].link \in Conns \cup {Null}
  BY DEF Types, TypeOK, Connection
<1>2. ListExact'
  <2>1. {c \in Conns : conn'[c].srv \in {"init", "connecting", "connected"}}
          = {c \in Conns : conn[c].srv \in {"init", "connecting", "connected"}}
    BY DEF ServerFieldsKept
  <2> QED BY <2>1 DEF ListExact
<1>3. Listing(clientList, conn') = Listing(clientList, conn)
  BY <1>1, ListingSame DEF ServerFieldsKept
<1>4. ViewCurrent'
  <2> SUFFICES ASSUME watcherTrans # Null, conn'[watcherTrans].srv = "connected",
                      RHeld(conn'[watcherTrans])
               PROVE  /\ view' \subseteq Listing(clientList, conn')
                      /\ \A x \in Listing(clientList, conn') \ view' : x.used = 0
    BY DEF ViewCurrent, WatcherIsUp, Held, RHeld
  <2>1. view' = view /\ RHeld(conn[watcherTrans]) /\ conn[watcherTrans].srv = "connected"
    BY <1>1 DEF ServerFieldsKept
  <2>2. /\ view \subseteq Listing(clientList, conn)
        /\ \A x \in Listing(clientList, conn) \ view : x.used = 0
    BY <2>1 DEF ViewCurrent, WatcherIsUp, Held, RHeld
  <2> QED BY <1>3, <2>1, <2>2
<1> QED BY <1>2, <1>4

LEMMA WatcherKept ==
  ASSUME Types, WatcherInv, ServerFieldsKept, watcherTrans' = watcherTrans, life' = life,
         view' \in {view, {}}
  PROVE  WatcherInv'
<1>1. watcherTrans \in Conns \cup {Null}
  BY DEF Types, TypeOK
<1>2. life'[Watcher] <= 1
  BY DEF WatcherInv
<1>3. watcherTrans' # Null =>
        watcherTrans'.owner = Watcher /\ conn'[watcherTrans'].srv # "none"
  BY <1>1 DEF WatcherInv, ServerFieldsKept
<1>4. \A p \in Clients : life'[p] >= 1 =>
        watcherTrans' # Null /\ conn'[watcherTrans'].known
  BY <1>1 DEF WatcherInv, ServerFieldsKept
<1>5. \A c \in Conns : conn'[c].srv # "none" /\ c.owner = Watcher => c = watcherTrans'
  BY DEF WatcherInv, ServerFieldsKept
<1>6. view' # {} => watcherTrans' # Null /\ conn'[watcherTrans'].known
  BY <1>1 DEF WatcherInv, ServerFieldsKept
<1> QED BY <1>2, <1>3, <1>4, <1>5, <1>6 DEF WatcherInv

(***************************************************************************)
(* The first state, and steps that concern one connection and not what the *)
(* server has stored of it.                                                *)
(***************************************************************************)
LEMMA RecordTyped ==
  ASSUME Types, NEW c \in Conns
  PROVE  /\ conn[c] \in Connection /\ conn[c].mine \in States
         /\ conn[c].marked \in BOOLEAN /\ conn[c].up \in {"no", "yes", "ending"}
         /\ conn[c].srv \in States /\ conn[c].known \in BOOLEAN
         /\ conn[c].isPoll \in BOOLEAN /\ conn[c].link \in Conns \cup {Null}
         /\ conn[c].used \in 0 .. 1
BY DEF Types, TypeOK, Connection

LEMMA OfConnections ==
  ASSUME ConnectionsInv, NEW c \in Conns
  PROVE  /\ ConnInv(c, conn[c], wire, events, life[c.owner], main[c.owner])
         /\ ~c.poll => PairInv(c, conn[c], Pair(c), conn[Pair(c)], events,
                               life[c.owner], main[c.owner])
         /\ c.poll => PairInv(Pair(c), conn[Pair(c)], c, conn[c], events,
                              life[c.owner], main[c.owner])
         /\ c.owner \in Processes /\ Pair(c) \in Conns /\ Pair(c) # c
         /\ Pair(Pair(c)) = c
<1>1. /\ Pair(c) \in Conns /\ Pair(Pair(c)) = c /\ Pair(c).owner = c.owner
      /\ Pair(c).poll = ~c.poll /\ c.owner \in Processes /\ Pair(c) # c
  BY ConnNames
<1>2. ConnInv(c, conn[c], wire, events, life[c.owner], main[c.owner])
  BY DEF ConnectionsInv, EachConn
<1>3. ~c.poll => PairInv(c, conn[c], Pair(c), conn[Pair(c)], events,
                         life[c.owner], main[c.owner])
  BY DEF ConnectionsInv, EachPair
<1>4. ASSUME c.poll
      PROVE  PairInv(Pair(c), conn[Pair(c)], c, conn[c], events,
                     life[c.owner], main[c.owner])
  <2>1. ~Pair(c).poll
    BY <1>1, <1>4
  <2>2. PairInv(Pair(c), conn[Pair(c)], Pair(Pair(c)), conn[Pair(Pair(c))], events,
                life[Pair(c).owner], main[Pair(c).owner])
    BY <1>1, <2>1 DEF ConnectionsInv, EachPair
  <2> QED BY <1>1, <2>2
<1> QED BY <1>1, <1>2, <1>3, <1>4

LEMMA InitConnections == Init => ConnectionsInv
<1> SUFFICES ASSUME Init PROVE ConnectionsInv
  OBVIOUS
<1> DEFINE r == NoConnection
<1>1. /\ r.mine = "none" /\ ~r.marked /\ r.marked \in BOOLEAN /\ r.up = "no"
      /\ r.srv = "none" /\ r.known = FALSE /\ r.isPoll = FALSE /\ r.link = Null
      /\ r.used = 0 /\ r \in Connection
  BY DEF NoConnection, Connection, States
<1>2. \A c \in Conns : conn[c] = r
  BY DEF Init
<1>3. /\ wire = {} /\ events = <<>> /\ watcherTrans = Null /\ clientList = <<>>
      /\ curConnections = 0 /\ view = {} /\ faults = 0
      /\ \A p \in Processes : life[p] = 0 /\ main[p] = "off"
  BY DEF Init
<1>4. 0 \in 0 .. MaxLives /\ 0 \in Faults
  BY BoundsAssumption DEF Faults
<1>5. \A k, c : ~In(wire, k, c) /\ ~Queued(events, k, c)
  BY <1>3 DEF In, Queued
<1> HIDE DEF r
<1>6. Types
  <2>1. conn \in [Conns -> Connection]
    BY <1>1 DEF Init, r
  <2>2. /\ life \in [Processes -> 0 .. MaxLives]
        /\ main \in [Processes -> {"off", "connect", "poll", "fetch", "running",
                                   "closing", "leaving", "joining"}]
        /\ loop \in [Processes -> {"off", "waiting", "ended"}]
        /\ stop \in [Processes -> BOOLEAN]
    BY <1>4 DEF Init
  <2>3. <<>> \in Seq(EventMessages) /\ <<>> \in Seq(Conns)
    OBVIOUS
  <2>4. \A i \in DOMAIN events : events[i].conn \in Conns
    BY <1>3
  <2> QED BY <1>3, <1>4, <2>1, <2>2, <2>3, <2>4 DEF Types, TypeOK
<1>7. ASSUME NEW c \in Conns
      PROVE  ConnInv(c, r, wire, events, 0, "off")
  <2>1. NoneQueued(events, c)
    BY <1>5 DEF NoneQueued
  <2>2. c.life \in Nat /\ c.life >= 1
    BY ConnNames
  <2> QED BY <1>1, <1>5, <2>1, <2>2
          DEF ConnInv, HeldInv, TokenInv, EndInv, ServerInv, LifeInv, RHeld, RWaiting
<1>8. EachConn
  BY <1>2, <1>3, <1>7, ConnNames DEF EachConn
<1>9. EachPair
  BY <1>1, <1>2, <1>3, <1>5, ConnNames DEF EachPair, PairInv, RHeld
<1>10. OrderInv(events)
  BY <1>3 DEF OrderInv
<1>11. WireInv
  BY <1>3 DEF WireInv
<1>12. WatcherInv
  BY <1>1, <1>2, <1>3 DEF WatcherInv, Processes
<1>13. ListExact
  <2>1. ToSet(clientList) = {} /\ IsInjective(clientList) /\ Len(clientList) = 0
    BY <1>3 DEF ToSet, IsInjective
  <2> QED BY <1>1, <1>2, <1>3, <2>1 DEF ListExact
<1>14. ViewCurrent
  BY <1>3 DEF ViewCurrent, WatcherIsUp
<1> QED BY <1>6, <1>8, <1>9, <1>10, <1>11, <1>12, <1>13, <1>14 DEF ConnectionsInv

\* What is left to say of such a step.
LEMMA ClientStep ==
  ASSUME ConnectionsInv, EachNext, ServerFieldsKept, life' = life, UNCHANGED server,
         Types', OrderInv(events'), WireInv',
         watcherTrans # Null /\ ~RHeld(conn[watcherTrans]) =>
           ~RHeld(conn'[watcherTrans])
  PROVE  ConnectionsInv'
<1>1. /\ watcherTrans' = watcherTrans /\ clientList' = clientList
      /\ curConnections' = curConnections /\ view' = view
  BY DEF server
<1>2. ListExact' /\ ViewCurrent'
  BY <1>1, ServerKept DEF ConnectionsInv
<1>3. WatcherInv'
  BY <1>1, WatcherKept DEF ConnectionsInv
<1> QED BY <1>2, <1>3, EachNextIs DEF ConnectionsInv

\* Nothing is enqueued; the wire is as it was, but for one connection.
LEMMA SameEvents == \A c : SameQueue(events, events, c)
BY DEF SameQueue

LEMMA WiresSame ==
  ASSUME NEW c, NEW w, NEW v,
         \A k, d : d # c => (In(v, k, d) <=> In(w, k, d))
  PROVE  \A d : d # c => SameWire(w, v, d)
BY DEF SameWire

\* A step on one connection, of which the server stores nothing.
SameForServer(r, s) ==
  /\ s.srv = r.srv /\ s.known = r.known /\ s.isPoll = r.isPoll /\ s.link = r.link
  /\ s.used = r.used
OneChanges(c, s) ==
  /\ conn' = [conn EXCEPT ![c] = s]
  /\ \A d \in Conns : d # c => SameWire(wire, wire', d) /\ SameQueue(events, events', d)

LEMMA QueueTyped ==
  ASSUME NEW e \in Seq(EventMessages)
  PROVE  \A i \in DOMAIN e : e[i].conn \in Conns
<1>1. DOMAIN e = 1 .. Len(e)
  BY LenProperties
<1>2. \A i \in 1 .. Len(e) : e[i] \in EventMessages
  BY ElementOfSeq
<1> QED BY <1>1, <1>2 DEF EventMessages

LEMMA OneStep ==
  ASSUME ConnectionsInv, NEW c \in Conns, NEW s \in Connection,
         OneChanges(c, s), SameForServer(conn[c], s), RHeld(s) <=> RHeld(conn[c]),
         life' = life, main' = main, UNCHANGED server,
         ConnInv(c, s, wire', events', life[c.owner], main[c.owner]),
         ~c.poll => PairInv(c, s, Pair(c), conn[Pair(c)], events',
                            life[c.owner], main[c.owner]),
         c.poll => PairInv(Pair(c), conn[Pair(c)], c, s, events',
                           life[c.owner], main[c.owner]),
         events' \in Seq(EventMessages), OrderInv(events'), WireInv',
         loop' \in [Processes -> {"off", "waiting", "ended"}],
         stop' \in [Processes -> BOOLEAN], faults' \in Faults
  PROVE  ConnectionsInv'
<1>1. Types /\ conn \in [Conns -> Connection] /\ watcherTrans \in Conns \cup {Null}
  BY DEF ConnectionsInv, Types, TypeOK
<1>2. /\ conn' \in [Conns -> Connection] /\ conn'[c] = s
      /\ \A d \in Conns : d # c => conn'[d] = conn[d]
  BY <1>1 DEF OneChanges
<1>3. Pair(c) \in Conns /\ conn'[Pair(c)] = conn[Pair(c)]
  BY <1>2, ConnNames
<1>4. EachNext
  <2>1. OnlyConn(c)
    BY <1>2 DEF OnlyConn, OneChanges
  <2>2. ConnInvNext(c)
    BY <1>2 DEF ConnInvNext
  <2>3. PairInvNext(c)
    BY <1>2, <1>3 DEF PairInvNext
  <2> QED BY <2>1, <2>2, <2>3, OneConn DEF ConnectionsInv
<1>5. ServerFieldsKept
  BY <1>2 DEF ServerFieldsKept, SameForServer
<1>6. \A m \in wire' : m.conn \in Conns
  BY DEF WireInv
<1>7. \A i \in DOMAIN events' : events'[i].conn \in Conns
  BY QueueTyped
<1>8. /\ watcherTrans' = watcherTrans /\ clientList' = clientList
      /\ curConnections' = curConnections /\ view' = view
  BY DEF server
<1>9. Types'
  BY <1>1, <1>2, <1>6, <1>7, <1>8 DEF Types, TypeOK
<1>10. watcherTrans # Null /\ ~RHeld(conn[watcherTrans]) => ~RHeld(conn'[watcherTrans])
  BY <1>1, <1>2
<1> QED BY <1>4, <1>5, <1>9, <1>10, ClientStep

\* Messages of one connection are added to the wire.
LEMMA WireInvKept ==
  ASSUME WireInv, NEW c \in Conns, NEW s, conn' = [conn EXCEPT ![c] = s],
         conn \in [Conns -> Connection], RHeld(conn[c]) => RHeld(s),
         main' = main,
         \A m \in wire' : m \in wire \/ (/\ m.conn = c /\ RHeld(s)
                                         /\ m.kind \notin {"info_request", "info_response"})
  PROVE  WireInv'
<1>1. conn'[c] = s /\ \A d \in Conns : d # c => conn'[d] = conn[d]
  OBVIOUS
<1>2. \A d \in Conns : RHeld(conn[d]) => RHeld(conn'[d])
  BY <1>1
<1> QED BY <1>1, <1>2 DEF WireInv, Held, RHeld

(***************************************************************************)
(* The main thread of a process.                                           *)
(***************************************************************************)
LEMMA MarkKeeps ==
  ASSUME ConnectionsInv, NEW p \in Processes, Mark(p)
  PROVE  ConnectionsInv'
<1>1. PICK c \in Transports(p) :
        /\ ~conn[c].marked
        /\ conn' = [conn EXCEPT ![c].marked = TRUE, ![c].mine = "connecting"]
        /\ UNCHANGED <<process, wire, events, server, faults>>
  BY DEF Mark
<1>2. /\ life' = life /\ main' = main /\ loop' = loop /\ stop' = stop /\ wire' = wire
      /\ events' = events /\ faults' = faults /\ UNCHANGED server
  BY <1>1 DEF process
<1>3. c \in Conns /\ c.owner = p /\ RHeld(conn[c])
  BY <1>1 DEF Transports, Held, RHeld
<1>4. Types /\ conn \in [Conns -> Connection] /\ conn[c] \in Connection
  BY <1>3 DEF ConnectionsInv, Types, TypeOK
<1> DEFINE r == conn[c]
           s == [r EXCEPT !.marked = TRUE, !.mine = "connecting"]
<1>5. /\ s.mine = "connecting" /\ s.marked = TRUE /\ s.up = r.up /\ s.srv = r.srv
      /\ s.known = r.known /\ s.isPoll = r.isPoll /\ s.link = r.link /\ s.used = r.used
      /\ s \in Connection
  BY <1>4 DEF Connection, States
<1>6. conn' = [conn EXCEPT ![c] = s]
  BY <1>1, <1>3, <1>4
<1>7. ~r.marked /\ RHeld(r)
  BY <1>1, <1>3
<1>8. /\ ConnInv(c, r, wire, events, life[c.owner], main[c.owner])
      /\ ~c.poll => PairInv(c, r, Pair(c), conn[Pair(c)], events,
                            life[c.owner], main[c.owner])
      /\ c.poll => PairInv(Pair(c), conn[Pair(c)], c, r, events,
                           life[c.owner], main[c.owner])
  BY <1>3, OfConnections
<1> HIDE DEF r, s
<1>9. RWaiting(s) /\ RHeld(s) /\ s.mine # "connected"
  BY <1>5 DEF RWaiting, RHeld
<1>10. ConnInv(c, s, wire, events, life[c.owner], main[c.owner])
  <2>1. HeldInv(c, s, life[c.owner], main[c.owner])
    BY <1>5, <1>7, <1>8, <1>9 DEF ConnInv, HeldInv
  <2>2. TokenInv(c, s, wire, events)
    BY <1>5, <1>8, <1>9 DEF ConnInv, TokenInv
  <2>3. EndInv(c, s, wire, events, main[c.owner])
    BY <1>5, <1>8, <1>9 DEF ConnInv, EndInv
  <2>4. ServerInv(c, s) /\ LifeInv(c, s, events, life[c.owner], main[c.owner])
    BY <1>5, <1>8 DEF ConnInv, ServerInv, LifeInv
  <2> QED BY <2>1, <2>2, <2>3, <2>4 DEF ConnInv
<1>11. /\ ~c.poll => PairInv(c, s, Pair(c), conn[Pair(c)], events,
                             life[c.owner], main[c.owner])
       /\ c.poll => PairInv(Pair(c), conn[Pair(c)], c, s, events,
                            life[c.owner], main[c.owner])
  BY <1>5, <1>7, <1>8, <1>9 DEF PairInv
<1>12. OneChanges(c, s)
  BY <1>2, <1>6 DEF OneChanges, SameWire, SameQueue
<1>13. SameForServer(r, s)
  BY <1>5 DEF SameForServer
<1>14. WireInv'
  BY <1>2, <1>3, <1>4, <1>6, <1>9, WireInvKept DEF ConnectionsInv
<1>15. /\ events' \in Seq(EventMessages) /\ OrderInv(events')
       /\ loop' \in [Processes -> {"off", "waiting", "ended"}]
       /\ stop' \in [Processes -> BOOLEAN] /\ faults' \in Faults
  BY <1>2, <1>4 DEF ConnectionsInv, Types, TypeOK
<1> QED BY <1>2, <1>3, <1>5, <1>7, <1>9, <1>10, <1>11, <1>12, <1>13, <1>14, <1>15,
           OneStep DEF r

(***************************************************************************)
(* The epoll thread of a process.                                          *)
(***************************************************************************)
\* A transport whose handshake is under way is the one that the main thread
\* of its process is at; of the poll transport there is nothing before that.
LEMMA HandshakeIs ==
  ASSUME ConnectionsInv, NEW c \in Conns, RWaiting(conn[c])
  PROVE  /\ RHeld(conn[c]) /\ c.life = life[c.owner]
         /\ main[c.owner] = (IF c.poll THEN "poll" ELSE "connect")
         /\ ~Later(c, life[c.owner], main[c.owner])
         /\ ~c.poll => /\ ~RHeld(conn[Pair(c)]) /\ conn[Pair(c)].srv = "none"
                       /\ NoneQueued(events, Pair(c))
<1>1. RHeld(conn[c])
  BY DEF RHeld, RWaiting
<1>2. HeldInv(c, conn[c], life[c.owner], main[c.owner])
  BY OfConnections DEF ConnInv
<1>3. c.owner \in Processes /\ c.life \in Nat /\ c.poll \in BOOLEAN
  BY ConnNames
<1>4. /\ c.life = life[c.owner] /\ main[c.owner] = (IF c.poll THEN "poll" ELSE "connect")
      /\ c.poll => c.owner \in Clients
  BY <1>1, <1>2 DEF HeldInv
<1>5. ~Later(c, life[c.owner], main[c.owner])
  BY <1>3, <1>4, ProcessesAssumption DEF Later
<1>6. ASSUME ~c.poll
      PROVE  /\ ~RHeld(conn[Pair(c)]) /\ conn[Pair(c)].srv = "none"
             /\ NoneQueued(events, Pair(c))
  <2>1. /\ Pair(c) \in Conns /\ Pair(c).owner = c.owner /\ Pair(c).poll
        /\ Pair(c).life = c.life
    BY <1>6, ConnNames
  <2>2. ConnInv(Pair(c), conn[Pair(c)], wire, events, life[c.owner], main[c.owner])
    BY <2>1, OfConnections
  <2>3. main[c.owner] = "connect"
    BY <1>4, <1>6
  <2>4. Later(Pair(c), life[c.owner], main[c.owner])
    BY <1>4, <2>1, <2>3 DEF Later
  <2> QED BY <2>1, <2>2, <2>3, <2>4 DEF ConnInv, HeldInv, LifeInv
<1> QED BY <1>1, <1>4, <1>5, <1>6

LEMMA EventOf ==
  /\ \A c \in Conns : \A k \in {"request", "established", "disconnected"} :
       Message(k, c) \in EventMessages
  /\ "request" # "established" /\ "request" # "disconnected"
  /\ "established" # "disconnected"
BY DEF Message, EventMessages

LEMMA EstablishedKeeps ==
  ASSUME ConnectionsInv, NEW p \in Processes, Established(p)
  PROVE  ConnectionsInv'
<1>1. PICK c \in Conns :
        /\ UNCHANGED <<life, main, stop, server>>
        /\ Receive(p, "accept", c)
        /\ wire' = wire \ {Message("accept", c)}
        /\ \/ /\ conn' = [conn EXCEPT ![c].mine = "connected", ![c].up = "yes"]
              /\ Enqueue("established", c)
              /\ UNCHANGED faults
           \/ /\ Fault
              /\ conn' = [conn EXCEPT ![c].mine = "error"]
              /\ UNCHANGED events
  BY DEF Established
<1>2. /\ life' = life /\ main' = main /\ stop' = stop /\ UNCHANGED server
      /\ c.owner = p /\ RHeld(conn[c]) /\ In(wire, "accept", c)
  BY <1>1 DEF Receive, Transports, Held, RHeld, In
<1>3. /\ Types /\ conn \in [Conns -> Connection] /\ conn[c] \in Connection
      /\ loop \in [Processes -> {"off", "waiting", "ended"}] /\ faults \in Faults
      /\ stop \in [Processes -> BOOLEAN] /\ events \in Seq(EventMessages)
  BY DEF ConnectionsInv, Types, TypeOK
<1>4. loop' \in [Processes -> {"off", "waiting", "ended"}] /\ faults' \in Faults
  <2>1. loop' \in [Processes -> {"off", "waiting", "ended"}]
    BY <1>1, <1>3 DEF Receive, Handling
  <2>2. faults' \in Faults
    BY <1>1, <1>3, BoundsAssumption DEF Fault, Faults
  <2> QED BY <2>1, <2>2
<1> DEFINE r == conn[c]
<1>5. /\ ConnInv(c, r, wire, events, life[c.owner], main[c.owner])
      /\ ~c.poll => PairInv(c, r, Pair(c), conn[Pair(c)], events,
                            life[c.owner], main[c.owner])
      /\ c.poll => PairInv(Pair(c), conn[Pair(c)], c, r, events,
                           life[c.owner], main[c.owner])
  BY OfConnections
<1>6. RWaiting(r) /\ r.srv = "connecting" /\ r.up = "no" /\ NoneQueued(events, c)
  BY <1>2, <1>5 DEF ConnInv, TokenInv
<1>7. /\ c.life = life[c.owner] /\ main[c.owner] = (IF c.poll THEN "poll" ELSE "connect")
      /\ ~Later(c, life[c.owner], main[c.owner])
      /\ ~c.poll => /\ ~RHeld(conn[Pair(c)]) /\ conn[Pair(c)].srv = "none"
                    /\ NoneQueued(events, Pair(c))
  BY <1>6, HandshakeIs
<1>8. /\ \A k, d : In(wire', k, d) <=> In(wire, k, d) /\ ~(k = "accept" /\ d = c)
      /\ ~In(wire, "route", c) /\ ~In(wire, "close", c)
  <2>1. \A k, d : In(wire', k, d) <=> In(wire, k, d) /\ ~(k = "accept" /\ d = c)
    BY <1>1, WireTake
  <2>2. ~In(wire, "route", c) /\ ~In(wire, "close", c)
    BY <1>5, <1>6 DEF ConnInv, TokenInv, EndInv
  <2> QED BY <2>1, <2>2
<1>9. \A d \in Conns : d # c => SameWire(wire, wire', d)
  BY <1>8 DEF SameWire
<1>10. c.life \in Nat
  BY ConnNames
<1>11. CASE /\ conn' = [conn EXCEPT ![c].mine = "connected", ![c].up = "yes"]
            /\ Enqueue("established", c)
            /\ UNCHANGED faults
  <2> DEFINE s == [r EXCEPT !.mine = "connected", !.up = "yes"]
  <2>1. /\ s.mine = "connected" /\ s.marked = r.marked /\ s.up = "yes" /\ s.srv = r.srv
        /\ s.known = r.known /\ s.isPoll = r.isPoll /\ s.link = r.link
        /\ s.used = r.used /\ s \in Connection
    BY <1>3 DEF Connection, States
  <2>2. conn' = [conn EXCEPT ![c] = s]
    BY <1>3, <1>11
  <2>3. /\ events' \in Seq(EventMessages)
        /\ \A k, d : Queued(events', k, d) <=>
                       Queued(events, k, d) \/ (k = "established" /\ d = c)
    BY <1>3, <1>11, EventOf, QueueAdd DEF Enqueue
  <2>4. OrderInv(events')
    <3>1. ~c.poll => ~Queued(events, "request", Pair(c))
      BY <1>7 DEF NoneQueued
    <3>2. /\ ~Queued(events, "request", c) /\ ~Queued(events, "disconnected", c)
          /\ ~Queued(events, "established", c) /\ OrderInv(events)
      BY <1>6 DEF NoneQueued, ConnectionsInv
    <3>3. Message("established", c) \in EventMessages
      BY EventOf
    <3>4. OrderInv(Append(events, Message("established", c)))
      BY <1>3, <3>1, <3>2, <3>3, QueueAddOrder
    <3> QED BY <1>11, <3>4 DEF Enqueue
  <2> HIDE DEF r, s
  <2>5. RHeld(s) /\ RHeld(r) /\ ~RWaiting(s)
    BY <1>2, <2>1 DEF RHeld, RWaiting, r
  <2>6. ConnInv(c, s, wire', events', life[c.owner], main[c.owner])
    <3>1. HeldInv(c, s, life[c.owner], main[c.owner])
      BY <1>5, <1>6, <2>1, <2>5 DEF ConnInv, HeldInv
    <3>2. TokenInv(c, s, wire', events')
      BY <1>6, <1>8, <2>1, <2>3, EventOf DEF TokenInv, NoneQueued
    <3>3. EndInv(c, s, wire', events', main[c.owner])
      BY <1>5, <1>6, <1>8, <2>1, <2>3, EventOf DEF ConnInv, EndInv, NoneQueued
    <3>4. ServerInv(c, s)
      BY <1>5, <2>1 DEF ConnInv, ServerInv
    <3>5. LifeInv(c, s, events', life[c.owner], main[c.owner])
      BY <1>7, <1>10 DEF LifeInv
    <3> QED BY <3>1, <3>2, <3>3, <3>4, <3>5 DEF ConnInv
  <2>7. \A d : Queued(events', "request", d) <=> Queued(events, "request", d)
    BY <2>3, EventOf
  <2>8. /\ ~c.poll => PairInv(c, s, Pair(c), conn[Pair(c)], events',
                              life[c.owner], main[c.owner])
        /\ c.poll => PairInv(Pair(c), conn[Pair(c)], c, s, events',
                             life[c.owner], main[c.owner])
    BY <1>5, <1>7, <2>1, <2>5, <2>7 DEF PairInv
  <2>9. OneChanges(c, s) /\ SameForServer(r, s)
    BY <1>9, <2>1, <2>2, <2>3 DEF OneChanges, SameForServer, SameQueue
  <2>10. WireInv'
    BY <1>1, <1>2, <1>3, <2>2, <2>5, WireInvKept DEF ConnectionsInv
  <2> QED BY <1>2, <1>3, <1>4, <2>1, <2>3, <2>4, <2>5, <2>6, <2>8, <2>9, <2>10, OneStep
          DEF r
<1>12. CASE /\ Fault
            /\ conn' = [conn EXCEPT ![c].mine = "error"]
            /\ UNCHANGED events
  <2> DEFINE s == [r EXCEPT !.mine = "error"]
  <2>1. /\ s.mine = "error" /\ s.marked = r.marked /\ s.up = r.up /\ s.srv = r.srv
        /\ s.known = r.known /\ s.isPoll = r.isPoll /\ s.link = r.link
        /\ s.used = r.used /\ s \in Connection
    BY <1>3 DEF Connection, States
  <2>2. conn' = [conn EXCEPT ![c] = s]
    BY <1>3, <1>12
  <2>3. events' = events /\ OrderInv(events')
    BY <1>12 DEF ConnectionsInv
  <2> HIDE DEF r, s
  <2>4. RHeld(s) /\ RHeld(r) /\ ~RWaiting(s)
    BY <1>2, <2>1 DEF RHeld, RWaiting, r
  <2>5. ConnInv(c, s, wire', events, life[c.owner], main[c.owner])
    <3>1. HeldInv(c, s, life[c.owner], main[c.owner])
      BY <1>5, <1>6, <2>1, <2>4 DEF ConnInv, HeldInv
    <3>2. TokenInv(c, s, wire', events)
      BY <1>6, <1>8, <2>1 DEF TokenInv, NoneQueued
    <3>3. EndInv(c, s, wire', events, main[c.owner])
      BY <1>5, <1>6, <1>8, <2>1 DEF ConnInv, EndInv, NoneQueued
    <3>4. ServerInv(c, s)
      BY <1>5, <2>1 DEF ConnInv, ServerInv
    <3>5. LifeInv(c, s, events, life[c.owner], main[c.owner])
      BY <1>7, <1>10 DEF LifeInv
    <3> QED BY <3>1, <3>2, <3>3, <3>4, <3>5 DEF ConnInv
  <2>6. /\ ~c.poll => PairInv(c, s, Pair(c), conn[Pair(c)], events,
                              life[c.owner], main[c.owner])
        /\ c.poll => PairInv(Pair(c), conn[Pair(c)], c, s, events,
                             life[c.owner], main[c.owner])
    BY <1>5, <1>7, <2>1, <2>4 DEF PairInv
  <2>7. OneChanges(c, s) /\ SameForServer(r, s)
    BY <1>9, <2>1, <2>2, <2>3 DEF OneChanges, SameForServer, SameQueue
  <2>8. WireInv'
    BY <1>1, <1>2, <1>3, <2>2, <2>4, WireInvKept DEF ConnectionsInv
  <2> QED BY <1>2, <1>3, <1>4, <2>1, <2>3, <2>4, <2>5, <2>6, <2>7, <2>8, OneStep DEF r
<1> QED BY <1>1, <1>11, <1>12

LEMMA DisconnectedKeeps ==
  ASSUME ConnectionsInv, NEW p \in Processes, Disconnected(p)
  PROVE  ConnectionsInv'
<1>1. PICK c \in Conns :
        /\ UNCHANGED <<life, main, stop, events, server, faults>>
        /\ Receive(p, "disconnect", c)
        /\ wire' = wire \ {Message("disconnect", c)}
        /\ conn' = [conn EXCEPT ![c].mine = "disconnected"]
  BY DEF Disconnected
<1>2. /\ life' = life /\ main' = main /\ stop' = stop /\ UNCHANGED server
      /\ events' = events /\ faults' = faults /\ OrderInv(events')
      /\ c.owner = p /\ RHeld(conn[c]) /\ In(wire, "disconnect", c)
  BY <1>1 DEF Receive, Transports, Held, RHeld, In, ConnectionsInv
<1>3. /\ Types /\ conn \in [Conns -> Connection] /\ conn[c] \in Connection
      /\ loop \in [Processes -> {"off", "waiting", "ended"}] /\ faults \in Faults
      /\ stop \in [Processes -> BOOLEAN] /\ events \in Seq(EventMessages)
  BY DEF ConnectionsInv, Types, TypeOK
<1>4. loop' \in [Processes -> {"off", "waiting", "ended"}]
  BY <1>1, <1>3 DEF Receive, Handling
<1> DEFINE r == conn[c]
           s == [r EXCEPT !.mine = "disconnected"]
<1>5. /\ ConnInv(c, r, wire, events, life[c.owner], main[c.owner])
      /\ ~c.poll => PairInv(c, r, Pair(c), conn[Pair(c)], events,
                            life[c.owner], main[c.owner])
      /\ c.poll => PairInv(Pair(c), conn[Pair(c)], c, r, events,
                           life[c.owner], main[c.owner])
      /\ RHeld(r)
  BY <1>2, OfConnections
<1>6. /\ s.mine = "disconnected" /\ s.marked = r.marked /\ s.up = r.up /\ s.srv = r.srv
      /\ s.known = r.known /\ s.isPoll = r.isPoll /\ s.link = r.link
      /\ s.used = r.used /\ s \in Connection
  BY <1>3 DEF Connection, States
<1>7. conn' = [conn EXCEPT ![c] = s]
  BY <1>1, <1>3
<1> HIDE DEF r, s
<1>8. ~RWaiting(r) /\ RHeld(s) /\ ~RWaiting(s)
  <2>1. main[c.owner] # (IF c.poll THEN "poll" ELSE "connect")
    BY <1>2, <1>5 DEF ConnInv, EndInv
  <2> QED BY <1>5, <1>6, <2>1 DEF ConnInv, HeldInv, RHeld, RWaiting
<1>9. \A k, d : In(wire', k, d) <=> In(wire, k, d) /\ ~(k = "disconnect" /\ d = c)
  BY <1>1, WireTake
<1>10. ConnInv(c, s, wire', events, life[c.owner], main[c.owner])
  <2>1. HeldInv(c, s, life[c.owner], main[c.owner])
    BY <1>5, <1>6, <1>8 DEF ConnInv, HeldInv
  <2>2. TokenInv(c, s, wire', events)
    BY <1>5, <1>6, <1>8, <1>9 DEF ConnInv, TokenInv
  <2>3. EndInv(c, s, wire', events, main[c.owner])
    BY <1>5, <1>6, <1>9 DEF ConnInv, EndInv
  <2>4. ServerInv(c, s) /\ LifeInv(c, s, events, life[c.owner], main[c.owner])
    BY <1>5, <1>6 DEF ConnInv, ServerInv, LifeInv
  <2> QED BY <2>1, <2>2, <2>3, <2>4 DEF ConnInv
<1>11. /\ ~c.poll => PairInv(c, s, Pair(c), conn[Pair(c)], events,
                             life[c.owner], main[c.owner])
       /\ c.poll => PairInv(Pair(c), conn[Pair(c)], c, s, events,
                            life[c.owner], main[c.owner])
  BY <1>5, <1>6, <1>8 DEF PairInv
<1>12. OneChanges(c, s) /\ SameForServer(r, s)
  BY <1>2, <1>6, <1>7, <1>9 DEF OneChanges, SameForServer, SameQueue, SameWire
<1>13. WireInv'
  BY <1>1, <1>2, <1>3, <1>7, <1>8, WireInvKept DEF ConnectionsInv
<1> QED BY <1>2, <1>3, <1>4, <1>5, <1>6, <1>8, <1>10, <1>11, <1>12, <1>13, OneStep DEF r

LEMMA RouteResolvedKeeps ==
  ASSUME ConnectionsInv, NEW p \in Processes, RouteResolved(p)
  PROVE  ConnectionsInv'
<1>1. PICK c \in Conns :
        /\ \/ Enqueue("request", c) /\ UNCHANGED <<conn, stop, faults>>
           \/ Fault /\ UNCHANGED <<conn, stop, events>>
           \/ /\ Fault
              /\ conn' = [conn EXCEPT ![c].mine = "error"]
              /\ stop' = [stop EXCEPT ![p] = TRUE]
              /\ UNCHANGED events
        /\ Receive(p, "route", c)
        /\ wire' = wire \ {Message("route", c)}
        /\ UNCHANGED <<life, main, server>>
  BY DEF RouteResolved
<1>2. /\ life' = life /\ main' = main /\ UNCHANGED server
      /\ c.owner = p /\ RHeld(conn[c]) /\ In(wire, "route", c)
  BY <1>1 DEF Receive, Transports, Held, RHeld, In
<1>3. /\ Types /\ conn \in [Conns -> Connection] /\ conn[c] \in Connection
      /\ loop \in [Processes -> {"off", "waiting", "ended"}] /\ faults \in Faults
      /\ stop \in [Processes -> BOOLEAN] /\ events \in Seq(EventMessages)
  BY DEF ConnectionsInv, Types, TypeOK
<1>4. /\ loop' \in [Processes -> {"off", "waiting", "ended"}] /\ faults' \in Faults
      /\ stop' \in [Processes -> BOOLEAN]
  <2>1. stop' \in [Processes -> BOOLEAN]
    BY <1>1, <1>3
  <2>2. loop' \in [Processes -> {"off", "waiting", "ended"}]
    BY <1>1, <1>3 DEF Receive, Handling
  <2>3. faults' \in Faults
    BY <1>1, <1>3, BoundsAssumption DEF Fault, Faults
  <2> QED BY <2>1, <2>2, <2>3
<1> DEFINE r == conn[c]
<1>5. /\ ConnInv(c, r, wire, events, life[c.owner], main[c.owner])
      /\ ~c.poll => PairInv(c, r, Pair(c), conn[Pair(c)], events,
                            life[c.owner], main[c.owner])
      /\ c.poll => PairInv(Pair(c), conn[Pair(c)], c, r, events,
                           life[c.owner], main[c.owner])
      /\ RHeld(r) /\ Pair(c) \in Conns
  BY <1>2, OfConnections
<1>6. RWaiting(r) /\ r.srv = "none" /\ r.up = "no" /\ NoneQueued(events, c)
  BY <1>2, <1>5 DEF ConnInv, TokenInv
<1>7. /\ c.life = life[c.owner] /\ main[c.owner] = (IF c.poll THEN "poll" ELSE "connect")
      /\ ~Later(c, life[c.owner], main[c.owner])
      /\ ~c.poll => /\ ~RHeld(conn[Pair(c)]) /\ conn[Pair(c)].srv = "none"
                    /\ NoneQueued(events, Pair(c))
  BY <1>6, HandshakeIs
<1>8. /\ \A k, d : In(wire', k, d) <=> In(wire, k, d) /\ ~(k = "route" /\ d = c)
      /\ ~In(wire, "accept", c)
  <2>1. \A k, d : In(wire', k, d) <=> In(wire, k, d) /\ ~(k = "route" /\ d = c)
    BY <1>1, WireTake
  <2>2. ~In(wire, "accept", c)
    BY <1>5, <1>6 DEF ConnInv, TokenInv
  <2> QED BY <2>1, <2>2
<1>9. \A d \in Conns : d # c => SameWire(wire, wire', d)
  BY <1>8 DEF SameWire
<1>10. c.life \in Nat /\ Pair(c) # c /\ c.life = Pair(c).life
  BY ConnNames
<1>11. CASE Enqueue("request", c) /\ UNCHANGED <<conn, stop, faults>>
  <2>1. conn' = [conn EXCEPT ![c] = r]
    BY <1>3, <1>11
  <2>2. /\ events' \in Seq(EventMessages)
        /\ \A k, d : Queued(events', k, d) <=>
                       Queued(events, k, d) \/ (k = "request" /\ d = c)
    BY <1>3, <1>11, EventOf, QueueAdd DEF Enqueue
  <2>3. OrderInv(events')
    <3>1. /\ ~Queued(events, "request", c) /\ ~Queued(events, "disconnected", c)
          /\ ~Queued(events, "established", c) /\ OrderInv(events)
      BY <1>6 DEF NoneQueued, ConnectionsInv
    <3>2. Message("request", c) \in EventMessages
      BY EventOf
    <3>3. OrderInv(Append(events, Message("request", c)))
      BY <1>3, <3>1, <3>2, EventOf, QueueAddOrder
    <3> QED BY <1>11, <3>3 DEF Enqueue
  <2> HIDE DEF r
  <2>4. ConnInv(c, r, wire', events', life[c.owner], main[c.owner])
    <3>1. TokenInv(c, r, wire', events')
      BY <1>6, <1>8, <2>2, EventOf DEF TokenInv, NoneQueued
    <3>2. EndInv(c, r, wire', events', main[c.owner])
      BY <1>5, <1>8, <2>2, EventOf DEF ConnInv, EndInv
    <3>3. LifeInv(c, r, events', life[c.owner], main[c.owner])
      BY <1>7, <1>10 DEF LifeInv
    <3> QED BY <1>5, <3>1, <3>2, <3>3 DEF ConnInv
  <2>5. ASSUME ~c.poll
        PROVE  PairInv(c, r, Pair(c), conn[Pair(c)], events', life[c.owner], main[c.owner])
    <3>1. ~Queued(events', "request", Pair(c))
      BY <1>7, <1>10, <2>2, <2>5 DEF NoneQueued
    <3>2. ~Queued(events, "request", Pair(c))
      BY <1>7, <2>5 DEF NoneQueued
    <3> QED BY <1>5, <1>7, <2>5, <3>1, <3>2 DEF PairInv
  <2>6. ASSUME c.poll
        PROVE  PairInv(Pair(c), conn[Pair(c)], c, r, events', life[c.owner], main[c.owner])
    <3>1. ~Queued(events', "request", Pair(c))
      BY <1>5, <1>10, <2>2, <2>6 DEF PairInv
    <3>2. conn[Pair(c)].used = 0
      BY <1>5, <1>7, <1>10, <2>6 DEF PairInv
    <3> QED BY <1>5, <2>6, <3>1, <3>2 DEF PairInv
  <2>7. OneChanges(c, r) /\ SameForServer(r, r)
    BY <1>9, <2>1, <2>2 DEF OneChanges, SameForServer, SameQueue
  <2>8. WireInv'
    BY <1>1, <1>11 DEF ConnectionsInv, WireInv, Held
  <2> QED BY <1>2, <1>3, <1>4, <2>2, <2>3, <2>4, <2>5, <2>6, <2>7, <2>8, OneStep
          DEF r
<1>12. CASE Fault /\ events' = events /\ (conn' = conn \/ conn' = [conn EXCEPT ![c].mine = "error"])
  <2> DEFINE s == IF conn' = conn THEN r ELSE [r EXCEPT !.mine = "error"]
  <2>1. /\ s.mine \in {r.mine, "error"} /\ s.marked = r.marked /\ s.up = r.up
        /\ s.srv = r.srv /\ s.known = r.known /\ s.isPoll = r.isPoll
        /\ s.link = r.link /\ s.used = r.used /\ s \in Connection
    BY <1>3 DEF Connection, States
  <2>2. conn' = [conn EXCEPT ![c] = s]
    BY <1>3, <1>12
  <2>3. events' = events /\ OrderInv(events')
    BY <1>12 DEF ConnectionsInv
  <2> HIDE DEF r, s
  <2>4. RHeld(s) /\ s.mine # "connected"
    BY <1>6, <2>1 DEF RHeld, RWaiting
  <2>5. ConnInv(c, s, wire', events, life[c.owner], main[c.owner])
    <3>1. HeldInv(c, s, life[c.owner], main[c.owner])
      BY <1>5, <1>6, <1>7, <2>1, <2>4 DEF ConnInv, HeldInv
    <3>2. TokenInv(c, s, wire', events)
      BY <1>6, <1>8, <2>1 DEF TokenInv, NoneQueued
    <3>3. EndInv(c, s, wire', events, main[c.owner])
      BY <1>5, <1>8, <2>1, <2>4 DEF ConnInv, EndInv
    <3>4. ServerInv(c, s)
      BY <1>5, <2>1 DEF ConnInv, ServerInv
    <3>5. LifeInv(c, s, events, life[c.owner], main[c.owner])
      BY <1>7, <1>10 DEF LifeInv
    <3> QED BY <3>1, <3>2, <3>3, <3>4, <3>5 DEF ConnInv
  <2>6. /\ ~c.poll => PairInv(c, s, Pair(c), conn[Pair(c)], events,
                              life[c.owner], main[c.owner])
        /\ c.poll => PairInv(Pair(c), conn[Pair(c)], c, s, events,
                             life[c.owner], main[c.owner])
    BY <1>5, <2>1, <2>4 DEF PairInv
  <2>7. OneChanges(c, s) /\ SameForServer(r, s)
    BY <1>9, <2>1, <2>2, <2>3 DEF OneChanges, SameForServer, SameQueue
  <2>8. WireInv'
    BY <1>1, <1>2, <1>3, <2>2, <2>4, WireInvKept DEF ConnectionsInv
  <2> QED BY <1>2, <1>3, <1>4, <1>5, <2>1, <2>3, <2>4, <2>5, <2>6, <2>7, <2>8, OneStep
          DEF r
<1> QED BY <1>1, <1>11, <1>12

(***************************************************************************)
(* The server and the kernel.                                              *)
(***************************************************************************)
LEMMA ConnectionEndsKeeps ==
  ASSUME ConnectionsInv, ConnectionEnds
  PROVE  ConnectionsInv'
<1>1. PICK c \in Conns :
        /\ \/ conn[c].up = "ending"
           \/ conn[c].up = "yes" /\ ~Held(c)
        /\ conn' = [conn EXCEPT ![c].up = "no"]
        /\ Enqueue("disconnected", c)
        /\ UNCHANGED <<process, wire, server, faults>>
  BY DEF ConnectionEnds
<1>2. /\ life' = life /\ main' = main /\ loop' = loop /\ stop' = stop
      /\ UNCHANGED server /\ wire' = wire /\ faults' = faults
  BY <1>1 DEF process
<1>3. /\ Types /\ conn \in [Conns -> Connection] /\ conn[c] \in Connection
      /\ loop' \in [Processes -> {"off", "waiting", "ended"}] /\ faults' \in Faults
      /\ stop' \in [Processes -> BOOLEAN] /\ events \in Seq(EventMessages)
  BY <1>2 DEF ConnectionsInv, Types, TypeOK
<1> DEFINE r == conn[c]
           s == [r EXCEPT !.up = "no"]
<1>4. /\ ConnInv(c, r, wire, events, life[c.owner], main[c.owner])
      /\ ~c.poll => PairInv(c, r, Pair(c), conn[Pair(c)], events,
                            life[c.owner], main[c.owner])
      /\ c.poll => PairInv(Pair(c), conn[Pair(c)], c, r, events,
                           life[c.owner], main[c.owner])
  BY OfConnections
<1>5. /\ s.mine = r.mine /\ s.marked = r.marked /\ s.up = "no" /\ s.srv = r.srv
      /\ s.known = r.known /\ s.isPoll = r.isPoll /\ s.link = r.link
      /\ s.used = r.used /\ s \in Connection
  BY <1>3 DEF Connection
<1>6. conn' = [conn EXCEPT ![c] = s]
  BY <1>1, <1>3
<1>7. r.up = "ending" \/ (r.up = "yes" /\ ~RHeld(r))
  BY <1>1 DEF Held, RHeld
<1>8. In(wire, "close", c) => RHeld(r)
  BY WireIs DEF ConnectionsInv, Held, RHeld, In
<1>9. /\ events' \in Seq(EventMessages)
      /\ \A k, d : Queued(events', k, d) <=>
                     Queued(events, k, d) \/ (k = "disconnected" /\ d = c)
  BY <1>1, <1>3, EventOf, QueueAdd DEF Enqueue
<1> HIDE DEF r, s
<1>10. OrderInv(events')
  <2>1. /\ ~Queued(events, "request", c) /\ ~Queued(events, "disconnected", c)
        /\ OrderInv(events)
    BY <1>4, <1>7 DEF ConnectionsInv, ConnInv, TokenInv, EndInv
  <2>2. Message("disconnected", c) \in EventMessages
    BY EventOf
  <2>3. OrderInv(Append(events, Message("disconnected", c)))
    BY <1>3, <2>1, <2>2, EventOf, QueueAddOrder
  <2> QED BY <1>1, <2>3 DEF Enqueue
<1>11. RHeld(s) <=> RHeld(r)
  BY <1>5 DEF RHeld
<1>12. ConnInv(c, s, wire, events', life[c.owner], main[c.owner])
  <2>1. HeldInv(c, s, life[c.owner], main[c.owner])
    BY <1>4, <1>5 DEF ConnInv, HeldInv, RHeld, RWaiting
  <2>2. TokenInv(c, s, wire, events')
    BY <1>4, <1>5, <1>7, <1>9, EventOf DEF ConnInv, TokenInv
  <2>3. EndInv(c, s, wire, events', main[c.owner])
    <3>1. ~In(wire, "close", c)
      BY <1>4, <1>7, <1>8 DEF ConnInv, EndInv
    <3>2. s.mine = "connected" => In(wire, "disconnect", c)
      BY <1>4, <1>5, <1>7 DEF ConnInv, EndInv, RHeld
    <3>3. s.srv = "connected" \/ Queued(events', "established", c)
      BY <1>4, <1>5, <1>7, <1>9, EventOf DEF ConnInv, EndInv
    <3>4. Queued(events', "disconnected", c)
      BY <1>9
    <3>5. main[c.owner] \in {"connect", "fetch", "poll", "running"}
            \/ (c.poll /\ main[c.owner] = "closing") => ~In(wire, "disconnect", c)
      BY <1>4 DEF ConnInv, EndInv
    <3> QED BY <1>5, <3>1, <3>2, <3>3, <3>4, <3>5 DEF EndInv
  <2>4. ServerInv(c, s)
    BY <1>4, <1>5 DEF ConnInv, ServerInv
  <2>5. LifeInv(c, s, events', life[c.owner], main[c.owner])
    BY <1>4, <1>7 DEF ConnInv, LifeInv
  <2> QED BY <2>1, <2>2, <2>3, <2>4, <2>5 DEF ConnInv
<1>13. \A d : Queued(events', "request", d) <=> Queued(events, "request", d)
  BY <1>9, EventOf
<1>14. /\ ~c.poll => PairInv(c, s, Pair(c), conn[Pair(c)], events',
                             life[c.owner], main[c.owner])
       /\ c.poll => PairInv(Pair(c), conn[Pair(c)], c, s, events',
                            life[c.owner], main[c.owner])
  BY <1>4, <1>5, <1>11, <1>13 DEF PairInv
<1>15. OneChanges(c, s) /\ SameForServer(r, s)
  BY <1>2, <1>5, <1>6, <1>9 DEF OneChanges, SameForServer, SameQueue, SameWire
<1>16. WireInv'
  BY <1>2, <1>3, <1>6, <1>11, WireInvKept DEF ConnectionsInv, r
<1> QED BY <1>2, <1>3, <1>5, <1>9, <1>10, <1>11, <1>12, <1>14, <1>15, <1>16, OneStep
        DEF r

LEMMA CloseRequestKeeps ==
  ASSUME ConnectionsInv, CloseRequest
  PROVE  ConnectionsInv'
<1>1. PICK c \in Conns :
        /\ Message("close", c) \in wire
        /\ wire' = (wire \ {Message("close", c)}) \cup {Message("disconnect", c)}
        /\ conn' = [conn EXCEPT ![c].up = "ending"]
        /\ UNCHANGED <<process, events, server, faults>>
  BY DEF CloseRequest
<1>2. /\ life' = life /\ main' = main /\ loop' = loop /\ stop' = stop
      /\ UNCHANGED server /\ events' = events /\ faults' = faults /\ OrderInv(events')
  BY <1>1 DEF process, ConnectionsInv
<1>3. /\ Types /\ conn \in [Conns -> Connection] /\ conn[c] \in Connection
      /\ loop' \in [Processes -> {"off", "waiting", "ended"}] /\ faults' \in Faults
      /\ stop' \in [Processes -> BOOLEAN] /\ events' \in Seq(EventMessages)
  BY <1>2 DEF ConnectionsInv, Types, TypeOK
<1> DEFINE r == conn[c]
           s == [r EXCEPT !.up = "ending"]
<1>4. /\ ConnInv(c, r, wire, events, life[c.owner], main[c.owner])
      /\ ~c.poll => PairInv(c, r, Pair(c), conn[Pair(c)], events,
                            life[c.owner], main[c.owner])
      /\ c.poll => PairInv(Pair(c), conn[Pair(c)], c, r, events,
                           life[c.owner], main[c.owner])
  BY OfConnections
<1>5. /\ s.mine = r.mine /\ s.marked = r.marked /\ s.up = "ending" /\ s.srv = r.srv
      /\ s.known = r.known /\ s.isPoll = r.isPoll /\ s.link = r.link
      /\ s.used = r.used /\ s \in Connection
  BY <1>3 DEF Connection
<1>6. conn' = [conn EXCEPT ![c] = s]
  BY <1>1, <1>3
<1>7. In(wire, "close", c) /\ r.up = "yes" /\ RHeld(r)
  <2>1. In(wire, "close", c)
    BY <1>1 DEF In
  <2>2. RHeld(r)
    BY <1>1, WireIs DEF ConnectionsInv, Held, RHeld
  <2> QED BY <1>4, <2>1, <2>2 DEF ConnInv, EndInv
<1>8. \A k, d : In(wire', k, d) <=>
        (In(wire, k, d) /\ ~(k = "close" /\ d = c)) \/ (k = "disconnect" /\ d = c)
  BY <1>1, WireSwap
<1> HIDE DEF r, s
<1>9. RHeld(s) /\ (RWaiting(s) <=> RWaiting(r))
  BY <1>5, <1>7 DEF RHeld, RWaiting
<1>10. ConnInv(c, s, wire', events, life[c.owner], main[c.owner])
  <2>1. HeldInv(c, s, life[c.owner], main[c.owner])
    BY <1>4, <1>5, <1>7, <1>9 DEF ConnInv, HeldInv
  <2>2. TokenInv(c, s, wire', events)
    BY <1>4, <1>5, <1>7, <1>8 DEF ConnInv, TokenInv
  <2>3. EndInv(c, s, wire', events, main[c.owner])
    BY <1>4, <1>5, <1>7, <1>8 DEF ConnInv, EndInv
  <2>4. ServerInv(c, s)
    BY <1>4, <1>5 DEF ConnInv, ServerInv
  <2>5. LifeInv(c, s, events, life[c.owner], main[c.owner])
    BY <1>4, <1>7 DEF ConnInv, LifeInv
  <2> QED BY <2>1, <2>2, <2>3, <2>4, <2>5 DEF ConnInv
<1>11. /\ ~c.poll => PairInv(c, s, Pair(c), conn[Pair(c)], events,
                             life[c.owner], main[c.owner])
       /\ c.poll => PairInv(Pair(c), conn[Pair(c)], c, s, events,
                            life[c.owner], main[c.owner])
  BY <1>4, <1>5, <1>7, <1>9 DEF PairInv
<1>12. OneChanges(c, s) /\ SameForServer(r, s)
  BY <1>2, <1>5, <1>6, <1>8 DEF OneChanges, SameForServer, SameQueue, SameWire
<1>13. WireInv'
  <2>1. \A m \in wire' : m \in wire \/ (m.conn = c /\ m.kind = "disconnect")
    BY <1>1, MessageIs
  <2> QED BY <1>2, <1>3, <1>6, <1>9, <2>1, WireInvKept DEF ConnectionsInv
<1> QED BY <1>2, <1>3, <1>5, <1>7, <1>9, <1>10, <1>11, <1>12, <1>13, OneStep DEF r

LEMMA InfoRequestKeeps ==
  ASSUME ConnectionsInv, InfoRequest
  PROVE  ConnectionsInv'
<1>1. PICK c \in Conns :
        /\ Message("info_request", c) \in wire
        /\ wire' = (wire \ {Message("info_request", c)}) \cup Answer(c)
        /\ UNCHANGED <<conn, process, events, server, faults>>
  BY DEF InfoRequest
<1>2. /\ conn' = conn /\ life' = life /\ main' = main /\ loop' = loop /\ stop' = stop
      /\ UNCHANGED server /\ events' = events /\ faults' = faults /\ OrderInv(events')
  BY <1>1 DEF process, ConnectionsInv
<1>3. /\ Types /\ conn \in [Conns -> Connection] /\ conn[c] \in Connection
      /\ loop' \in [Processes -> {"off", "waiting", "ended"}] /\ faults' \in Faults
      /\ stop' \in [Processes -> BOOLEAN] /\ events' \in Seq(EventMessages)
  BY <1>2 DEF ConnectionsInv, Types, TypeOK
<1> DEFINE r == conn[c]
<1>4. /\ ConnInv(c, r, wire, events, life[c.owner], main[c.owner])
      /\ ~c.poll => PairInv(c, r, Pair(c), conn[Pair(c)], events,
                            life[c.owner], main[c.owner])
      /\ c.poll => PairInv(Pair(c), conn[Pair(c)], c, r, events,
                           life[c.owner], main[c.owner])
  BY OfConnections
<1>5. \/ wire' = (wire \ {Message("info_request", c)}) \cup {Message("info_response", c)}
      \/ wire' = (wire \ {Message("info_request", c)}) \cup {Message("lost", c)}
  BY <1>1 DEF Answer, Lost
<1>6. \/ \A j, d : In(wire', j, d) <=> (In(wire, j, d) /\ ~(j = "info_request" /\ d = c))
                                        \/ (j = "info_response" /\ d = c)
      \/ \A j, d : In(wire', j, d) <=> (In(wire, j, d) /\ ~(j = "info_request" /\ d = c))
                                        \/ (j = "lost" /\ d = c)
  <2>1. CASE wire' = (wire \ {Message("info_request", c)})
                       \cup {Message("info_response", c)}
    BY <2>1, WireSwap
  <2>2. CASE wire' = (wire \ {Message("info_request", c)}) \cup {Message("lost", c)}
    BY <2>2, WireSwap
  <2> QED BY <1>5, <2>1, <2>2
<1>7. /\ \A j \in {"route", "accept", "close", "disconnect"} :
           In(wire', j, c) <=> In(wire, j, c)
      /\ \A d \in Conns : d # c => SameWire(wire, wire', d)
  BY <1>6 DEF SameWire
<1> HIDE DEF r
<1>8. ConnInv(c, r, wire', events, life[c.owner], main[c.owner])
  <2>1. TokenInv(c, r, wire', events)
    BY <1>4, <1>7 DEF ConnInv, TokenInv
  <2>2. EndInv(c, r, wire', events, main[c.owner])
    BY <1>4, <1>7 DEF ConnInv, EndInv
  <2> QED BY <1>4, <2>1, <2>2 DEF ConnInv
<1>9. OneChanges(c, r) /\ SameForServer(r, r)
  BY <1>2, <1>3, <1>7 DEF OneChanges, SameForServer, SameQueue, r
<1>10. WireInv'
  <2>1. /\ Held(c) /\ c.owner = Watcher /\ main[Watcher] \in {"fetch", "running"}
    BY <1>1, WireIs DEF ConnectionsInv
  <2>2. \A m \in wire' : m \in wire \/ m.conn = c
    <3>1. /\ Message("info_response", c).conn = c
          /\ Message("lost", c).conn = c
      BY MessageIs
    <3> QED BY <1>5, <3>1
  <2> QED BY <1>2, <2>1, <2>2 DEF ConnectionsInv, WireInv, Held
<1> QED BY <1>2, <1>3, <1>4, <1>8, <1>9, <1>10, OneStep DEF r

(***************************************************************************)
(* The main thread goes on.                                                *)
(***************************************************************************)
Mains == {"off", "connect", "poll", "fetch", "running", "closing", "leaving", "joining"}

LEMMA MainStep ==
  ASSUME ConnectionsInv, NEW p \in Processes, NEW m \in Mains,
         main[p] # "off", m \in {"connect", "poll"} => main[p] \in {"connect", "poll"},
         main' = [main EXCEPT ![p] = m],
         conn' = conn, life' = life, events' = events, UNCHANGED server,
         \A c \in Conns : c.owner # p => SameWire(wire, wire', c),
         \A c \in Conns : c.owner = p => ConnInv(c, conn[c], wire', events, life[p], m),
         WireInv',
         loop' \in [Processes -> {"off", "waiting", "ended"}],
         stop' \in [Processes -> BOOLEAN], faults' \in Faults
  PROVE  ConnectionsInv'
<1>1. Types /\ main \in [Processes -> Mains]
  BY DEF ConnectionsInv, Types, TypeOK, Mains
<1>2. /\ main' \in [Processes -> Mains] /\ main'[p] = m
      /\ \A q \in Processes : q # p => main'[q] = main[q]
  BY <1>1
<1>3. OnlyProcess(p)
  <2>1. \A d \in Conns : d.owner \in Processes
    BY ConnNames
  <2> QED BY <1>2, <2>1, SameEvents DEF OnlyProcess
<1>4. \A c \in Conns : c.owner = p => ConnInvNext(c)
  BY <1>2 DEF ConnInvNext
<1>5. ASSUME NEW c \in Conns, c.owner = p, ~c.poll
      PROVE  PairInvNext(c)
  <2>1. PairInv(c, conn[c], Pair(c), conn[Pair(c)], events, life[p], main[p])
    BY <1>5, OfConnections
  <2>2. PairInv(c, conn[c], Pair(c), conn[Pair(c)], events, life[p], m)
    BY <2>1 DEF PairInv
  <2> QED BY <1>2, <1>5, <2>2 DEF PairInvNext
<1>6. EachNext
  BY <1>3, <1>4, <1>5, OneProcess DEF ConnectionsInv
<1>7. \A n \in wire' : n.conn \in Conns
  BY DEF WireInv
<1>8. /\ watcherTrans' = watcherTrans /\ clientList' = clientList
      /\ curConnections' = curConnections /\ view' = view
  BY DEF server
<1>9. Types'
  <2>1. \A q \in Processes : main'[q] # "off" => life[q] >= 1
    BY <1>1, <1>2 DEF Types
  <2> QED BY <1>1, <1>2, <1>7, <1>8, <2>1 DEF Types, TypeOK, Mains
<1>10. ServerFieldsKept /\ OrderInv(events')
  BY DEF ServerFieldsKept, ConnectionsInv
<1> QED BY <1>6, <1>9, <1>10, ClientStep

\* A process that runs has a life.
LEMMA RunsIn ==
  ASSUME ConnectionsInv, NEW p \in Processes, main[p] # "off"
  PROVE  /\ life[p] \in Lives /\ life[p] \in Nat
         /\ ConnectTrans(p) \in Conns /\ PollTrans(p) \in Conns
         /\ ConnectTrans(p).owner = p /\ PollTrans(p).owner = p
         /\ ConnectTrans(p).life = life[p] /\ PollTrans(p).life = life[p]
         /\ ~ConnectTrans(p).poll /\ PollTrans(p).poll
         /\ Pair(ConnectTrans(p)) = PollTrans(p)
         /\ \A c \in Conns : c.owner = p /\ c.life = life[p] =>
              c = IF c.poll THEN PollTrans(p) ELSE ConnectTrans(p)
<1>1. life[p] \in 0 .. MaxLives /\ life[p] >= 1
  BY DEF ConnectionsInv, Types, TypeOK
<1>2. life[p] \in Lives /\ life[p] \in Nat
  BY <1>1, BoundsAssumption DEF Lives
<1>3. /\ ConnectTrans(p) \in Conns /\ PollTrans(p) \in Conns
      /\ ConnectTrans(p).owner = p /\ PollTrans(p).owner = p
      /\ ConnectTrans(p).life = life[p] /\ PollTrans(p).life = life[p]
      /\ ConnectTrans(p).poll = FALSE /\ PollTrans(p).poll = TRUE
      /\ Pair(ConnectTrans(p)) = PollTrans(p)
  BY <1>2, TransNames
<1>4. ASSUME NEW c \in Conns, c.owner = p, c.life = life[p]
      PROVE  c = IF c.poll THEN PollTrans(p) ELSE ConnectTrans(p)
  <2>1. c.poll \in BOOLEAN
    BY ConnNames
  <2>2. CASE c.poll
    BY <1>3, <1>4, <2>1, <2>2, ConnNames
  <2>3. CASE ~c.poll
    BY <1>3, <1>4, <2>1, <2>3, ConnNames
  <2> QED BY <2>2, <2>3
<1> QED BY <1>2, <1>3, <1>4

LEMMA PollDoneKeeps ==
  ASSUME ConnectionsInv, NEW p \in Processes, PollDone(p)
  PROVE  ConnectionsInv'
<1>1. /\ main[p] = "poll" /\ main' = [main EXCEPT ![p] = "running"]
      /\ conn[PollTrans(p)].marked /\ ~RWaiting(conn[PollTrans(p)])
      /\ conn' = conn /\ life' = life /\ loop' = loop /\ stop' = stop /\ wire' = wire
      /\ events' = events /\ UNCHANGED server /\ faults' = faults
  BY DEF PollDone, Settled, Waiting, RWaiting
<1>2. /\ loop' \in [Processes -> {"off", "waiting", "ended"}]
      /\ stop' \in [Processes -> BOOLEAN] /\ faults' \in Faults
      /\ "running" \in Mains
  BY <1>1 DEF ConnectionsInv, Types, TypeOK, Mains
<1>3. ASSUME NEW c \in Conns, c.owner = p
      PROVE  ConnInv(c, conn[c], wire', events, life[p], "running")
  <2> DEFINE r == conn[c]
  <2>1. ConnInv(c, r, wire, events, life[p], "poll")
    BY <1>1, <1>3, OfConnections
  <2>2. c.poll /\ c.life = life[p] => r.marked /\ ~RWaiting(r)
    BY <1>1, <1>3, RunsIn
  <2> HIDE DEF r
  <2>3. HeldInv(c, r, life[p], "running")
    BY <2>1, <2>2 DEF ConnInv, HeldInv
  <2>4. EndInv(c, r, wire, events, "running")
    BY <2>1 DEF ConnInv, EndInv
  <2>5. LifeInv(c, r, events, life[p], "running")
    BY <2>1 DEF ConnInv, LifeInv, Later
  <2> QED BY <1>1, <2>1, <2>3, <2>4, <2>5 DEF ConnInv, r
<1>4. WireInv'
  <2>1. main \in [Processes -> Mains] /\ Watcher \in Processes
    BY DEF ConnectionsInv, Types, TypeOK, Mains, Processes
  <2>2. main'[Watcher] = main[Watcher] \/ main'[Watcher] = "running"
    BY <1>1, <2>1
  <2> QED BY <1>1, <2>2 DEF ConnectionsInv, WireInv, Held
<1>5. \A c \in Conns : c.owner # p => SameWire(wire, wire', c)
  BY <1>1 DEF SameWire
<1> QED BY <1>1, <1>2, <1>3, <1>4, <1>5, MainStep

\* dhmp_close_connection, whose message is sent only on a connection that is up.
LEMMA CloseKeeps ==
  ASSUME ConnectionsInv, NEW p \in Processes, NEW from, NEW to, NEW c \in Conns,
         Close(p, from, to, c), c.owner = p, c.life = life[p],
         \/ from = "running" /\ to = "closing" /\ ~c.poll /\ p \in Clients
         \/ from = "closing" /\ to = "leaving" /\ c.poll
  PROVE  ConnectionsInv'
<1>1. /\ main[p] = from /\ main' = [main EXCEPT ![p] = to]
      /\ conn' = conn /\ life' = life /\ loop' = loop /\ stop' = stop
      /\ events' = events /\ UNCHANGED server /\ faults' = faults
      /\ \/ conn[c].mine = "connected" /\ wire' = wire \cup {Message("close", c)}
         \/ conn[c].mine # "connected" /\ wire' = wire
  BY DEF Close, Send
<1>2. /\ loop' \in [Processes -> {"off", "waiting", "ended"}]
      /\ stop' \in [Processes -> BOOLEAN] /\ faults' \in Faults
      /\ to \in Mains
  BY <1>1 DEF ConnectionsInv, Types, TypeOK, Mains
<1>3. \A k, d : In(wire', k, d) <=>
        In(wire, k, d) \/ (k = "close" /\ d = c /\ conn[c].mine = "connected")
  <2>1. \A k, d : In(wire \cup {Message("close", c)}, k, d) <=>
          In(wire, k, d) \/ (k = "close" /\ d = c)
    BY WireAdd
  <2> QED BY <1>1, <2>1
<1>4. ASSUME NEW d \in Conns, d.owner = p
      PROVE  ConnInv(d, conn[d], wire', events, life[p], to)
  <2> DEFINE r == conn[d]
  <2>1. ConnInv(d, r, wire, events, life[p], from)
    BY <1>1, <1>4, OfConnections
  <2>2. d.poll \in BOOLEAN /\ c.poll \in BOOLEAN
    BY ConnNames
  <2>3. d.life = life[p] /\ d.poll = c.poll => d = c
    BY <1>4, ConnNames
  <2> HIDE DEF r
  <2>4. HeldInv(d, r, life[p], to)
    BY <2>1 DEF ConnInv, HeldInv
  <2>5. TokenInv(d, r, wire', events)
    BY <1>3, <2>1 DEF ConnInv, TokenInv
  <2>6. EndInv(d, r, wire', events, to)
    <3>1. CASE d = c
      BY <1>3, <2>1, <3>1 DEF ConnInv, EndInv, r
    <3>2. CASE d # c
      BY <1>3, <2>1, <3>2 DEF ConnInv, EndInv
    <3> QED BY <3>1, <3>2
  <2>7. LifeInv(d, r, events, life[p], to)
    BY <2>1 DEF ConnInv, LifeInv, Later
  <2> QED BY <2>1, <2>4, <2>5, <2>6, <2>7 DEF ConnInv, r
<1>5. WireInv'
  <2>1. conn[c].mine = "connected" => Held(c)
    BY DEF Held
  <2>2. \A m \in wire' : m \in wire \/ (m = Message("close", c) /\ Held(c))
    BY <1>1, <2>1
  <2>3. Message("close", c).conn = c /\ Message("close", c).kind = "close"
    BY MessageIs
  <2>5. main \in [Processes -> Mains] /\ Watcher \in Processes
    BY DEF ConnectionsInv, Types, TypeOK, Mains, Processes
  <2>6. p # Watcher => main'[Watcher] = main[Watcher]
    BY <1>1, <2>5
  <2>7. p = Watcher => \A m \in wire : m.kind \notin {"info_request", "info_response"}
    <3>1. from = "running" => p # Watcher
      BY ProcessesAssumption
    <3> QED BY <1>1, <3>1 DEF ConnectionsInv, WireInv
  <2> QED BY <1>1, <2>2, <2>3, <2>6, <2>7 DEF ConnectionsInv, WireInv, Held
<1>6. \A d \in Conns : d.owner # p => SameWire(wire, wire', d)
  BY <1>3 DEF SameWire
<1>7. main[p] # "off" /\ to \notin {"connect", "poll"}
  BY <1>1
<1> QED BY <1>1, <1>2, <1>4, <1>5, <1>6, <1>7, MainStep

LEMMA CloseConnectKeeps ==
  ASSUME ConnectionsInv, NEW p \in Processes, CloseConnect(p)
  PROVE  ConnectionsInv'
<1>1. main[p] # "off" /\ p \in Clients
  BY DEF CloseConnect, Close
<1> QED BY <1>1, RunsIn, CloseKeeps DEF CloseConnect

LEMMA ClosePollKeeps ==
  ASSUME ConnectionsInv, NEW p \in Processes, ClosePoll(p)
  PROVE  ConnectionsInv'
<1>1. main[p] # "off"
  BY DEF ClosePoll, Close
<1> QED BY <1>1, RunsIn, CloseKeeps DEF ClosePoll

LEMMA LeaveKeeps ==
  ASSUME ConnectionsInv, NEW p \in Processes, Leave(p)
  PROVE  ConnectionsInv'
<1>1. /\ main[p] = "leaving" /\ main' = [main EXCEPT ![p] = "joining"]
      /\ conn' = conn /\ life' = life /\ stop' = [stop EXCEPT ![p] = TRUE]
      /\ loop' \in {loop, [loop EXCEPT ![p] = "ended"]}
      /\ wire' = wire /\ events' = events /\ UNCHANGED server /\ faults' = faults
  BY DEF Leave
<1>2. /\ loop' \in [Processes -> {"off", "waiting", "ended"}]
      /\ stop' \in [Processes -> BOOLEAN] /\ faults' \in Faults
      /\ "joining" \in Mains
  BY <1>1 DEF ConnectionsInv, Types, TypeOK, Mains
<1>3. ASSUME NEW c \in Conns, c.owner = p
      PROVE  ConnInv(c, conn[c], wire', events, life[p], "joining")
  <2> DEFINE r == conn[c]
  <2>1. ConnInv(c, r, wire, events, life[p], "leaving")
    BY <1>1, <1>3, OfConnections
  <2> HIDE DEF r
  <2>2. HeldInv(c, r, life[p], "joining")
    BY <2>1 DEF ConnInv, HeldInv
  <2>3. EndInv(c, r, wire, events, "joining")
    BY <2>1 DEF ConnInv, EndInv
  <2>4. LifeInv(c, r, events, life[p], "joining")
    BY <2>1 DEF ConnInv, LifeInv, Later
  <2> QED BY <1>1, <2>1, <2>2, <2>3, <2>4 DEF ConnInv, r
<1>4. WireInv'
  <2>1. main \in [Processes -> Mains] /\ Watcher \in Processes
    BY DEF ConnectionsInv, Types, TypeOK, Mains, Processes
  <2>2. main'[Watcher] = main[Watcher]
          \/ \A m \in wire : m.kind \notin {"info_request", "info_response"}
    BY <1>1, <2>1 DEF ConnectionsInv, WireInv
  <2> QED BY <1>1, <2>2 DEF ConnectionsInv, WireInv, Held
<1>5. \A c \in Conns : c.owner # p => SameWire(wire, wire', c)
  BY <1>1 DEF SameWire
<1> QED BY <1>1, <1>2, <1>3, <1>4, <1>5, MainStep

LEMMA InfoResponseKeeps ==
  ASSUME ConnectionsInv, NEW p \in Processes, InfoResponse(p)
  PROVE  ConnectionsInv'
<1>1. PICK b \in Conns :
        /\ UNCHANGED <<conn, life, stop, events, server, faults>>
        /\ Receive(p, "info_response", b)
        /\ wire' = wire \ {Message("info_response", b)}
        /\ main' = [main EXCEPT ![p] = "running"]
  BY DEF InfoResponse
<1>2. /\ conn' = conn /\ life' = life /\ stop' = stop /\ events' = events
      /\ UNCHANGED server /\ faults' = faults
      /\ b.owner = p /\ Message("info_response", b) \in wire
  BY <1>1 DEF Receive, Transports
<1>3. /\ loop' \in [Processes -> {"off", "waiting", "ended"}]
      /\ stop' \in [Processes -> BOOLEAN] /\ faults' \in Faults
      /\ "running" \in Mains
  <2>1. loop' \in [Processes -> {"off", "waiting", "ended"}]
    BY <1>1 DEF Receive, Handling, ConnectionsInv, Types, TypeOK
  <2> QED BY <1>2, <2>1 DEF ConnectionsInv, Types, TypeOK, Mains
<1>4. p = Watcher /\ main[p] \in {"fetch", "running"}
  BY <1>2, WireIs DEF ConnectionsInv
<1>5. \A k, d : In(wire', k, d) <=> In(wire, k, d) /\ ~(k = "info_response" /\ d = b)
  BY <1>1, WireTake
<1>6. ASSUME NEW c \in Conns, c.owner = p
      PROVE  ConnInv(c, conn[c], wire', events, life[p], "running")
  <2> DEFINE r == conn[c]
  <2>1. ConnInv(c, r, wire, events, life[p], main[p])
    BY <1>6, OfConnections
  <2>2. c.owner \notin Clients
    BY <1>4, <1>6, ProcessesAssumption
  <2> HIDE DEF r
  <2>3. HeldInv(c, r, life[p], "running")
    BY <1>4, <2>1, <2>2 DEF ConnInv, HeldInv
  <2>4. TokenInv(c, r, wire', events)
    BY <1>5, <2>1 DEF ConnInv, TokenInv
  <2>5. EndInv(c, r, wire', events, "running")
    BY <1>4, <1>5, <2>1 DEF ConnInv, EndInv
  <2>6. LifeInv(c, r, events, life[p], "running")
    BY <1>4, <2>1 DEF ConnInv, LifeInv, Later
  <2> QED BY <2>1, <2>3, <2>4, <2>5, <2>6 DEF ConnInv, r
<1>7. WireInv'
  <2>1. main \in [Processes -> Mains]
    BY DEF ConnectionsInv, Types, TypeOK, Mains
  <2>2. main'[Watcher] = "running"
    BY <1>1, <1>4, <2>1
  <2> QED BY <1>1, <1>2, <2>2 DEF ConnectionsInv, WireInv, Held
<1>8. \A c \in Conns : c.owner # p => SameWire(wire, wire', c)
  BY <1>2, <1>5 DEF SameWire
<1>9. main[p] # "off" /\ "running" \notin {"connect", "poll"}
  BY <1>4
<1> QED BY <1>1, <1>2, <1>3, <1>6, <1>7, <1>8, <1>9, MainStep

\* dhmp_transport_create and dhmp_transport_connect
LEMMA CreateIs ==
  ASSUME Types, NEW c \in Conns, Create(c)
  PROVE  /\ conn' \in [Conns -> Connection]
         /\ \A d \in Conns : d # c => conn'[d] = conn[d]
         /\ conn'[c].mine \in {"init", "connecting"} /\ conn'[c].marked \in BOOLEAN
         /\ conn'[c].up = conn[c].up /\ SameForServer(conn[c], conn'[c])
         /\ \A k, d : In(wire', k, d) <=> In(wire, k, d) \/ (k = "route" /\ d = c)
         /\ \A m \in wire' : m \in wire \/ (m.conn = c /\ m.kind = "route")
<1>1. conn \in [Conns -> Connection] /\ conn[c] \in Connection
  BY DEF Types, TypeOK
<1>2. /\ conn' = [conn EXCEPT
                    ![c].mine = IF SlowMain THEN "init" ELSE "connecting",
                    ![c].marked = ~SlowMain]
      /\ wire' = wire \cup {Message("route", c)}
  BY DEF Create, Send
<1> DEFINE r == conn[c]
           s == [r EXCEPT !.mine = IF SlowMain THEN "init" ELSE "connecting",
                          !.marked = ~SlowMain]
<1>3. /\ s.mine \in {"init", "connecting"} /\ s.marked \in BOOLEAN /\ s.up = r.up
      /\ s.srv = r.srv /\ s.known = r.known /\ s.isPoll = r.isPoll
      /\ s.link = r.link /\ s.used = r.used /\ s \in Connection
  BY <1>1, BoundsAssumption DEF Connection, States
<1>4. conn' = [conn EXCEPT ![c] = s]
  BY <1>1, <1>2
<1> HIDE DEF r, s
<1>5. /\ conn' \in [Conns -> Connection] /\ conn'[c] = s
      /\ \A d \in Conns : d # c => conn'[d] = conn[d]
  BY <1>1, <1>3, <1>4
<1>6. \A k, d : In(wire', k, d) <=> In(wire, k, d) \/ (k = "route" /\ d = c)
  BY <1>2, WireAdd
<1>7. \A m \in wire' : m \in wire \/ (m.conn = c /\ m.kind = "route")
  <2>1. Message("route", c).conn = c /\ Message("route", c).kind = "route"
    BY MessageIs
  <2> QED BY <1>2, <2>1
<1> QED BY <1>3, <1>5, <1>6, <1>7 DEF SameForServer, r

\* Nothing is under way of a transport that a process does not have.
LEMMA NotHeldNotIn ==
  ASSUME WireInv, NEW c, ~RHeld(conn[c])
  PROVE  \A k : ~In(wire, k, c)
BY WireIs DEF In, Held, RHeld

LEMMA FetchKeeps ==
  ASSUME ConnectionsInv, main[Watcher] = "connect", ConnectDone(Watcher)
  PROVE  ConnectionsInv'
<1> DEFINE p == Watcher
           n == ConnectTrans(p)
<1>1. p \in Processes /\ p \notin Clients
  BY ProcessesAssumption DEF Processes
<1>2. n \in Conns /\ n.owner = p /\ \A c \in Conns : c.owner = p /\ c.life = life[p] /\ ~c.poll => c = n
  BY <1>1, RunsIn
<1>3. /\ main' = [main EXCEPT ![p] = "fetch"]
      /\ conn[n].marked /\ ~RWaiting(conn[n])
      /\ conn' = conn /\ life' = life /\ loop' = loop /\ stop' = stop
      /\ events' = events /\ UNCHANGED server /\ faults' = faults
      /\ \/ conn[n].mine = "connected" /\ wire' = wire \cup {Message("info_request", n)}
         \/ wire' = wire
  BY DEF ConnectDone, Settled, Waiting, RWaiting, Send
<1> HIDE DEF n, p
<1>4. /\ loop' \in [Processes -> {"off", "waiting", "ended"}]
      /\ stop' \in [Processes -> BOOLEAN] /\ faults' \in Faults
      /\ "fetch" \in Mains
  BY <1>3 DEF ConnectionsInv, Types, TypeOK, Mains
<1>5. \A k, d : /\ k # "info_request" => (In(wire', k, d) <=> In(wire, k, d))
                /\ d # n => (In(wire', k, d) <=> In(wire, k, d))
  <2>1. \A k, d : In(wire \cup {Message("info_request", n)}, k, d) <=>
          In(wire, k, d) \/ (k = "info_request" /\ d = n)
    BY WireAdd
  <2> QED BY <1>3, <2>1
<1>6. ASSUME NEW c \in Conns, c.owner = p
      PROVE  ConnInv(c, conn[c], wire', events, life[p], "fetch")
  <2> DEFINE r == conn[c]
  <2>1. ConnInv(c, r, wire, events, life[p], "connect")
    BY <1>6, OfConnections DEF p
  <2>2. c.owner \notin Clients /\ c.poll \in BOOLEAN
    BY <1>1, <1>6, ConnNames
  <2>3. ~c.poll /\ c.life = life[p] => r.marked /\ ~RWaiting(r)
    BY <1>2, <1>3, <1>6
  <2> HIDE DEF r
  <2>4. HeldInv(c, r, life[p], "fetch")
    BY <2>1, <2>2, <2>3 DEF ConnInv, HeldInv
  <2>5. TokenInv(c, r, wire', events)
    BY <1>5, <2>1 DEF ConnInv, TokenInv
  <2>6. EndInv(c, r, wire', events, "fetch")
    BY <1>5, <2>1 DEF ConnInv, EndInv
  <2>7. LifeInv(c, r, events, life[p], "fetch")
    BY <2>1 DEF ConnInv, LifeInv, Later
  <2> QED BY <2>1, <2>4, <2>5, <2>6, <2>7 DEF ConnInv, r
<1>7. WireInv'
  <2>1. main'[Watcher] = "fetch"
    BY <1>1, <1>3 DEF ConnectionsInv, Types, TypeOK, p
  <2>2. Message("info_request", n).conn = n
    BY MessageIs
  <2>3. \A m \in wire' : m \in wire \/ (m.conn = n /\ Held(n))
    BY <1>3, <2>2 DEF Held
  <2> QED BY <1>2, <1>3, <2>1, <2>3 DEF ConnectionsInv, WireInv, Held, p
<1>8. \A c \in Conns : c.owner # p => SameWire(wire, wire', c)
  BY <1>2, <1>5 DEF SameWire
<1>9. main[p] # "off" /\ "fetch" \notin {"connect", "poll"}
  BY DEF p
<1> QED BY <1>1, <1>3, <1>4, <1>6, <1>7, <1>8, <1>9, MainStep

LEMMA ConnectDoneKeeps ==
  ASSUME ConnectionsInv, NEW p \in Processes, ConnectDone(p)
  PROVE  ConnectionsInv'
<1>1. main[p] = "connect"
  BY DEF ConnectDone
<1>2. CASE p = Watcher
  BY <1>1, <1>2, FetchKeeps
<1>3. CASE p # Watcher
  <2> DEFINE n == ConnectTrans(p)
             q == PollTrans(p)
  <2>1. /\ n \in Conns /\ q \in Conns /\ n.owner = p /\ q.owner = p
        /\ n.life = life[p] /\ q.life = life[p] /\ ~n.poll /\ q.poll /\ Pair(n) = q
        /\ p \in Clients /\ life[p] \in Nat /\ life[p] \in Lives
        /\ \A c \in Conns : c.owner = p /\ c.life = life[p] => c = IF c.poll THEN q ELSE n
    BY <1>1, <1>3, RunsIn DEF Processes
  <2>2. /\ main' = [main EXCEPT ![p] = "poll"]
        /\ conn[n].marked /\ ~RWaiting(conn[n])
        /\ Create(q) /\ life' = life /\ loop' = loop /\ stop' = stop
        /\ events' = events /\ UNCHANGED server /\ faults' = faults
    BY <1>3 DEF ConnectDone, Settled, Waiting, RWaiting
  <2> HIDE DEF n, q
  <2>3. /\ Types /\ WireInv /\ main \in [Processes -> Mains] /\ events \in Seq(EventMessages)
        /\ watcherTrans \in Conns \cup {Null}
    BY DEF ConnectionsInv, Types, TypeOK, Mains
  <2>4. /\ conn' \in [Conns -> Connection]
        /\ \A d \in Conns : d # q => conn'[d] = conn[d]
        /\ conn'[q].mine \in {"init", "connecting"} /\ conn'[q].marked \in BOOLEAN
        /\ conn'[q].up = conn[q].up /\ SameForServer(conn[q], conn'[q])
        /\ \A k, d : In(wire', k, d) <=> In(wire, k, d) \/ (k = "route" /\ d = q)
        /\ \A m \in wire' : m \in wire \/ (m.conn = q /\ m.kind = "route")
    BY <2>1, <2>2, <2>3, CreateIs
  <2>5. /\ main' \in [Processes -> Mains] /\ main'[p] = "poll"
        /\ \A o \in Processes : o # p => main'[o] = main[o]
    BY <2>2, <2>3 DEF Mains
  <2>6. OnlyProcess(p)
    <3>1. \A d \in Conns : d.owner # p => SameWire(wire, wire', d)
      BY <2>1, <2>4 DEF SameWire
    <3>2. \A d \in Conns : d.owner \in Processes
      BY ConnNames
    <3> QED BY <2>1, <2>2, <2>4, <2>5, <3>1, <3>2, SameEvents DEF OnlyProcess
  <2>7. /\ ConnInv(q, conn[q], wire, events, life[p], "connect")
        /\ ConnInv(n, conn[n], wire, events, life[p], "connect")
        /\ PairInv(n, conn[n], q, conn[q], events, life[p], "connect")
    BY <1>1, <2>1, OfConnections
  <2>8. /\ conn[q].srv = "none" /\ conn[q].up = "no" /\ NoneQueued(events, q)
        /\ ~RHeld(conn[q]) /\ \A k : ~In(wire, k, q)
    <3>1. Later(q, life[p], "connect")
      BY <2>1 DEF Later
    <3>2. ~RHeld(conn[q])
      BY <2>1, <2>7 DEF ConnInv, HeldInv
    <3> QED BY <2>3, <2>7, <3>1, <3>2, NotHeldNotIn DEF ConnInv, LifeInv
  <2>9. ASSUME NEW c \in Conns, c.owner = p PROVE ConnInvNext(c)
    <3>1. CASE c = q
      <4> DEFINE s == conn'[q]
      <4>1. RHeld(s) /\ RWaiting(s) /\ s.mine # "connected" /\ s.srv = "none" /\ s.up = "no"
        BY <2>4, <2>8 DEF RHeld, RWaiting, SameForServer
      <4> HIDE DEF s
      <4>2. HeldInv(q, s, life[p], "poll")
        BY <2>1, <4>1 DEF HeldInv
      <4>3. TokenInv(q, s, wire', events)
        BY <2>4, <2>8, <4>1 DEF TokenInv, NoneQueued
      <4>4. EndInv(q, s, wire', events, "poll")
        BY <2>4, <2>8, <4>1 DEF EndInv, NoneQueued
      <4>5. ServerInv(q, s)
        BY <2>4, <2>7 DEF ConnInv, ServerInv, SameForServer, s
      <4>6. LifeInv(q, s, events, life[p], "poll")
        BY <2>1, <2>8, <4>1 DEF LifeInv
      <4>7. ConnInv(q, s, wire', events, life[p], "poll")
        BY <4>2, <4>3, <4>4, <4>5, <4>6 DEF ConnInv
      <4> QED BY <2>1, <2>2, <2>5, <3>1, <4>7 DEF ConnInvNext, s
    <3>2. CASE c # q
      <4> DEFINE r == conn[c]
      <4>1. ConnInv(c, r, wire, events, life[p], "connect")
        BY <1>1, <2>9, OfConnections
      <4>2. conn'[c] = r /\ \A k : In(wire', k, c) <=> In(wire, k, c)
        BY <2>4, <3>2
      <4>3. c.poll \in BOOLEAN /\ (c.life = life[p] => ~c.poll /\ r.marked /\ ~RWaiting(r))
        <5>1. c.poll \in BOOLEAN
          BY ConnNames
        <5> QED BY <2>1, <2>2, <2>9, <3>2, <5>1
      <4> HIDE DEF r
      <4>4. HeldInv(c, r, life[p], "poll")
        BY <4>1, <4>3 DEF ConnInv, HeldInv
      <4>5. TokenInv(c, r, wire', events)
        BY <4>1, <4>2 DEF ConnInv, TokenInv
      <4>6. EndInv(c, r, wire', events, "poll")
        BY <4>1, <4>2 DEF ConnInv, EndInv
      <4>7. LifeInv(c, r, events, life[p], "poll")
        BY <4>1 DEF ConnInv, LifeInv, Later
      <4>8. ConnInv(c, r, wire', events, life[p], "poll")
        BY <4>1, <4>4, <4>5, <4>6, <4>7 DEF ConnInv
      <4> QED BY <2>2, <2>5, <2>9, <4>2, <4>8 DEF ConnInvNext
    <3> QED BY <3>1, <3>2
  <2>10. ASSUME NEW c \in Conns, c.owner = p, ~c.poll PROVE PairInvNext(c)
    <3>1. CASE c = n
      <4>1. conn'[n] = conn[n] /\ conn'[q].srv = "none"
        BY <2>1, <2>4, <2>8 DEF SameForServer
      <4>2. ~Queued(events, "request", n)
        <5>1. RHeld(conn[n])
          BY <2>1, <2>7, ProcessesAssumption DEF ConnInv, HeldInv
        <5> QED BY <2>2, <2>7, <5>1 DEF ConnInv, TokenInv
      <4>3. PairInv(n, conn[n], q, conn'[q], events, life[p], "poll")
        BY <2>7, <2>8, <4>1, <4>2 DEF PairInv
      <4> QED BY <2>1, <2>2, <2>5, <3>1, <4>1, <4>3 DEF PairInvNext
    <3>2. CASE c # n
      <4>1. Pair(c) # q /\ Pair(c) \in Conns /\ c # q
        <5>1. Pair(q) = n
          BY <2>1, ConnNames
        <5> QED BY <2>1, <2>10, <3>2, <5>1, ConnNames
      <4>2. conn'[c] = conn[c] /\ conn'[Pair(c)] = conn[Pair(c)]
        BY <2>4, <4>1
      <4>3. PairInv(c, conn[c], Pair(c), conn[Pair(c)], events, life[p], "connect")
        BY <1>1, <2>10, OfConnections
      <4>4. PairInv(c, conn[c], Pair(c), conn[Pair(c)], events, life[p], "poll")
        BY <4>3 DEF PairInv
      <4> QED BY <2>2, <2>5, <2>10, <4>2, <4>4 DEF PairInvNext
    <3> QED BY <3>1, <3>2
  <2>11. EachNext
    BY <2>6, <2>9, <2>10, OneProcess DEF ConnectionsInv
  <2>12. ServerFieldsKept
    BY <2>4 DEF ServerFieldsKept, SameForServer
  <2>13. WireInv'
    <3>1. \A d \in Conns : Held(d) => conn'[d].mine # "none"
      BY <2>4 DEF Held
    <3>2. main'[Watcher] = main[Watcher]
      BY <1>3, <2>5 DEF Processes
    <3>3. conn'[q].mine # "none"
      BY <2>4
    <3> QED BY <2>1, <2>3, <2>4, <3>1, <3>2, <3>3 DEF WireInv, Held
  <2>14. Types'
    <3>1. \A m \in wire' : m.conn \in Conns
      BY <2>13 DEF WireInv
    <3>2. \A o \in Processes : main'[o] # "off" => life[o] >= 1
      BY <1>1, <2>3, <2>5 DEF Types
    <3>3. /\ watcherTrans' = watcherTrans /\ clientList' = clientList
          /\ curConnections' = curConnections /\ view' = view
      BY <2>2 DEF server
    <3> QED BY <2>2, <2>3, <2>4, <2>5, <3>1, <3>2, <3>3 DEF Types, TypeOK, Mains
  <2>15. watcherTrans # Null /\ ~RHeld(conn[watcherTrans]) => ~RHeld(conn'[watcherTrans])
    <3>1. watcherTrans # Null => watcherTrans \in Conns /\ watcherTrans # q
      BY <1>3, <2>1, <2>3 DEF ConnectionsInv, WatcherInv
    <3> QED BY <2>4, <3>1
  <2>16. OrderInv(events')
    BY <2>2 DEF ConnectionsInv
  <2> QED BY <2>2, <2>11, <2>12, <2>13, <2>14, <2>15, <2>16, ClientStep
<1> QED BY <1>2, <1>3

(***************************************************************************)
(* A process is started, and is gone.                                      *)
(***************************************************************************)
LEMMA StartKeeps ==
  ASSUME ConnectionsInv, NEW p \in Processes, Start(p)
  PROVE  ConnectionsInv'
<1> DEFINE l == life[p]
           c0 == [ConnectTrans(p) EXCEPT !.life = life'[p]]
<1>1. /\ Types /\ WireInv /\ WatcherInv /\ main \in [Processes -> Mains]
      /\ events \in Seq(EventMessages) /\ life \in [Processes -> 0 .. MaxLives]
      /\ loop \in [Processes -> {"off", "waiting", "ended"}]
      /\ stop \in [Processes -> BOOLEAN] /\ watcherTrans \in Conns \cup {Null}
  BY DEF ConnectionsInv, Types, TypeOK, Mains
<1>2. /\ main[p] = "off" /\ MayStart(p) /\ ForgottenByServer(p)
      /\ life' = [life EXCEPT ![p] = @ + 1] /\ main' = [main EXCEPT ![p] = "connect"]
      /\ loop' = [loop EXCEPT ![p] = "waiting"] /\ stop' = [stop EXCEPT ![p] = FALSE]
      /\ Create(c0) /\ events' = events /\ UNCHANGED server /\ faults' = faults
  BY DEF Start
<1>3. l \in Nat /\ l + 1 \in Lives /\ l + 1 \in 0 .. MaxLives
  BY <1>1, <1>2, BoundsAssumption DEF MayStart, Lives, Processes
<1>4. /\ life' \in [Processes -> 0 .. MaxLives] /\ life'[p] = l + 1
      /\ main' \in [Processes -> Mains] /\ main'[p] = "connect"
      /\ \A o \in Processes : o # p => life'[o] = life[o] /\ main'[o] = main[o]
      /\ loop' \in [Processes -> {"off", "waiting", "ended"}]
      /\ stop' \in [Processes -> BOOLEAN]
  BY <1>1, <1>2, <1>3 DEF Mains
<1>5. c0 \in Conns /\ c0.owner = p /\ c0.life = l + 1 /\ c0.poll = FALSE
  <2> DEFINE k == life'[p]
             t == ConnectTrans(p)
  <2>1. k = l + 1 /\ k \in Lives
    BY <1>3, <1>4
  <2>2. /\ t \in [owner : Processes, poll : BOOLEAN, life : Nat]
        /\ t.owner = p /\ t.poll = FALSE
    BY <1>3 DEF ConnectTrans
  <2> HIDE DEF k, t
  <2>3. LET d == [t EXCEPT !.life = k]
        IN  d \in Conns /\ d.owner = p /\ d.life = k /\ d.poll = FALSE
    BY <2>1, <2>2 DEF Conns
  <2> QED BY <2>1, <2>3 DEF k, t
<1> HIDE DEF l, c0
<1>6. \A c \in Conns : c.owner = p /\ c.life = l + 1 /\ ~c.poll => c = c0
  <2>1. \A c \in Conns : ~c.poll => c.poll = FALSE
    BY ConnNames
  <2> QED BY <1>5, <2>1, ConnNames
<1>7. /\ conn' \in [Conns -> Connection]
      /\ \A d \in Conns : d # c0 => conn'[d] = conn[d]
      /\ conn'[c0].mine \in {"init", "connecting"} /\ conn'[c0].marked \in BOOLEAN
      /\ conn'[c0].up = conn[c0].up /\ SameForServer(conn[c0], conn'[c0])
      /\ \A k, d : In(wire', k, d) <=> In(wire, k, d) \/ (k = "route" /\ d = c0)
      /\ \A m \in wire' : m \in wire \/ (m.conn = c0 /\ m.kind = "route")
  BY <1>1, <1>2, <1>5, CreateIs
<1>8. ASSUME NEW c \in Conns, c.owner = p
      PROVE  /\ ConnInv(c, conn[c], wire, events, l, "off")
             /\ ~RHeld(conn[c]) /\ \A k : ~In(wire, k, c)
             /\ conn[c].up = "no" /\ conn[c].srv # "connected" /\ NoneQueued(events, c)
             /\ c.life \in Nat /\ c.poll \in BOOLEAN
  <2>1. ConnInv(c, conn[c], wire, events, l, "off")
    BY <1>2, <1>8, OfConnections DEF l
  <2>2. ~RHeld(conn[c])
    BY <2>1 DEF ConnInv, HeldInv
  <2>3. \A k : ~In(wire, k, c)
    BY <1>1, <2>2, NotHeldNotIn
  <2>4. /\ conn[c].up = "no" /\ conn[c].srv # "connected"
        /\ \A i \in DOMAIN events : events[i].conn # c
    BY <1>2, <1>8 DEF ForgottenByServer
  <2>5. \A i \in 1 .. Len(events) : events[i].conn # c
    <3>1. DOMAIN events = 1 .. Len(events)
      BY <1>1, LenProperties
    <3> QED BY <2>4, <3>1
  <2>6. NoneQueued(events, c)
    BY <2>5, MessageIs DEF NoneQueued, Queued
  <2> QED BY <2>1, <2>2, <2>3, <2>4, <2>6, ConnNames
<1>9. conn[c0].srv = "none"
  <2>1. Later(c0, l, "off")
    BY <1>3, <1>5 DEF Later
  <2> QED BY <1>5, <1>8, <2>1 DEF ConnInv, LifeInv
<1>10. ASSUME NEW c \in Conns, c.owner = p
       PROVE  ConnInvNext(c)
  <2> DEFINE r == conn[c]
             s == conn'[c]
  <2>1. /\ s.up = "no" /\ SameForServer(r, s) /\ s.srv # "connected"
        /\ s.mine # "connected" /\ (RHeld(s) <=> c = c0) /\ (c # c0 => s = r)
        /\ (c = c0 => RWaiting(s) /\ s.srv = "none")
        /\ (~RHeld(s) => ~s.marked)
    <3>1. CASE c = c0
      BY <1>5, <1>7, <1>8, <1>9, <3>1 DEF RHeld, RWaiting, SameForServer
    <3>2. CASE c # c0
      <4>1. s = r
        BY <1>7, <3>2
      <4>2. ~RHeld(r) /\ r.up = "no" /\ r.srv # "connected" /\ ~r.marked
        BY <1>8, <1>10 DEF ConnInv, HeldInv
      <4> QED BY <3>2, <4>1, <4>2 DEF RHeld, SameForServer
    <3> QED BY <3>1, <3>2
  <2>2. /\ ConnInv(c, r, wire, events, l, "off") /\ \A k : ~In(wire, k, c)
        /\ NoneQueued(events, c) /\ c.life \in Nat /\ c.poll \in BOOLEAN
    BY <1>8, <1>10
  <2>3. c = c0 <=> c.life = l + 1 /\ ~c.poll
    BY <1>5, <1>6, <1>10
  <2>4. \A k : In(wire', k, c) <=> k = "route" /\ c = c0
    BY <1>7, <2>2
  <2> HIDE DEF r, s
  <2>5. HeldInv(c, s, l + 1, "connect")
    BY <2>1, <2>2, <2>3 DEF HeldInv
  <2>6. TokenInv(c, s, wire', events)
    BY <2>1, <2>2, <2>4 DEF TokenInv, NoneQueued
  <2>7. EndInv(c, s, wire', events, "connect")
    BY <2>1, <2>2, <2>4 DEF EndInv, NoneQueued
  <2>8. ServerInv(c, s)
    BY <2>1, <2>2 DEF ConnInv, ServerInv, SameForServer
  <2>9. LifeInv(c, s, events, l + 1, "connect")
    <3>1. Later(c, l + 1, "connect") => Later(c, l, "off")
      BY <1>3, <2>2 DEF Later
    <3>2. Later(c, l, "off") => s.srv = "none"
      BY <2>1, <2>2 DEF ConnInv, LifeInv, SameForServer
    <3> QED BY <2>1, <2>2, <3>1, <3>2 DEF LifeInv
  <2>10. ConnInv(c, s, wire', events, l + 1, "connect")
    BY <2>5, <2>6, <2>7, <2>8, <2>9 DEF ConnInv
  <2> QED BY <1>2, <1>4, <1>10, <2>10 DEF ConnInvNext, s
<1>11. ASSUME NEW c \in Conns, c.owner = p, ~c.poll
       PROVE  PairInvNext(c)
  <2> DEFINE q == Pair(c)
  <2>1. /\ q \in Conns /\ q.owner = p /\ q.poll /\ q # c0
        /\ PairInv(c, conn[c], q, conn[q], events, l, "off")
    BY <1>2, <1>5, <1>11, ConnNames, OfConnections DEF l
  <2>2. conn'[q] = conn[q] /\ ~RHeld(conn[q]) /\ NoneQueued(events, q) /\ NoneQueued(events, c)
    BY <1>7, <1>8, <1>11, <2>1
  <2>3. /\ conn'[c].link = conn[c].link /\ conn'[c].used = conn[c].used
        /\ conn'[c].mine # "connected"
    <3>1. ~RHeld(conn[c])
      BY <1>8, <1>11
    <3>2. CASE c = c0
      BY <1>7, <3>2 DEF SameForServer
    <3>3. CASE c # c0
      BY <1>7, <3>1, <3>3 DEF RHeld
    <3> QED BY <3>2, <3>3
  <2>4. c.life = l + 1 => conn[c].used = 0
    BY <1>6, <1>8, <1>9, <1>11 DEF ConnInv, ServerInv
  <2> HIDE DEF q
  <2>5. PairInv(c, conn'[c], q, conn'[q], events, l + 1, "connect")
    BY <2>1, <2>2, <2>3, <2>4 DEF PairInv, NoneQueued
  <2> QED BY <1>2, <1>4, <1>11, <2>5 DEF PairInvNext, q
<1>12. OnlyProcess(p)
  <2>1. \A d \in Conns : d.owner # p => SameWire(wire, wire', d)
    BY <1>5, <1>7 DEF SameWire
  <2> QED BY <1>2, <1>4, <1>5, <1>7, <2>1, ConnNames, SameEvents DEF OnlyProcess
<1>13. EachNext
  BY <1>10, <1>11, <1>12, OneProcess DEF ConnectionsInv
<1>14. ServerFieldsKept
  BY <1>7 DEF ServerFieldsKept, SameForServer
<1>15. /\ watcherTrans' = watcherTrans /\ clientList' = clientList
       /\ curConnections' = curConnections /\ view' = view
  BY <1>2 DEF server
<1>16. watcherTrans # Null => watcherTrans # c0
  BY <1>1, <1>9 DEF WatcherInv
<1>17. ListExact' /\ ViewCurrent'
  <2>1. watcherTrans # Null /\ ~RHeld(conn[watcherTrans]) => ~RHeld(conn'[watcherTrans])
    BY <1>1, <1>7, <1>16
  <2> QED BY <1>1, <1>14, <1>15, <2>1, ServerKept DEF ConnectionsInv
<1>18. WireInv'
  <2>1. \A d \in Conns : Held(d) => conn'[d].mine # "none"
    BY <1>7 DEF Held
  <2>2. \A m \in wire : m.kind \in {"info_request", "info_response"} =>
          main'[Watcher] \in {"fetch", "running"}
    BY <1>1, <1>2, <1>4 DEF WireInv, Processes
  <2>3. conn'[c0].mine # "none"
    BY <1>7
  <2> QED BY <1>1, <1>5, <1>7, <2>1, <2>2, <2>3 DEF WireInv, Held
<1>19. Types'
  <2>1. \A m \in wire' : m.conn \in Conns
    BY <1>18 DEF WireInv
  <2>2. ASSUME NEW o \in Processes, main'[o] # "off" PROVE life'[o] >= 1
    <3>1. CASE o = p
      BY <1>3, <1>4, <3>1
    <3>2. CASE o # p
      BY <1>1, <1>4, <2>2, <3>2 DEF Types
    <3> QED BY <3>1, <3>2
  <2> QED BY <1>1, <1>2, <1>4, <1>7, <1>15, <2>1, <2>2 DEF Types, TypeOK, Mains
<1>20. WatcherInv'
  <2>1. life'[Watcher] <= 1
    BY <1>1, <1>2, <1>4 DEF WatcherInv, MayStart, l, Processes
  <2>2. watcherTrans' # Null =>
          watcherTrans'.owner = Watcher /\ conn'[watcherTrans'].srv # "none"
    BY <1>1, <1>14, <1>15 DEF WatcherInv, ServerFieldsKept
  <2>3. \A o \in Clients : life'[o] >= 1 =>
          watcherTrans' # Null /\ conn'[watcherTrans'].known
    <3>1. p \in Clients => watcherTrans # Null
            /\ conn[watcherTrans].srv \in {"connected", "disconnected"}
      BY <1>2, ProcessesAssumption DEF MayStart
    <3>2. p \in Clients => watcherTrans # Null /\ conn[watcherTrans].known
      BY <1>1, <3>1, OfConnections DEF ConnInv, ServerInv
    <3>3. \A o \in Clients : life'[o] >= 1 =>
            watcherTrans # Null /\ conn[watcherTrans].known
      BY <1>1, <1>4, <3>2 DEF WatcherInv, Processes
    <3> QED BY <1>1, <1>14, <1>15, <3>3 DEF ServerFieldsKept
  <2>4. \A c \in Conns : conn'[c].srv # "none" /\ c.owner = Watcher => c = watcherTrans'
    BY <1>1, <1>14, <1>15 DEF WatcherInv, ServerFieldsKept
  <2>5. view' # {} => watcherTrans' # Null /\ conn'[watcherTrans'].known
    BY <1>1, <1>14, <1>15 DEF WatcherInv, ServerFieldsKept
  <2> QED BY <2>1, <2>2, <2>3, <2>4, <2>5 DEF WatcherInv
<1>21. OrderInv(events')
  BY <1>2 DEF ConnectionsInv
<1> QED BY <1>13, <1>17, <1>18, <1>19, <1>20, <1>21, EachNextIs DEF ConnectionsInv

\* What the kernel ends is of one process.
LEMMA GoneKeeps ==
  ASSUME ConnectionsInv, NEW p \in Processes, Gone(p), faults' \in Faults
  PROVE  ConnectionsInv'
<1>1. /\ Types /\ WireInv /\ WatcherInv /\ main \in [Processes -> Mains]
      /\ events \in Seq(EventMessages) /\ conn \in [Conns -> Connection]
      /\ loop \in [Processes -> {"off", "waiting", "ended"}]
      /\ stop \in [Processes -> BOOLEAN] /\ watcherTrans \in Conns \cup {Null}
  BY DEF ConnectionsInv, Types, TypeOK, Mains
<1>2. /\ main' = [main EXCEPT ![p] = "off"] /\ loop' = [loop EXCEPT ![p] = "off"]
      /\ stop' = [stop EXCEPT ![p] = FALSE]
      /\ conn' = [c \in Conns |->
                    IF c.owner = p
                    THEN [conn[c] EXCEPT !.mine = "none", !.marked = FALSE]
                    ELSE conn[c]]
      /\ wire' = {m \in wire : m.conn.owner # p}
      /\ view' = IF p = Watcher THEN {} ELSE view
      /\ life' = life /\ events' = events /\ watcherTrans' = watcherTrans
      /\ clientList' = clientList /\ curConnections' = curConnections
  BY DEF Gone
<1>3. /\ main' \in [Processes -> Mains] /\ main'[p] = "off"
      /\ \A o \in Processes : o # p => main'[o] = main[o]
      /\ loop' \in [Processes -> {"off", "waiting", "ended"}]
      /\ stop' \in [Processes -> BOOLEAN]
  BY <1>1, <1>2 DEF Mains
<1>4. ASSUME NEW c \in Conns
      PROVE  /\ c.owner = p => conn'[c].mine = "none" /\ conn'[c].marked = FALSE
             /\ c.owner # p => conn'[c] = conn[c]
             /\ conn'[c].up = conn[c].up /\ SameForServer(conn[c], conn'[c])
             /\ conn'[c] \in Connection
  <2> DEFINE r == conn[c]
             s == [r EXCEPT !.mine = "none", !.marked = FALSE]
  <2>1. r \in Connection
    BY <1>1
  <2>2. /\ s.mine = "none" /\ s.marked = FALSE /\ s.up = r.up
        /\ s.srv = r.srv /\ s.known = r.known /\ s.isPoll = r.isPoll
        /\ s.link = r.link /\ s.used = r.used /\ s \in Connection
    BY <2>1 DEF Connection, States
  <2>3. conn'[c] = IF c.owner = p THEN s ELSE r
    BY <1>2
  <2> HIDE DEF r, s
  <2> QED BY <2>1, <2>2, <2>3 DEF SameForServer, r
<1>5. conn' \in [Conns -> Connection]
  <2>1. conn' = [c \in Conns |-> conn'[c]]
    BY <1>2
  <2> QED BY <1>4, <2>1
<1>6. /\ \A k : \A c \in Conns : In(wire', k, c) <=> In(wire, k, c) /\ c.owner # p
      /\ \A m \in wire' : m \in wire /\ m.conn.owner # p
  <2>1. \A k, c : Message(k, c).conn = c
    BY MessageIs
  <2> QED BY <1>2, <2>1 DEF In
<1>7. ASSUME NEW c \in Conns, c.owner = p
      PROVE  ConnInvNext(c)
  <2> DEFINE r == conn[c]
             s == conn'[c]
  <2>1. ConnInv(c, r, wire, events, life[p], main[p])
    BY <1>7, OfConnections
  <2>2. /\ s.mine = "none" /\ s.marked = FALSE /\ s.up = r.up
        /\ s.srv = r.srv /\ s.known = r.known /\ s.isPoll = r.isPoll
        /\ s.link = r.link /\ s.used = r.used
    BY <1>4, <1>7 DEF SameForServer
  <2>3. \A k : ~In(wire', k, c)
    BY <1>6, <1>7
  <2> HIDE DEF r, s
  <2>4. ~RHeld(s)
    BY <2>2 DEF RHeld
  <2>5. HeldInv(c, s, life[p], "off")
    BY <2>2, <2>4 DEF HeldInv
  <2>6. TokenInv(c, s, wire', events)
    BY <2>1, <2>2, <2>3, <2>4 DEF ConnInv, TokenInv
  <2>7. EndInv(c, s, wire', events, "off")
    BY <2>1, <2>2, <2>3 DEF ConnInv, EndInv
  <2>8. ServerInv(c, s)
    BY <2>1, <2>2 DEF ConnInv, ServerInv
  <2>9. LifeInv(c, s, events, life[p], "off")
    BY <2>1, <2>2 DEF ConnInv, LifeInv, Later
  <2>10. ConnInv(c, s, wire', events, life[p], "off")
    BY <2>5, <2>6, <2>7, <2>8, <2>9 DEF ConnInv
  <2> QED BY <1>2, <1>3, <1>7, <2>10 DEF ConnInvNext, s
<1>8. ASSUME NEW c \in Conns, c.owner = p, ~c.poll
      PROVE  PairInvNext(c)
  <2> DEFINE q == Pair(c)
  <2>1. /\ q \in Conns /\ q.owner = p
        /\ PairInv(c, conn[c], q, conn[q], events, life[p], main[p])
    BY <1>8, ConnNames, OfConnections
  <2>2. /\ conn'[c].mine = "none" /\ conn'[q].mine = "none"
        /\ SameForServer(conn[c], conn'[c]) /\ SameForServer(conn[q], conn'[q])
    BY <1>4, <1>8, <2>1
  <2> HIDE DEF q
  <2>3. PairInv(c, conn'[c], q, conn'[q], events, life[p], "off")
    BY <2>1, <2>2 DEF PairInv, RHeld, SameForServer
  <2> QED BY <1>2, <1>3, <1>8, <2>3 DEF PairInvNext, q
<1>9. OnlyProcess(p)
  <2>1. \A d \in Conns : d.owner # p => SameWire(wire, wire', d)
    BY <1>6 DEF SameWire
  <2> QED BY <1>2, <1>3, <1>4, <2>1, ConnNames, SameEvents DEF OnlyProcess
<1>10. EachNext
  BY <1>7, <1>8, <1>9, OneProcess DEF ConnectionsInv
<1>11. ServerFieldsKept
  BY <1>4 DEF ServerFieldsKept, SameForServer
<1>12. ListExact' /\ ViewCurrent'
  <2>1. watcherTrans # Null /\ ~RHeld(conn[watcherTrans]) => ~RHeld(conn'[watcherTrans])
    BY <1>1, <1>4 DEF RHeld
  <2>2. view' = view \/ (watcherTrans # Null => ~RHeld(conn'[watcherTrans]))
    BY <1>1, <1>2, <1>4 DEF WatcherInv, RHeld
  <2> QED BY <1>1, <1>2, <1>11, <2>1, <2>2, ServerKept DEF ConnectionsInv
<1>13. WatcherInv'
  BY <1>1, <1>2, <1>11, WatcherKept
<1>14. WireInv'
  <2>1. \A m \in wire' : m.conn \in Conns /\ m.conn.owner # p /\ Held(m.conn)
    BY <1>1, <1>6 DEF WireInv
  <2>2. \A m \in wire' : conn'[m.conn].mine # "none"
    BY <1>4, <2>1 DEF Held
  <2>3. \A m \in wire' : m.kind \in {"info_request", "info_response"} =>
          m.conn.owner = Watcher /\ main'[Watcher] \in {"fetch", "running"}
    BY <1>1, <1>3, <1>6 DEF WireInv, Processes
  <2> QED BY <2>1, <2>2, <2>3 DEF WireInv, Held
<1>15. Types'
  <2>1. \A m \in wire' : m.conn \in Conns
    BY <1>14 DEF WireInv
  <2>2. \A o \in Processes : main'[o] # "off" => life[o] >= 1
    BY <1>1, <1>3 DEF Types
  <2> QED BY <1>1, <1>2, <1>3, <1>5, <2>1, <2>2 DEF Types, TypeOK, Mains
<1>16. OrderInv(events')
  BY <1>2 DEF ConnectionsInv
<1> QED BY <1>10, <1>12, <1>13, <1>14, <1>15, <1>16, EachNextIs DEF ConnectionsInv

(***************************************************************************)
(* The list of the server.                                                 *)
(***************************************************************************)
LEMMA ListIs ==
  ASSUME NEW s \in Seq(Conns)
  PROVE  /\ Len(s) \in Nat /\ DOMAIN s = 1 .. Len(s)
         /\ \A i \in 1 .. Len(s) : s[i] \in Conns
         /\ \A x : x \in ToSet(s) <=> \E i \in 1 .. Len(s) : s[i] = x
         /\ ToSet(s) \subseteq Conns
         /\ IsInjective(s) <=> \A i, j \in 1 .. Len(s) : s[i] = s[j] => i = j
<1>1. Len(s) \in Nat /\ DOMAIN s = 1 .. Len(s) /\ \A i \in 1 .. Len(s) : s[i] \in Conns
  BY LenProperties, ElementOfSeq
<1>2. \A x : x \in ToSet(s) <=> \E i \in 1 .. Len(s) : s[i] = x
  BY <1>1 DEF ToSet
<1>3. IsInjective(s) <=> \A i, j \in 1 .. Len(s) : s[i] = s[j] => i = j
  BY <1>1 DEF IsInjective
<1> QED BY <1>1, <1>2, <1>3

LEMMA ListAdd ==
  ASSUME NEW s \in Seq(Conns), NEW c \in Conns, IsInjective(s), c \notin ToSet(s)
  PROVE  /\ Append(s, c) \in Seq(Conns) /\ IsInjective(Append(s, c))
         /\ Len(Append(s, c)) = Len(s) + 1
         /\ \A x : x \in ToSet(Append(s, c)) <=> x \in ToSet(s) \/ x = c
<1> DEFINE t == Append(s, c)
<1>1. /\ t \in Seq(Conns) /\ Len(t) = Len(s) + 1 /\ t[Len(s) + 1] = c
      /\ \A i \in 1 .. Len(s) : t[i] = s[i]
  BY AppendProperties
<1> HIDE DEF t
<1>2. Len(s) \in Nat /\ \A i, j \in 1 .. Len(s) : s[i] = s[j] => i = j
  BY ListIs
<1>3. \A i \in 1 .. Len(t) : i \in 1 .. Len(s) \/ i = Len(s) + 1
  BY <1>1, <1>2
<1>4. Len(s) + 1 \in 1 .. Len(t) /\ \A i \in 1 .. Len(s) : i \in 1 .. Len(t)
  BY <1>1, <1>2
<1>5. \A i \in 1 .. Len(s) : s[i] # c
  BY ListIs
<1>6. \A i, j \in 1 .. Len(t) : t[i] = t[j] => i = j
  BY <1>1, <1>2, <1>3, <1>5
<1>7. \A x : x \in ToSet(s) <=> \E i \in 1 .. Len(s) : s[i] = x
  BY ListIs
<1>8. \A x : x \in ToSet(t) <=> \E i \in 1 .. Len(t) : t[i] = x
  BY <1>1, ListIs
<1>9. \A x : x \in ToSet(t) <=> x \in ToSet(s) \/ x = c
  BY <1>1, <1>3, <1>4, <1>7, <1>8
<1>10. IsInjective(t)
  BY <1>1, <1>6, ListIs
<1> QED BY <1>1, <1>9, <1>10 DEF t

LEMMA ListRemove ==
  ASSUME NEW s \in Seq(Conns), NEW c \in ToSet(s), IsInjective(s)
  PROVE  /\ RemoveFirst(s, c) \in Seq(Conns) /\ IsInjective(RemoveFirst(s, c))
         /\ Len(s) >= 1 /\ Len(RemoveFirst(s, c)) = Len(s) - 1
         /\ \A x : x \in ToSet(RemoveFirst(s, c)) <=> x \in ToSet(s) /\ x # c
<1> DEFINE I == {i \in 1 .. Len(s) : s[i] = c}
           n == Len(s)
           k == Min(I)
           a == SubSeq(s, 1, k - 1)
           b == SubSeq(s, k + 1, n)
           t == a \o b
<1>1. /\ n \in Nat /\ \A i \in 1 .. n : s[i] \in Conns
      /\ \A x : x \in ToSet(s) <=> \E i \in 1 .. n : s[i] = x
      /\ \A i, j \in 1 .. n : s[i] = s[j] => i = j
  BY ListIs
<1>2. k \in 1 .. n /\ s[k] = c
  <2>1. I \in SUBSET Nat /\ I # {}
    BY <1>1
  <2>2. k \in I
    <3> HIDE DEF I
    <3> QED BY <2>1, MinIs
  <2> QED BY <2>2
<1>3. RemoveFirst(s, c) = t
  <2>1. \E i \in 1 .. Len(s) : s[i] = c
    BY <1>2
  <2>2. I # {}
    BY <1>2
  <2> QED BY <2>1, <2>2 DEF RemoveFirst, RemoveAt, SelectInSeq
<1> HIDE DEF I, k
<1>4. /\ a \in Seq(Conns) /\ Len(a) = k - 1 /\ \A i \in 1 .. k - 1 : a[i] = s[i]
  <2>1. \A i \in 1 .. k - 1 : s[i] \in Conns
    BY <1>1, <1>2
  <2>2. Len(a) = IF 1 <= k - 1 THEN k - 1 - 1 + 1 ELSE 0
    BY <1>1, <1>2, <2>1, SubSeqProperties
  <2>3. a \in Seq(Conns) /\ \A i \in 1 .. k - 1 : a[i] = s[i]
    BY <1>1, <1>2, <2>1, SubSeqProperties
  <2> QED BY <1>1, <1>2, <2>2, <2>3
<1>5. /\ b \in Seq(Conns) /\ Len(b) = n - k /\ \A i \in 1 .. n - k : b[i] = s[i + k]
  <2>1. \A i \in k + 1 .. n : s[i] \in Conns
    BY <1>1, <1>2
  <2>2. Len(b) = IF k + 1 <= n THEN n - (k + 1) + 1 ELSE 0
    BY <1>1, <1>2, <2>1, SubSeqProperties
  <2>3. b \in Seq(Conns) /\ \A i \in 1 .. n - (k + 1) + 1 : b[i] = s[k + 1 + i - 1]
    BY <1>1, <1>2, <2>1, SubSeqProperties
  <2> QED BY <1>1, <1>2, <2>2, <2>3
<1> HIDE DEF a, b, n
<1>6. /\ t \in Seq(Conns) /\ Len(t) = Len(a) + Len(b)
      /\ \A i \in 1 .. Len(t) : t[i] = IF i <= Len(a) THEN a[i] ELSE b[i - Len(a)]
  <2>1. a \in Seq(Conns) /\ b \in Seq(Conns)
    BY <1>4, <1>5
  <2>2. /\ a \o b \in Seq(Conns) /\ Len(a \o b) = Len(a) + Len(b)
        /\ \A i \in 1 .. Len(a) + Len(b) : (a \o b)[i] =
             IF i <= Len(a) THEN a[i] ELSE b[i - Len(a)]
    BY <2>1, ConcatProperties
  <2> HIDE DEF t
  <2>3. t = a \o b
    BY DEF t
  <2> QED BY <2>2, <2>3
<1> HIDE DEF t
<1>7. /\ Len(t) = n - 1 /\ n >= 1
      /\ \A i \in 1 .. n - 1 : i < k => t[i] = s[i]
      /\ \A i \in 1 .. n - 1 : ~(i < k) => t[i] = s[i + 1]
  <2>1. Len(t) = n - 1 /\ n >= 1
    BY <1>1, <1>2, <1>4, <1>5, <1>6
  <2>2. ASSUME NEW i \in 1 .. n - 1, i < k PROVE t[i] = s[i]
    BY <1>1, <1>2, <1>4, <1>6, <2>1, <2>2
  <2>3. ASSUME NEW i \in 1 .. n - 1, ~(i < k) PROVE t[i] = s[i + 1]
    <3>1. t[i] = b[i - (k - 1)] /\ i - (k - 1) \in 1 .. n - k /\ (i - (k - 1)) + k = i + 1
      BY <1>1, <1>2, <1>4, <1>6, <2>1, <2>3
    <3> QED BY <1>5, <3>1
  <2> QED BY <2>1, <2>2, <2>3
<1> DEFINE from(i) == IF i < k THEN i ELSE i + 1
<1>8. \A i \in 1 .. n - 1 : t[i] = s[from(i)] /\ from(i) \in 1 .. n /\ from(i) # k
  BY <1>1, <1>2, <1>7
<1>9. \A i, j \in 1 .. n - 1 : from(i) = from(j) => i = j
  BY <1>1, <1>2
<1>10. \A i \in 1 .. n : i # k => \E j \in 1 .. n - 1 : from(j) = i
  <2> SUFFICES ASSUME NEW i \in 1 .. n, i # k PROVE \E j \in 1 .. n - 1 : from(j) = i
    OBVIOUS
  <2>1. CASE i < k
    <3>1. i \in 1 .. n - 1 /\ from(i) = i
      BY <1>1, <1>2, <2>1
    <3> QED BY <3>1
  <2>2. CASE ~(i < k)
    <3>1. i - 1 \in 1 .. n - 1 /\ from(i - 1) = i
      BY <1>1, <1>2, <2>2
    <3> QED BY <3>1
  <2> QED BY <2>1, <2>2
<1> HIDE DEF from
<1>11. \A i, j \in 1 .. n - 1 : t[i] = t[j] => i = j
  BY <1>1, <1>8, <1>9
<1>12. IsInjective(t)
  BY <1>6, <1>7, <1>11, ListIs
<1>13. \A x : x \in ToSet(t) <=> \E i \in 1 .. n - 1 : t[i] = x
  BY <1>6, <1>7, ListIs
<1>14. \A x : x \in ToSet(t) <=> x \in ToSet(s) /\ x # c
  <2>1. ASSUME NEW x \in ToSet(t) PROVE x \in ToSet(s) /\ x # c
    <3>1. PICK i \in 1 .. n - 1 : t[i] = x
      BY <1>13, <2>1
    <3>2. x = s[from(i)] /\ from(i) \in 1 .. n /\ from(i) # k
      BY <1>8, <3>1
    <3> QED BY <1>1, <1>2, <3>2
  <2>2. ASSUME NEW x \in ToSet(s), x # c PROVE x \in ToSet(t)
    <3>1. PICK i \in 1 .. n : s[i] = x
      BY <1>1, <2>2
    <3>2. PICK j \in 1 .. n - 1 : from(j) = i
      BY <1>2, <1>10, <2>2, <3>1
    <3> QED BY <1>8, <1>13, <3>1, <3>2
  <2> QED BY <2>1, <2>2
<1> QED BY <1>3, <1>6, <1>7, <1>12, <1>14 DEF n

(***************************************************************************)
(* What the server stores changes.                                         *)
(***************************************************************************)
LEMMA ServerStep ==
  ASSUME ConnectionsInv, EachNext, conn' \in [Conns -> Connection],
         life' = life, main' = main, loop' = loop, stop' = stop, faults' \in Faults,
         events' \in Seq(EventMessages), OrderInv(events'),
         \A c \in Conns : conn'[c].mine = conn[c].mine,
         \A m \in wire' : m \in wire \/ (/\ m.conn \in Conns /\ Held(m.conn)
                                         /\ m.kind \notin {"info_request", "info_response"}),
         watcherTrans' \in Conns \cup {Null}, clientList' \in Seq(Conns),
         curConnections' \in Nat, view' \subseteq [conn : Conns, used : 0 .. 2],
         WatcherInv', ListExact', ViewCurrent'
  PROVE  ConnectionsInv'
<1>1. Types /\ WireInv
  BY DEF ConnectionsInv
<1>2. WireInv'
  BY <1>1 DEF WireInv, Held
<1>3. \A m \in wire' : m.conn \in Conns
  BY <1>2 DEF WireInv
<1>4. \A i \in DOMAIN events' : events'[i].conn \in Conns
  BY QueueTyped
<1>5. Types'
  BY <1>1, <1>3, <1>4 DEF Types, TypeOK
<1> QED BY <1>2, <1>5, EachNextIs DEF ConnectionsInv

\* The head of the queue is an event of c.
LEMMA EventIs ==
  ASSUME ConnectionsInv, NEW k, NEW c \in Conns, Event(k, c)
  PROVE  /\ events' \in Seq(EventMessages) /\ OrderInv(events') /\ Queued(events, k, c)
         /\ \A j, d : Queued(events', j, d) <=> Queued(events, j, d) /\ ~(j = k /\ d = c)
         /\ k = "disconnected" => ~Queued(events, "established", c)
         /\ k = "request" /\ c.poll => ~Queued(events, "established", Pair(c))
         /\ \A d \in Conns : d # c => SameQueue(events, events', d)
<1>1. /\ events # <<>> /\ Head(events) = Message(k, c) /\ events' = Tail(events)
      /\ events \in Seq(EventMessages) /\ OrderInv(events)
  BY DEF Event, ConnectionsInv, Types
<1>2. /\ events' \in Seq(EventMessages) /\ OrderInv(events') /\ Queued(events, k, c)
      /\ \A j, d : Queued(events', j, d) <=> Queued(events, j, d) /\ ~(j = k /\ d = c)
      /\ k = "disconnected" => ~Queued(events, "established", c)
      /\ k = "request" /\ c.poll => ~Queued(events, "established", Pair(c))
  BY <1>1, QueueTake
<1>3. \A d \in Conns : d # c => SameQueue(events, events', d)
  BY <1>2 DEF SameQueue
<1> QED BY <1>2, <1>3

\* Until the watcher's connection is up no client has been started.
LEMMA NoClientYet ==
  ASSUME ConnectionsInv, watcherTrans # Null => ~conn[watcherTrans].known
  PROVE  /\ \A c \in Conns : c.owner \in Clients =>
              conn[c].srv = "none" /\ NoneQueued(events, c)
         /\ view = {} /\ ToSet(clientList) = {} /\ Listing(clientList, conn') = {}
<1>1. Types /\ WatcherInv /\ ListExact /\ life \in [Processes -> 0 .. MaxLives]
  BY DEF ConnectionsInv, Types, TypeOK
<1>2. ASSUME NEW c \in Conns, c.owner \in Clients
      PROVE  conn[c].srv = "none" /\ NoneQueued(events, c)
  <2>1. life[c.owner] = 0
    BY <1>1, <1>2, BoundsAssumption DEF WatcherInv, Processes
  <2>2. Later(c, life[c.owner], main[c.owner])
    BY <2>1, ConnNames DEF Later
  <2> QED BY <2>2, OfConnections DEF ConnInv, LifeInv
<1>3. ToSet(clientList) = {}
  <2>1. \A c \in Conns : conn[c].srv # "none" => c.owner = Watcher /\ c = watcherTrans
    BY <1>1, <1>2, ConnNames DEF WatcherInv, Processes
  <2> QED BY <1>1, <2>1 DEF ListExact
<1>4. view = {}
  BY <1>1 DEF WatcherInv
<1>5. Listing(clientList, conn') = {}
  BY <1>3 DEF Listing
<1> QED BY <1>2, <1>3, <1>4, <1>5

LEMMA ServerEstablishedKeeps ==
  ASSUME ConnectionsInv, ServerEstablished
  PROVE  ConnectionsInv'
<1>1. PICK c \in Conns :
        /\ Event("established", c)
        /\ conn' = [conn EXCEPT ![c].srv = "connected", ![c].known = TRUE]
        /\ UNCHANGED <<process, wire, server, faults>>
  BY DEF ServerEstablished
<1>2. /\ life' = life /\ main' = main /\ loop' = loop /\ stop' = stop
      /\ wire' = wire /\ faults' = faults /\ watcherTrans' = watcherTrans
      /\ clientList' = clientList /\ curConnections' = curConnections /\ view' = view
  BY <1>1 DEF process, server
<1>3. /\ Types /\ WatcherInv /\ ListExact /\ ViewCurrent
      /\ conn \in [Conns -> Connection] /\ conn[c] \in Connection
      /\ watcherTrans \in Conns \cup {Null} /\ clientList \in Seq(Conns)
      /\ curConnections \in Nat /\ view \subseteq [conn : Conns, used : 0 .. 2]
      /\ faults \in Faults
  BY DEF ConnectionsInv, Types, TypeOK
<1>4. /\ events' \in Seq(EventMessages) /\ OrderInv(events')
      /\ Queued(events, "established", c)
      /\ \A j, d : Queued(events', j, d) <=>
                     Queued(events, j, d) /\ ~(j = "established" /\ d = c)
      /\ \A d \in Conns : d # c => SameQueue(events, events', d)
  BY <1>1, EventIs
<1> DEFINE r == conn[c]
           s == [r EXCEPT !.srv = "connected", !.known = TRUE]
<1>5. /\ ConnInv(c, r, wire, events, life[c.owner], main[c.owner])
      /\ ~c.poll => PairInv(c, r, Pair(c), conn[Pair(c)], events,
                            life[c.owner], main[c.owner])
      /\ c.poll => PairInv(Pair(c), conn[Pair(c)], c, r, events,
                           life[c.owner], main[c.owner])
      /\ Pair(c) \in Conns /\ Pair(c) # c
  BY OfConnections
<1>6. /\ s.mine = r.mine /\ s.marked = r.marked /\ s.up = r.up /\ s.srv = "connected"
      /\ s.known = TRUE /\ s.isPoll = r.isPoll /\ s.link = r.link
      /\ s.used = r.used /\ s \in Connection
  BY <1>3 DEF Connection, States
<1>7. conn' = [conn EXCEPT ![c] = s]
  BY <1>1, <1>3
<1>8. r.srv = "connecting" /\ ~r.known
  BY <1>4, <1>5 DEF ConnInv, TokenInv, ServerInv
<1> HIDE DEF r, s
<1>9. /\ conn' \in [Conns -> Connection] /\ conn'[c] = s
      /\ \A d \in Conns : d # c => conn'[d] = conn[d]
  BY <1>3, <1>6, <1>7
<1>10. ConnInv(c, s, wire', events', life[c.owner], main[c.owner])
  <2>1. HeldInv(c, s, life[c.owner], main[c.owner])
    BY <1>5, <1>6 DEF ConnInv, HeldInv, RHeld, RWaiting
  <2>2. TokenInv(c, s, wire', events')
    BY <1>2, <1>4, <1>5, <1>8, EventOf DEF ConnInv, TokenInv, NoneQueued
  <2>3. EndInv(c, s, wire', events', main[c.owner])
    BY <1>2, <1>4, <1>5, <1>6, EventOf DEF ConnInv, EndInv
  <2>4. ServerInv(c, s)
    BY <1>5, <1>6, <1>8 DEF ConnInv, ServerInv
  <2>5. LifeInv(c, s, events', life[c.owner], main[c.owner])
    BY <1>4, <1>5 DEF ConnInv, LifeInv, NoneQueued
  <2> QED BY <2>1, <2>2, <2>3, <2>4, <2>5 DEF ConnInv
<1>11. \A d : Queued(events', "request", d) <=> Queued(events, "request", d)
  BY <1>4, EventOf
<1>12. /\ ~c.poll => PairInv(c, s, Pair(c), conn[Pair(c)], events',
                             life[c.owner], main[c.owner])
       /\ c.poll => PairInv(Pair(c), conn[Pair(c)], c, s, events',
                            life[c.owner], main[c.owner])
  BY <1>5, <1>6, <1>8, <1>11 DEF PairInv, RHeld
<1>13. EachNext
  <2>1. OnlyConn(c)
    BY <1>2, <1>4, <1>9 DEF OnlyConn, SameWire
  <2>2. ConnInvNext(c) /\ PairInvNext(c)
    BY <1>2, <1>5, <1>9, <1>10, <1>12 DEF ConnInvNext, PairInvNext
  <2> QED BY <2>1, <2>2, OneConn DEF ConnectionsInv
<1>14. \A d \in Conns : /\ conn'[d].srv \in {"init", "connecting", "connected"} <=>
                             conn[d].srv \in {"init", "connecting", "connected"}
                        /\ conn'[d].srv = "none" <=> conn[d].srv = "none"
                        /\ conn[d].known => conn'[d].known
                        /\ conn'[d].mine = conn[d].mine
  BY <1>6, <1>8, <1>9 DEF r
<1>15. ListExact'
  <2>1. {d \in Conns : conn'[d].srv \in {"init", "connecting", "connected"}}
          = {d \in Conns : conn[d].srv \in {"init", "connecting", "connected"}}
    BY <1>14
  <2> QED BY <1>2, <1>3, <2>1 DEF ListExact
<1>16. WatcherInv'
  <2>1. watcherTrans' # Null =>
          watcherTrans'.owner = Watcher /\ conn'[watcherTrans'].srv # "none"
    BY <1>2, <1>3, <1>14 DEF WatcherInv
  <2>2. \A p \in Clients : life'[p] >= 1 =>
          watcherTrans' # Null /\ conn'[watcherTrans'].known
    BY <1>2, <1>3, <1>14 DEF WatcherInv
  <2>3. \A d \in Conns : conn'[d].srv # "none" /\ d.owner = Watcher => d = watcherTrans'
    BY <1>2, <1>3, <1>14 DEF WatcherInv
  <2>4. view' # {} => watcherTrans' # Null /\ conn'[watcherTrans'].known
    BY <1>2, <1>3, <1>14 DEF WatcherInv
  <2> QED BY <1>2, <1>3, <2>1, <2>2, <2>3, <2>4 DEF WatcherInv
<1>17. ViewCurrent'
  <2>1. CASE watcherTrans = c
    <3>1. view = {} /\ Listing(clientList, conn') = {}
      BY <1>8, <2>1, NoClientYet DEF r
    <3> QED BY <1>2, <3>1 DEF ViewCurrent
  <2>2. CASE watcherTrans # c
    <3>1. Listing(clientList, conn') = Listing(clientList, conn)
      <4>1. \A d \in Conns : /\ conn[d].link \in Conns \cup {Null}
                             /\ conn[d].link = conn'[d].link
                             /\ conn[d].isPoll = conn'[d].isPoll
                             /\ conn[d].used = conn'[d].used
        BY <1>3, <1>6, <1>9, RecordTyped DEF r
      <4> QED BY <1>3, <4>1, ListingSame
    <3>2. watcherTrans # Null => conn'[watcherTrans] = conn[watcherTrans]
      BY <1>3, <1>9, <2>2
    <3> QED BY <1>2, <1>3, <3>1, <3>2 DEF ViewCurrent, WatcherIsUp, Held
  <2> QED BY <2>1, <2>2
<1> QED BY <1>2, <1>3, <1>4, <1>9, <1>13, <1>14, <1>15, <1>16, <1>17, ServerStep

LEMMA ListingTyped ==
  ASSUME NEW list \in Seq(Conns), NEW cs \in [Conns -> Connection]
  PROVE  Listing(list, cs) \subseteq [conn : Conns, used : 0 .. 2]
<1>1. \A c \in Conns : cs[c].used \in 0 .. 1 /\ cs[c].link \in Conns \cup {Null}
  BY DEF Connection
<1>2. ToSet(list) \subseteq Conns
  BY ListIs
<1>3. ASSUME NEW x \in Listing(list, cs) PROVE x \in [conn : Conns, used : 0 .. 2]
  <2>1. PICK c \in ToSet(list) :
          /\ cs[c].link # Null
          /\ x = [conn |-> c, used |-> cs[c].used + cs[cs[c].link].used]
    BY <1>3, ListingIs
  <2> DEFINE u == cs[c].used
             v == cs[cs[c].link].used
  <2>2. c \in Conns /\ u \in 0 .. 1 /\ v \in 0 .. 1
    BY <1>1, <1>2, <2>1
  <2> HIDE DEF u, v
  <2>3. u + v \in 0 .. 2
    BY <2>2
  <2> QED BY <2>1, <2>2, <2>3 DEF u, v
<1> QED BY <1>3

LEMMA ServerDisconnectedKeeps ==
  ASSUME ConnectionsInv, ServerDisconnected
  PROVE  ConnectionsInv'
<1>1. PICK c \in Conns :
        /\ Event("disconnected", c)
        /\ conn' = [conn EXCEPT ![c].srv = "disconnected"]
        /\ IF IsClient(c)
           THEN /\ curConnections' = curConnections - 1
                /\ clientList' = Without(c)
                /\ Inform(clientList', conn')
           ELSE UNCHANGED <<curConnections, clientList, view>>
        /\ UNCHANGED <<process, wire, watcherTrans, faults>>
  BY DEF ServerDisconnected
<1>2. /\ life' = life /\ main' = main /\ loop' = loop /\ stop' = stop
      /\ wire' = wire /\ faults' = faults /\ watcherTrans' = watcherTrans
  BY <1>1 DEF process
<1>3. /\ Types /\ WatcherInv /\ ListExact /\ ViewCurrent
      /\ conn \in [Conns -> Connection] /\ conn[c] \in Connection
      /\ watcherTrans \in Conns \cup {Null} /\ clientList \in Seq(Conns)
      /\ curConnections \in Nat /\ view \subseteq [conn : Conns, used : 0 .. 2]
      /\ faults \in Faults
  BY DEF ConnectionsInv, Types, TypeOK
<1>4. /\ events' \in Seq(EventMessages) /\ OrderInv(events')
      /\ Queued(events, "disconnected", c) /\ ~Queued(events, "established", c)
      /\ \A j, d : Queued(events', j, d) <=>
                     Queued(events, j, d) /\ ~(j = "disconnected" /\ d = c)
      /\ \A d \in Conns : d # c => SameQueue(events, events', d)
  BY <1>1, EventIs
<1> DEFINE r == conn[c]
           s == [r EXCEPT !.srv = "disconnected"]
<1>5. /\ ConnInv(c, r, wire, events, life[c.owner], main[c.owner])
      /\ ~c.poll => PairInv(c, r, Pair(c), conn[Pair(c)], events,
                            life[c.owner], main[c.owner])
      /\ c.poll => PairInv(Pair(c), conn[Pair(c)], c, r, events,
                           life[c.owner], main[c.owner])
      /\ Pair(c) \in Conns /\ Pair(c) # c
  BY OfConnections
<1>6. /\ s.mine = r.mine /\ s.marked = r.marked /\ s.up = r.up /\ s.srv = "disconnected"
      /\ s.known = r.known /\ s.isPoll = r.isPoll /\ s.link = r.link
      /\ s.used = r.used /\ s \in Connection
  BY <1>3 DEF Connection, States
<1>7. conn' = [conn EXCEPT ![c] = s]
  BY <1>1, <1>3
<1>8. r.srv = "connected" /\ r.known /\ r.up = "no"
  <2>1. r.up \in {"no", "yes", "ending"}
    BY <1>3, RecordTyped
  <2> QED BY <1>4, <1>5, <2>1 DEF ConnInv, EndInv, ServerInv
<1> HIDE DEF r, s
<1>9. /\ conn' \in [Conns -> Connection] /\ conn'[c] = s
      /\ \A d \in Conns : d # c => conn'[d] = conn[d]
  BY <1>3, <1>6, <1>7
<1>10. ConnInv(c, s, wire', events', life[c.owner], main[c.owner])
  <2>1. HeldInv(c, s, life[c.owner], main[c.owner])
    BY <1>5, <1>6 DEF ConnInv, HeldInv, RHeld, RWaiting
  <2>2. TokenInv(c, s, wire', events')
    BY <1>2, <1>4, <1>5, <1>8, EventOf DEF ConnInv, TokenInv
  <2>3. EndInv(c, s, wire', events', main[c.owner])
    BY <1>2, <1>4, <1>5, <1>6, <1>8, EventOf DEF ConnInv, EndInv
  <2>4. ServerInv(c, s)
    BY <1>5, <1>6, <1>8 DEF ConnInv, ServerInv
  <2>5. LifeInv(c, s, events', life[c.owner], main[c.owner])
    BY <1>4, <1>5 DEF ConnInv, LifeInv, NoneQueued
  <2> QED BY <2>1, <2>2, <2>3, <2>4, <2>5 DEF ConnInv
<1>11. \A d : Queued(events', "request", d) <=> Queued(events, "request", d)
  BY <1>4, EventOf
<1>12. /\ ~c.poll => PairInv(c, s, Pair(c), conn[Pair(c)], events',
                             life[c.owner], main[c.owner])
       /\ c.poll => PairInv(Pair(c), conn[Pair(c)], c, s, events',
                            life[c.owner], main[c.owner])
  BY <1>5, <1>6, <1>8, <1>11 DEF PairInv, RHeld
<1>13. EachNext
  <2>1. OnlyConn(c)
    BY <1>2, <1>4, <1>9 DEF OnlyConn, SameWire
  <2>2. ConnInvNext(c) /\ PairInvNext(c)
    BY <1>2, <1>5, <1>9, <1>10, <1>12 DEF ConnInvNext, PairInvNext
  <2> QED BY <2>1, <2>2, OneConn DEF ConnectionsInv
<1>14. \A d \in Conns : /\ d # c => conn'[d] = conn[d]
                        /\ conn'[d].srv = "none" <=> conn[d].srv = "none"
                        /\ conn'[d].known = conn[d].known
                        /\ conn'[d].mine = conn[d].mine
  BY <1>6, <1>8, <1>9 DEF r
<1> DEFINE L == {d \in Conns : conn[d].srv \in {"init", "connecting", "connected"}}
           M == {d \in Conns : conn'[d].srv \in {"init", "connecting", "connected"}}
<1>15. M = L \ {c} /\ c \in L
  BY <1>6, <1>8, <1>9 DEF r
<1> HIDE DEF L, M
<1>16. CASE IsClient(c)
  <2>1. /\ c # watcherTrans /\ curConnections' = curConnections - 1
        /\ clientList' = RemoveFirst(clientList, c)
        /\ view' = IF WatcherIsUp THEN Listing(clientList', conn') ELSE view
    BY <1>1, <1>16 DEF IsClient, Inform, Without
  <2>2. IsInjective(clientList) /\ ToSet(clientList) = L \ {watcherTrans}
        /\ curConnections = Len(clientList)
    BY <1>3 DEF ListExact, L
  <2>3. c \in ToSet(clientList)
    BY <1>15, <2>1, <2>2
  <2>4. /\ clientList' \in Seq(Conns) /\ IsInjective(clientList')
        /\ Len(clientList) >= 1 /\ Len(clientList') = Len(clientList) - 1
        /\ \A x : x \in ToSet(clientList') <=> x \in ToSet(clientList) /\ x # c
    BY <1>3, <2>1, <2>2, <2>3, ListRemove
  <2>5. curConnections' \in Nat /\ curConnections' = Len(clientList')
    BY <1>3, <2>1, <2>2, <2>4
  <2>6. ToSet(clientList') = M \ {watcherTrans}
    BY <1>15, <2>2, <2>4
  <2>7. ListExact'
    BY <1>2, <2>4, <2>5, <2>6 DEF ListExact, M
  <2>8. view' \subseteq [conn : Conns, used : 0 .. 2]
    BY <1>3, <1>9, <2>1, <2>4, ListingTyped
  <2>9. ViewCurrent'
    <3>1. watcherTrans # Null => conn'[watcherTrans] = conn[watcherTrans]
      BY <1>3, <1>9, <2>1
    <3>2. WatcherIsUp' => view' = Listing(clientList', conn')
      BY <1>2, <2>1, <3>1 DEF WatcherIsUp
    <3> QED BY <3>2 DEF ViewCurrent
  <2>10. WatcherInv'
    <3>1. watcherTrans' # Null =>
            watcherTrans'.owner = Watcher /\ conn'[watcherTrans'].srv # "none"
      BY <1>2, <1>3, <1>14 DEF WatcherInv
    <3>2. \A p \in Clients : life'[p] >= 1 =>
            watcherTrans' # Null /\ conn'[watcherTrans'].known
      BY <1>2, <1>3, <1>14 DEF WatcherInv
    <3>3. \A d \in Conns : conn'[d].srv # "none" /\ d.owner = Watcher => d = watcherTrans'
      BY <1>2, <1>3, <1>14 DEF WatcherInv
    <3>4. view' # {} => watcherTrans' # Null /\ conn'[watcherTrans'].known
      <4>1. CASE WatcherIsUp
        BY <1>2, <1>3, <1>14, <4>1, OfConnections
           DEF WatcherIsUp, ConnInv, ServerInv
      <4>2. CASE ~WatcherIsUp
        BY <1>2, <1>3, <1>14, <2>1, <4>2 DEF WatcherInv
      <4> QED BY <4>1, <4>2
    <3> QED BY <1>2, <1>3, <3>1, <3>2, <3>3, <3>4 DEF WatcherInv
  <2> QED BY <1>2, <1>3, <1>4, <1>9, <1>13, <1>14, <2>4, <2>5, <2>7, <2>8, <2>9, <2>10,
             ServerStep
<1>17. CASE ~IsClient(c)
  <2>1. /\ c = watcherTrans /\ curConnections' = curConnections
        /\ clientList' = clientList /\ view' = view
    BY <1>1, <1>17 DEF IsClient
  <2>2. ListExact'
    <3>1. M \ {watcherTrans} = L \ {watcherTrans}
      BY <1>15, <2>1
    <3> QED BY <1>2, <1>3, <2>1, <3>1 DEF ListExact, L, M
  <2>3. ViewCurrent'
    BY <1>2, <1>6, <1>9, <2>1 DEF ViewCurrent, WatcherIsUp
  <2>4. WatcherInv'
    <3>1. watcherTrans' # Null =>
            watcherTrans'.owner = Watcher /\ conn'[watcherTrans'].srv # "none"
      BY <1>2, <1>3, <1>14 DEF WatcherInv
    <3>2. \A p \in Clients : life'[p] >= 1 =>
            watcherTrans' # Null /\ conn'[watcherTrans'].known
      BY <1>2, <1>3, <1>14 DEF WatcherInv
    <3>3. \A d \in Conns : conn'[d].srv # "none" /\ d.owner = Watcher => d = watcherTrans'
      BY <1>2, <1>3, <1>14 DEF WatcherInv
    <3>4. view' # {} => watcherTrans' # Null /\ conn'[watcherTrans'].known
      BY <1>2, <1>3, <1>14, <2>1 DEF WatcherInv
    <3> QED BY <1>2, <1>3, <3>1, <3>2, <3>3, <3>4 DEF WatcherInv
  <2> QED BY <1>2, <1>3, <1>4, <1>9, <1>13, <1>14, <2>1, <2>2, <2>3, <2>4, ServerStep
<1> QED BY <1>16, <1>17

LEMMA AccountKeeps ==
  ASSUME ConnectionsInv, NEW p \in Processes, Account(p)
  PROVE  ConnectionsInv'
<1>1. PICK c \in Transports(p) :
        /\ main[p] = "running" /\ p \in Clients
        /\ conn[c].mine = "connected" /\ Alive(c)
        /\ conn' = [conn EXCEPT ![c].used = 1 - @]
        /\ Inform(clientList, conn')
        /\ wire' = IF conn[c].srv = "connected" THEN wire ELSE wire \cup {Lost(c)}
        /\ UNCHANGED <<process, events, watcherTrans, clientList,
                       curConnections, faults>>
  BY DEF Account
<1>2. /\ life' = life /\ main' = main /\ loop' = loop /\ stop' = stop
      /\ events' = events /\ faults' = faults /\ watcherTrans' = watcherTrans
      /\ clientList' = clientList /\ curConnections' = curConnections
      /\ view' = IF WatcherIsUp THEN Listing(clientList, conn') ELSE view
  BY <1>1 DEF process, Inform
<1>3. /\ c \in Conns /\ c.owner = p /\ Held(c) /\ RHeld(conn[c])
      /\ conn[c].srv # "none" /\ conn[c].mine = "connected"
  BY <1>1 DEF Transports, Held, RHeld, Alive
<1>4. /\ Types /\ WatcherInv /\ ListExact /\ ViewCurrent
      /\ conn \in [Conns -> Connection] /\ conn[c] \in Connection
      /\ watcherTrans \in Conns \cup {Null} /\ clientList \in Seq(Conns)
      /\ curConnections \in Nat /\ view \subseteq [conn : Conns, used : 0 .. 2]
      /\ faults \in Faults /\ events \in Seq(EventMessages) /\ OrderInv(events)
  BY <1>3 DEF ConnectionsInv, Types, TypeOK
<1> DEFINE r == conn[c]
           s == [r EXCEPT !.used = 1 - @]
<1>5. /\ ConnInv(c, r, wire, events, life[p], "running")
      /\ ~c.poll => PairInv(c, r, Pair(c), conn[Pair(c)], events, life[p], "running")
      /\ c.poll => PairInv(Pair(c), conn[Pair(c)], c, r, events, life[p], "running")
      /\ Pair(c) \in Conns /\ Pair(c) # c
  BY <1>1, <1>3, OfConnections
<1>6. /\ s.mine = r.mine /\ s.marked = r.marked /\ s.up = r.up /\ s.srv = r.srv
      /\ s.known = r.known /\ s.isPoll = r.isPoll /\ s.link = r.link
      /\ s \in Connection
  <2>1. r.used \in 0 .. 1
    BY <1>4 DEF Connection
  <2>2. 1 - r.used \in 0 .. 1
    BY <2>1
  <2> DEFINE u == 1 - r.used
  <2>3. s = [r EXCEPT !.used = u]
    OBVIOUS
  <2> HIDE DEF u, s
  <2>4. u \in 0 .. 1
    BY <2>2 DEF u
  <2> QED BY <1>4, <2>3, <2>4 DEF Connection
<1>7. conn' = [conn EXCEPT ![c] = s]
  BY <1>1, <1>3, <1>4
<1> HIDE DEF r, s
<1>8. /\ conn' \in [Conns -> Connection] /\ conn'[c] = s
      /\ \A d \in Conns : d # c => conn'[d] = conn[d]
  BY <1>3, <1>4, <1>6, <1>7
<1>9. \A k, d : k # "lost" => (In(wire', k, d) <=> In(wire, k, d))
  <2>1. \A k, d : In(wire \cup {Message("lost", c)}, k, d) <=>
          In(wire, k, d) \/ (k = "lost" /\ d = c)
    BY WireAdd
  <2> QED BY <1>1, <2>1 DEF Lost
<1>10. \A d : d # c => SameWire(wire, wire', d)
  <2>1. \A k, d : In(wire \cup {Message("lost", c)}, k, d) <=>
          In(wire, k, d) \/ (k = "lost" /\ d = c)
    BY WireAdd
  <2> QED BY <1>1, <2>1 DEF Lost, SameWire
<1>11. ConnInv(c, s, wire', events, life[p], "running")
  <2>1. HeldInv(c, s, life[p], "running")
    BY <1>5, <1>6 DEF ConnInv, HeldInv, RHeld, RWaiting
  <2>2. TokenInv(c, s, wire', events)
    BY <1>5, <1>6, <1>9 DEF ConnInv, TokenInv, RHeld, RWaiting
  <2>3. EndInv(c, s, wire', events, "running")
    BY <1>5, <1>6, <1>9 DEF ConnInv, EndInv
  <2>4. ServerInv(c, s)
    BY <1>3, <1>5, <1>6 DEF ConnInv, ServerInv, r
  <2>5. LifeInv(c, s, events, life[p], "running")
    BY <1>5, <1>6 DEF ConnInv, LifeInv
  <2> QED BY <2>1, <2>2, <2>3, <2>4, <2>5 DEF ConnInv
<1>12. c.poll => PairInv(Pair(c), conn[Pair(c)], c, s, events, life[p], "running")
  BY <1>5, <1>6 DEF PairInv, RHeld
<1>13. ASSUME ~c.poll
       PROVE  PairInv(c, s, Pair(c), conn[Pair(c)], events, life[p], "running")
  <2> DEFINE q == Pair(c)
  <2>1. q \in Conns /\ q.owner = p /\ q.poll /\ q.life = c.life
    BY <1>3, <1>13, ConnNames
  <2>2. ConnInv(q, conn[q], wire, events, life[p], "running")
    BY <1>1, <2>1, OfConnections
  <2>3. RHeld(conn[q])
    BY <1>1, <1>3, <1>5, <2>1, <2>2 DEF ConnInv, HeldInv, r
  <2>4. ~Queued(events, "request", q)
    BY <2>1, <2>2, <2>3 DEF ConnInv, HeldInv, TokenInv
  <2> HIDE DEF q
  <2>5. PairInv(c, r, q, conn[q], events, life[p], "running")
    BY <1>5, <1>13 DEF q
  <2>6. PairInv(c, s, q, conn[q], events, life[p], "running")
    BY <1>6, <2>4, <2>5 DEF PairInv, RHeld
  <2> QED BY <2>6 DEF q
<1>14. EachNext
  <2>1. OnlyConn(c)
    BY <1>2, <1>8, <1>10, SameEvents DEF OnlyConn
  <2>2. ConnInvNext(c) /\ PairInvNext(c)
    BY <1>1, <1>2, <1>3, <1>5, <1>8, <1>11, <1>12, <1>13 DEF ConnInvNext, PairInvNext
  <2> QED BY <1>3, <2>1, <2>2, OneConn DEF ConnectionsInv
<1>15. \A d \in Conns : /\ conn'[d].srv = conn[d].srv /\ conn'[d].known = conn[d].known
                        /\ conn'[d].mine = conn[d].mine
  BY <1>6, <1>8 DEF r
<1>16. ListExact'
  <2>1. {d \in Conns : conn'[d].srv \in {"init", "connecting", "connected"}}
          = {d \in Conns : conn[d].srv \in {"init", "connecting", "connected"}}
    BY <1>15
  <2> QED BY <1>2, <1>4, <2>1 DEF ListExact
<1>17. ViewCurrent'
  <2>1. WatcherIsUp' => view' = Listing(clientList, conn')
    BY <1>2, <1>4, <1>15 DEF WatcherIsUp
  <2> QED BY <1>2, <2>1 DEF ViewCurrent
<1>18. view' \subseteq [conn : Conns, used : 0 .. 2]
  BY <1>2, <1>4, <1>8, ListingTyped
<1>19. WatcherInv'
  <2>1. watcherTrans' # Null =>
          watcherTrans'.owner = Watcher /\ conn'[watcherTrans'].srv # "none"
    BY <1>2, <1>4, <1>15 DEF WatcherInv
  <2>2. \A o \in Clients : life'[o] >= 1 =>
          watcherTrans' # Null /\ conn'[watcherTrans'].known
    BY <1>2, <1>4, <1>15 DEF WatcherInv
  <2>3. \A d \in Conns : conn'[d].srv # "none" /\ d.owner = Watcher => d = watcherTrans'
    BY <1>2, <1>4, <1>15 DEF WatcherInv
  <2>4. view' # {} => watcherTrans' # Null /\ conn'[watcherTrans'].known
    <3>1. CASE WatcherIsUp
      BY <1>2, <1>4, <1>15, <3>1, OfConnections DEF WatcherIsUp, ConnInv, ServerInv
    <3>2. CASE ~WatcherIsUp
      BY <1>2, <1>4, <1>15, <3>2 DEF WatcherInv
    <3> QED BY <3>1, <3>2
  <2> QED BY <1>2, <1>4, <2>1, <2>2, <2>3, <2>4 DEF WatcherInv
<1>20. \A m \in wire' : m \in wire \/ (/\ m.conn \in Conns /\ Held(m.conn)
                                       /\ m.kind \notin {"info_request", "info_response"})
  <2>1. Lost(c).conn = c /\ Lost(c).kind = "lost"
    BY MessageIs DEF Lost
  <2> QED BY <1>1, <1>3, <2>1
<1> QED BY <1>2, <1>4, <1>8, <1>14, <1>15, <1>16, <1>17, <1>18, <1>19, <1>20, ServerStep

\* The partner that is found.
LEMMA ExistIs ==
  ASSUME clientList \in Seq(Conns), NEW c \in Conns
  PROVE  LET d == IsExistConnection(c) IN
         \/ /\ d = Null
            /\ \A x \in ToSet(clientList) : ~(conn[x].known /\ x.owner = c.owner)
         \/ d \in ToSet(clientList) /\ conn[d].known /\ d.owner = c.owner
<1> DEFINE s == clientList
           S == {i \in 1 .. Len(s) : conn[s[i]].known /\ s[i].owner = c.owner}
           i == IF S # {} THEN Min(S) ELSE 0
<1>1. IsExistConnection(c) = IF i = 0 THEN Null ELSE s[i]
  BY DEF IsExistConnection, SelectInSeq
<1>2. /\ Len(s) \in Nat
      /\ \A x : x \in ToSet(s) <=> \E j \in 1 .. Len(s) : s[j] = x
  BY ListIs
<1>3. S \in SUBSET Nat /\ \A j \in S : j # 0 /\ j \in 1 .. Len(s)
  BY <1>2
<1>4. CASE S = {}
  <2>1. IsExistConnection(c) = Null
    BY <1>1, <1>4
  <2>2. \A x \in ToSet(s) : ~(conn[x].known /\ x.owner = c.owner)
    BY <1>2, <1>4
  <2> QED BY <2>1, <2>2
<1>5. CASE S # {}
  <2> HIDE DEF S
  <2>1. i \in S
    BY <1>3, <1>5, MinIs
  <2>2. i # 0 /\ i \in 1 .. Len(s) /\ conn[s[i]].known /\ s[i].owner = c.owner
    BY <1>3, <2>1 DEF S
  <2> HIDE DEF i
  <2>3. IsExistConnection(c) = s[i] /\ s[i] \in ToSet(s)
    BY <1>1, <1>2, <2>2
  <2> QED BY <2>2, <2>3
<1> QED BY <1>4, <1>5

\* A request that the server handles is the first it hears of the transport.
LEMMA RequestIs ==
  ASSUME ConnectionsInv, NEW c \in Conns, Queued(events, "request", c)
  PROVE  /\ ~RHeld(conn[c]) \/ RWaiting(conn[c])
         /\ conn[c].mine # "connected"
         /\ conn[c].srv = "none" /\ conn[c].up = "no" /\ ~conn[c].known
         /\ conn[c].used = 0 /\ ~In(wire, "route", c) /\ ~In(wire, "accept", c)
         /\ ~Queued(events, "established", c) /\ ~Queued(events, "disconnected", c)
         /\ c.life = life[c.owner] /\ ~Later(c, life[c.owner], main[c.owner])
         /\ c.poll => c.owner \in Clients /\ conn[Pair(c)].link = Null
                      /\ conn[Pair(c)].used = 0
<1> DEFINE r == conn[c]
<1>1. /\ ConnInv(c, r, wire, events, life[c.owner], main[c.owner])
      /\ c.poll => PairInv(Pair(c), conn[Pair(c)], c, r, events,
                           life[c.owner], main[c.owner])
      /\ r.known \in BOOLEAN
  BY OfConnections, RecordTyped DEF ConnectionsInv
<1>2. c.owner \in Processes /\ c.life \in Nat /\ life[c.owner] \in Nat
  <2>1. life \in [Processes -> 0 .. MaxLives]
    BY DEF ConnectionsInv, Types, TypeOK
  <2> QED BY <2>1, ConnNames, BoundsAssumption
<1> HIDE DEF r
<1>3. (~RHeld(r) \/ RWaiting(r)) /\ r.srv = "none" /\ r.up = "no"
  BY <1>1 DEF ConnInv, TokenInv
<1>4. r.mine # "connected"
  BY <1>3 DEF RHeld, RWaiting
<1>5. ~NoneQueued(events, c)
  BY DEF NoneQueued
<1>6. ~In(wire, "route", c) /\ ~In(wire, "accept", c) /\ ~Queued(events, "established", c)
  BY <1>1, <1>3, <1>5 DEF ConnInv, TokenInv
<1>7. ~Queued(events, "disconnected", c)
  BY <1>1, <1>3, <1>6 DEF ConnInv, EndInv
<1>8. ~(c.life < life[c.owner]) /\ ~Later(c, life[c.owner], main[c.owner])
  BY <1>1, <1>5 DEF ConnInv, LifeInv
<1>9. c.life = life[c.owner]
  BY <1>2, <1>8 DEF Later
<1>10. ~r.known /\ r.used = 0
  BY <1>1, <1>3 DEF ConnInv, ServerInv
<1>11. ASSUME c.poll
       PROVE  c.owner \in Clients /\ conn[Pair(c)].link = Null /\ conn[Pair(c)].used = 0
  <2>1. c.owner \in Clients
    BY <1>2, <1>8, <1>11 DEF Later, Processes
  <2>2. conn[Pair(c)].link = Null /\ conn[Pair(c)].used = 0
    BY <1>1, <1>3, <1>11 DEF PairInv
  <2> QED BY <2>1, <2>2
<1> QED BY <1>3, <1>4, <1>6, <1>7, <1>8, <1>9, <1>10, <1>11 DEF r

\* The partner of a poll transport whose connect transport is connected is
\* found; nothing but a partner is.
LEMMA PartnerIs ==
  ASSUME ConnectionsInv, NEW c \in Conns, Queued(events, "request", c),
         c.poll => ~Queued(events, "established", Pair(c))
  PROVE  LET d == IsExistConnection(c) IN
         /\ d \in {Null, Pair(c)} /\ (d # Null => c.poll /\ conn[d].known)
         /\ c.poll /\ conn[Pair(c)].mine = "connected" => d = Pair(c)
<1> DEFINE d == IsExistConnection(c)
           n == Pair(c)
<1>1. /\ clientList \in Seq(Conns) /\ ListExact /\ WatcherInv
      /\ main \in [Processes -> Mains] /\ life \in [Processes -> 0 .. MaxLives]
      /\ watcherTrans \in Conns \cup {Null}
  BY DEF ConnectionsInv, Types, TypeOK, Mains
<1>2. /\ c.owner \in Processes /\ n \in Conns /\ n # c /\ n.owner = c.owner
      /\ n.life = c.life /\ n.poll = ~c.poll /\ c.poll \in BOOLEAN
      /\ c.life \in Nat /\ life[c.owner] \in Nat
  BY <1>1, ConnNames, BoundsAssumption
<1>3. \/ d = Null /\ \A x \in ToSet(clientList) : ~(conn[x].known /\ x.owner = c.owner)
      \/ d \in ToSet(clientList) /\ conn[d].known /\ d.owner = c.owner
  BY <1>1, ExistIs
<1>4. \A x : x \in ToSet(clientList) <=>
               /\ x \in Conns /\ x # watcherTrans
               /\ conn[x].srv \in {"init", "connecting", "connected"}
  BY <1>1 DEF ListExact
<1>5. /\ c.life = life[c.owner] /\ conn[c].srv = "none"
      /\ ~Later(c, life[c.owner], main[c.owner])
      /\ ~RHeld(conn[c]) \/ RWaiting(conn[c])
      /\ c.poll => c.owner \in Clients
  BY RequestIs
<1> HIDE DEF d, n
<1>6. ASSUME d # Null
      PROVE  d = n /\ c.poll /\ conn[d].known
  <2>1. d \in Conns /\ d.owner = c.owner /\ conn[d].known /\ d # c
        /\ conn[d].srv \in {"init", "connecting", "connected"}
    BY <1>3, <1>4, <1>5, <1>6
  <2>2. ConnInv(d, conn[d], wire, events, life[c.owner], main[c.owner])
    BY <2>1, OfConnections
  <2>3. conn[d].srv = "connected"
    BY <2>1, <2>2 DEF ConnInv, ServerInv
  <2>4. d.life \in Nat /\ d.poll \in BOOLEAN
    BY <2>1, ConnNames
  <2>5. ~(d.life < life[c.owner]) /\ ~(d.life > life[c.owner])
    BY <2>2, <2>3 DEF ConnInv, LifeInv, Later
  <2>6. d.life = c.life
    BY <1>2, <1>5, <2>4, <2>5
  <2>7. d.poll = ~c.poll
    BY <1>2, <2>1, <2>4, <2>6, ConnNames
  <2>8. d = n
    BY <1>2, <2>1, <2>6, <2>7, ConnNames
  <2>9. c.poll
    <3> SUFFICES ASSUME ~c.poll PROVE FALSE
      OBVIOUS
    <3>1. PairInv(c, conn[c], n, conn[n], events, life[c.owner], main[c.owner])
      BY OfConnections DEF n
    <3> QED BY <2>3, <2>8, <3>1 DEF PairInv
  <2> QED BY <2>1, <2>8, <2>9
<1>7. ASSUME c.poll, conn[n].mine = "connected"
      PROVE  d = n
  <2>1. ConnInv(n, conn[n], wire, events, life[c.owner], main[c.owner])
        /\ ConnInv(c, conn[c], wire, events, life[c.owner], main[c.owner])
    BY <1>2, OfConnections
  <2>2. RHeld(conn[n])
    BY <1>7 DEF RHeld
  <2>3. main[c.owner] \in Mains /\ main[c.owner] # "off"
    BY <1>1, <1>2, <2>1, <2>2 DEF ConnInv, HeldInv
  <2>4. main[c.owner] \in {"poll", "fetch"}
    <3>1. main[c.owner] # "connect"
      BY <1>5, <1>7 DEF Later
    <3>2. RHeld(conn[c]) => main[c.owner] = "poll"
      BY <1>5, <1>7, <2>1 DEF ConnInv, HeldInv
    <3>3. ~RHeld(conn[c]) =>
            main[c.owner] \notin {"poll", "running", "closing", "leaving", "joining"}
      BY <1>5, <1>7, <2>1, <2>3 DEF ConnInv, HeldInv
    <3> QED BY <2>3, <3>1, <3>2, <3>3 DEF Mains
  <2>5. conn[n].up = "yes"
    BY <1>7, <2>1, <2>4 DEF ConnInv, EndInv
  <2>6. conn[n].srv = "connected"
    BY <1>7, <2>1, <2>5 DEF ConnInv, EndInv, n
  <2>7. conn[n].known
    BY <2>1, <2>6 DEF ConnInv, ServerInv
  <2>8. n # watcherTrans
    <3>1. n.owner # Watcher /\ n # Null
      BY <1>2, <1>5, <1>7, NullAssumption, ProcessesAssumption
    <3> QED BY <1>1, <3>1 DEF WatcherInv
  <2>9. n \in ToSet(clientList)
    BY <1>2, <1>4, <2>6, <2>8
  <2>10. d # Null
    BY <1>3, <1>4, <2>7, <2>9, <1>2, NullAssumption
  <2> QED BY <1>6, <2>10
<1> QED BY <1>6, <1>7 DEF d, n

\* dhmp_qp_create fails: the request is gone.
LEMMA RequestDropped ==
  ASSUME ConnectionsInv, NEW c \in Conns, Event("request", c), Fault,
         UNCHANGED <<conn, wire, server, process>>
  PROVE  ConnectionsInv'
<1>1. /\ life' = life /\ main' = main /\ loop' = loop /\ stop' = stop
      /\ UNCHANGED server /\ conn' = conn /\ wire' = wire
  BY DEF process
<1>2. /\ Types /\ conn \in [Conns -> Connection] /\ conn[c] \in Connection
      /\ loop' \in [Processes -> {"off", "waiting", "ended"}]
      /\ stop' \in [Processes -> BOOLEAN]
  BY <1>1 DEF ConnectionsInv, Types, TypeOK
<1>3. faults' \in Faults
  <2>1. faults \in Faults
    BY DEF ConnectionsInv, Types, TypeOK
  <2> QED BY <2>1, BoundsAssumption DEF Fault, Faults
<1>4. /\ events' \in Seq(EventMessages) /\ OrderInv(events')
      /\ Queued(events, "request", c)
      /\ \A j, d : Queued(events', j, d) <=>
                     Queued(events, j, d) /\ ~(j = "request" /\ d = c)
      /\ \A d \in Conns : d # c => SameQueue(events, events', d)
  BY EventIs
<1> DEFINE r == conn[c]
<1>5. /\ ConnInv(c, r, wire, events, life[c.owner], main[c.owner])
      /\ ~c.poll => PairInv(c, r, Pair(c), conn[Pair(c)], events,
                            life[c.owner], main[c.owner])
      /\ c.poll => PairInv(Pair(c), conn[Pair(c)], c, r, events,
                           life[c.owner], main[c.owner])
  BY OfConnections
<1> HIDE DEF r
<1>6. ConnInv(c, r, wire', events', life[c.owner], main[c.owner])
  <2>1. TokenInv(c, r, wire, events')
    BY <1>4, <1>5, EventOf DEF ConnInv, TokenInv, NoneQueued
  <2>2. EndInv(c, r, wire, events', main[c.owner])
    BY <1>4, <1>5, EventOf DEF ConnInv, EndInv
  <2>3. LifeInv(c, r, events', life[c.owner], main[c.owner])
    BY <1>4, <1>5, EventOf DEF ConnInv, LifeInv, NoneQueued
  <2> QED BY <1>1, <1>5, <2>1, <2>2, <2>3 DEF ConnInv
<1>7. /\ ~c.poll => PairInv(c, r, Pair(c), conn[Pair(c)], events',
                            life[c.owner], main[c.owner])
      /\ c.poll => PairInv(Pair(c), conn[Pair(c)], c, r, events',
                           life[c.owner], main[c.owner])
  <2>1. \A d : Queued(events', "request", d) => Queued(events, "request", d)
    BY <1>4
  <2> QED BY <1>5, <2>1 DEF PairInv
<1>8. OneChanges(c, r) /\ SameForServer(r, r)
  <2>1. conn' = [conn EXCEPT ![c] = r]
    BY <1>1, <1>2 DEF r
  <2> QED BY <1>1, <1>4, <2>1 DEF OneChanges, SameForServer, SameWire
<1>9. WireInv'
  BY <1>1 DEF ConnectionsInv, WireInv, Held
<1> QED BY <1>1, <1>2, <1>3, <1>4, <1>6, <1>7, <1>8, <1>9, OneStep DEF r

\* The two connections of the process after c was accepted, linked with d.
LEMMA AcceptedEach ==
  ASSUME ConnectionsInv, NEW c \in Conns, NEW d, NEW state \in {"connecting", "init"},
         Event("request", c),
         d \in {Null, Pair(c)}, d # Null => c.poll /\ conn[d].known,
         c.poll /\ conn[Pair(c)].mine = "connected" => d = Pair(c),
         conn' = Accepted(c, d, state),
         \/ wire' = wire
         \/ wire' = wire \cup {Message("accept", c)} /\ Held(c) /\ state = "connecting",
         life' = life, main' = main
  PROVE  /\ EachNext /\ conn' \in [Conns -> Connection]
         /\ \A x \in Conns : /\ x \notin {c, d} => conn'[x] = conn[x]
                             /\ conn'[x].mine = conn[x].mine
                             /\ conn'[x].used = conn[x].used
                             /\ conn'[x].known = conn[x].known
                             /\ x # c => /\ conn'[x].srv = conn[x].srv
                                         /\ conn'[x].isPoll = conn[x].isPoll
         /\ conn'[c].srv = state /\ conn'[c].link = d /\ (conn'[c].isPoll <=> d # Null)
<1> DEFINE n == Pair(c)
           r == conn[c]
           s == [r EXCEPT !.srv = state, !.isPoll = d # Null, !.link = d]
           rn == conn[n]
           sn == IF d = n THEN [rn EXCEPT !.link = c] ELSE rn
<1>1. /\ Types /\ conn \in [Conns -> Connection] /\ r \in Connection
      /\ n \in Conns /\ n # c /\ Pair(n) = c /\ rn \in Connection
      /\ n.owner = c.owner /\ n.poll = ~c.poll /\ Null # n /\ c # Null
      /\ c.owner \in Processes
  BY ConnNames, NullAssumption DEF ConnectionsInv, Types, TypeOK
<1>2. /\ s.mine = r.mine /\ s.marked = r.marked /\ s.up = r.up /\ s.srv = state
      /\ s.known = r.known /\ s.isPoll = (d # Null) /\ s.link = d
      /\ s.used = r.used /\ s \in Connection
  <2>1. d \in Conns \cup {Null}
    BY <1>1
  <2> QED BY <1>1, <2>1 DEF Connection, States
<1>3. /\ sn.mine = rn.mine /\ sn.marked = rn.marked /\ sn.up = rn.up /\ sn.srv = rn.srv
      /\ sn.known = rn.known /\ sn.isPoll = rn.isPoll
      /\ sn.link = (IF d = n THEN c ELSE rn.link)
      /\ sn.used = rn.used /\ sn \in Connection
  BY <1>1 DEF Connection
<1>4. conn' = [x \in Conns |-> IF x = c THEN s
                               ELSE IF x = d THEN [conn[x] EXCEPT !.link = c]
                               ELSE conn[x]]
  BY DEF Accepted
<1>5. conn'[c] = s /\ conn'[n] = sn
      /\ \A x \in Conns : x # c /\ x # n => conn'[x] = conn[x]
  <2>1. conn'[c] = s
    BY <1>4
  <2>2. conn'[n] = sn
    <3>1. n \in Conns /\ n # c
      BY <1>1
    <3> HIDE DEF n, s
    <3> QED BY <1>4, <3>1
  <2>3. \A x \in Conns : x # c /\ x # n => conn'[x] = conn[x]
    <3>1. \A x \in Conns : x # n => x # d
      BY NullAssumption
    <3> HIDE DEF n, s
    <3> QED BY <1>4, <3>1
  <2> QED BY <2>1, <2>2, <2>3
<1>6. conn' \in [Conns -> Connection]
  <2> HIDE DEF s, sn
  <2>1. \A x \in Conns : conn'[x] \in Connection
    BY <1>1, <1>2, <1>3, <1>5
  <2> QED BY <1>4, <2>1
<1>7. /\ Queued(events, "request", c) /\ (c.poll => ~Queued(events, "established", n))
      /\ \A j, x : Queued(events', j, x) <=>
                     Queued(events, j, x) /\ ~(j = "request" /\ x = c)
      /\ \A x \in Conns : x # c => SameQueue(events, events', x)
  BY EventIs
<1>8. /\ ~RHeld(r) \/ RWaiting(r)
      /\ r.mine # "connected"
      /\ r.srv = "none" /\ r.up = "no" /\ ~r.known
      /\ r.used = 0 /\ ~In(wire, "route", c) /\ ~In(wire, "accept", c)
      /\ ~Queued(events, "established", c) /\ ~Queued(events, "disconnected", c)
      /\ c.life = life[c.owner] /\ ~Later(c, life[c.owner], main[c.owner])
  BY <1>7, RequestIs
<1>9. \A k, x : In(wire', k, x) <=>
        In(wire, k, x) \/ (k = "accept" /\ x = c /\ wire' # wire)
  BY WireAdd
<1>10. wire' # wire => RHeld(r) /\ state = "connecting"
  BY DEF Held, RHeld
<1>11. /\ ConnInv(c, r, wire, events, life[c.owner], main[c.owner])
       /\ ConnInv(n, rn, wire, events, life[c.owner], main[c.owner])
       /\ ~c.poll => PairInv(c, r, n, rn, events, life[c.owner], main[c.owner])
       /\ c.poll => PairInv(n, rn, c, r, events, life[c.owner], main[c.owner])
  <2>1. ConnInv(n, rn, wire, events, life[n.owner], main[n.owner])
    BY <1>1, OfConnections
  <2> QED BY <1>1, <2>1, OfConnections
<1>12. NoneQueued(events', c)
  BY <1>7, <1>8 DEF NoneQueued
<1>13. conn'[c].srv = state /\ conn'[c].link = d /\ (conn'[c].isPoll <=> d # Null)
  BY <1>2, <1>5
<1>14. ASSUME NEW x \in Conns
       PROVE  /\ x \notin {c, d} => conn'[x] = conn[x]
              /\ conn'[x].mine = conn[x].mine
              /\ conn'[x].used = conn[x].used
              /\ conn'[x].known = conn[x].known
              /\ x # c => /\ conn'[x].srv = conn[x].srv
                          /\ conn'[x].isPoll = conn[x].isPoll
  <2>1. CASE x = c
    BY <1>2, <1>5, <2>1
  <2>2. CASE x = n
    BY <1>3, <1>5, <2>2
  <2>3. CASE x # c /\ x # n
    BY <1>5, <2>3
  <2> QED BY <2>1, <2>2, <2>3
<1> HIDE DEF r, s, rn, sn, n
<1>15. ConnInv(c, s, wire', events', life[c.owner], main[c.owner])
  <2>1. HeldInv(c, s, life[c.owner], main[c.owner])
    BY <1>2, <1>11 DEF ConnInv, HeldInv, RHeld, RWaiting
  <2>2. TokenInv(c, s, wire', events')
    BY <1>2, <1>8, <1>9, <1>10, <1>12 DEF TokenInv, NoneQueued, RHeld, RWaiting
  <2>3. EndInv(c, s, wire', events', main[c.owner])
    <3>1. /\ In(wire', "disconnect", c) <=> In(wire, "disconnect", c)
          /\ In(wire', "close", c) <=> In(wire, "close", c)
      BY <1>9
    <3>2. s.srv # "connected"
      BY <1>2
    <3> QED BY <1>2, <1>8, <1>11, <1>12, <3>1, <3>2 DEF ConnInv, EndInv, NoneQueued
  <2>4. ServerInv(c, s)
    BY <1>2, <1>8 DEF ServerInv, n
  <2>5. LifeInv(c, s, events', life[c.owner], main[c.owner])
    <3>1. ~(c.life < life[c.owner])
      BY <1>8, ConnNames
    <3> QED BY <1>8, <3>1 DEF LifeInv
  <2> QED BY <2>1, <2>2, <2>3, <2>4, <2>5 DEF ConnInv
<1>16. ConnInv(n, sn, wire', events', life[c.owner], main[c.owner])
  <2>1. SameWire(wire, wire', n) /\ SameQueue(events, events', n)
    BY <1>1, <1>7, <1>9 DEF SameWire
  <2>2. ConnInv(n, rn, wire', events', life[c.owner], main[c.owner])
    BY <1>11, <2>1, ConnSame
  <2>3. HeldInv(n, sn, life[c.owner], main[c.owner]) /\ TokenInv(n, sn, wire', events')
    BY <1>3, <2>2 DEF ConnInv, HeldInv, TokenInv, RHeld, RWaiting
  <2>4. EndInv(n, sn, wire', events', main[c.owner])
        /\ LifeInv(n, sn, events', life[c.owner], main[c.owner])
    BY <1>3, <2>2 DEF ConnInv, EndInv, LifeInv
  <2>5. ServerInv(n, sn)
    <3>1. CASE d = n
      BY <1>1, <1>3, <2>2, <3>1 DEF ConnInv, ServerInv, n
    <3>2. CASE d # n
      BY <1>3, <2>2, <3>2 DEF ConnInv, ServerInv
    <3> QED BY <3>1, <3>2
  <2> QED BY <2>3, <2>4, <2>5 DEF ConnInv
<1>17. \A x : Queued(events', "request", x) <=> Queued(events, "request", x) /\ x # c
  BY <1>7
<1>18. ASSUME ~c.poll
       PROVE  PairInv(c, s, n, sn, events', life[c.owner], main[c.owner])
  <2>1. d = Null
    BY <1>18
  <2>2. PairInv(c, r, n, rn, events, life[c.owner], main[c.owner])
    BY <1>11, <1>18
  <2>3. s.mine # "connected" /\ s.link = Null /\ ~Queued(events', "request", c)
        /\ (Queued(events', "request", n) => Queued(events, "request", n))
    BY <1>2, <1>8, <1>17, <2>1
  <2> QED BY <1>2, <2>2, <2>3 DEF PairInv
<1>19. ASSUME c.poll
       PROVE  PairInv(n, sn, c, s, events', life[c.owner], main[c.owner])
  <2>1. PairInv(n, rn, c, r, events, life[c.owner], main[c.owner])
    BY <1>11, <1>19
  <2>2. ~Queued(events', "request", c) /\ s.srv # "none" /\ ~Queued(events', "request", n)
    BY <1>2, <1>7, <1>17, <2>1 DEF PairInv
  <2>3. sn.mine = "connected" => sn.known /\ sn.link = c /\ s.link = n
    <3>1. rn.mine = "connected" => d = n /\ rn.known
      BY <1>1, <1>19 DEF n, rn
    <3> QED BY <1>2, <1>3, <3>1
  <2> QED BY <1>3, <2>1, <2>2, <2>3 DEF PairInv
<1>20. OnlyProcess(c.owner)
  <2>1. \A x \in Conns : x.owner # c.owner => conn'[x] = conn[x]
    BY <1>1, <1>5
  <2>2. \A x \in Conns : x.owner # c.owner =>
          SameWire(wire, wire', x) /\ SameQueue(events, events', x)
    BY <1>7, <1>9 DEF SameWire
  <2> QED BY <2>1, <2>2 DEF OnlyProcess
<1>21. ASSUME NEW x \in Conns, x.owner = c.owner
       PROVE  ConnInvNext(x) /\ (~x.poll => PairInvNext(x))
  <2>1. CASE x = c
    BY <1>5, <1>15, <1>18, <2>1 DEF ConnInvNext, PairInvNext, n
  <2>2. CASE x = n
    BY <1>1, <1>5, <1>16, <1>19, <2>2 DEF ConnInvNext, PairInvNext
  <2>3. CASE x # c /\ x # n
    <3>1. ConnInv(x, conn[x], wire, events, life[x.owner], main[x.owner])
          /\ (~x.poll => PairInv(x, conn[x], Pair(x), conn[Pair(x)], events,
                                 life[x.owner], main[x.owner]))
          /\ Pair(x) \in Conns /\ Pair(Pair(x)) = x
      BY OfConnections
    <3>2. Pair(x) # c /\ Pair(x) # n
      BY <1>1, <2>3, <3>1 DEF n
    <3>3. conn'[x] = conn[x] /\ conn'[Pair(x)] = conn[Pair(x)]
      BY <1>5, <2>3, <3>1, <3>2
    <3>4. /\ SameWire(wire, wire', x) /\ SameQueue(events, events', x)
          /\ SameQueue(events, events', Pair(x))
      BY <1>7, <1>9, <2>3, <3>1, <3>2 DEF SameWire
    <3>5. ConnInv(x, conn[x], wire', events', life[x.owner], main[x.owner])
      BY <3>1, <3>4, ConnSame
    <3>6. ~x.poll => PairInv(x, conn[x], Pair(x), conn[Pair(x)], events',
                             life[x.owner], main[x.owner])
      BY <3>1, <3>4, PairSame
    <3> QED BY <3>3, <3>5, <3>6 DEF ConnInvNext, PairInvNext
  <2> QED BY <2>1, <2>2, <2>3
<1>22. EachNext
  BY <1>1, <1>20, <1>21, OneProcess DEF ConnectionsInv
<1> QED BY <1>6, <1>13, <1>14, <1>22

\* A pair that has just been made is listed, and has used nothing.
Grows(list, more, cs, ds, c, d) ==
  /\ \A x : x \in ToSet(more) <=> x \in ToSet(list) \/ x = c
  /\ \A x \in Conns : ds[x].used = cs[x].used
  /\ \A x \in Conns : x \notin {c, d} =>
       ds[x].link = cs[x].link /\ ds[x].isPoll = cs[x].isPoll
  /\ c \notin ToSet(list) /\ (ds[c].isPoll \/ ds[c].link = Null)
  /\ d \in Conns => /\ cs[d].link = Null /\ ds[d].link = c
                    /\ cs[d].used = 0 /\ cs[c].used = 0

LEMMA ListingGrows ==
  ASSUME NEW list \in Seq(Conns), NEW more \in Seq(Conns), NEW c \in Conns, NEW d,
         NEW cs \in [Conns -> Connection], NEW ds, Grows(list, more, cs, ds, c, d)
  PROVE  /\ Listing(list, cs) \subseteq Listing(more, ds)
         /\ \A x \in Listing(more, ds) \ Listing(list, cs) : x.used = 0
<1>1. /\ ToSet(list) \subseteq Conns /\ ToSet(more) \subseteq Conns
      /\ \A x \in Conns : cs[x].link \in Conns \cup {Null}
  BY ListIs DEF Connection
<1> USE DEF Grows
<1>2. ASSUME NEW x \in Listing(list, cs)
      PROVE  x \in Listing(more, ds)
  <2>1. PICK a \in ToSet(list) :
          /\ cs[a].link # Null /\ ~cs[a].isPoll
          /\ x = [conn |-> a, used |-> cs[a].used + cs[cs[a].link].used]
    BY <1>2, ListingIs
  <2>2. a \in Conns /\ a \notin {c, d} /\ a \in ToSet(more) /\ cs[a].link \in Conns
    BY <1>1, <2>1
  <2>3. /\ ds[a].link = cs[a].link /\ ds[a].isPoll = cs[a].isPoll
        /\ ds[a].used = cs[a].used /\ ds[ds[a].link].used = cs[cs[a].link].used
    BY <2>2
  <2>4. x = [conn |-> a, used |-> ds[a].used + ds[ds[a].link].used]
    BY <2>1, <2>3
  <2> QED BY <2>1, <2>2, <2>3, <2>4, ListingIs
<1>3. ASSUME NEW x \in Listing(more, ds), x \notin Listing(list, cs)
      PROVE  x.used = 0
  <2>1. PICK a \in ToSet(more) :
          /\ ds[a].link # Null /\ ~ds[a].isPoll
          /\ x = [conn |-> a, used |-> ds[a].used + ds[ds[a].link].used]
    BY <1>3, ListingIs
  <2>2. a \in Conns /\ a \in ToSet(list) /\ a # c
    BY <1>1, <2>1
  <2>3. a = d
    <3> SUFFICES ASSUME a # d PROVE FALSE
      OBVIOUS
    <3>1. ds[a].link = cs[a].link /\ ds[a].isPoll = cs[a].isPoll /\ cs[a].link \in Conns
      BY <1>1, <2>1, <2>2
    <3>2. ds[a].used = cs[a].used /\ ds[ds[a].link].used = cs[cs[a].link].used
      BY <2>2, <3>1
    <3>3. x = [conn |-> a, used |-> cs[a].used + cs[cs[a].link].used]
      BY <2>1, <3>2
    <3> QED BY <1>3, <2>1, <2>2, <3>1, <3>3, NullAssumption, ListingIs
  <2>4. ds[a].used = 0 /\ ds[ds[a].link].used = 0
    BY <2>2, <2>3
  <2> QED BY <2>1, <2>4
<1> QED BY <1>2, <1>3

LEMMA RequestAccepted ==
  ASSUME ConnectionsInv, NEW c \in Conns, NEW state \in {"connecting", "init"},
         Event("request", c), faults' \in Faults,
         conn' = Accepted(c, IsExistConnection(c), state),
         \/ wire' = wire
         \/ wire' = wire \cup {Message("accept", c)} /\ Held(c) /\ state = "connecting",
         IF watcherTrans = Null
         THEN watcherTrans' = c /\ UNCHANGED <<clientList, curConnections>>
         ELSE /\ clientList' = Append(clientList, c)
              /\ curConnections' = curConnections + 1
              /\ UNCHANGED watcherTrans,
         UNCHANGED view, UNCHANGED process
  PROVE  ConnectionsInv'
<1> DEFINE d == IsExistConnection(c)
<1>1. /\ life' = life /\ main' = main /\ loop' = loop /\ stop' = stop /\ view' = view
  BY DEF process
<1>2. /\ Types /\ WatcherInv /\ ListExact /\ ViewCurrent
      /\ conn \in [Conns -> Connection] /\ watcherTrans \in Conns \cup {Null}
      /\ clientList \in Seq(Conns) /\ curConnections \in Nat
      /\ view \subseteq [conn : Conns, used : 0 .. 2]
  BY DEF ConnectionsInv, Types, TypeOK
<1>3. /\ events' \in Seq(EventMessages) /\ OrderInv(events')
      /\ Queued(events, "request", c)
      /\ c.poll => ~Queued(events, "established", Pair(c))
  BY EventIs
<1>4. /\ d \in {Null, Pair(c)} /\ (d # Null => c.poll /\ conn[d].known)
      /\ c.poll /\ conn[Pair(c)].mine = "connected" => d = Pair(c)
  BY <1>3, PartnerIs
<1>5. /\ conn[c].srv = "none" /\ conn[c].used = 0 /\ c.life = life[c.owner]
      /\ ~Later(c, life[c.owner], main[c.owner])
      /\ c.poll => c.owner \in Clients /\ conn[Pair(c)].link = Null
                   /\ conn[Pair(c)].used = 0
  BY <1>3, RequestIs
<1> HIDE DEF d
<1>6. conn' = Accepted(c, d, state)
  BY DEF d
<1>7. /\ EachNext /\ conn' \in [Conns -> Connection]
      /\ \A x \in Conns : /\ x \notin {c, d} => conn'[x] = conn[x]
                          /\ conn'[x].mine = conn[x].mine
                          /\ conn'[x].used = conn[x].used
                          /\ conn'[x].known = conn[x].known
                          /\ x # c => /\ conn'[x].srv = conn[x].srv
                                      /\ conn'[x].isPoll = conn[x].isPoll
      /\ conn'[c].srv = state /\ conn'[c].link = d /\ (conn'[c].isPoll <=> d # Null)
  BY <1>1, <1>3, <1>4, <1>6, AcceptedEach
<1>8. \A m \in wire' : m \in wire \/ (/\ m.conn \in Conns /\ Held(m.conn)
                                      /\ m.kind \notin {"info_request", "info_response"})
  BY MessageIs
<1> DEFINE L == {x \in Conns : conn[x].srv \in {"init", "connecting", "connected"}}
           M == {x \in Conns : conn'[x].srv \in {"init", "connecting", "connected"}}
<1>9. M = L \cup {c} /\ c \notin L
  <2>1. \A x \in Conns : x # c => conn'[x].srv = conn[x].srv
    BY <1>7
  <2>2. conn'[c].srv \in {"init", "connecting"}
    BY <1>7
  <2> QED BY <1>5, <2>1, <2>2
<1>10. ToSet(clientList) = L \ {watcherTrans} /\ IsInjective(clientList)
       /\ curConnections = Len(clientList)
  BY <1>2 DEF ListExact
<1> HIDE DEF L, M
<1>11. ListExact' <=>
         /\ IsInjective(clientList') /\ ToSet(clientList') = M \ {watcherTrans'}
         /\ curConnections' = Len(clientList')
  BY DEF ListExact, M
<1>12. CASE watcherTrans = Null
  <2>1. watcherTrans' = c /\ clientList' = clientList /\ curConnections' = curConnections
    BY <1>12
  <2>2. /\ \A x \in Conns : x.owner \in Clients => NoneQueued(events, x)
        /\ view = {} /\ ToSet(clientList) = {} /\ Listing(clientList, conn') = {}
    BY <1>12, NoClientYet
  <2>3. c.owner = Watcher
    BY <1>3, <2>2, ConnNames DEF NoneQueued, Processes
  <2>4. L = {}
    BY <1>10, <1>12, <2>2, NullAssumption DEF L
  <2>5. ListExact'
    BY <1>9, <1>10, <1>11, <2>1, <2>2, <2>4
  <2>6. ViewCurrent'
    BY <1>1, <2>1, <2>2 DEF ViewCurrent
  <2>7. WatcherInv'
    <3>1. \A x \in Conns : conn'[x].srv # "none" /\ x.owner = Watcher => x = c
      BY <1>2, <1>7, <1>12, NullAssumption DEF WatcherInv
    <3>2. \A p \in Clients : ~(life[p] >= 1)
      BY <1>2, <1>12 DEF WatcherInv
    <3>3. conn'[c].srv # "none"
      BY <1>7
    <3> QED BY <1>1, <1>2, <2>1, <2>2, <2>3, <3>1, <3>2, <3>3 DEF WatcherInv
  <2> QED BY <1>1, <1>2, <1>3, <1>7, <1>8, <2>1, <2>5, <2>6, <2>7, ServerStep
<1>13. CASE watcherTrans # Null
  <2> DEFINE w == watcherTrans
  <2>1. w' = w /\ clientList' = Append(clientList, c) /\ curConnections' = curConnections + 1
    BY <1>13
  <2>2. w \in Conns /\ w.owner = Watcher /\ conn[w].srv # "none"
    BY <1>2, <1>13 DEF WatcherInv
  <2>3. c.owner \in Clients
    <3> SUFFICES ASSUME c.owner = Watcher PROVE FALSE
      BY ConnNames DEF Processes
    <3>1. ~c.poll /\ c.life = life[Watcher] /\ life[Watcher] <= 1
      BY <1>2, <1>5 DEF Later, WatcherInv
    <3>2. ~Later(w, life[Watcher], main[Watcher])
      BY <2>2, OfConnections DEF ConnInv, LifeInv
    <3>3. ~(w.life > life[Watcher]) /\ ~w.poll
      BY <2>2, <3>2 DEF Later
    <3>4. /\ w.life \in Nat /\ w.life >= 1 /\ c.life \in Nat /\ c.life >= 1
          /\ w.poll \in BOOLEAN /\ c.poll \in BOOLEAN
      BY <2>2, ConnNames
    <3>5. w.life = c.life
      BY <3>1, <3>3, <3>4
    <3>6. w = c
      BY <2>2, <3>1, <3>3, <3>4, <3>5, ConnNames
    <3> QED BY <1>5, <2>2, <3>6
  <2>4. w # c /\ w # d
    BY <1>4, <2>2, <2>3, ConnNames, ProcessesAssumption, NullAssumption
  <2>5. conn'[w] = conn[w]
    BY <1>7, <2>2, <2>4
  <2>6. c \notin ToSet(clientList)
    BY <1>9, <1>10
  <2>7. /\ clientList' \in Seq(Conns) /\ IsInjective(clientList')
        /\ Len(clientList') = Len(clientList) + 1
        /\ \A x : x \in ToSet(clientList') <=> x \in ToSet(clientList) \/ x = c
    BY <1>2, <1>10, <2>1, <2>6, ListAdd
  <2>8. ListExact'
    <3>1. ToSet(clientList') = M \ {w}
      BY <1>9, <1>10, <2>4, <2>7
    <3> QED BY <1>10, <1>11, <2>1, <2>7, <3>1
  <2>9. curConnections' \in Nat
    BY <1>2, <2>1
  <2>10. WatcherInv'
    <3>1. \A p \in Clients : life'[p] >= 1 => w' # Null /\ conn'[w'].known
      BY <1>1, <1>2, <2>1, <2>5 DEF WatcherInv
    <3>2. \A x \in Conns : conn'[x].srv # "none" /\ x.owner = Watcher => x = w'
      BY <1>2, <1>7, <2>1, <2>3, ProcessesAssumption DEF WatcherInv
    <3>3. view' # {} => w' # Null /\ conn'[w'].known
      BY <1>1, <1>2, <2>1, <2>5 DEF WatcherInv
    <3> QED BY <1>1, <1>2, <2>1, <2>2, <2>5, <3>1, <3>2, <3>3 DEF WatcherInv
  <2>11. ViewCurrent'
    <3> SUFFICES ASSUME WatcherIsUp', Held(watcherTrans)'
                 PROVE  /\ view \subseteq Listing(clientList', conn')
                        /\ \A x \in Listing(clientList', conn') \ view : x.used = 0
      BY <1>1 DEF ViewCurrent
    <3>1. WatcherIsUp /\ Held(w)
      BY <2>1, <2>5 DEF WatcherIsUp, Held
    <3>2. /\ view \subseteq Listing(clientList, conn)
          /\ \A x \in Listing(clientList, conn) \ view : x.used = 0
      BY <1>2, <3>1 DEF ViewCurrent
    <3>3. d \in Conns => /\ conn[d].link = Null /\ conn'[d].link = c
                         /\ conn[d].used = 0 /\ conn[c].used = 0
      <4> SUFFICES ASSUME d \in Conns
                   PROVE  /\ conn[d].link = Null /\ conn'[d].link = c
                          /\ conn[d].used = 0 /\ conn[c].used = 0
        OBVIOUS
      <4>1. d = Pair(c) /\ c.poll /\ d # c
        BY <1>4, NullAssumption, ConnNames
      <4>2. conn'[d] = [conn[d] EXCEPT !.link = c]
        BY <1>6, <4>1 DEF Accepted
      <4>3. conn[d] \in Connection
        BY <1>2
      <4>4. conn'[d].link = c
        BY <4>2, <4>3 DEF Connection
      <4> QED BY <1>5, <4>1, <4>4
    <3>4. conn'[c].isPoll \/ conn'[c].link = Null
      BY <1>7
    <3>5. \A x \in Conns : conn'[x].used = conn[x].used
      BY <1>7
    <3>6. \A x \in Conns : x \notin {c, d} =>
            conn'[x].link = conn[x].link /\ conn'[x].isPoll = conn[x].isPoll
      BY <1>7
    <3>7. /\ Listing(clientList, conn) \subseteq Listing(clientList', conn')
          /\ \A x \in Listing(clientList', conn') \ Listing(clientList, conn) : x.used = 0
      <4> DEFINE more == clientList'
                 ds == conn'
      <4>1. /\ clientList \in Seq(Conns) /\ more \in Seq(Conns)
            /\ conn \in [Conns -> Connection] /\ c \notin ToSet(clientList)
            /\ \A x : x \in ToSet(more) <=> x \in ToSet(clientList) \/ x = c
        BY <1>2, <2>6, <2>7
      <4>2. /\ \A x \in Conns : ds[x].used = conn[x].used
            /\ \A x \in Conns : x \notin {c, d} =>
                 ds[x].link = conn[x].link /\ ds[x].isPoll = conn[x].isPoll
            /\ ds[c].isPoll \/ ds[c].link = Null
        BY <3>4, <3>5, <3>6
      <4>3. d \in Conns => /\ conn[d].link = Null /\ ds[d].link = c
                           /\ conn[d].used = 0 /\ conn[c].used = 0
        BY <3>3
      <4> HIDE DEF more, ds
      <4>4. /\ Listing(clientList, conn) \subseteq Listing(more, ds)
            /\ \A x \in Listing(more, ds) \ Listing(clientList, conn) : x.used = 0
        <5>1. Grows(clientList, more, conn, ds, c, d)
          BY <4>1, <4>2, <4>3 DEF Grows
        <5> QED BY <4>1, <5>1, ListingGrows
      <4> QED BY <4>4 DEF more, ds
    <3> QED BY <3>2, <3>7
  <2> HIDE DEF w
  <2> QED BY <1>1, <1>2, <1>3, <1>7, <1>8, <1>13, <2>1, <2>7, <2>8, <2>9, <2>10, <2>11,
             ServerStep DEF w
<1> QED BY <1>12, <1>13

LEMMA ConnectRequestKeeps ==
  ASSUME ConnectionsInv, ConnectRequest
  PROVE  ConnectionsInv'
<1>1. PICK c \in Conns :
        /\ Event("request", c) /\ UNCHANGED process
        /\ \/ Fault /\ UNCHANGED <<conn, wire, server>>
           \/ /\ \/ /\ conn' = Accepted(c, IsExistConnection(c), "connecting")
                    /\ IF Held(c) THEN Send("accept", c) ELSE UNCHANGED wire
                    /\ UNCHANGED faults
                 \/ /\ Fault
                    /\ conn' = Accepted(c, IsExistConnection(c), "init")
                    /\ UNCHANGED wire
              /\ IF watcherTrans = Null
                 THEN watcherTrans' = c /\ UNCHANGED <<clientList, curConnections>>
                 ELSE /\ clientList' = Append(clientList, c)
                      /\ curConnections' = curConnections + 1
                      /\ UNCHANGED watcherTrans
              /\ UNCHANGED view
  BY DEF ConnectRequest
<1>2. faults \in Faults
  BY DEF ConnectionsInv, Types, TypeOK
<1>3. (UNCHANGED faults \/ Fault) => faults' \in Faults
  BY <1>2, BoundsAssumption DEF Fault, Faults
<1>4. CASE Fault /\ UNCHANGED <<conn, wire, server>>
  BY <1>1, <1>4, RequestDropped
<1>5. CASE ~(Fault /\ UNCHANGED <<conn, wire, server>>)
  <2>1. /\ IF watcherTrans = Null
           THEN watcherTrans' = c /\ UNCHANGED <<clientList, curConnections>>
           ELSE /\ clientList' = Append(clientList, c)
                /\ curConnections' = curConnections + 1
                /\ UNCHANGED watcherTrans
        /\ UNCHANGED view /\ faults' \in Faults
    BY <1>1, <1>3, <1>5
  <2>2. CASE /\ conn' = Accepted(c, IsExistConnection(c), "connecting")
             /\ IF Held(c) THEN Send("accept", c) ELSE UNCHANGED wire
    <3>1. \/ wire' = wire
          \/ wire' = wire \cup {Message("accept", c)} /\ Held(c)
      BY <2>2 DEF Send
    <3> QED BY <1>1, <2>1, <2>2, <3>1, RequestAccepted
  <2>3. CASE conn' = Accepted(c, IsExistConnection(c), "init") /\ UNCHANGED wire
    BY <1>1, <2>1, <2>3, RequestAccepted
  <2> QED BY <1>1, <1>5, <2>2, <2>3
<1> QED BY <1>4, <1>5

(***************************************************************************)
(* The invariant, and what it says of every installation.                  *)
(***************************************************************************)
LEMMA ConnectionsStutter ==
  ASSUME ConnectionsInv, UNCHANGED vars
  PROVE  ConnectionsInv'
<1>1. /\ conn' = conn /\ life' = life /\ main' = main /\ loop' = loop /\ stop' = stop
      /\ wire' = wire /\ events' = events /\ watcherTrans' = watcherTrans
      /\ clientList' = clientList /\ curConnections' = curConnections
      /\ view' = view /\ faults' = faults
  BY DEF vars, process, server
<1>2. Types' /\ WireInv' /\ WatcherInv'
  BY <1>1 DEF ConnectionsInv, Types, TypeOK, WireInv, WatcherInv, Held
<1>3. EachConn' /\ EachPair' /\ OrderInv(events')
  BY <1>1 DEF ConnectionsInv, EachConn, EachPair
<1>4. ListExact' /\ ViewCurrent'
  BY <1>1 DEF ConnectionsInv, ListExact, ViewCurrent, WatcherIsUp, Held, Listing
<1> QED BY <1>2, <1>3, <1>4 DEF ConnectionsInv

LEMMA ConnectionsNext == ConnectionsInv /\ [Next]_vars => ConnectionsInv'
<1> SUFFICES ASSUME ConnectionsInv, [Next]_vars PROVE ConnectionsInv'
  OBVIOUS
<1>1. faults \in Faults
  BY DEF ConnectionsInv, Types, TypeOK
<1>2. ASSUME NEW p \in Processes, Exit(p) PROVE ConnectionsInv'
  BY <1>1, <1>2, GoneKeeps DEF Exit
<1>3. ASSUME NEW p \in Processes, Die(p) PROVE ConnectionsInv'
  <2>1. Gone(p) /\ faults' \in Faults
    BY <1>1, <1>3, BoundsAssumption DEF Die, Fault, Faults
  <2> QED BY <2>1, GoneKeeps
<1>4. ASSUME NEW p \in Processes, MainSteps(p) PROVE ConnectionsInv'
  BY <1>2, <1>4, MarkKeeps, ConnectDoneKeeps, PollDoneKeeps, ClosePollKeeps, LeaveKeeps
     DEF MainSteps
<1>5. ASSUME NEW p \in Processes, EpollSteps(p) PROVE ConnectionsInv'
  BY <1>5, RouteResolvedKeeps, EstablishedKeeps, DisconnectedKeeps, InfoResponseKeeps
     DEF EpollSteps
<1>6. ASSUME ServerSteps PROVE ConnectionsInv'
  BY <1>6, ConnectRequestKeeps, ServerEstablishedKeeps, ServerDisconnectedKeeps,
     CloseRequestKeeps, InfoRequestKeeps DEF ServerSteps
<1>7. ASSUME NEW p \in Processes, Start(p) \/ CloseConnect(p) \/ Account(p)
      PROVE  ConnectionsInv'
  BY <1>7, StartKeeps, CloseConnectKeeps, AccountKeeps
<1>8. CASE UNCHANGED vars
  BY <1>8, ConnectionsStutter
<1> QED BY <1>3, <1>4, <1>5, <1>6, <1>7, <1>8, ConnectionEndsKeeps DEF Next

\* The invariant holds of every step of every thread, process and handler.
THEOREM ConnectionsInvariant == Spec => []ConnectionsInv
<1> QED BY InitConnections, ConnectionsNext, PTL DEF Spec

\* Every variable has its type; cur_connections, which on_cm_disconnected
\* decrements without a look (dhmp_transport.c:1351), stays a natural number.
THEOREM ConnectionsTypes == Spec => []TypeOK
<1>1. ConnectionsInv => TypeOK
  BY DEF ConnectionsInv, Types
<1> QED BY <1>1, ConnectionsInvariant, PTL

\* client_list holds the accepted transports that have not been told to be
\* disconnected, each once, and cur_connections is its length
\* (dhmp_transport.c:1273, 1351), whatever died or failed before.
THEOREM ConnectionsList == Spec => []ListExact
<1>1. ConnectionsInv => ListExact
  BY DEF ConnectionsInv
<1> QED BY <1>1, ConnectionsInvariant, PTL

\* What the watcher was told last is what it would be told now, but for pairs
\* that have used nothing yet (dhmp_inform_watcher_func): a new pair is not
\* reported, and needs not be.
THEOREM ConnectionsView == Spec => []ViewCurrent
<1>1. ConnectionsInv => ViewCurrent
  BY DEF ConnectionsInv
<1> QED BY <1>1, ConnectionsInvariant, PTL

\* Two connected transports of a running client are up, both of them, and
\* linked with each other at the server.
LEMMA ConnectedPair ==
  ASSUME ConnectionsInv, NEW p \in Clients, Connected(p)
  PROVE  LET n == ConnectTrans(p)
             q == PollTrans(p)
         IN  /\ n \in Conns /\ conn[n].srv = "connected"
             /\ conn[n].link = q /\ conn[q].link = n
             /\ ~conn[n].isPoll /\ conn[q].isPoll
<1> DEFINE n == ConnectTrans(p)
           q == PollTrans(p)
<1>1. /\ Types /\ p \in Processes /\ life \in [Processes -> 0 .. MaxLives]
      /\ main[p] = "running"
  BY DEF ConnectionsInv, Types, TypeOK, Processes, Connected
<1>2. life[p] \in Lives
  <2>1. life[p] \in 0 .. MaxLives /\ life[p] >= 1
    BY <1>1 DEF Types
  <2> QED BY <2>1, BoundsAssumption DEF Lives
<1>3. /\ n \in Conns /\ q \in Conns /\ n.owner = p /\ q.owner = p
      /\ n.life = life[p] /\ q.life = life[p] /\ ~n.poll /\ q.poll /\ Pair(n) = q
      /\ Null # n
  BY <1>1, <1>2, TransNames, NullAssumption
<1> HIDE DEF n, q
<1>4. /\ ConnInv(n, conn[n], wire, events, life[p], "running")
      /\ ConnInv(q, conn[q], wire, events, life[p], "running")
      /\ PairInv(n, conn[n], q, conn[q], events, life[p], "running")
  <2>1. /\ ConnInv(n, conn[n], wire, events, life[n.owner], main[n.owner])
        /\ PairInv(n, conn[n], Pair(n), conn[Pair(n)], events,
                   life[n.owner], main[n.owner])
        /\ ConnInv(q, conn[q], wire, events, life[q.owner], main[q.owner])
    BY <1>3, OfConnections
  <2> QED BY <1>1, <1>3, <2>1
<1>5. RHeld(conn[n]) /\ RHeld(conn[q])
  BY <1>3, <1>4 DEF ConnInv, HeldInv
<1>6. conn[n].mine = "connected" /\ conn[q].mine = "connected"
  BY <1>3, <1>5 DEF Connected, Transports, Held, RHeld
<1>7. conn[n].up = "yes" /\ conn[q].up = "yes"
  BY <1>4, <1>6 DEF ConnInv, EndInv
<1>8. conn[q].srv # "none"
  BY <1>4, <1>7 DEF ConnInv, EndInv, TokenInv
<1>9. conn[n].known /\ conn[n].link = q /\ conn[q].link = n
  BY <1>4, <1>6, <1>8 DEF PairInv
<1>10. conn[n].srv = "connected"
  BY <1>4, <1>7, <1>9 DEF ConnInv, EndInv, TokenInv, ServerInv
<1>11. ~conn[n].isPoll /\ conn[q].isPoll
  BY <1>3, <1>4, <1>9 DEF ConnInv, ServerInv
<1> QED BY <1>3, <1>9, <1>10, <1>11 DEF n, q

\* A client whose dhmp_client_init has returned with both transports
\* connected has them linked as a pair at the server, the poll transport as
\* the poll transport (dhmp_transport.c:1245), whatever else is in the list.
THEOREM ConnectionsPairs == Spec => []PairsRight
<1>1. ConnectionsInv => PairsRight
  BY ConnectedPair DEF PairsRight
<1> QED BY <1>1, ConnectionsInvariant, PTL

\* The server sees the connect transport of such a client CONNECTED: an answer
\* to its first malloc is not dropped by dhmp_post_send (dhmp_transport.c:1742).
THEOREM ConnectionsReady == Spec => []ReadyBeforeUse
<1>1. ConnectionsInv => ReadyBeforeUse
  BY ConnectedPair DEF ReadyBeforeUse
<1> QED BY <1>1, ConnectionsInvariant, PTL

\* A transport that stays in client_list for good, since its handshake died,
\* has no peer address: dhmp_is_exist_connection never takes it for the
\* partner of a later transport (dhmp_transport.c:1204).
THEOREM ConnectionsDeadEntries == Spec => []DeadEntriesAreNameless
<1>1. ASSUME ConnectionsInv PROVE DeadEntriesAreNameless
  <2> SUFFICES ASSUME NEW i \in DOMAIN clientList, NEW c, c = clientList[i],
                      conn[c].up = "no", \A j \in DOMAIN events : events[j].conn # c
               PROVE  ~conn[c].known
    BY DEF DeadEntriesAreNameless
  <2>1. /\ clientList \in Seq(Conns) /\ events \in Seq(EventMessages) /\ ListExact
    BY <1>1 DEF ConnectionsInv, Types, TypeOK
  <2>2. c \in ToSet(clientList)
    BY DEF ToSet
  <2>3. c \in Conns /\ conn[c].srv \in {"init", "connecting", "connected"}
    BY <2>1, <2>2 DEF ListExact
  <2>4. ConnInv(c, conn[c], wire, events, life[c.owner], main[c.owner])
    BY <1>1, <2>3, OfConnections
  <2>5. ~Queued(events, "disconnected", c)
    <3>1. DOMAIN events = 1 .. Len(events)
      BY <2>1, LenProperties
    <3> QED BY <3>1, MessageIs DEF Queued
  <2>6. conn[c].srv # "connected"
    BY <2>4, <2>5 DEF ConnInv, EndInv
  <2> QED BY <2>3, <2>4, <2>6 DEF ConnInv, ServerInv
<1> QED BY <1>1, ConnectionsInvariant, PTL
=============================================================================
