----------------------------- MODULE DramCache -----------------------------
(***************************************************************************)
(* How a Gengar client and the servers manage the DRAM copies of hot NVM   *)
(* objects.  A timer makes the client's work thread run dhmp_poll_ht_func: *)
(* it looks at the accesses since the last cycle, asks each server to drop *)
(* the copies of cold objects (CLEAR) and to make copies of hot ones       *)
(* (APPLY), and spins until poll_num says that all were answered.  The     *)
(* answers are handled, and poll_num is decremented, by the epoll thread   *)
(* of the client.  Requests and answers of one server travel in order on   *)
(* the poll connection; malloc and free use the other one.                 *)
(*                                                                         *)
(* The work thread handles one work at a time: a malloc, a free or a poll  *)
(* cycle.  ++poll_num of the work thread and --poll_num of the epoll       *)
(* thread are a load and a store each, under no lock.                      *)
(***************************************************************************)
EXTENDS Integers, FiniteSets, CacheModel

CONSTANTS
  NodeNum,        \* DHMP_SERVER_NODE_NUM
  Objects,        \* the NVM objects: a node and an address there
  NodeOf,         \* NodeOf[o]: the server that holds o
  Length,         \* Length[o]: the bytes of o
  Quotas,         \* what DHMP_SERVER_DRAM_TH*2/cur_connections may be
  MaxRw,          \* the bound on the accesses of an object in a cycle
  FirstThreshold, \* the threshold of dhmp_client_init (2)
  ResetThreshold, \* the threshold after a return to the pool policy (5)
  HeapMayFail,    \* whether the server may find no memory for a copy
  RacyPollNum     \* whether the ++ and the -- of poll_num may overlap

\* The servers, by node index.
Servers == 0 .. NodeNum - 1

\* A node has finitely many addresses, and no quota exceeds the DRAM that the
\* servers are configured with.
ASSUME ObjectsAssumption ==
  /\ IsFiniteSet(Objects)
  /\ NodeNum \in Nat \ {0}
  /\ NodeOf \in [Objects -> Servers]
  /\ Length \in [Objects -> Nat \ {0}]
ASSUME BoundsAssumption ==
  /\ Quotas \subseteq Nat
  /\ \E most \in Quotas : \A q \in Quotas : q <= most
  /\ MaxRw \in Nat
  /\ FirstThreshold \in Nat
  /\ ResetThreshold \in Nat
  /\ HeapMayFail \in BOOLEAN
  /\ RacyPollNum \in BOOLEAN

VARIABLES
  known,      \* the objects with an addr_info in addr_info_ht
  inDram,     \* those whose dram_mr.addr is not NULL
  policy,     \* dram_threshold_policy: TRUE is pool, FALSE is cache
  threshold,  \* client->threshold
  asked,      \* the objects of hot_nvm: req_dram_size is their size
  work,       \* what the work thread is doing
  pollNum,    \* client->poll_num
  workReg,    \* what the work thread's ++ has loaded
  epollReg,   \* what the epoll thread's -- has loaded
  toServer,   \* the requests under way to each server
  toClient,   \* the answers under way from each server
  copies,     \* copies[o]: the entries of o in the server's dram_ht
  pollUsed,   \* dram_used_size of the poll connection
  connUsed    \* dram_used_size of the other connection

client == <<known, inDram, policy, threshold, asked, work>>
counter == <<pollNum, workReg, epollReg>>
channels == <<toServer, toClient>>
server == <<copies, pollUsed, connUsed>>
vars == <<client, counter, channels, server>>

None == -1
Idle == [at |-> "idle"]

SizeOf(os) == MapThenSumSet(LAMBDA o : Length[o], os)
ObjectsOf(s) == {o \in Objects : NodeOf[o] = s}

\* server->dram_used_size, which both handlers change with their own
\* connection's, is the sum of the two.
DramUsed(s) == pollUsed[s] + connUsed[s]

Init ==
  /\ known = {} /\ inDram = {}
  /\ policy = [s \in Servers |-> TRUE]
  /\ threshold = [s \in Servers |-> FirstThreshold]
  /\ asked = [s \in Servers |-> {}]
  /\ work = Idle
  /\ pollNum = 0 /\ workReg = None /\ epollReg = None
  /\ toServer = [s \in Servers |-> <<>>]
  /\ toClient = [s \in Servers |-> <<>>]
  /\ copies = [o \in Objects |-> 0]
  /\ pollUsed = [s \in Servers |-> 0]
  /\ connUsed = [s \in Servers |-> 0]

(***************************************************************************)
(* malloc and free: the work thread sends the request and spins until the  *)
(* answer is there.  A malloc changes nothing here but known.              *)
(***************************************************************************)
Malloc(o) ==
  /\ work = Idle
  /\ o \notin known
  /\ known' = known \cup {o}
  /\ UNCHANGED <<inDram, policy, threshold, asked, work, counter, channels, server>>

\* dhmp_free_work_handler: the addr_info leaves the hash table first.
Free(o) ==
  /\ work = Idle
  /\ o \in known
  /\ known' = known \ {o}
  /\ inDram' = inDram \ {o}
  /\ work' = [at |-> "free", obj |-> o]
  /\ UNCHANGED <<policy, threshold, asked, counter, channels, server>>

\* What the free takes off the account: nothing unless an entry was there.
SlipFreedBytes(o) == Length[o]
FreedBytes(o) == IF copies[o] > 0 THEN Length[o] ELSE 0

\* dhmp_free_request_handler, as far as DRAM is concerned, and the answer:
\* the entry of the object, if any, goes, and its size is taken from the
\* account of the connection the request came by.
ServerFree ==
  /\ work.at = "free"
  /\ LET o == work.obj
     IN /\ copies' = [copies EXCEPT ![o] = IF @ > 0 THEN @ - 1 ELSE @]
        /\ connUsed' = [connUsed EXCEPT ![NodeOf[o]] = @ - FreedBytes(o)]
  /\ work' = Idle
  /\ UNCHANGED <<known, inDram, policy, threshold, asked, counter, channels, pollUsed>>

(***************************************************************************)
(* A poll cycle of the client.                                             *)
(***************************************************************************)
\* res_dram_size is 0 whatever was granted, because
\* dhmp_apply_dram_response_handler looks its poll connection up among the
\* connect_trans, does not find it, and adds to the word after the array.
ResDramSize(s) == 0

\* dram_size_diff is unsigned: it is greater than 0 unless it is 0.
NextPolicy(s) == SizeOf(asked[s]) = ResDramSize(s)

NextThreshold(s) ==
  LET t == IF NextPolicy(s) /\ ~ policy[s] THEN ResetThreshold ELSE threshold[s]
  IN IF t = 0 THEN 1 ELSE t

\* What the cycle finds of an object: an entry of sa_entries.
Entry(o, rw) == [obj |-> o, rw |-> rw[o], inDram |-> o \in inDram]

\* Pool policy: every uncached object touched threshold' times.
PoolHot(s, rw) ==
  {o \in (known \ inDram) \cap ObjectsOf(s) :
     rw[o] > 0 /\ rw[o] >= NextThreshold(s)}

\* Cache policy: the objects touched threshold' times and the cached ones.
Candidates(s, rw) ==
  {o \in known \cap ObjectsOf(s) :
     rw[o] > 0 /\ (rw[o] >= NextThreshold(s) \/ o \in inDram)}

\* The orders the hash table may give the objects of a set, and those qsort
\* may leave them in.
ScanOrders(os) == SetToSeqs(os)
SortedOrders(os, rw) ==
  {q \in {[k \in DOMAIN p |-> Entry(p[k], rw)] : p \in SetToSeqs(os)} : Sorted(q)}

\* cold_nvm and hot_nvm of a server under the accesses rw: any of these.
Plans(s, rw) ==
  IF NextPolicy(s)
  THEN {[cold |-> <<>>, hot |-> p] : p \in ScanOrders(PoolHot(s, rw))}
  ELSE {LET r == HandleCacheModel(q, NextThreshold(s))
        IN [cold |-> [k \in DOMAIN r.cold |-> r.cold[k].obj],
            hot |-> [k \in DOMAIN r.hot |-> r.hot[k].obj]]
        : q \in SortedOrders(Candidates(s, rw), rw)}

SlipClear(s, plan) ==
  IF plan.cold = <<>> THEN <<>>
  ELSE <<[to |-> s, type |-> "clear", objs |-> plan.hot]>>
Clear(s, plan) ==
  IF plan.cold = <<>> THEN <<>>
  ELSE <<[to |-> s, type |-> "clear", objs |-> plan.cold]>>
Apply(s, plan) ==
  IF plan.hot = <<>> THEN <<>>
  ELSE <<[to |-> s, type |-> "apply", objs |-> plan.hot]>>

\* The requests of the cycle, server by server, CLEAR before APPLY.
Requests(plans) ==
  FlattenSeq([k \in 1 .. NodeNum |->
    Clear(k - 1, plans[k - 1]) \o Apply(k - 1, plans[k - 1])])

\* dhmp_poll_ht_func up to poll_num=0.  Reads and writes are works of the
\* same thread, so the counts do not change under it.
PollStart ==
  /\ work = Idle
  /\ \E rw \in [known -> 0 .. MaxRw] :
     \E plans \in {f \in [Servers -> UNION {Plans(s, rw) : s \in Servers}] :
                     \A s \in Servers : f[s] \in Plans(s, rw)} :
       /\ asked' = [s \in Servers |-> ToSet(plans[s].hot)]
       /\ work' = [at |-> "poll", todo |-> Requests(plans),
                   touched |-> \E o \in known : rw[o] > 0]
  /\ policy' = [s \in Servers |-> NextPolicy(s)]
  /\ threshold' = [s \in Servers |-> NextThreshold(s)]
  /\ pollNum' = 0
  /\ UNCHANGED <<known, inDram, workReg, epollReg, channels, server>>

\* ++client->poll_num, first half.
IncLoad ==
  /\ work.at = "poll" /\ work.todo # <<>>
  /\ workReg = None
  /\ RacyPollNum \/ epollReg = None
  /\ workReg' = pollNum
  /\ UNCHANGED <<client, pollNum, epollReg, channels, server>>

\* ++client->poll_num, second half, and dhmp_post_send on the poll
\* connection.
Send ==
  /\ workReg # None
  /\ pollNum' = workReg + 1
  /\ workReg' = None
  /\ LET m == Head(work.todo)
     IN toServer' = [toServer EXCEPT ![m.to] =
                       Append(@, [type |-> m.type, objs |-> m.objs])]
  /\ work' = [work EXCEPT !.todo = Tail(@)]
  /\ UNCHANGED <<known, inDram, policy, threshold, asked, epollReg, toClient, server>>

SlipWaited == pollNum < 0
SlipNotWaited == TRUE

\* while(poll_num>0) has ended.
Waited == pollNum <= 0

\* The wait for the answers ends, and the threshold of every server adapts: to
\* (int)(threshold*(1-det)+0.5) for some det in (0,1), or not at all.  What
\* det is comes from sums that are never initialised, so it may be any.
PollEnd ==
  /\ work.at = "poll" /\ work.todo = <<>>
  /\ Waited
  /\ \E t \in [Servers -> 0 .. Max({threshold[s] : s \in Servers})] :
       /\ \A s \in Servers : t[s] <= threshold[s]
       /\ ~ work.touched => t = threshold
       /\ threshold' = t
  /\ work' = Idle
  /\ UNCHANGED <<known, inDram, policy, asked, counter, channels, server>>

(***************************************************************************)
(* The server's handlers.                                                  *)
(***************************************************************************)
\* dhmp_clear_dram_request_handler: the entries go if they are there, and
\* the sizes are taken off whether they were or not.
ClearRequest(s) ==
  /\ toServer[s] # <<>> /\ Head(toServer[s]).type = "clear"
  /\ LET objs == ToSet(Head(toServer[s]).objs)
     IN /\ copies' = [o \in Objects |->
                        IF o \in objs /\ copies[o] > 0 THEN copies[o] - 1 ELSE copies[o]]
        /\ pollUsed' = [pollUsed EXCEPT ![s] = @ - SizeOf(objs)]
        /\ toClient' = [toClient EXCEPT ![s] =
                          Append(@, [type |-> "clear", objs |-> objs])]
  /\ toServer' = [toServer EXCEPT ![s] = Tail(@)]
  /\ UNCHANGED <<client, counter, connUsed>>

SlipFits(s, objs, fails, quota, n) ==
  \A k \in 1 .. n : pollUsed[s] + Length[objs[k]] <= quota

\* The first n objects of objs fit: before each, what the connection uses
\* (the objects of fails got no memory) and its own size are within quota.
Fits(s, objs, fails, quota, n) ==
  \A k \in 1 .. n :
    pollUsed[s] + SizeOf({objs[j] : j \in 1 .. k - 1} \ fails) + Length[objs[k]] <= quota

\* dhmp_apply_dram_request_handler: objects are taken in order until one
\* does not fit; an object no memory is found for is answered with NULL.
ApplyRequest(s) ==
  /\ toServer[s] # <<>> /\ Head(toServer[s]).type = "apply"
  /\ \E quota \in Quotas :
     LET objs == Head(toServer[s]).objs
     IN \E fails \in SUBSET (IF HeapMayFail THEN ToSet(objs) ELSE {}) :
        LET n == Max({k \in 0 .. Len(objs) : Fits(s, objs, fails, quota, k)})
            got == {objs[k] : k \in 1 .. n} \ fails
        IN /\ copies' = [o \in Objects |-> IF o \in got THEN copies[o] + 1 ELSE copies[o]]
           /\ pollUsed' = [pollUsed EXCEPT ![s] = @ + SizeOf(got)]
           /\ toClient' = [toClient EXCEPT ![s] =
                Append(@, [type |-> "apply", objs |-> got,
                           null |-> {objs[k] : k \in 1 .. n} \cap fails])]
  /\ toServer' = [toServer EXCEPT ![s] = Tail(@)]
  /\ UNCHANGED <<client, counter, connUsed>>

(***************************************************************************)
(* The client's epoll thread.  An answer for an object it no longer knows  *)
(* is logged and dropped.                                                  *)
(***************************************************************************)
\* A handler up to the load of --client->poll_num.
Response(s, type) ==
  /\ epollReg = None
  /\ RacyPollNum \/ workReg = None
  /\ toClient[s] # <<>> /\ Head(toClient[s]).type = type
  /\ epollReg' = pollNum
  /\ toClient' = [toClient EXCEPT ![s] = Tail(@)]
  /\ UNCHANGED <<known, policy, threshold, asked, work, pollNum, workReg, toServer, server>>

\* dhmp_clear_dram_response_handler
ClearResponse(s) ==
  /\ Response(s, "clear")
  /\ inDram' = inDram \ Head(toClient[s]).objs

\* dhmp_apply_dram_response_handler
ApplyResponse(s) ==
  /\ Response(s, "apply")
  /\ LET m == Head(toClient[s])
     IN inDram' = (inDram \ m.null) \cup (m.objs \cap known)

\* The store of --client->poll_num.
DecStore ==
  /\ epollReg # None
  /\ pollNum' = epollReg - 1
  /\ epollReg' = None
  /\ UNCHANGED <<client, workReg, channels, server>>

Next ==
  \/ \E o \in Objects : Malloc(o) \/ Free(o)
  \/ ServerFree
  \/ PollStart \/ IncLoad \/ Send \/ PollEnd
  \/ \E s \in Servers : ClearRequest(s) \/ ApplyRequest(s)
  \/ \E s \in Servers : ClearResponse(s) \/ ApplyResponse(s)
  \/ DecStore

Spec == Init /\ [][Next]_vars

\* Every thread runs on; the application and the timer need not.
Fairness ==
  /\ WF_vars(ServerFree)
  /\ WF_vars(IncLoad) /\ WF_vars(Send) /\ WF_vars(PollEnd)
  /\ \A s \in Servers :
       /\ WF_vars(ClearRequest(s)) /\ WF_vars(ApplyRequest(s))
       /\ WF_vars(ClearResponse(s)) /\ WF_vars(ApplyResponse(s))
  /\ WF_vars(DecStore)

FairSpec == Spec /\ Fairness
-----------------------------------------------------------------------------
(***************************************************************************)
(* Properties.                                                             *)
(***************************************************************************)
Ops == {Idle} \cup [at : {"free"}, obj : Objects]
         \cup [at : {"poll"}, touched : BOOLEAN,
              todo : Seq([to : Servers, type : {"clear", "apply"}, objs : Seq(Objects)])]

TypeOK ==
  /\ known \subseteq Objects /\ inDram \subseteq known
  /\ policy \in [Servers -> BOOLEAN]
  /\ threshold \in [Servers -> Nat]
  /\ asked \in [Servers -> SUBSET Objects]
  /\ work \in Ops
  /\ pollNum \in Int /\ workReg \in Int /\ epollReg \in Int
  /\ toServer \in [Servers -> Seq([type : {"clear", "apply"}, objs : Seq(Objects)])]
  /\ toClient \in [Servers -> Seq([type : {"clear"}, objs : SUBSET Objects]
       \cup [type : {"apply"}, objs : SUBSET Objects, null : SUBSET Objects])]
  /\ copies \in [Objects -> Nat]
  /\ pollUsed \in [Servers -> Nat] /\ connUsed \in [Servers -> Int]

Answered(o, type) ==
  \E m \in ToSet(toClient[NodeOf[o]]) : m.type = type /\ o \in m.objs
Freeing(o) == work.at = "free" /\ work.obj = o

\* The client knows of a copy exactly when the server has one, except that
\* an answer may be under way (or the free that destroys the copy), and the
\* server never has two: what an addr_info's dram_mr names is registered
\* memory whenever the work thread can read or write through it.
Agreement ==
  \A o \in Objects :
    copies[o] = IF \/ o \in inDram /\ ~ Answered(o, "clear")
                   \/ Answered(o, "apply")
                   \/ Freeing(o) /\ copies[o] > 0
                THEN 1 ELSE 0

CachedBytes(s) ==
  MapThenSumSet(LAMBDA o : copies[o] * Length[o], ObjectsOf(s))

\* README.md, "DRAM Used": dram_used_size, which CLEAR, APPLY and free change
\* in three places on two connections, is what the copies take.
UsedIsCached == \A s \in Servers : DramUsed(s) = CachedBytes(s)

\* The check before every copy keeps what a client has cached within the
\* largest quota that was in force.
WithinQuota == \A s \in Servers : CachedBytes(s) <= Max(Quotas)

\* dhmp_client.h: poll_num counts the requests sent and not answered, when
\* neither thread is in the middle of changing it.
PollNumCounts ==
  work.at = "poll" /\ workReg = None /\ epollReg = None
    => pollNum = MapThenSumSet(LAMBDA s : Len(toServer[s]) + Len(toClient[s]), Servers)

\* Every poll cycle comes to its end, and with it every malloc, free, read
\* and write queued behind it gets its turn.
PollEnds == work.at = "poll" ~> work.at = "idle"
=============================================================================
