------------------------------- MODULE Client -------------------------------
(***************************************************************************)
(* A Gengar client at work: application threads call dhmp_malloc,          *)
(* dhmp_free, dhmp_read and dhmp_write; each call is a work appended to    *)
(* work_list and a spin on its done_flag.  The work thread takes the works *)
(* one at a time, posts requests on the queue pair of the connection, and  *)
(* spins until the epoll thread has handled the completion or the answer   *)
(* -- except for a small write, which it leaves under way.                 *)
(*                                                                         *)
(* Under the calls a timer has poll cycles run, which move objects into    *)
(* and out of the server's DRAM (module DramCache says which; here any     *)
(* object may be moved, one per cycle).  Those messages travel on a        *)
(* connection of their own, unordered with the reads and writes.           *)
(*                                                                         *)
(* A reliable connection executes its requests in order; their completions *)
(* and the server's answers are taken to arrive in that order too.         *)
(***************************************************************************)
EXTENDS Integers, Sequences, FiniteSets, SequencesExt

CONSTANTS
  Apps,        \* the application threads
  Objects,     \* the NVM objects the server can grant
  Large,       \* the objects longer than RDMA_SEND_THREASHOLD
  Values,      \* what a write can write
  Buffers,     \* the registered buffers the client can have at once
  Junk,        \* the content of memory nobody has written
  Null,        \* a NULL address
  Wild         \* an address the server has never granted

ASSUME ClientAssumption ==
  /\ Large \subseteq Objects
  /\ Junk \notin Values
  /\ Null \notin Objects /\ Wild \notin Objects \cup {Null}
  /\ Apps \cap Buffers = {}

VARIABLES
  waiting,   \* the application threads that spin on a done_flag
  workList,  \* client->work_list
  work,      \* the work the work thread is at, and how far
  info,      \* nvm_mr.length and .addr of the addr_info of that work
  taskDone,  \* done_flag of the task the work thread spins on
  table,     \* the nvm_mr.addr of the addr_infos in addr_info_ht
  writeFlag, \* those whose write_flag is set
  inDram,    \* those whose dram_mr.addr is not NULL
  refusing,  \* the epoll thread is between the two stores of a refusal
  sendMrs,   \* send_mr_list: the registered buffers not in use
  buf,       \* the contents of the buffers, the callers' own included
  qp,        \* the requests posted on the connection and not executed
  cq,        \* completions and answers the epoll thread has not handled
  broken,    \* the queue pair is in the error state
  pollMsg,   \* the message under way on the poll connection
  granted,   \* server: the objects it has granted
  nvm, dram, \* server: the contents of the objects and of their copies
  copies,    \* server: the objects with an entry in dram_ht
  latest     \* history: the last value written to an object, and whether
             \* the object was moved since

app == <<waiting, workList>>
entry == <<table, writeFlag, inDram>>
net == <<qp, cq, broken, pollMsg>>
server == <<granted, nvm, dram, copies>>
vars == <<app, work, info, taskDone, entry, refusing, sendMrs, buf, net, server, latest>>

Idle == [at |-> "idle"]
None == [at |-> "none"]
Poll == [kind |-> "poll"]
NoInfo == [length |-> 0, addr |-> Null]

Jobs == [kind : {"malloc"}, app : Apps]
          \cup [kind : {"free", "read"}, app : Apps, obj : Objects]
          \cup [kind : {"write"}, app : Apps, obj : Objects, val : Values]

Init ==
  /\ waiting = {} /\ workList = <<>>
  /\ work = Idle
  /\ info = NoInfo
  /\ taskDone = FALSE
  /\ table = {} /\ writeFlag = {} /\ inDram = {}
  /\ refusing = FALSE
  /\ sendMrs = {} /\ buf = [b \in Buffers \cup Apps |-> Junk]
  /\ qp = <<>> /\ cq = <<>> /\ broken = FALSE /\ pollMsg = None
  /\ granted = {}
  /\ nvm = [o \in Objects |-> Junk] /\ dram = [o \in Objects |-> Junk]
  /\ copies = {}
  /\ latest = [o \in Objects |-> [val |-> Junk, moved |-> TRUE]]

(***************************************************************************)
(* The application threads and the timer.                                  *)
(***************************************************************************)
\* dhmp_malloc, dhmp_free, dhmp_read, dhmp_write.
Call(job) ==
  /\ job.app \notin waiting
  /\ waiting' = waiting \cup {job.app}
  /\ workList' = Append(workList, job)
  /\ UNCHANGED <<work, info, taskDone, entry, refusing, sendMrs, buf, net, server, latest>>

\* dhmp_poll_ht_thread.  The timer is armed again when the cycle ends.
PollTimer ==
  /\ Poll \notin ToSet(workList)
  /\ work.at # "idle" => work.job # Poll
  /\ workList' = Append(workList, Poll)
  /\ UNCHANGED <<waiting, work, info, taskDone, entry, refusing, sendMrs, buf, net, server, latest>>

(***************************************************************************)
(* The work thread.                                                        *)
(***************************************************************************)
\* dhmp_work_handle_thread takes the oldest work.
Take ==
  /\ work = Idle
  /\ workList # <<>>
  /\ work' = [at |-> "start", job |-> Head(workList)]
  /\ workList' = Tail(workList)
  /\ UNCHANGED <<waiting, info, taskDone, entry, refusing, sendMrs, buf, net, server, latest>>

Starts(kind) == work.at = "start" /\ work.job.kind = kind

\* done_flag=true: the caller returns.  The task the work spun on is over,
\* and its addr_info is in the hash table or freed.
Done ==
  /\ work' = Idle
  /\ waiting' = waiting \ {work.job.app}
  /\ info' = NoInfo
  /\ taskDone' = FALSE

\* dhmp_post_send and ibv_post_send.  In the error state the request is
\* flushed, with a completion dhmp_wc_error_handler only logs.
Post(request) ==
  qp' = IF broken THEN qp ELSE Append(qp, request)

\* dhmp_malloc_work_handler: length is 0, and addr is what the memory held.
PostMalloc ==
  /\ Starts("malloc")
  /\ \E left \in {Null, Wild} : info' = [length |-> 0, addr |-> left]
  /\ Post([op |-> "malloc"])
  /\ work' = [work EXCEPT !.at = "malloc"]
  /\ UNCHANGED <<app, taskDone, entry, refusing, sendMrs, buf, cq, broken, pollMsg, server, latest>>

SlipRefused == FALSE
Refused == info.addr = Null

\* It spins on length, and takes addr: of a refusal, perhaps before the
\* second store.
MallocDone ==
  /\ work.at = "malloc"
  /\ info.length # 0
  /\ IF Refused
     THEN UNCHANGED entry
     ELSE /\ table' = table \cup {info.addr}
          /\ writeFlag' = writeFlag \ {info.addr}
          /\ inDram' = inDram \ {info.addr}
  /\ Done
  /\ UNCHANGED <<workList, refusing, sendMrs, buf, net, server, latest>>

SlipNotFound ==
  /\ Starts("free") \/ Starts("read")
  /\ work.job.obj \notin table
  /\ Done
  /\ UNCHANGED <<workList, entry, refusing, sendMrs, buf, net, server, latest>>

\* The address is not in the hash table: the call returns at once.
NotFound ==
  /\ Starts("free") \/ Starts("read") \/ Starts("write")
  /\ work.job.obj \notin table
  /\ Done
  /\ UNCHANGED <<workList, entry, refusing, sendMrs, buf, net, server, latest>>

SlipUnlink(o) == inDram' = inDram \ {o} /\ UNCHANGED table

\* hlist_del: with the addr_info goes its dram_mr.
Unlink(o) == inDram' = inDram \ {o} /\ table' = table \ {o}

\* dhmp_free_work_handler does not wait for a write that is under way.
PostFree ==
  /\ Starts("free")
  /\ work.job.obj \in table
  /\ Unlink(work.job.obj)
  /\ info' = [length |-> 1, addr |-> work.job.obj]
  /\ Post([op |-> "free", obj |-> work.job.obj])
  /\ work' = [work EXCEPT !.at = "free"]
  /\ UNCHANGED <<app, taskDone, writeFlag, refusing, sendMrs, buf, cq, broken, pollMsg, server, latest>>

FreeDone ==
  /\ work.at = "free"
  /\ info.addr = Null
  /\ Done
  /\ UNCHANGED <<workList, entry, refusing, sendMrs, buf, net, server, latest>>

\* The buffers that requests under way, or the read being waited for, use.
InUse == {r.buf : r \in {q \in ToSet(qp) \cup ToSet(cq) : q.op \in {"read", "write"}}}
           \cup (IF work.at = "read" THEN {work.buf} ELSE {})

SlipGetMr(b) ==
  /\ IF work.job.obj \in Large THEN b = work.job.app
     ELSE /\ b \in Buffers
          /\ b \in sendMrs \/ b \notin InUse
  /\ UNCHANGED sendMrs

\* dhmp_get_mr_from_send_list: the caller's memory is registered for a large
\* object; otherwise a buffer of the list that is long enough is taken, or a
\* new one is made.
GetMr(b) ==
  IF work.job.obj \in Large
  THEN b = work.job.app /\ UNCHANGED sendMrs
  ELSE /\ b \in Buffers
       /\ b \in sendMrs \/ b \notin InUse
       /\ sendMrs' = sendMrs \ {b}

\* list_add to send_mr_list, unless the memory is the caller's.
Release(b) == sendMrs' = sendMrs \cup ({b} \cap Buffers)

SlipWriteIdle == work.job.obj \in table

\* while(addr_info->write_flag): no write of the object is under way.
WriteIdle ==
  /\ work.job.obj \in table
  /\ work.job.obj \notin writeFlag

\* dhmp_read_work_handler and dhmp_rdma_read, up to the spin.
PostRead ==
  /\ Starts("read")
  /\ WriteIdle
  /\ \E b \in Buffers \cup Apps :
       /\ GetMr(b)
       /\ Post([op |-> "read", obj |-> work.job.obj, buf |-> b,
                dram |-> work.job.obj \in inDram])
       /\ work' = [at |-> "read", job |-> work.job, buf |-> b]
  /\ UNCHANGED <<app, info, taskDone, entry, refusing, buf, cq, broken, pollMsg, server, latest>>

SlipReadDone ==
  /\ work.at = "read"
  /\ Release(work.buf)
  /\ Done
  /\ UNCHANGED <<workList, entry, refusing, buf, net, server, latest>>

\* The data is copied to the caller and the buffer put into the list.
ReadDone ==
  /\ work.at = "read"
  /\ taskDone
  /\ Release(work.buf)
  /\ Done
  /\ UNCHANGED <<workList, entry, refusing, buf, net, server, latest>>

\* dhmp_write_work_handler and dhmp_rdma_write: a small write is left under
\* way, a large one waited for.
PostWrite ==
  /\ Starts("write")
  /\ WriteIdle
  /\ writeFlag' = writeFlag \cup {work.job.obj}
  /\ \E b \in Buffers \cup Apps :
       /\ GetMr(b)
       /\ buf' = [buf EXCEPT ![b] = work.job.val]
       /\ Post([op |-> "write", obj |-> work.job.obj, buf |-> b,
                dram |-> work.job.obj \in inDram])
  /\ IF work.job.obj \in Large
     THEN work' = [work EXCEPT !.at = "write"] /\ UNCHANGED <<waiting, info, taskDone>>
     ELSE Done
  /\ latest' = [latest EXCEPT ![work.job.obj] = [val |-> work.job.val, moved |-> FALSE]]
  /\ UNCHANGED <<workList, table, inDram, refusing, cq, broken, pollMsg, server>>

WriteDone ==
  /\ work.at = "write"
  /\ taskDone
  /\ Done
  /\ UNCHANGED <<workList, entry, refusing, sendMrs, buf, net, server, latest>>

\* The objects the client has an entry for.
Known == table \ {Wild}

\* A poll cycle asks for a copy of an object, or for its copy to go.
PostPoll ==
  /\ Starts("poll")
  /\ \E o \in Known :
       pollMsg' = [at |-> "server", obj |-> o,
                   type |-> IF o \in inDram THEN "clear" ELSE "apply"]
  /\ work' = [work EXCEPT !.at = "poll"]
  /\ UNCHANGED <<app, info, taskDone, entry, refusing, sendMrs, buf, qp, cq, broken, server, latest>>

\* The cycle ends: nothing was asked for, or the answer is there.
PollDone ==
  /\ Starts("poll") \/ work.at = "poll"
  /\ pollMsg = None
  /\ work' = Idle
  /\ UNCHANGED <<app, info, taskDone, entry, refusing, sendMrs, buf, net, server, latest>>

(***************************************************************************)
(* The connection and the server.  A read or a write that names a copy the *)
(* server has deregistered breaks the queue pair.                          *)
(***************************************************************************)
Runs(op) == ~ broken /\ qp # <<>> /\ Head(qp).op = op
Registered(r) == r.dram => r.obj \in copies
Completes(c) == qp' = Tail(qp) /\ cq' = Append(cq, c)

ExecRead ==
  /\ Runs("read")
  /\ LET r == Head(qp)
     IN /\ Registered(r)
        /\ buf' = [buf EXCEPT ![r.buf] = IF r.dram THEN dram[r.obj] ELSE nvm[r.obj]]
        /\ Completes(r)
  /\ UNCHANGED <<app, work, info, taskDone, entry, refusing, sendMrs, broken, pollMsg, server, latest>>

ExecWrite ==
  /\ Runs("write")
  /\ LET r == Head(qp)
     IN /\ Registered(r)
        /\ IF r.dram
           THEN dram' = [dram EXCEPT ![r.obj] = buf[r.buf]] /\ UNCHANGED nvm
           ELSE nvm' = [nvm EXCEPT ![r.obj] = buf[r.buf]] /\ UNCHANGED dram
        /\ Completes(r)
  /\ UNCHANGED <<app, work, info, taskDone, entry, refusing, sendMrs, buf, broken, pollMsg, granted, copies, latest>>

AccessError ==
  /\ Runs("read") \/ Runs("write")
  /\ ~ Registered(Head(qp))
  /\ broken' = TRUE
  /\ qp' = <<>>
  /\ UNCHANGED <<app, work, info, taskDone, entry, refusing, sendMrs, buf, cq, pollMsg, server, latest>>

\* dhmp_malloc_request_handler (module NvmPool): a region that is free, or
\* a refusal.  Into the region a name is printed.
ServeMalloc ==
  /\ Runs("malloc")
  /\ \/ \E o \in Objects \ granted :
          /\ granted' = granted \cup {o}
          /\ nvm' = [nvm EXCEPT ![o] = Junk]
          /\ Completes([op |-> "granted", obj |-> o])
     \/ /\ Completes([op |-> "refused"])
        /\ UNCHANGED <<granted, nvm>>
  /\ UNCHANGED <<app, work, info, taskDone, entry, refusing, sendMrs, buf, broken, pollMsg, dram, copies, latest>>

\* dhmp_destroy_dram_entry: what is in the copy goes to the NVM, and its
\* memory is freed.
Destroy(o) ==
  /\ nvm' = IF o \in copies THEN [nvm EXCEPT ![o] = dram[o]] ELSE nvm
  /\ dram' = [dram EXCEPT ![o] = Junk]
  /\ copies' = copies \ {o}

\* dhmp_free_request_handler.
ServeFree ==
  /\ Runs("free")
  /\ LET o == Head(qp).obj
     IN /\ Destroy(o)
        /\ granted' = granted \ {o}
        /\ latest' = [latest EXCEPT ![o] = [val |-> Junk, moved |-> TRUE]]
        /\ Completes([op |-> "freed"])
  /\ UNCHANGED <<app, work, info, taskDone, entry, refusing, sendMrs, buf, broken, pollMsg>>

\* The object now lives elsewhere.
Moved(o) == latest' = [latest EXCEPT ![o].moved = TRUE]
Answer(ok) == pollMsg' = [at |-> "client", obj |-> pollMsg.obj, type |-> pollMsg.type, ok |-> ok]

\* dhmp_apply_dram_request_handler: the NVM is not copied, a name is printed
\* into the new copy instead.
ServeApply ==
  /\ pollMsg.at = "server" /\ pollMsg.type = "apply"
  /\ \/ /\ copies' = copies \cup {pollMsg.obj}
        /\ dram' = [dram EXCEPT ![pollMsg.obj] = Junk]
        /\ Moved(pollMsg.obj)
        /\ Answer(TRUE)
     \/ Answer(FALSE) /\ UNCHANGED <<copies, dram, latest>>
  /\ UNCHANGED <<app, work, info, taskDone, entry, refusing, sendMrs, buf, qp, cq, broken, granted, nvm>>

\* dhmp_clear_dram_request_handler.
ServeClear ==
  /\ pollMsg.at = "server" /\ pollMsg.type = "clear"
  /\ Destroy(pollMsg.obj)
  /\ Moved(pollMsg.obj)
  /\ Answer(TRUE)
  /\ UNCHANGED <<app, work, info, taskDone, entry, refusing, sendMrs, buf, qp, cq, broken, granted>>

(***************************************************************************)
(* The epoll thread.                                                       *)
(***************************************************************************)
Handles(op) == ~ refusing /\ cq # <<>> /\ Head(cq).op = op /\ cq' = Tail(cq)

\* dhmp_wc_success_handler, IBV_WC_RDMA_WRITE.
WriteCompletes ==
  /\ Handles("write")
  /\ Release(Head(cq).buf)
  /\ writeFlag' = writeFlag \ {Head(cq).obj}
  /\ taskDone' = (taskDone \/ Head(cq).buf \in Apps)
  /\ UNCHANGED <<app, work, info, table, inDram, refusing, buf, qp, broken, pollMsg, server, latest>>

\* dhmp_wc_success_handler, IBV_WC_RDMA_READ.
ReadCompletes ==
  /\ Handles("read")
  /\ taskDone' = TRUE
  /\ UNCHANGED <<app, work, info, entry, refusing, sendMrs, buf, qp, broken, pollMsg, server, latest>>

\* dhmp_malloc_response_handler: one memcpy of the memory region.
GrantArrives ==
  /\ Handles("granted")
  /\ info' = [length |-> 1, addr |-> Head(cq).obj]
  /\ UNCHANGED <<app, work, taskDone, entry, refusing, sendMrs, buf, qp, broken, pollMsg, server, latest>>

\* dhmp_malloc_error_handler: the length first, the address after it.
RefusalLength ==
  /\ Handles("refused")
  /\ info' = [info EXCEPT !.length = 1]
  /\ refusing' = TRUE
  /\ UNCHANGED <<app, work, taskDone, entry, sendMrs, buf, qp, broken, pollMsg, server, latest>>
\* If the work thread has gone on with the refused addr_info meanwhile, the
\* address is that of the entry it has made of it.
RefusalAddr ==
  /\ refusing
  /\ info' = IF work.at = "malloc" /\ info.length # 0
             THEN [info EXCEPT !.addr = Null] ELSE info
  /\ table' = Known
  /\ refusing' = FALSE
  /\ UNCHANGED <<app, work, taskDone, writeFlag, inDram, sendMrs, buf, net, server, latest>>

\* dhmp_free_response_handler.
FreedArrives ==
  /\ Handles("freed")
  /\ info' = [info EXCEPT !.addr = Null]
  /\ UNCHANGED <<app, work, taskDone, entry, refusing, sendMrs, buf, qp, broken, pollMsg, server, latest>>

\* dhmp_apply_dram_response_handler and dhmp_clear_dram_response_handler.
PollAnswered ==
  /\ ~ refusing
  /\ pollMsg.at = "client"
  /\ inDram' = IF pollMsg.type = "apply" /\ pollMsg.ok
               THEN inDram \cup {pollMsg.obj} ELSE inDram \ {pollMsg.obj}
  /\ pollMsg' = None
  /\ UNCHANGED <<app, work, info, taskDone, table, writeFlag, refusing, sendMrs, buf, qp, cq, broken, server, latest>>

Client ==
  \/ Take \/ NotFound
  \/ PostMalloc \/ MallocDone
  \/ PostFree \/ FreeDone
  \/ PostRead \/ ReadDone
  \/ PostWrite \/ WriteDone
  \/ PostPoll \/ PollDone
Connection == ExecRead \/ ExecWrite \/ AccessError \/ ServeMalloc \/ ServeFree
PollServer == ServeApply \/ ServeClear
Epoll ==
  \/ WriteCompletes \/ ReadCompletes
  \/ GrantArrives \/ RefusalLength \/ RefusalAddr \/ FreedArrives
EpollPoll == PollAnswered

Next ==
  \/ \E job \in Jobs : Call(job)
  \/ PollTimer
  \/ Client \/ Connection \/ PollServer \/ Epoll \/ EpollPoll

Spec == Init /\ [][Next]_vars

\* Every thread and the connection run on, and the epoll loop serves both
\* channels; nobody has to call, and the timer need not expire.
Fairness ==
  /\ WF_vars(Client) /\ WF_vars(Connection) /\ WF_vars(PollServer)
  /\ WF_vars(Epoll) /\ SF_vars(EpollPoll)

FairSpec == Spec /\ Fairness
-----------------------------------------------------------------------------
(***************************************************************************)
(* Properties.                                                             *)
(***************************************************************************)
Requests ==
  [op : {"malloc"}] \cup [op : {"free"}, obj : Objects]
    \cup [op : {"read", "write"}, obj : Objects, buf : Buffers \cup Apps, dram : BOOLEAN]

TypeOK ==
  /\ waiting \subseteq Apps
  /\ workList \in Seq(Jobs \cup {Poll})
  /\ work = Idle \/ work.job \in Jobs \cup {Poll}
  /\ info \in [length : {0, 1}, addr : Objects \cup {Null, Wild}]
  /\ taskDone \in BOOLEAN /\ refusing \in BOOLEAN /\ broken \in BOOLEAN
  /\ table \subseteq Objects \cup {Wild}
  /\ writeFlag \subseteq Objects /\ inDram \subseteq Known
  /\ sendMrs \subseteq Buffers
  /\ buf \in [Buffers \cup Apps -> Values \cup {Junk}]
  /\ qp \in Seq(Requests)
  /\ granted \subseteq Objects /\ copies \subseteq Objects
  /\ nvm \in [Objects -> Values \cup {Junk}]
  /\ dram \in [Objects -> Values \cup {Junk}]

\* What was posted on the connection and is not over, oldest first.
Flight == cq \o qp
IsAccess(r) == r.op \in {"read", "write"}
WritesOf(o) ==
  {i \in DOMAIN Flight : Flight[i].op = "write" /\ Flight[i].obj = o}

\* dhmp_work.c, "check no the same addr write task in qp": while the queue
\* pair works, write_flag is set exactly while a write of the object is under
\* way, and it is one only, whatever frees, grants and moves come between.
WriteFlagExact ==
  ~ broken => \A o \in Objects :
    /\ o \in writeFlag <=> WritesOf(o) # {}
    /\ \A i, j \in WritesOf(o) : i = j

\* A registered buffer is in the list or used by one request, never both:
\* what the network card reads or fills is not overwritten meanwhile.
BuffersApart ==
  /\ \A i, j \in {k \in DOMAIN Flight : IsAccess(Flight[k])} :
       Flight[i].buf = Flight[j].buf => i = j
  /\ sendMrs \cap InUse = {}

\* Between two works the client's hash table has exactly the regions the
\* server has granted: none is lost and none is used after its free.  What
\* the work thread made of a refusal is found only until its second store.
TableIsGranted ==
  /\ work = Idle => Known = granted
  /\ Wild \in table => refusing

Reads(o, v) == work.at = "read" /\ work'.at = "idle" /\ work.job.obj = o /\ buf[work.buf] = v

\* A read returns what the latest write before it in the work list wrote,
\* if the object has not been moved into or out of DRAM since: small writes
\* that are left under way, shared buffers and errors do not show.
ReadsBack ==
  [][\A o \in Objects, v \in Values \cup {Junk} :
       Reads(o, v) /\ ~ latest[o].moved => v = latest[o].val]_vars

\* dhmp.h: dhmp_write is to "write the data in local buf into the dhmp_addr
\* position" and dhmp_read to "read the data from dhmp_addr": a read after a
\* write returns what was written.
ReadLatest ==
  [][\A o \in Objects, v \in Values \cup {Junk} :
       Reads(o, v) /\ latest[o].val # Junk => v = latest[o].val]_vars

\* dhmp.h: dhmp_malloc is to "remote alloc the size of length region": what
\* it returns, and enters in the hash table, the server has granted.
MallocGrants ==
  [][work.at = "malloc" /\ work'.at = "idle" => table' \subseteq granted]_vars

\* Every call returns, unless the queue pair has broken.
CallsReturn == \A t \in Apps : t \in waiting ~> t \notin waiting \/ broken
=============================================================================
