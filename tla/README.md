# Gengar in TLA+

Gengar pools the non-volatile memory (NVM) of several servers. Clients
allocate NVM of a server with `dhmp_malloc`, read and write it with one-sided
RDMA, and give it back with `dhmp_free`. Clients find out which objects are hot
and have the server keep copies of those in its DRAM. This directory holds TLA+
models of the C library (`src/dhmp`) and of the path of its statistics to the
pages of the web UI (`src/vis`), TLC runs that check them on small instances,
and TLAPS proofs. Short names below: T = `dhmp_transport.c`, W = `dhmp_work.c`,
C = `dhmp_client.c`, P = `dhmp_poll.c`, S = `dhmp_server.c`,
WA = `dhmp_watcher.c` (all in `src/dhmp/src`); NH =
`MemoryInfoReceiveServerHandler.java`, WS = `WebSocketServer.java`, JS =
`memory-usage-table.js`.

## 1. The system

### Threads and connections

* **Client**: application threads, one *work thread* (W:317), one *poll timer
  thread* (C:243) and one *epoll thread* (`dhmp_context.c`), which handles
  connection events, completions and messages.
* **Server**: one epoll thread runs every handler, so handlers never interleave.
* **Watcher**: a main thread that connects and fetches the servers' sizes, an
  epoll thread that stores their reports, and an inform thread that sends them
  to the web server every two seconds.
* **Web server**: a Netty thread that receives and broadcasts, and the threads
  on which the container opens sessions. **Page**: one thread.
* A client has two connections to a server. The *connect* one carries malloc,
  free and the one-sided accesses; the *poll* one carries CLEAR and APPLY. Each
  has a queue pair and a completion queue of its own: nothing orders them.

### Components

| component | state | operations | what makes it correct |
|---|---|---|---|
| NVM pool (S, T:110-564) | `area_list`, `more_area_list`, `cur_area`, free lists, `max_index`, `nvm_used_size` | malloc and free requests; split, take, merge, insert; create, rebuild and drop areas | no two regions overlap; no byte is lost; a free finds its memory; a refusal has a reason; the accounts add up; everybody is answered |
| DRAM cache (P, T:576-843) | `dram_mr` of the client's entries, `poll_num`, policy, threshold, requested and granted sizes; `dram_ht` and two `dram_used_size` at a server | poll cycle, APPLY, CLEAR, free of a cached object | client and server agree on what is cached; accounts and quota hold; each cycle ends; the hot objects are the cached ones |
| Client API and work queue (C:48-262, W) | `work_list`, `done_flag`, `addr_info_ht`, fields of `addr_info` | malloc, free, read, write, poll, close | calls return; the table is what the server has granted |
| Data path (T:926-985, T:1768-1969) | `write_flag`, `send_mr_list`, `done_flag` of a task | RDMA read and write, their completions | a read returns the last write; a buffer is in one place; one write of an object at a time |
| Connections (T:1155-1416, 1506-1679) | transports, `client_list`, `watcher_trans`, `cur_connections`, `link_trans`, `peer_addr` | resolve, request, accept, establish, pair, disconnect, failures | each peer gets its role and its partner; list and counter are exact; init returns |
| Context and shutdown (`dhmp_context.c`, C:263-466) | `ctx->stop`, `trans_state` | run, stop, close, destroy | both transports go; the epoll thread ends |
| Watcher (T:34-88, 845-875, WA) | `apps_info`, `cur_app_num`, `servers_info`, `send_buff` | report, information request, make a text, send it, wait | the view of a server is current; no figure is invented |
| Web UI back end (NH, WS) | `preMemoryInfos`, `sessions` | cut and parse a frame, broadcast, open, close | one update reaches every page; newer figures stay |
| Page (JS) | rows, cards | message, show apps, remove card | cards agree with rows |
| Message buffers (`dhmp_task.c`) | bump cursor of the send region, posted receives | build a message, post a receive | a message is not overwritten before it is sent (not modelled) |
| Configuration, devices, hashing, logging, timers; other pages; vendored code | - | - | not modelled |

### How they interact

A call appends a work to `work_list` and spins on its `done_flag`. The work
thread takes one work at a time, sends a request with `dhmp_post_send` and spins
on a field that the client's epoll thread sets when the answer comes
(`nvm_mr.length`, `nvm_mr.addr`, `poll_num`, a task's `done_flag`). A small
write is not waited for: `write_flag` marks the object until its completion.
The timer appends a poll work; the cycle sends CLEAR and APPLY to the servers
and waits for `poll_num`. At a server a free also destroys the DRAM copy, which
ties the pool to the cache. After each of these, and when a connection goes, the
server reports the accounts of all pairs of transports to the watcher, whose
texts the web server parses and broadcasts to the pages.

### Behaviours that are hard to test

All are listed with their lines in `PROJECT.json` ("hazards"): flags shared by
threads without a lock or an atomic, two unordered connections to one server,
writes that outlive their call, error paths in the middle of a split, caches of
state (`max_index`, `dram_mr`, accounts), spins without a timeout, the quota
and the cursors at their limits, clients that go away in the middle of a
handshake, statistics read while they are stored, and two threads that send on
one session.

## 2. The modules

| module | models | uses |
|---|---|---|
| `NvmPool` | the NVM pool of one server | implements `NvmPromise` |
| `NvmPromise` | what the pool promises, without areas, buddies or lists | - |
| `CacheModel` | `dhmp_handle_cache_model`, as pure operators | - |
| `DramCache` | poll cycles of one client and the copies at the servers | `CacheModel` |
| `Client` | calls, work thread, data path, moves under the calls | server side reduced to grants, contents and copies |
| `Connections` | the processes of an installation connecting to one server and leaving it | - |
| `Monitor` | the statistics from the servers' reports to the rows and cards of a page | reports as `Connections` produces them |
| `NvmPoolProofs` | theorems about `NvmPool` and its refinement of `NvmPromise` | `CountingTheorems` |
| `CacheModelTheorems`, `CacheModelProofs` | lemmas about the operators of `CacheModel`; its properties | `CountingTheorems` |
| `DramCacheProofs` | theorems about `DramCache` | `CacheModelTheorems` |
| `ClientProofs` | theorems about `Client` | TLAPS |
| `MonitorProofs` | theorems about `Monitor` | `CountingTheorems` |
| `ConnectionsProofs` | theorems about `Connections` | `CountingTheorems` |
| `CountingTheorems` | counting up, greatest and least elements, sums over finite sets | TLAPS |
| `MC...` | instances for TLC | - |

Operators named `Slip...` are the next operator with a plausible bug in it. No
action uses them; `PROJECT.json` ("mutants") says which property of which run
notices each, and none goes unnoticed.

### NvmPool

State variables carry the names of the code. A free list is the *set* of the
offsets of its blocks; order within a list is left open, so every choice of a
head is explored. `op` is what the server is in the middle of: the two retry
loops (`dhmp_get_free_block`, T:129-187, and `dhmp_recycle_free_block`,
T:352-473) take one turn per step, so invariants are checked between turns.

| action | code |
|---|---|
| `SendMalloc`, `SendFree` | the client's request (W:79-99, W:165-204) |
| `ChooseCurArea`, `ChooseListedArea`, `ChooseNewArea`, `NewAreaFails` | the search for an area (T:189-223) |
| `GetSplit`, `GetSplitFails`, `GetTake`, `GetNone` | one turn of `dhmp_get_free_block` |
| `MallocArea`, `MallocAreaFails` | `dhmp_malloc_more_area` |
| `FreeBlock`, `PutMerge`, `PutInsert` | `dhmp_free_one_block` and its loop |
| `FreeArea`, `FreeAreaDrops`, `FreeMoreArea` | `dhmp_free_one_area`, `dhmp_free_more_area` |

`GetSplitFails`, `NewAreaFails` and `MallocAreaFails` are failed allocations.
`nr_free` is never read and is left out.

### CacheModel and DramCache

`CacheModel` has the two scans of P:33-78 as the turns of their loop (`Turn`),
each a function of `start`, `end` and the two lists, over the sorted candidates. `DramCache` has one client and `NodeNum` servers. `PollStart`
is the cycle up to the requests (both policies), `IncLoad` and `Send` are the
load and the store of `++poll_num` with the request, `ClearRequest` and
`ApplyRequest` the server's handlers, `ClearResponse` and `ApplyResponse` the
client's, which load `poll_num`, and `DecStore` stores it. With `RacyPollNum`
the two read-modify-writes may overlap, as the compiled code allows; without it
they exclude each other. Accesses since the last cycle are chosen freely up to
`MaxRw`. The threshold adapts nondeterministically, because the code computes it
from sums it does not initialise.

### Client

| action | code |
|---|---|
| `Call`, `PollTimer`, `Take` | C:48-228, C:243-262, W:317-331 |
| `PostMalloc`, `MallocDone` | `dhmp_malloc_work_handler` up to and after its spin |
| `PostFree`, `FreeDone`, `NotFound` | `dhmp_free_work_handler`; the early return of three handlers |
| `PostRead`, `ReadDone`, `PostWrite`, `WriteDone` | read and write handlers with `dhmp_rdma_read` and `dhmp_rdma_write` |
| `PostPoll`, `PollDone` | a cycle that moves at most one object (which one is `DramCache`'s concern) |
| `ExecRead`, `ExecWrite`, `AccessError` | the network cards (external) |
| `ServeMalloc`, `ServeFree`, `ServeApply`, `ServeClear` | handlers of the server, reduced to what the client can see |
| `WriteCompletes`, `ReadCompletes`, `GrantArrives`, `RefusalLength`, `RefusalAddr`, `FreedArrives`, `PollAnswered` | the client's epoll thread |

Contents are single values; `Junk` stands for memory nobody wrote and for the
names the server prints into new regions and copies. `Large` are the objects
beyond `RDMA_SEND_THREASHOLD`, whose accesses use the caller's memory and are
waited for; an access has the length of its object. `latest` is a history
variable: the last value written to each object, and whether the object was
moved after that write was posted.

Two things are assumed: completions and answers of one connection are handled
in the order of the requests, and the `memcpy` that publishes a grant is one
step. `RefusalLength` and `RefusalAddr` are two steps, because the code stores
the length the work thread spins for (T:345) before the address (T:346), and
`MallocDone` may come between them. What it then reads is what the memory of
the `addr_info` held: `Null`, or `Wild`, an address the server has never
granted. A `Wild` address is taken for a grant: the call returns it and the
entry is in the table until the second store, after which nobody finds it. Run
`client_refused` reports this. Left out of the window between the stores are an
application that uses the address there, an address there that happens to be
one the server has granted, what a poll cycle makes of the entry (it changes no
object), and the second store into an `addr_info` that was already freed,
because its address happened to be NULL.

### Connections

A connection is named by its process, its kind (connect or poll) and the life
of the process that made it. Its record holds what the process sees
(`mine`, the `trans_state` there; `marked`, whether `dhmp_transport_connect` is
through), what the kernels see (`up`) and what the server has (`srv`, `known`
for a set `peer_addr`, `isPoll`, `link`, `used`). `wire` is the set of messages
under way, `events` the server's event channel, in order; `view` is the set of
accounts the watcher was told last, by transport.

| action | code |
|---|---|
| `Start`, `Mark`, `ConnectDone`, `PollDone` | `dhmp_client_init` (C:263-398) and `dhmp_watcher_init` (WA:171-231) with their spins; `Mark` is the assignment of T:1669 |
| `CloseConnect`, `ClosePoll`, `Leave`, `Exit` | `dhmp_client_destroy` (C:400-466) |
| `RouteResolved`, `Established`, `Disconnected`, `InfoResponse` | events in the epoll thread of a process (T:1155-1202, 1307-1374, 860-875) |
| `ConnectRequest`, `ServerEstablished`, `ServerDisconnected` | events at the server (T:1204-1359) |
| `CloseRequest`, `InfoRequest`, `Account` | messages at the server; `Account` stands for whatever changes an account and reports it (T:310, 563, 727, 811) |
| `Die`, `ConnectionEnds` | the end of a process and of a connection (external) |

Every handler ends with the look at `ctx->stop` (`Handling`); `Leave` lets the
thread see a stop at once or not at all, as `epoll_wait` has no timeout.

### Monitor

The sizes in a report are abstracted by the report's number, so that a figure
on a page says from which report it is. A text is a sequence of tokens: a
figure with the server and the app it is of, or a character that matters.

| action | code |
|---|---|
| `Report` | `dhmp_inform_watcher_func`: at most one pair has gone since the last report, any number may have come |
| `Take`, `StoreEntry`, `StoreNum` | `dhmp_mem_change_handle` (T:65-88), entry by entry |
| `ReadInfo`, `Write`, `ReadReply` | a round of the inform thread (WA:40-108), app by app |
| `ChannelRead`, `Skip`, `BeginPush`, `EndPush`, `Collide`, `Success` | the Netty handler and its broadcast (NH:33-99, WS:61-81) |
| `Open`, `Wrap`, `BeginHello`, `EndHello`, `Close` | a session (WS:29-40, NH:133) |
| `OnMessage`, `ShowApps`, `RemoveCard` | the page (JS:174-214, 309-340, 367-508) |

A send on a session is two steps, between which another thread may try to send:
the container then throws an `IllegalStateException`, which ends a broadcast
(`Collide`) or, thrown out of `open()`, closes the session (`BeginHello`). The
watcher's structure is the first allocation of its process and is taken to be
zero, as fresh pages are.

## 3. The runs

| run | module, cfg | shows |
|---|---|---|
| `pool` | `NvmPool.cfg` | with node allocations that succeed: `MaxIndexExact`, `Coalesced`, `RefusedOnlyWhenFull` |
| `pool_live` | `NvmPoolLive.cfg` | two clients, any allocation failing: `NoOverlap`, `NoByteLost`, `FreeWillFind`, `NvmAccounting`, the pool implements `NvmPromise`, `RequestsAnswered` |
| `cache_model` | `CacheModel.cfg` | every sorted list of candidates: swaps help (`SwapsGain`), none is missed (`NoSwapLeft`), at most one hot object is passed over (`OneLeftOut`) |
| `dram` | `DramCache.cfg` | the race that `dram_race` reports set aside: `Agreement`, `UsedIsCached`, `WithinQuota`, `PollEnds` |
| `client` | `Client.cfg` | `WriteFlagExact`, `BuffersApart`, `TableIsGranted`, `ReadsBack`, with the work thread free to look between the stores of a refusal |
| `client_live` | `ClientLive.cfg` | `CallsReturn`, unless the queue pair has broken |
| `connections` | `Connections.cfg` | a client with two lives, a slow main thread, one fault: `ListExact`, `PairsRight`, `ReadyBeforeUse`, `DeadEntriesAreNameless`, `ViewCurrent`, `InitReturns`, `FetchReturns`, `DestroyJoins` |
| `monitor` | `Monitor.cfg` | one server and one page: `NothingInvented`, `CardFollowsRow`, `BackOnlyByHello`, `PageCatchesUp` |

`TypeOK` is checked once for each of `NvmPool`, `DramCache`, `Client`,
`Connections` and `Monitor`. Four runs end in a counterexample, because the
code does not do what its documentation says (quoted in `PROJECT.json`,
"findings"):

| run | property | what the code does |
|---|---|---|
| `dram_race` | `PollNumCounts` | `++poll_num` and `--poll_num` of two threads lose an update |
| `client_refused` | `MallocGrants` | a refusal stores its length before its address: `dhmp_malloc` may return an address that was never stored |
| `client_cached` | `ReadLatest` | a new DRAM copy is not filled from the NVM: a finished write is lost |
| `monitor_apps` | `UsedIsCurrent` | one `cur_app_num` for all servers: a client that has gone is counted again when another server reports more clients |

Other behaviour a reader should know of is part of the models without a property
of its own: what an APPLY grants is added past the end of `res_dram_size` and
never subtracted from what was asked, so that any request turns the next cycle
to the cache policy (T:739, `ResDramSize`); a free gives the bytes of its copy
back to the account of the connect transport, so that the one the quota is
checked against never comes down by it (T:546, `ServerFree`); the entry where the
two scans of `dhmp_handle_cache_model` meet is never asked for, even with
nothing cached, when it is the hottest (`OneLeftOut` says that it is one at
most); nothing of a dead client is given back.

### Bounds

* **Pool.** Three orders of 1, 2 and 4 units give an area of 8 units laid out
  1+1+2+4: the smallest with a split of two levels, a merge of two levels, and
  the irregular pair of smallest blocks. Two areas let `cur_area`, the list and
  a new area differ. Request sizes 1, 2, 3 reach the orders (3 is rounded up),
  7 a whole area, 9 an area of its own. Five regions fill an area with small
  blocks and still need a second one. `pool_live` has two clients who hold two
  regions at most (2 is left out of its sizes: 1 and 3 reach every order), and
  areas whose creation and nodes whose allocation fail.
* **Cache.** Candidate lists of up to five entries have both scans pass cached
  and uncached entries and meet in each position. Two servers and three objects,
  two on one server, with quotas of one and two objects so that the quota is
  reached and may drop; the code's thresholds 2 and 5 are scaled to 1 and 2.
* **Client.** Two objects and two buffers: in `client` both are small, so two
  writes can be under way at once while an access of either waits; in
  `client_live` one is large. One application thread is enough, because a
  small write returns before it is done and the work thread is serial anyway;
  with two threads and one object, or with two values, the same properties hold.
  One value and `Junk` tell a lost write from a kept one.

* **Connections.** One client and the watcher: two clients with two lives and a
  fault are too many states. With two clients started once, and no fault, the
  same invariants hold; for any number of clients they are proved. A second life
  makes transports of the same host meet entries that a dead handshake left
  behind; one fault (`MaxFaults`) can be at any call and any death at any step.
  `MaxUsed` = 1 lets a report differ from the one before. `SlowMain` lets the
  whole handshake run before `dhmp_transport_connect` has returned.
* **Monitor.** Two reports of up to two apps make texts grow and shrink, so that
  tails are left and entries are stale; a buffer of 8 tokens takes the longest
  text; two buffers fill the pipe while the handler blocks on a session that
  takes one message. `monitor_apps` has two servers and no fairness.

`MaxHeld`, `MaxRw`, `Buffers`, `MaxLives`, `MaxUsed`, `MaxFaults`, `MaxReports`,
`MaxApps`, `Pipe`, `MaxInbox` and the sets in the `.cfg` files are the only
bounds; `work_list` is bounded by one work per thread and one poll work.

### Fairness

Threads of the library loop without end, so each handler that can run will:
weak fairness of the server's and the work thread's actions, of the network
card and of the epoll thread. In `Client` the epoll thread serves two
completion channels in turn; the handling of a poll answer, which waits while
another handler is at work, is strongly fair. Calls of applications and the
timer are not fair: nobody has to call. In `Connections` the main and epoll
threads run, the server handles its events, and a connection that ends is
reported; nobody has to start, to die or to destroy its client. In `Monitor` the
timer fires, threads run and a page handles what it receives; nobody has to
report, open, close or click. `CHECK_DEADLOCK FALSE` appears where the system
may stop: in the client runs, since a broken queue pair leaves everybody
spinning, in the connection run, where everybody may have left or may spin, and
for the pure `CacheModel`.

### What is excepted

`CallsReturn` excepts a broken queue pair. It does break: a small write may
still be under way to a DRAM copy that a CLEAR, travelling on the other
connection, has deregistered (`AccessError`); error completions are only
logged, and the work thread spins for ever. `ReadsBack` excepts objects moved
since the write: `ReadLatest` shows what happens to those. `MaxIndexExact` is
checked while node allocations succeed; with `HeapMayFail = TRUE` it fails,
since an error in a later turn of a split leaves `max_index` naming an emptied
list (T:148 jumps past T:183).

`InitReturns` excepts a handshake that the server refused or never saw
(`Refused`: its end comes as an event that T:1409 ignores), a `trans_state` that
T:1669 has overwritten (`Overwritten`), and an epoll thread that a failed
`rdma_connect` has stopped (T:1199). `FetchReturns` excepts the answer that
T:1742 drops, since the request may be handled before ESTABLISHED is: clients
are saved from this by their second handshake, as `ReadyBeforeUse` says, the
watcher is not. `DestroyJoins` ends where `pthread_join` begins: whether that
returns depends on an event coming after `ctx->stop` is set (CX:30), which
nothing promises. `ViewCurrent` excepts pairs that have used nothing: an accept
is not reported. `ForgottenByServer` assumes that a client is not started on a
host before the server has seen its predecessor go, and that a host runs one
client; `MayStart` that the watcher comes first and once. Without these the
server takes a process for another's partner, or for the watcher.
`BackOnlyByHello` excepts the greeting of a new session, which may be older than
a broadcast that overtook it.

## 4. The proofs

All theorems are about the specifications the runs check, with the constants
left open but for the assumptions the modules name. A hypothesis of a theorem
is one of the model's switches (`HeapMayFail`, `RacyPollNum`); what happens
without it is said below.

`CountingTheorems` has what the others need instead of the library's induction
theorems, which take operators as parameters: counting up (`CountUp`) and
growing a subset (`SubsetsUp`) for a *set* of numbers or subsets, and from these
the facts about `MapThenSumSet` as `SumOf` (an element more, a set without what
counts for 0, a sum of sums).

### The pool

`NvmPoolProofs` holds for every number of orders of at least two, every set of
areas, clients and sizes, and with failing allocations.
It rests on the assumptions `NvmPool` names: block sizes double from order to
order (`BuddySizeAssumption`), there is at least one area, and sizes are naturals.

* `PoolTypeOK`: `Spec => []TypeOK`. Inductive as it stands; one step per action.
* `PoolFreeWillFind`: `Spec => []FreeWillFind`. Not inductive alone. The
  strengthening `Shape` says that listed areas have the single size and
  others none or their own (`AreaShape`), that a granted region is a block of a
  listed area or the whole of another one (`HeldShape`), that nothing else is
  granted in an area granted as a whole (`WholeAlone`), and that a turn under
  way is in a listed area (`OpShape`). `WholeAlone` is what makes freeing a
  whole area harmless for the other grants. `ShapeFinds` derives the property.
* `PoolNoOverlap`: `Spec => []NoOverlap`, relative to `TypeOK` and `Shape`. Its
  five parts (`FreeApart`, `HeldApart`, `FreeHeldApart`, `HandApart`,
  `InsideArea`) are inductive together: the block in the server's hands must
  be apart from the free blocks for the merge to be apart from the rest. There is
  a lemma for each way the pool changes; the argument of the split and the
  merge is that a block and its buddy are exactly the block of the next order
  (`BuddySize[k + 1] = 2 * BuddySize[k]`), and of the rebuild that a pristine
  area is laid out end to end (`PristineApart`, by sums of doubling sizes).
* `PoolKeepsPromise`: `Spec => PromiseSpec`, the refinement of `NvmPromise`, step
  by step: a turn of a loop is a stutter, the last one a grant, a refusal or the
  end of a free. `InHand` says that the request a handler is at work on is the
  one its client has sent and that a region being put back is no longer held;
  that the region granted is new comes from `NoOverlap` (`ApartShareNothing`).
* `PoolNvmAccounting`: `Spec => []NvmAccounting`. A client's sum changes by one
  region at a time; `FreesOwn` says that it is its own.

The second half of the module is about what the lists say of an area.

* `PoolNoByteLost`: `Spec => []NoByteLost`, failing allocations included. Each
  lemma says of a byte (`Owned`) who has it after the step: the halves of a
  block after a split, the merged block after a merge; `PristineCovers` says that
  the blocks of a new area leave no gap.
* `PoolMaxIndexExact`, `PoolRefusesOnlyWhenFull`, `PoolCoalesced` have the
  hypothesis `~ HeapMayFail`. `GetSplitFails` returns from the middle of a get:
  `max_index` stays as it was before the list was emptied, and two halves may
  stay side by side; TLC finds all three violated with `HeapMayFail`. Their
  invariants: `IndexInv` (exact where no handler is at work; where a get is at
  work there is a block to be had, so `GetNone` cannot happen), which together
  with `NoAreaMeansFull` makes a refusal imply that no list of any area has a
  block; `OnGrid` (blocks begin at multiples of their size, so that a buddy's
  buddy is the block itself) with `BuddiesApart` (buddies are together only as
  the two first blocks of an area, or just after a split, `JustSplit`, when the
  next turn takes one of them).

### The cache

`CacheModelTheorems` proves what the loop of `dhmp_handle_cache_model` does for
any number of candidates, from its invariant (`LoopInv`: everything before
`start` and behind `end` is decided, positions are named once, and the turns
bring the two together). `PickFacts` collects the outcome by position and
`HandleIs` says that `HandleCacheModel` returns it; sorting is only needed in
the end.

* `CacheSwapsGain`, `CacheNoSwapLeft`, `CacheOneLeftOut`: the properties of the
  run `cache_model`, for lists of any length and any threshold.

`DramCacheProofs` holds for every number of servers, finitely many objects of
any sizes, any quotas that have a greatest one, and failing allocations at the
server. Its theorems have the hypothesis `~ RacyPollNum`: with overlapping `++`
and `--` of `poll_num` a cycle may end with answers under way (run `dram_race`),
and then the next cycle may name an object twice: on the same instance TLC finds
`Agreement`, `UsedIsCached` and `TypeOK` violated as well. Of `WithinQuota` it is
only known that its proof rests on the account.

* `DramAgreement`, `DramUsedIsCached`, `DramWithinQuota`, `DramTypeOK`: `Spec =>
  []P`. None is inductive, and they are proved together (`CacheInv`), because
  each needs the others: the account is right only if a CLEAR names copies that
  are there, which holds because the client knows exactly what is cached when a
  cycle begins, which holds because nothing is under way then, which is what
  `poll_num` counts if nothing races. The rest of the invariant: outside a cycle
  every queue is empty (`QuietInv`); the list of the work thread and the two
  queues of a server hold together at most one CLEAR and one APPLY for it
  (`OnceInv`); a CLEAR under way names cached objects and an APPLY uncached
  ones, and an answer names objects the client has not heard of yet
  (`NamesInv`). So no two messages under way name the same object, and a step
  that handles one leaves alone what the others say (`DueKept`, `ToldKept`,
  `AgreesKept`).
* What a cycle asks for (`PlanFacts`) rests on `CacheModelTheorems`;
  `RequestsFacts` says that the requests of all the servers joined have one of a
  kind for each. `FitsWithin` counts through the objects of an APPLY: what fits
  one by one is within the quota together.

### The client

`ClientProofs` holds for every number of application threads, objects and
buffers, any objects being large, whatever the server, the poll cycles and the
queue pair do. It rests on `ClientAssumption` (the names of threads, buffers,
objects and values are apart) and has no hypothesis: the work thread may look
between the two stores of a refusal, and what it finds there is followed too.

* `ClientWriteFlagExact`, `ClientBuffersApart`, `ClientTableIsGranted`: `Spec =>
  []P` for the three properties of that name. None is inductive. All three rest
  on what may be under way at one moment, which `FlightInv` states of `Flight`,
  the completions not handled followed by the requests not executed, as a single
  queue. `AwaitedLast`: what the work thread spins for is the last entry, and
  the flag, length or address it spins on says "not yet"; so when its completion
  is handled nothing is left. `FlagsFresh`: no flag is left over from an earlier
  work, and once malloc is answered nothing is under way, so that clearing the
  `write_flag` of the new `addr_info` loses none; while a malloc waits or is
  refused its address is one nobody has stored, and such an address is in the
  table only until the second store (`WildTransient`). `OneRequestEach`,
  `ListApart` and `ReadApart` are the parts of `BuffersApart`, `FlagsExact` is
  `WriteFlagExact` by position, and `TableFollows` says, for each place a malloc
  or a free may be at, how the known part of the table (`Known`, without `Wild`)
  differs from what is granted. `TableIsGranted` is both: what is known is
  granted when the work thread is idle, and anything else goes with the second
  store.
* The argument: four lemmas say what posting, executing, answering and handling
  do to `Flight`; `Rests`, `Posts`, `Answers`, `Handled` and `Kept` carry the
  invariant over the actions that have this effect; each action has a lemma. TLC
  checked `FlightInv` on the instance of `client` before it was proved.
* `ClientReadsBack`, `ClientTypeOK`: `Spec => []P` from `FlightInv` and
  `ReadsInv`. `ValuesKept`: of an object that was not moved since it was written,
  the requests under way name the place the client would name now, a write
  still to be executed has the latest value in its buffer, and once none is left
  the place has it. `Fetched`: what a read has brought is that value, until the
  work thread gives it to the caller. `PollTurn` and `UnmovedKnown` say when an
  answer of a poll cycle may change the place, `NewToTable` that a grant gives
  none of the table's objects, `ReadsOwn` whose the read under way is.

### The connections

`ConnectionsProofs` holds for every number of clients, lives and failures, with
or without `SlowMain`, under the assumptions the module names (`Null` is no
connection, the watcher no client, the bounds are naturals) and the two of the
model (`MayStart`, `ForgottenByServer`).

* `ConnectionsPairs`, `ConnectionsReady`, `ConnectionsDeadEntries`,
  `ConnectionsList`, `ConnectionsView`, `ConnectionsTypes`: `Spec => []P` for
  the six invariants the run checks, all from `ConnectionsInvariant`, since
  each needs the others. `ConnInv` follows one connection: what its process has
  of it (`HeldInv`), where the token of its handshake is, on the wire or in the
  server's queue, and that it is in one place (`TokenInv`), that an established
  connection has an end still to come, of which the server is told once
  (`EndInv`), what the server has stored (`ServerInv`), and that nothing of an
  earlier or a later life is under way (`LifeInv`).
* `PairInv` relates the two connections of one life, and is where `PairsRight`
  comes from: when the request of a poll transport is handled, its connect
  transport is the only entry with that address, for the entries a dead
  handshake left have no address and those of an earlier life are gone. That
  the partner's ESTABLISHED has been handled by then is a matter of order in
  the queue (`OrderInv`), not of state. `WatcherInv` says that the first
  transport accepted was the watcher's, so that no client's entry is taken for
  it and `ListExact` counts clients.
* Every action has a lemma that it keeps the invariant; the queue and the wire
  have lemmas of what adding and taking does to them (`QueueAdd`, `QueueTake`,
  `WireAdd`, `WireTake`).

### The monitor

`MonitorProofs` holds for every number of servers, pages, apps and reports,
under the assumptions `Monitor` names (bounds are naturals, a text fits into the
buffer, a server has no more apps than `apps_info` has entries):

* `MonitorNothingInvented`: `Nets = 1 => (Spec => []NothingInvented)`, and
  `MonitorTypes`: `Spec => []TypeOK`, both from `FigureInv`: every figure in
  `apps_info`, the draft, the stream, `preMemoryInfos`, a greeting, a message, a
  row or a card is of a report that was taken and lists this app (`Good`). The
  hypothesis is needed: with several servers the one `cur_app_num` makes the
  text of one server count entries that only another has set, and 0 is shown
  (finding `monitor_apps`); for one server `InfoInv` and `StoringInv` say that
  the entries counted were set, also while a report is being stored.
* What makes the stream safe is `Framed`: wherever a text begins, it is complete
  and a newline follows it. `FillFacts` shows it of the fixed buffer with the
  tail of older texts in it, `JoinedFramed` and `SuffixFramed` that writing and
  cutting keep it. `FrameCut` concludes that what is cut off at the first
  newline and parses is one whole text, though it begins anywhere and is
  trimmed, and `FormatJson` that the handler makes of a text what the watcher
  made the text of.
* `MonitorBackOnlyByHello`: `Spec => BackOnlyByHello`, for any number of servers,
  from `OrderInv`: nothing that a page shows or is about to be sent is newer
  than what is still to come behind it, through the inbox, `preMemoryInfos`,
  each text of the stream, the draft and `apps_info`. `NotAfter` compares two
  memories where both have a figure and is not transitive, so the invariant
  relates every two stages and not only neighbours. A greeting is only known to
  be no newer than what follows it, hence the exception.
* `MonitorCardFollowsRow`: `Spec => []CardFollowsRow`, with `PagesShown` (every
  page has a table and a set of cards) as its only strengthening. A message
  updates row and card from the same data in one handler; `ShowApps` fills a
  card from its row; all the other actions leave the page alone.

### Checked by TLC only

* Everything that must eventually happen: liveness under fairness and `ENABLED`
  are out of the prover's reach.
* What holds beyond the hypotheses of a theorem: only the runs say.

## 5. Plan

Done: the pool with its promise and first theorems; the cache; the client with
its data path; the theorems about these three; the connections with faults and
restarts, and their theorems; the statistics from the servers to the pages, and
theirs. Every invariant and action property of a passing run is stated by a
theorem. Next, in this order:

1. **Address table**: buckets and the lookup that compares server addresses
   without the node.
2. **Message buffers**: the cursor that wraps against sends in flight.

## 6. Not modelled

Configuration, device discovery, hashing, logging and timer descriptors hold no
state a property here is about. Of the web UI the pages' layout and the terminal
are left out. `linux/list.h` and the plugins of the web UI (echarts, bootstrap,
bootstrap-table, gateone, jQuery) are third-party; they are nearly all of the
repository's JavaScript by lines, and the repository's own state is in the C
library, the Java back end and `memory-usage-table.js`.

Delays that emulate NVM (`nanosleep`) and the profiling counters other than read
and write counts are left out. A failed `malloc` in the client, and in
`dhmp_free_blk_create` at the server (dereferenced as NULL), end the program.
`NvmPool`, `DramCache` and `Client` take connections to be established, which is
what `Connections` shows under its assumptions; the hash of an address is taken
to find exactly its entry; messages are taken to arrive as they were sent,
though a send region that wraps might overwrite one. A TCP connection of the
watcher that breaks is not modelled: every later round logs an error.
