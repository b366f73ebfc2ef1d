------------------------------ MODULE NvmPool ------------------------------
(***************************************************************************)
(* The NVM pool of a Gengar memory server: the areas registered with the   *)
(* RDMA device, the buddy system inside each of them and the two request   *)
(* handlers, dhmp_malloc_request_handler and dhmp_free_request_handler.    *)
(*                                                                         *)
(* One epoll thread runs every handler of a server, so a handler is never  *)
(* interleaved with another one; a client's work thread sends a request    *)
(* and spins until it is answered, so a client has one request in flight.  *)
(* The retry loops of the two buddy routines are taken one turn per step   *)
(* (op.at = "get" and "put"), which leaves the moments between two turns   *)
(* visible to the invariants.                                              *)
(*                                                                         *)
(* A free list is the set of the offsets of its blocks: which block is at  *)
(* its head, and which area is first in area_list, is left open.  The      *)
(* bytes of a region, and the DRAM copies of it, belong to other modules.  *)
(*                                                                         *)
(* An operator whose name begins with Slip is the next operator with a     *)
(* plausible bug in it.  No action uses it; README.md tells which property *)
(* notices which slip.                                                     *)
(***************************************************************************)
EXTENDS Integers, FiniteSets, FiniteSetsExt

CONSTANTS MaxOrder,     \* MAX_ORDER
          BuddySize,    \* buddy_size
          Areas,        \* the memory regions the device can register
          Clients,      \* the clients connected to this server
          ReqSizes,     \* the sizes clients ask for
          HeapMayFail,  \* may malloc of a list node return NULL?
          MaxHeld       \* bound on the regions granted at a time

Orders == 0 .. MaxOrder - 1
Top == MaxOrder - 1

ASSUME MaxOrderAssumption == MaxOrder \in Nat \ {0, 1}
ASSUME BuddySizeAssumption ==
          /\ BuddySize \in [Orders -> Nat \ {0}]
          /\ \A k \in Orders : k < Top => BuddySize[k + 1] = 2 * BuddySize[k]
ASSUME ReqSizesAssumption == ReqSizes \subseteq Nat
ASSUME BoundsAssumption == HeapMayFail \in BOOLEAN /\ MaxHeld \in Nat
ASSUME AreasAssumption == Areas # {}

\* SINGLE_AREA_SIZE: the length of an area that has a buddy system.
SingleAreaSize == 2 * BuddySize[Top]

\* A region a client was granted: the address, length and key of its mr.
Region == [client : Clients, area : Areas, off : Nat, len : Nat]

NoRequest == [kind |-> "none"]
MallocRequest == [kind : {"malloc"}, size : ReqSizes]
FreeRequest == [kind : {"free"}, region : Region]

Idle == [at |-> "idle"]
GetOp == [at : {"get"}, client : Clients, area : Areas, index : Orders]
PutOp == [at : {"put"}, client : Clients, area : Areas, index : Orders,
          off : Nat]

VARIABLES
  areaList,  \* the areas of area_list, those with a buddy system
  moreAreas, \* the areas of more_area_list, each granted as a whole
  areaLen,   \* areaLen[a]: mr->length of a registered area, 0 otherwise
  curArea,   \* cur_area
  free,      \* free[a][k]: offsets in block_head[k].free_block_list of a
  maxIndex,  \* max_index of each area
  held,      \* the regions granted and not yet freed
  nvmUsed,   \* nvm_used_size of each client's transport
  request,   \* the request of each client the server has not answered
  op         \* what the server is in the middle of

poolVars == <<areaList, moreAreas, areaLen, curArea, free, maxIndex>>
vars == <<poolVars, held, nvmUsed, request, op>>

(***************************************************************************)
(* The buddy system of one area.                                           *)
(***************************************************************************)
NoBlocks == [k \in Orders |-> {}]

\* dhmp_buddy_system_build: buddy_num = {2,1,1,...} blocks laid end to end,
\* so that the block of order k > 0 begins where the smaller ones end.
Pristine == [k \in Orders |-> IF k = 0 THEN {0, BuddySize[0]}
                                       ELSE {BuddySize[k]}]

\* k is the index of the last non-empty list at or below bound, or -1.
IsHighest(f, bound, k) ==
  /\ k \in Orders \cup {-1}
  /\ k # -1 => k <= bound /\ f[k] # {}
  /\ \A j \in Orders : j <= bound /\ f[j] # {} => j <= k

SlipIsIndexFor(index, size) ==
  BuddySize[index] <= size /\ (index # Top => size < BuddySize[index + 1])

\* index is the first order whose blocks are large enough for size.
IsIndexFor(index, size) ==
  /\ size <= BuddySize[index]
  /\ \A j \in 0 .. index - 1 : BuddySize[j] < size

\* i is the first order from index on that has a free block.
IsFirstNonEmpty(f, index, i) ==
  /\ i >= index
  /\ f[i] # {}
  /\ \A j \in index .. i - 1 : f[j] = {}

SlipHalves(x, i) == {x, x - BuddySize[i - 1]}

\* The two blocks a block of order i is split into.
Halves(x, i) == {x, x + BuddySize[i - 1]}

\* The address of the block dhmp_recycle_free_block merges with: the right
\* neighbour of a block that begins a block of the next order, the left
\* neighbour of any other.
BuddyOf(off, index) ==
  IF off % BuddySize[index + 1] = 0 THEN off + BuddySize[index]
                                    ELSE off - BuddySize[index]

SlipMerged(off, b) == off

\* The address of the block that off and its buddy make: min(addr, tmp->addr).
Merged(off, b) == IF b < off THEN b ELSE off

SlipCanMergeLeft(f, off, index) ==
  /\ index # Top
  /\ off % BuddySize[index + 1] # 0
  /\ off - BuddySize[index] \in f[index]

\* dhmp_recycle_free_block finds the buddy in its list.  Blocks of the last
\* order are never merged.
CanMerge(f, off, index) == index # Top /\ BuddyOf(off, index) \in f[index]

(***************************************************************************)
(* Initial state: dhmp_server_init has created one area.                   *)
(***************************************************************************)
Init ==
  /\ \E a \in Areas :
       /\ areaList = {a}
       /\ curArea = a
       /\ areaLen = [b \in Areas |-> IF b = a THEN SingleAreaSize ELSE 0]
       /\ free = [b \in Areas |-> IF b = a THEN Pristine ELSE NoBlocks]
       /\ maxIndex = [b \in Areas |-> IF b = a THEN Top ELSE -2]
  /\ moreAreas = {}
  /\ held = {}
  /\ nvmUsed = [c \in Clients |-> 0]
  /\ request = [c \in Clients |-> NoRequest]
  /\ op = Idle

(***************************************************************************)
(* The clients.                                                            *)
(***************************************************************************)
SendMalloc(c) ==
  /\ request[c] = NoRequest
  /\ Cardinality(held) < MaxHeld
  /\ \E size \in ReqSizes :
       request' = [request EXCEPT ![c] = [kind |-> "malloc", size |-> size]]
  /\ UNCHANGED <<poolVars, held, nvmUsed, op>>

SendFree(c) ==
  /\ request[c] = NoRequest
  /\ \E r \in held :
       /\ r.client = c
       /\ request' = [request EXCEPT ![c] = [kind |-> "free", region |-> r]]
  /\ UNCHANGED <<poolVars, held, nvmUsed, op>>

(***************************************************************************)
(* The ways a handler ends: MALLOC_RESPONSE or MALLOC_ERROR.               *)
(***************************************************************************)
Answer(c) == request' = [request EXCEPT ![c] = NoRequest]

Grant(c, area, off, len) ==
  /\ held' = held \cup
       {[client |-> c, area |-> area, off |-> off, len |-> len]}
  /\ nvmUsed' = [nvmUsed EXCEPT ![c] = @ + len]
  /\ Answer(c)

Refuse(c) == Answer(c) /\ UNCHANGED <<held, nvmUsed>>

SlipAreaCreate(a, hasBuddySys, len) ==
  /\ areaLen[a] = 0
  /\ areaLen' = [areaLen EXCEPT ![a] = len]
  /\ areaList' = areaList \cup {a}
  /\ free' = [free EXCEPT ![a] = IF hasBuddySys THEN Pristine ELSE NoBlocks]
  /\ maxIndex' = [maxIndex EXCEPT ![a] = IF hasBuddySys THEN Top ELSE -2]
  /\ UNCHANGED moreAreas

\* dhmp_area_create, on memory the device has not registered.
AreaCreate(a, hasBuddySys, len) ==
  /\ areaLen[a] = 0
  /\ areaLen' = [areaLen EXCEPT ![a] = len]
  /\ \/ /\ hasBuddySys
        /\ areaList' = areaList \cup {a}
        /\ free' = [free EXCEPT ![a] = Pristine]
        /\ maxIndex' = [maxIndex EXCEPT ![a] = Top]
        /\ UNCHANGED moreAreas
     \/ /\ ~hasBuddySys
        /\ moreAreas' = moreAreas \cup {a}
        /\ maxIndex' = [maxIndex EXCEPT ![a] = -2]
        /\ UNCHANGED <<areaList, free>>

\* ibv_dereg_mr and free: the area is gone, its key may be used again.
Deregister(a) ==
  /\ areaLen' = [areaLen EXCEPT ![a] = 0]
  /\ free' = [free EXCEPT ![a] = NoBlocks]
  /\ maxIndex' = [maxIndex EXCEPT ![a] = -2]

(***************************************************************************)
(* dhmp_malloc_one_block: the area a block is taken from is cur_area, else *)
(* one of area_list whose max_index promises a block, else a new one.      *)
(***************************************************************************)
Wants(c, index) ==
  /\ op = Idle
  /\ request[c].kind = "malloc"
  /\ IsIndexFor(index, request[c].size)

StartGet(c, a, index) ==
  op' = [at |-> "get", client |-> c, area |-> a, index |-> index]

ChooseCurArea(c) ==
  \E index \in Orders :
    /\ Wants(c, index)
    /\ maxIndex[curArea] >= index
    /\ StartGet(c, curArea, index)
    /\ UNCHANGED <<poolVars, held, nvmUsed, request>>

ChooseListedArea(c) ==
  \E index \in Orders, a \in areaList :
    /\ Wants(c, index)
    /\ maxIndex[curArea] < index
    /\ maxIndex[a] >= index
    /\ curArea' = a
    /\ StartGet(c, a, index)
    /\ UNCHANGED <<areaList, moreAreas, areaLen, free, maxIndex, held,
                   nvmUsed, request>>

SlipNoAreaFor(index) == maxIndex[curArea] < index

NoAreaFor(index) ==
  /\ maxIndex[curArea] < index
  /\ \A a \in areaList : maxIndex[a] < index

ChooseNewArea(c) ==
  \E index \in Orders, a \in Areas :
    /\ Wants(c, index)
    /\ NoAreaFor(index)
    /\ AreaCreate(a, TRUE, SingleAreaSize)
    /\ curArea' = a
    /\ StartGet(c, a, index)
    /\ UNCHANGED <<held, nvmUsed, request>>

\* dhmp_area_create fails: no memory, or the device refuses to register it.
NewAreaFails(c) ==
  \E index \in Orders :
    /\ Wants(c, index)
    /\ NoAreaFor(index)
    /\ Refuse(c)
    /\ UNCHANGED <<poolVars, op>>

(***************************************************************************)
(* dhmp_get_free_block, one turn of its retry loop.                        *)
(***************************************************************************)
SlipLowerIndex(a) == UNCHANGED maxIndex

\* max_index falls to the highest list that is still not empty.
LowerIndex(a) ==
  \E k \in Orders \cup {-1} :
    /\ IsHighest(free'[a], maxIndex[a], k)
    /\ maxIndex' = [maxIndex EXCEPT ![a] = k]

\* The head block of the first non-empty list is split into two of the
\* order below.
GetSplit ==
  /\ op.at = "get"
  /\ \E i \in Orders :
       /\ IsFirstNonEmpty(free[op.area], op.index, i)
       /\ i # op.index
       /\ \E x \in free[op.area][i] :
            free' = [free EXCEPT ![op.area][i] = @ \ {x},
                                 ![op.area][i - 1] = @ \cup Halves(x, i)]
  /\ UNCHANGED <<areaList, moreAreas, areaLen, curArea, maxIndex, held,
                 nvmUsed, request, op>>

\* There is no memory for the node of the right half: the request is
\* refused, and max_index is left as the earlier turns found it.
GetSplitFails ==
  /\ op.at = "get"
  /\ HeapMayFail
  /\ \E i \in Orders :
       IsFirstNonEmpty(free[op.area], op.index, i) /\ i # op.index
  /\ Refuse(op.client)
  /\ op' = Idle
  /\ UNCHANGED poolVars

GetTake ==
  /\ op.at = "get"
  /\ \E x \in free[op.area][op.index] :
       /\ free' = [free EXCEPT ![op.area][op.index] = @ \ {x}]
       /\ Grant(op.client, op.area, x, BuddySize[op.index])
  /\ LowerIndex(op.area)
  /\ op' = Idle
  /\ UNCHANGED <<areaList, moreAreas, areaLen, curArea>>

\* No list from index on has a block: the request is refused.
GetNone ==
  /\ op.at = "get"
  /\ \A i \in op.index .. Top : free[op.area][i] = {}
  /\ Refuse(op.client)
  /\ op' = Idle
  /\ UNCHANGED poolVars

(***************************************************************************)
(* dhmp_malloc_more_area: a region larger than any block is an area.       *)
(***************************************************************************)
WantsArea(c) ==
  /\ op = Idle
  /\ request[c].kind = "malloc"
  /\ request[c].size > BuddySize[Top]

AreaLength(size) == IF size <= SingleAreaSize THEN SingleAreaSize ELSE size

MallocArea(c) ==
  /\ WantsArea(c)
  /\ \E a \in Areas :
       LET len == AreaLength(request[c].size) IN
         /\ AreaCreate(a, FALSE, len)
         /\ Grant(c, a, 0, len)
  /\ UNCHANGED <<curArea, op>>

MallocAreaFails(c) ==
  /\ WantsArea(c)
  /\ Refuse(c)
  /\ UNCHANGED <<poolVars, op>>

(***************************************************************************)
(* dhmp_free_request_handler: the three ways a region is given back.       *)
(***************************************************************************)
WantsFree(c, r) ==
  /\ op = Idle
  /\ request[c].kind = "free"
  /\ r = request[c].region

SlipRelease(c, r) == held' = held \ {r} /\ UNCHANGED nvmUsed

Release(c, r) ==
  /\ held' = held \ {r}
  /\ nvmUsed' = [nvmUsed EXCEPT ![c] = @ - r.len]

\* dhmp_free_one_block finds the area by its key and the order by the
\* length of the block.
FreeBlock(c) ==
  \E r \in held, index \in Orders :
    /\ WantsFree(c, r)
    /\ r.area \in areaList
    /\ r.len = BuddySize[index]
    /\ Release(c, r)
    /\ op' = [at |-> "put", client |-> c, area |-> r.area, index |-> index,
              off |-> r.off]
    /\ UNCHANGED <<poolVars, request>>

\* dhmp_recycle_free_block returns true: the loop goes on with the merged
\* block, one order up.
PutMerge ==
  /\ op.at = "put"
  /\ CanMerge(free[op.area], op.off, op.index)
  /\ LET b == BuddyOf(op.off, op.index) IN
       /\ free' = [free EXCEPT ![op.area][op.index] = @ \ {b}]
       /\ op' = [op EXCEPT !.index = @ + 1,
                           !.off = Merged(@, b)]
  /\ UNCHANGED <<areaList, moreAreas, areaLen, curArea, maxIndex, held,
                 nvmUsed, request>>

\* It returns false: the block is in its list, max_index is found anew and
\* the client is answered.
PutInsert ==
  /\ op.at = "put"
  /\ ~CanMerge(free[op.area], op.off, op.index)
  /\ free' = [free EXCEPT ![op.area][op.index] = @ \cup {op.off}]
  /\ \E k \in Orders :
       /\ IsHighest(free'[op.area], Top, k)
       /\ maxIndex' = [maxIndex EXCEPT ![op.area] = k]
  /\ op' = Idle
  /\ Answer(op.client)
  /\ UNCHANGED <<areaList, moreAreas, areaLen, curArea, held, nvmUsed>>

SlipIsAreaOfSingleSize(r) ==
  r.len >= BuddySize[Top] /\ r.len <= SingleAreaSize
SlipIsAreaBelowSingleSize(r) ==
  r.len > BuddySize[Top] /\ r.len < SingleAreaSize /\ r.area \in moreAreas

IsAreaOfSingleSize(r) ==
  r.len > BuddySize[Top] /\ r.len <= SingleAreaSize /\ r.area \in moreAreas

\* dhmp_free_one_area: a buddy system is built in the area, which joins
\* area_list.
FreeArea(c) ==
  \E r \in held :
    /\ WantsFree(c, r)
    /\ IsAreaOfSingleSize(r)
    /\ Release(c, r)
    /\ moreAreas' = moreAreas \ {r.area}
    /\ areaList' = areaList \cup {r.area}
    /\ free' = [free EXCEPT ![r.area] = Pristine]
    /\ maxIndex' = [maxIndex EXCEPT ![r.area] = Top]
    /\ Answer(c)
    /\ UNCHANGED <<areaLen, curArea, op>>

\* There is no memory for its nodes: the area goes back to the system.
FreeAreaDrops(c) ==
  \E r \in held :
    /\ WantsFree(c, r)
    /\ IsAreaOfSingleSize(r)
    /\ HeapMayFail
    /\ Release(c, r)
    /\ moreAreas' = moreAreas \ {r.area}
    /\ Deregister(r.area)
    /\ Answer(c)
    /\ UNCHANGED <<areaList, curArea, op>>

\* dhmp_free_more_area.
FreeMoreArea(c) ==
  \E r \in held :
    /\ WantsFree(c, r)
    /\ r.len > SingleAreaSize
    /\ r.area \in moreAreas
    /\ Release(c, r)
    /\ moreAreas' = moreAreas \ {r.area}
    /\ Deregister(r.area)
    /\ Answer(c)
    /\ UNCHANGED <<areaList, curArea, op>>

(***************************************************************************)
(* The specification.  The epoll loop serves every ready channel of a      *)
(* round before it waits again, so no client's request is passed over for  *)
(* ever: strong fairness of its handlers, which are disabled while another *)
(* one runs.  Clients need not send anything.                              *)
(***************************************************************************)
Malloc(c) ==
  \/ ChooseCurArea(c)
  \/ ChooseListedArea(c)
  \/ ChooseNewArea(c)
  \/ NewAreaFails(c)
  \/ MallocArea(c)
  \/ MallocAreaFails(c)

Free(c) == FreeBlock(c) \/ FreeArea(c) \/ FreeAreaDrops(c) \/ FreeMoreArea(c)

Loop == GetSplit \/ GetSplitFails \/ GetTake \/ GetNone \/ PutMerge \/ PutInsert

Next ==
  \/ \E c \in Clients : SendMalloc(c) \/ SendFree(c) \/ Malloc(c) \/ Free(c)
  \/ Loop

Spec == Init /\ [][Next]_vars

Fairness == WF_vars(Loop) /\ \A c \in Clients : SF_vars(Malloc(c) \/ Free(c))

FairSpec == Spec /\ Fairness
(***************************************************************************)
(* Properties.                                                             *)
(***************************************************************************)
\* Type correctness of the pool and of the work in progress.
TypeOK ==
  /\ areaList \in SUBSET Areas
  /\ moreAreas \in SUBSET Areas
  /\ areaLen \in [Areas -> Nat]
  /\ curArea \in areaList
  /\ free \in [Areas -> [Orders -> SUBSET Nat]]
  /\ maxIndex \in [Areas -> -2 .. Top]
  /\ held \in SUBSET Region
  /\ nvmUsed \in [Clients -> Int]
  /\ request \in [Clients -> {NoRequest} \cup MallocRequest \cup FreeRequest]
  /\ op \in {Idle} \cup GetOp \cup PutOp

Apart(x, m, y, n) == x + m <= y \/ y + n <= x

FreeApart ==
  \A a \in Areas : \A k, l \in Orders : \A x \in free[a][k], y \in free[a][l] :
    (k = l /\ x = y) \/ Apart(x, BuddySize[k], y, BuddySize[l])

HeldApart ==
  \A r, s \in held :
    r = s \/ r.area # s.area \/ Apart(r.off, r.len, s.off, s.len)

FreeHeldApart ==
  \A r \in held, k \in Orders : \A x \in free[r.area][k] :
    Apart(r.off, r.len, x, BuddySize[k])

HandApart ==
  op.at = "put" =>
    /\ \A k \in Orders : \A x \in free[op.area][k] :
         Apart(op.off, BuddySize[op.index], x, BuddySize[k])
    /\ \A r \in held : r.area = op.area =>
         Apart(op.off, BuddySize[op.index], r.off, r.len)

InsideArea ==
  /\ \A a \in Areas, k \in Orders : \A x \in free[a][k] :
       x + BuddySize[k] <= areaLen[a]
  /\ \A r \in held : r.off + r.len <= areaLen[r.area]
  /\ op.at = "put" => op.off + BuddySize[op.index] <= areaLen[op.area]

\* No byte of NVM is owned twice: the free blocks, the regions granted to
\* clients and the block being put back are pairwise apart and inside their
\* areas, through every split, merge, rebuild and turn of the retry loops.
NoOverlap ==
  FreeApart /\ HeldApart /\ FreeHeldApart /\ HandApart /\ InsideArea

Within(n, off, len) == off <= n /\ n < off + len

\* No byte of NVM is lost: each byte of a registered area is in a free
\* block, in a granted region or in the block being put back.
NoByteLost ==
  \A a \in Areas : \A n \in 0 .. areaLen[a] - 1 :
    \/ \E k \in Orders : \E x \in free[a][k] : Within(n, x, BuddySize[k])
    \/ \E r \in held : r.area = a /\ Within(n, r.off, r.len)
    \/ op.at = "put" /\ op.area = a /\ Within(n, op.off, BuddySize[op.index])

\* A free finds what malloc recorded: the area of a granted block is in
\* area_list and the block has the length of an order; a larger region is
\* the whole of an area of more_area_list.  dhmp_free_one_block drops a
\* block of any other kind silently, and dhmp_free_one_area compares its
\* search with the head of the wrong list.
FreeWillFind ==
  \A r \in held :
    \/ r.area \in areaList /\ \E k \in Orders : r.len = BuddySize[k]
    \/ /\ r.area \in moreAreas \ areaList
       /\ r.len > BuddySize[Top] /\ r.off = 0 /\ r.len = areaLen[r.area]

\* max_index says what the area can serve (dhmp_server.h: "be able to alloc
\* max size=buddy_size[max_index]") whenever no handler is at work.
MaxIndexExact ==
  op = Idle => \A a \in areaList : IsHighest(free[a], Top, maxIndex[a])

\* Freeing undoes fragmentation, whatever the order in which blocks were taken
\* and given back: no two buddies stay free side by side, except the two
\* smallest blocks dhmp_buddy_system_build lays out first.
Coalesced ==
  op = Idle => \A a \in areaList : \A k \in 0 .. Top - 1 : \A x \in free[a][k] :
    BuddyOf(x, k) \in free[a][k] => k = 0 /\ x <= BuddySize[0]

TotalLength(R) == MapThenSumSet(LAMBDA r : r.len, R)

\* The NVM a client's transport is charged for is what the client holds:
\* dhmp_inform_watcher_func reports this number.
NvmAccounting ==
  \A c \in Clients : nvmUsed[c] = TotalLength({r \in held : r.client = c})

\* A malloc of at most a block is refused only when no listed area has a
\* free block that is large enough.
Refused(c) == request[c].kind = "malloc" /\ request'[c] = NoRequest
              /\ held' = held
RefusedOnlyWhenFull ==
  [][\A c \in Clients : Refused(c) /\ request[c].size <= BuddySize[Top] =>
       \A a \in areaList, k \in Orders :
         request[c].size <= BuddySize[k] => free[a][k] = {}]_vars

\* Every request is answered: neither retry loop runs for ever, and every
\* free finds a handler for its region.
RequestsAnswered ==
  \A c \in Clients : request[c] # NoRequest ~> request[c] = NoRequest

(***************************************************************************)
(* What the pool promises its clients.                                     *)
(***************************************************************************)
Promise == INSTANCE NvmPromise WITH
  Areas <- Areas, Clients <- Clients, ReqSizes <- ReqSizes,
  held <- held, request <- request
PromiseSpec == Promise!Spec
=============================================================================
