--------------------------- MODULE NvmPoolProofs ---------------------------
(***************************************************************************)
(* The pool for every number of orders, areas and clients, and every       *)
(* request size: type correctness, that a free finds a handler for its     *)
(* region, that no byte is owned twice, that NvmPool implements            *)
(* NvmPromise, and that the accounts add up, whether or not list nodes     *)
(* fail to be allocated.  Then what the free lists say of an area: they    *)
(* miss no byte (NoByteLost), max_index is their highest non-empty one     *)
(* (MaxIndexExact), which is why a malloc is refused only when the pool is *)
(* full (RefusedOnlyWhenFull), and no two buddies stay in them             *)
(* (Coalesced).                                                            *)
(***************************************************************************)
EXTENDS NvmPool, CountingTheorems

(***************************************************************************)
(* Facts about the constants and the work in progress.                     *)
(***************************************************************************)
LEMMA OrderFacts ==
  /\ Top \in Orders /\ Top >= 1 /\ 0 \in Orders
  /\ Orders \subseteq Nat
  /\ \A k \in Orders : k <= Top
  /\ \A k \in Orders : k # Top => k + 1 \in Orders
  /\ \A k \in Orders : k # 0 => k - 1 \in Orders
BY MaxOrderAssumption DEF Orders, Top

LEMMA SizeFacts ==
  /\ \A k \in Orders : BuddySize[k] \in Nat /\ BuddySize[k] >= 1
  /\ \A k \in Orders : k # Top => BuddySize[k + 1] = 2 * BuddySize[k]
  /\ \A k \in Orders : k # 0 => BuddySize[k] = 2 * BuddySize[k - 1]
  /\ SingleAreaSize \in Nat /\ SingleAreaSize = 2 * BuddySize[Top]
<1>1. \A k \in Orders : BuddySize[k] \in Nat /\ BuddySize[k] >= 1
  BY BuddySizeAssumption
<1>2. \A k \in Orders : k # Top => BuddySize[k + 1] = 2 * BuddySize[k]
  BY BuddySizeAssumption, OrderFacts
<1>3. \A k \in Orders : k # 0 => BuddySize[k] = 2 * BuddySize[k - 1]
  <2> SUFFICES ASSUME NEW k \in Orders, k # 0
               PROVE  BuddySize[k] = 2 * BuddySize[k - 1]
    OBVIOUS
  <2>1. k - 1 \in Orders /\ k - 1 # Top /\ (k - 1) + 1 = k
    BY OrderFacts
  <2> QED
    BY <2>1, <1>2
<1>4. SingleAreaSize \in Nat /\ SingleAreaSize = 2 * BuddySize[Top]
  BY <1>1, OrderFacts DEF SingleAreaSize
<1> QED
  BY <1>1, <1>2, <1>3, <1>4

LEMMA PristineType == Pristine \in [Orders -> SUBSET Nat]
BY SizeFacts, OrderFacts DEF Pristine

LEMMA NoBlocksType == NoBlocks \in [Orders -> SUBSET Nat]
BY DEF NoBlocks

LEMMA OpFacts ==
  ASSUME TypeOK
  PROVE  /\ op.at = "get" => op \in GetOp
         /\ op.at = "put" => op \in PutOp
BY DEF TypeOK, Idle, GetOp, PutOp

LEMMA RequestFacts ==
  ASSUME TypeOK, NEW c \in Clients
  PROVE  /\ request[c].kind = "malloc" => request[c] \in MallocRequest
         /\ request[c].kind = "free" => request[c] \in FreeRequest
BY DEF TypeOK, NoRequest, MallocRequest, FreeRequest

(***************************************************************************)
(* Type correctness.                                                       *)
(***************************************************************************)
LEMMA AnswerType ==
  ASSUME TypeOK, NEW c \in Clients, Answer(c)
  PROVE  request' \in
           [Clients -> {NoRequest} \cup MallocRequest \cup FreeRequest]
BY DEF TypeOK, Answer

LEMMA GrantType ==
  ASSUME TypeOK, NEW c \in Clients, NEW a \in Areas, NEW x \in Nat,
         NEW n \in Nat, Grant(c, a, x, n)
  PROVE  /\ held' \in SUBSET Region
         /\ nvmUsed' \in [Clients -> Int]
         /\ request' \in
              [Clients -> {NoRequest} \cup MallocRequest \cup FreeRequest]
BY AnswerType DEF TypeOK, Grant, Region

LEMMA ReleaseType ==
  ASSUME TypeOK, NEW c \in Clients, NEW r \in held, Release(c, r)
  PROVE  held' \in SUBSET Region /\ nvmUsed' \in [Clients -> Int]
BY DEF TypeOK, Release, Region

LEMMA InitType == Init => TypeOK
BY PristineType, NoBlocksType, OrderFacts, SizeFacts
   DEF Init, TypeOK, Idle, NoRequest

LEMMA AreaCreateType ==
  ASSUME TypeOK, NEW a \in Areas, NEW b \in BOOLEAN, NEW n \in Nat,
         AreaCreate(a, b, n)
  PROVE  /\ areaList' \in SUBSET Areas /\ areaList \subseteq areaList'
         /\ moreAreas' \in SUBSET Areas
         /\ areaLen' \in [Areas -> Nat]
         /\ free' \in [Areas -> [Orders -> SUBSET Nat]]
         /\ maxIndex' \in [Areas -> -2 .. Top]
<1>1. areaLen' \in [Areas -> Nat]
  BY DEF AreaCreate, TypeOK
<1>2. CASE b
  <2>1. free' \in [Areas -> [Orders -> SUBSET Nat]]
    BY <1>2, PristineType DEF AreaCreate, TypeOK
  <2>2. maxIndex' \in [Areas -> -2 .. Top]
    BY <1>2, OrderFacts DEF AreaCreate, TypeOK
  <2> QED
    BY <1>1, <1>2, <2>1, <2>2 DEF AreaCreate, TypeOK
<1>3. CASE ~b
  <2>1. maxIndex' \in [Areas -> -2 .. Top]
    BY <1>3, OrderFacts DEF AreaCreate, TypeOK
  <2> QED
    BY <1>1, <1>3, <2>1 DEF AreaCreate, TypeOK
<1> QED
  BY <1>2, <1>3

LEMMA NextType == TypeOK /\ [Next]_vars => TypeOK'
<1> SUFFICES ASSUME TypeOK, [Next]_vars PROVE TypeOK'
  OBVIOUS
<1>1. ASSUME NEW c \in Clients, SendMalloc(c) PROVE TypeOK'
  BY <1>1 DEF SendMalloc, TypeOK, MallocRequest, poolVars
<1>2. ASSUME NEW c \in Clients, SendFree(c) PROVE TypeOK'
  BY <1>2 DEF SendFree, TypeOK, FreeRequest, poolVars
<1>3. ASSUME NEW c \in Clients, ChooseCurArea(c) PROVE TypeOK'
  BY <1>3 DEF ChooseCurArea, StartGet, TypeOK, GetOp, poolVars
<1>4. ASSUME NEW c \in Clients, ChooseListedArea(c) PROVE TypeOK'
  BY <1>4 DEF ChooseListedArea, StartGet, TypeOK, GetOp
<1>5. ASSUME NEW c \in Clients, ChooseNewArea(c) PROVE TypeOK'
  <2>1. PICK index \in Orders, a \in Areas :
          /\ AreaCreate(a, TRUE, SingleAreaSize)
          /\ curArea' = a
          /\ StartGet(c, a, index)
          /\ UNCHANGED <<held, nvmUsed, request>>
    BY <1>5 DEF ChooseNewArea
  <2>2. a \in areaList'
    BY <2>1 DEF AreaCreate
  <2> QED
    BY <2>1, <2>2, AreaCreateType, SizeFacts DEF StartGet, TypeOK, GetOp
<1>6. ASSUME NEW c \in Clients, NewAreaFails(c) PROVE TypeOK'
  BY <1>6, AnswerType DEF NewAreaFails, Refuse, TypeOK, poolVars
<1>7. ASSUME NEW c \in Clients, MallocArea(c) PROVE TypeOK'
  <2>1. AreaLength(request[c].size) \in Nat
    BY <1>7, RequestFacts, ReqSizesAssumption, SizeFacts
       DEF MallocArea, WantsArea, MallocRequest, AreaLength
  <2>2. PICK a \in Areas :
          /\ AreaCreate(a, FALSE, AreaLength(request[c].size))
          /\ Grant(c, a, 0, AreaLength(request[c].size))
    BY <1>7 DEF MallocArea
  <2> QED
    BY <1>7, <2>1, <2>2, AreaCreateType, GrantType DEF MallocArea, TypeOK
<1>8. ASSUME NEW c \in Clients, MallocAreaFails(c) PROVE TypeOK'
  BY <1>8, AnswerType DEF MallocAreaFails, Refuse, TypeOK, poolVars
<1>9. ASSUME NEW c \in Clients, FreeBlock(c) PROVE TypeOK'
  BY <1>9, ReleaseType DEF FreeBlock, TypeOK, PutOp, Region, poolVars
<1>10. ASSUME NEW c \in Clients, FreeArea(c) PROVE TypeOK'
  <2>1. PICK r \in held : FreeArea(c)!(r)
    BY <1>10 DEF FreeArea
  <2>2. r.area \in Areas
    BY DEF TypeOK, Region
  <2> QED
    BY <2>1, <2>2, ReleaseType, AnswerType, PristineType, OrderFacts
       DEF TypeOK
<1>11. ASSUME NEW c \in Clients, FreeAreaDrops(c) PROVE TypeOK'
  BY <1>11, ReleaseType, AnswerType, NoBlocksType, OrderFacts
     DEF FreeAreaDrops, Deregister, TypeOK, Region
<1>12. ASSUME NEW c \in Clients, FreeMoreArea(c) PROVE TypeOK'
  BY <1>12, ReleaseType, AnswerType, NoBlocksType, OrderFacts
     DEF FreeMoreArea, Deregister, TypeOK, Region
<1>13. CASE GetSplit
  <2>1. PICK i \in Orders : GetSplit!2!(i)
    BY <1>13 DEF GetSplit
  <2>2. op \in GetOp
    BY <1>13, OpFacts DEF GetSplit
  <2>3. i - 1 \in Orders
    BY <2>1, <2>2, OrderFacts DEF IsFirstNonEmpty, GetOp
  <2>4. PICK x \in free[op.area][i] :
          free' = [free EXCEPT ![op.area][i] = @ \ {x},
                               ![op.area][i - 1] = @ \cup Halves(x, i)]
    BY <2>1
  <2>5. Halves(x, i) \subseteq Nat
    BY <2>2, <2>3, <2>4, SizeFacts DEF Halves, TypeOK, GetOp
  <2>6. free' \in [Areas -> [Orders -> SUBSET Nat]]
    BY <2>2, <2>3, <2>4, <2>5 DEF TypeOK, GetOp
  <2> QED
    BY <1>13, <2>6 DEF GetSplit, TypeOK
<1>14. CASE GetSplitFails
  BY <1>14, OpFacts, AnswerType
     DEF GetSplitFails, Refuse, TypeOK, GetOp, poolVars
<1>15. CASE GetTake
  <2>1. op \in GetOp
    BY <1>15, OpFacts DEF GetTake
  <2>2. PICK x \in free[op.area][op.index] :
          /\ free' = [free EXCEPT ![op.area][op.index] = @ \ {x}]
          /\ Grant(op.client, op.area, x, BuddySize[op.index])
    BY <1>15 DEF GetTake
  <2>3. free' \in [Areas -> [Orders -> SUBSET Nat]]
    BY <2>1, <2>2 DEF TypeOK, GetOp
  <2>4. maxIndex' \in [Areas -> -2 .. Top]
    BY <1>15, <2>1, OrderFacts DEF GetTake, LowerIndex, IsHighest, TypeOK, GetOp
  <2>5. x \in Nat /\ BuddySize[op.index] \in Nat
    BY <2>1, <2>2, SizeFacts DEF TypeOK, GetOp
  <2> QED
    BY <1>15, <2>1, <2>2, <2>3, <2>4, <2>5, GrantType DEF GetTake, TypeOK, GetOp
<1>16. CASE GetNone
  BY <1>16, OpFacts, AnswerType DEF GetNone, Refuse, TypeOK, GetOp, poolVars
<1>17. CASE PutMerge
  <2>1. op \in PutOp
    BY <1>17, OpFacts DEF PutMerge
  <2> DEFINE b == BuddyOf(op.off, op.index)
  <2>2. b \in Nat /\ op.index + 1 \in Orders
    BY <1>17, <2>1, OrderFacts DEF PutMerge, CanMerge, TypeOK, PutOp
  <2>3. Merged(op.off, b) \in Nat
    BY <2>1, <2>2 DEF Merged, PutOp
  <2>4. op' \in PutOp
    BY <1>17, <2>1, <2>2, <2>3 DEF PutMerge, PutOp
  <2>5. free' \in [Areas -> [Orders -> SUBSET Nat]]
    BY <1>17, <2>1 DEF PutMerge, TypeOK, PutOp
  <2> QED
    BY <1>17, <2>4, <2>5 DEF PutMerge, TypeOK
<1>18. CASE PutInsert
  <2>1. op \in PutOp
    BY <1>18, OpFacts DEF PutInsert
  <2>2. free' \in [Areas -> [Orders -> SUBSET Nat]]
    BY <1>18, <2>1 DEF PutInsert, TypeOK, PutOp
  <2>3. maxIndex' \in [Areas -> -2 .. Top]
    BY <1>18, <2>1, OrderFacts DEF PutInsert, TypeOK, PutOp
  <2> QED
    BY <1>18, <2>1, <2>2, <2>3, AnswerType DEF PutInsert, TypeOK, PutOp
<1>19. CASE UNCHANGED vars
  BY <1>19 DEF vars, poolVars, TypeOK
<1> QED
  BY <1>1, <1>2, <1>3, <1>4, <1>5, <1>6, <1>7, <1>8, <1>9, <1>10, <1>11,
     <1>12, <1>13, <1>14, <1>15, <1>16, <1>17, <1>18, <1>19
     DEF Next, Malloc, Free, Loop

\* Every state of the pool and of a handler at work is well formed.
THEOREM PoolTypeOK == Spec => []TypeOK
BY InitType, NextType, PTL DEF Spec
(***************************************************************************)
(* Where areas and regions are: the invariant behind FreeWillFind.  An     *)
(* area is in one list at most and has a length exactly when it is in one; *)
(* a granted region is a block of an area of area_list or the whole of an  *)
(* area of more_area_list, which then no other region is in; a handler at  *)
(* work is at work in area_list.                                           *)
(***************************************************************************)
AreaShape ==
  /\ areaList \cap moreAreas = {}
  /\ \A a \in Areas : a \notin areaList /\ a \notin moreAreas => areaLen[a] = 0
  /\ \A a \in areaList : areaLen[a] = SingleAreaSize
  /\ \A a \in moreAreas : areaLen[a] >= SingleAreaSize

HeldShape ==
  \A r \in held :
    \/ r.area \in areaList /\ \E k \in Orders : r.len = BuddySize[k]
    \/ r.area \in moreAreas /\ r.off = 0 /\ r.len = areaLen[r.area]

WholeAlone ==
  \A r, s \in held : r.area \in moreAreas /\ s.area = r.area => s = r

OpShape == op # Idle => op.area \in areaList

Shape == AreaShape /\ HeldShape /\ WholeAlone /\ OpShape

LEMMA HeldFacts ==
  ASSUME TypeOK, NEW r \in held
  PROVE  /\ r \in Region /\ r.client \in Clients /\ r.area \in Areas
         /\ r.off \in Nat /\ r.len \in Nat
BY DEF TypeOK, Region

\* Only the areas in a list have bytes, so that a new area was in none.
LEMMA CreatedWasFree ==
  ASSUME TypeOK, Shape, NEW a \in Areas, areaLen[a] = 0
  PROVE  a \notin areaList /\ a \notin moreAreas
BY SizeFacts, OrderFacts DEF Shape, AreaShape

LEMMA AreaCreateShape ==
  ASSUME TypeOK, Shape, NEW a \in Areas, NEW b \in BOOLEAN, NEW n \in Nat,
         AreaCreate(a, b, n), n >= SingleAreaSize, b => n = SingleAreaSize
  PROVE  /\ AreaShape'
         /\ \A r \in held : r.area # a /\ areaLen'[r.area] = areaLen[r.area]
         /\ areaList \subseteq areaList' /\ moreAreas \subseteq moreAreas'
         /\ b => a \in areaList'
         /\ ~b => a \in moreAreas' /\ areaLen'[a] = n
<1>1. a \notin areaList /\ a \notin moreAreas
  BY CreatedWasFree DEF AreaCreate
<1>2. /\ areaLen' \in [Areas -> Nat] /\ areaLen'[a] = n
      /\ \A d \in Areas : d # a => areaLen'[d] = areaLen[d]
  BY DEF AreaCreate, TypeOK
<1>3. \A r \in held : r.area # a /\ areaLen'[r.area] = areaLen[r.area]
  BY <1>1, <1>2, HeldFacts DEF Shape, HeldShape
<1>4. CASE b
  BY <1>1, <1>2, <1>3, <1>4, SizeFacts DEF AreaCreate, Shape, AreaShape, TypeOK
<1>5. CASE ~b
  BY <1>1, <1>2, <1>3, <1>5, SizeFacts DEF AreaCreate, Shape, AreaShape, TypeOK
<1> QED
  BY <1>4, <1>5

LEMMA InitShape == Init => Shape
BY SizeFacts DEF Init, Shape, AreaShape, HeldShape, WholeAlone, OpShape

\* The steps that leave the areas alone and grant nothing.
LEMMA SamePoolShape ==
  ASSUME Shape, UNCHANGED <<areaList, moreAreas, areaLen>>,
         held' \subseteq held, OpShape'
  PROVE  Shape'
BY DEF Shape, AreaShape, HeldShape, WholeAlone

\* A handler takes back the whole of an area and moves it or drops it.
LEMMA FreedAreaShape ==
  ASSUME TypeOK, Shape, op = Idle, op' = op, NEW c \in Clients,
         NEW r \in held, r.area \in moreAreas, Release(c, r),
         moreAreas' = moreAreas \ {r.area},
         \/ areaList' = areaList \cup {r.area} /\ UNCHANGED areaLen
            /\ r.len <= SingleAreaSize
         \/ areaList' = areaList /\ areaLen' = [areaLen EXCEPT ![r.area] = 0]
  PROVE  Shape'
<1>1. r.area \in Areas /\ r.area \notin areaList
  BY HeldFacts DEF Shape, AreaShape
<1>2. \A s \in held' : s \in held /\ s.area # r.area
  BY DEF Release, Shape, WholeAlone
<1>3. areaLen[r.area] = r.len
  BY <1>1 DEF Shape, HeldShape
<1>4. \A a \in Areas : a # r.area => areaLen'[a] = areaLen[a]
  BY DEF TypeOK
<1>5. AreaShape'
  <2>1. CASE areaList' = areaList \cup {r.area} /\ UNCHANGED areaLen
             /\ r.len <= SingleAreaSize
    <3>1. areaLen[r.area] \in Nat /\ areaLen[r.area] >= SingleAreaSize
      BY <1>1 DEF Shape, AreaShape, TypeOK
    <3>2. areaLen[r.area] = SingleAreaSize
      BY <1>3, <2>1, <3>1, SizeFacts
    <3> QED
      BY <1>1, <2>1, <3>2 DEF Shape, AreaShape
  <2>2. CASE areaList' = areaList
             /\ areaLen' = [areaLen EXCEPT ![r.area] = 0]
    BY <1>1, <1>4, <2>2 DEF Shape, AreaShape, TypeOK
  <2> QED
    BY <2>1, <2>2
<1>6. HeldShape'
  <2> SUFFICES ASSUME NEW s \in held'
               PROVE  \/ s.area \in areaList'
                         /\ \E k \in Orders : s.len = BuddySize[k]
                      \/ s.area \in moreAreas' /\ s.off = 0
                         /\ s.len = areaLen'[s.area]
    BY DEF HeldShape
  <2>1. s \in held /\ s.area # r.area /\ s.area \in Areas
    BY <1>2, HeldFacts
  <2> QED
    BY <2>1, <1>4 DEF Shape, HeldShape
<1>7. WholeAlone'
  BY <1>2 DEF Shape, WholeAlone
<1> QED
  BY <1>5, <1>6, <1>7 DEF Shape, OpShape

LEMMA NextShape == TypeOK /\ Shape /\ [Next]_vars => Shape'
<1> SUFFICES ASSUME TypeOK, Shape, [Next]_vars PROVE Shape'
  OBVIOUS
<1>1. ASSUME NEW c \in Clients, SendMalloc(c) \/ SendFree(c) PROVE Shape'
  BY <1>1, SamePoolShape DEF SendMalloc, SendFree, poolVars, Shape, OpShape
<1>2. ASSUME NEW c \in Clients,
             NewAreaFails(c) \/ MallocAreaFails(c)
      PROVE  Shape'
  BY <1>2, SamePoolShape
     DEF NewAreaFails, MallocAreaFails, Refuse, poolVars, Shape, OpShape
<1>3. ASSUME NEW c \in Clients, ChooseCurArea(c) PROVE Shape'
  <2>1. op'.area \in areaList'
    BY <1>3 DEF ChooseCurArea, StartGet, poolVars, TypeOK
  <2> QED
    BY <1>3, <2>1, SamePoolShape DEF ChooseCurArea, poolVars, OpShape
<1>4. ASSUME NEW c \in Clients, ChooseListedArea(c) PROVE Shape'
  <2>1. op'.area \in areaList'
    BY <1>4 DEF ChooseListedArea, StartGet
  <2> QED
    BY <1>4, <2>1, SamePoolShape DEF ChooseListedArea, OpShape
<1>5. ASSUME NEW c \in Clients, ChooseNewArea(c) PROVE Shape'
  <2>1. PICK index \in Orders, a \in Areas :
          /\ AreaCreate(a, TRUE, SingleAreaSize)
          /\ StartGet(c, a, index)
          /\ held' = held
    BY <1>5 DEF ChooseNewArea
  <2>2. /\ AreaShape'
        /\ \A r \in held : r.area # a /\ areaLen'[r.area] = areaLen[r.area]
        /\ areaList \subseteq areaList' /\ moreAreas \subseteq moreAreas'
        /\ a \in areaList'
    <3>1. SingleAreaSize \in Nat /\ SingleAreaSize >= SingleAreaSize
      BY SizeFacts
    <3> QED
      BY <2>1, <3>1, AreaCreateShape
  <2>3. HeldShape'
    <3> SUFFICES ASSUME NEW r \in held
                 PROVE  \/ r.area \in areaList'
                           /\ \E k \in Orders : r.len = BuddySize[k]
                        \/ r.area \in moreAreas' /\ r.off = 0
                           /\ r.len = areaLen'[r.area]
      BY <2>1 DEF HeldShape
    <3> QED
      BY <2>2 DEF Shape, HeldShape
  <2>4. WholeAlone'
    BY <2>1 DEF AreaCreate, Shape, WholeAlone
  <2>5. OpShape'
    BY <2>1, <2>2 DEF StartGet, OpShape
  <2> QED
    BY <2>2, <2>3, <2>4, <2>5 DEF Shape
<1>6. ASSUME NEW c \in Clients, MallocArea(c) PROVE Shape'
  <2> DEFINE n == AreaLength(request[c].size)
  <2>1. n \in Nat /\ n >= SingleAreaSize
    <3>1. request[c].size \in Nat
      BY <1>6, RequestFacts, ReqSizesAssumption
         DEF MallocArea, WantsArea, MallocRequest
    <3> QED
      BY <3>1, SizeFacts DEF AreaLength
  <2>2. PICK a \in Areas : AreaCreate(a, FALSE, n) /\ Grant(c, a, 0, n)
    BY <1>6 DEF MallocArea
  <2> HIDE DEF n
  <2>3. /\ AreaShape'
        /\ \A r \in held : r.area # a /\ areaLen'[r.area] = areaLen[r.area]
        /\ areaList \subseteq areaList' /\ moreAreas \subseteq moreAreas'
        /\ a \in moreAreas' /\ areaLen'[a] = n
    BY <2>1, <2>2, AreaCreateShape
  <2> DEFINE g == [client |-> c, area |-> a, off |-> 0, len |-> n]
  <2>4. held' = held \cup {g} /\ g.area = a /\ g.off = 0 /\ g.len = n
    BY <2>2 DEF Grant
  <2> HIDE DEF g
  <2>5. HeldShape'
    BY <2>3, <2>4 DEF Shape, HeldShape
  <2>6. moreAreas' = moreAreas \cup {a}
    BY <2>2 DEF AreaCreate
  <2>7. WholeAlone'
    BY <2>3, <2>4, <2>6 DEF Shape, WholeAlone
  <2>8. OpShape'
    BY <1>6 DEF MallocArea, WantsArea, OpShape
  <2> QED
    BY <2>3, <2>5, <2>7, <2>8 DEF Shape
<1>7. ASSUME NEW c \in Clients, FreeBlock(c) PROVE Shape'
  <2>1. op'.area \in areaList' /\ held' \subseteq held
    BY <1>7 DEF FreeBlock, Release, poolVars
  <2> QED
    BY <1>7, <2>1, SamePoolShape DEF FreeBlock, poolVars, OpShape
<1>8. ASSUME NEW c \in Clients, FreeArea(c) PROVE Shape'
  BY <1>8, FreedAreaShape DEF FreeArea, WantsFree, IsAreaOfSingleSize
<1>9. ASSUME NEW c \in Clients, FreeAreaDrops(c) \/ FreeMoreArea(c)
      PROVE  Shape'
  BY <1>9, FreedAreaShape
     DEF FreeAreaDrops, FreeMoreArea, WantsFree, IsAreaOfSingleSize, Deregister
<1>10. CASE GetSplit
  BY <1>10, SamePoolShape DEF GetSplit, Shape, OpShape
<1>11. CASE GetSplitFails \/ GetNone
  BY <1>11, SamePoolShape
     DEF GetSplitFails, GetNone, Refuse, poolVars, OpShape
<1>12. CASE GetTake
  <2>1. op \in GetOp /\ op.area \in areaList
    BY <1>12, OpFacts DEF GetTake, Idle, Shape, OpShape, GetOp
  <2>2. PICK x \in free[op.area][op.index] :
          Grant(op.client, op.area, x, BuddySize[op.index])
    BY <1>12 DEF GetTake
  <2> DEFINE g == [client |-> op.client, area |-> op.area, off |-> x,
                   len |-> BuddySize[op.index]]
  <2>3. /\ held' = held \cup {g}
        /\ g.area = op.area /\ g.len = BuddySize[op.index]
    BY <2>2 DEF Grant
  <2> HIDE DEF g
  <2>4. UNCHANGED <<areaList, moreAreas, areaLen>> /\ op' = Idle
    BY <1>12 DEF GetTake
  <2>5. HeldShape'
    BY <2>1, <2>3, <2>4 DEF Shape, HeldShape, GetOp
  <2>6. WholeAlone'
    BY <2>1, <2>3, <2>4 DEF Shape, AreaShape, WholeAlone
  <2> QED
    BY <2>4, <2>5, <2>6 DEF Shape, AreaShape, OpShape
<1>13. CASE PutMerge
  <2>1. op'.area = op.area /\ op.area \in areaList
    BY <1>13, OpFacts DEF PutMerge, PutOp, Idle, Shape, OpShape
  <2> QED
    BY <1>13, <2>1, SamePoolShape DEF PutMerge, OpShape
<1>14. CASE PutInsert
  BY <1>14, SamePoolShape DEF PutInsert, OpShape
<1>15. CASE UNCHANGED vars
  BY <1>15 DEF vars, poolVars, Shape, AreaShape, HeldShape, WholeAlone, OpShape
<1> QED
  BY <1>1, <1>2, <1>3, <1>4, <1>5, <1>6, <1>7, <1>8, <1>9, <1>10, <1>11,
     <1>12, <1>13, <1>14, <1>15 DEF Next, Malloc, Free, Loop

LEMMA ShapeFinds == TypeOK /\ Shape => FreeWillFind
<1> SUFFICES ASSUME TypeOK, Shape, NEW r \in held, r.area \in moreAreas
             PROVE  r.area \notin areaList /\ areaLen[r.area] > BuddySize[Top]
  BY DEF Shape, HeldShape, FreeWillFind
<1>1. areaLen[r.area] \in Nat /\ areaLen[r.area] >= SingleAreaSize
  BY HeldFacts DEF Shape, AreaShape, TypeOK
<1>2. BuddySize[Top] \in Nat /\ BuddySize[Top] >= 1
  BY SizeFacts, OrderFacts
<1> QED
  BY <1>1, <1>2, SizeFacts DEF Shape, AreaShape

\* Every region a client holds is one the free handlers find and take back.
THEOREM PoolFreeWillFind == Spec => []FreeWillFind
<1>1. TypeOK /\ Shape /\ [Next]_vars => (TypeOK /\ Shape)'
  BY NextType, NextShape
<1> QED
  BY <1>1, InitType, InitShape, ShapeFinds, PTL DEF Spec

(***************************************************************************)
(* No byte of NVM is owned twice: NoOverlap is inductive together with     *)
(* TypeOK and Shape.                                                       *)
(***************************************************************************)

(***************************************************************************)
(* The layout of a new area.                                               *)
(***************************************************************************)
LEMMA SizesGrow ==
  \A j, k \in Orders : j < k => 2 * BuddySize[j] <= BuddySize[k]
<1> SUFFICES ASSUME NEW j \in Orders,
                    \E k \in Orders : j < k /\ ~(2 * BuddySize[j] <= BuddySize[k])
             PROVE  FALSE
  OBVIOUS
<1> DEFINE Bad == {k \in Orders : j < k /\ ~(2 * BuddySize[j] <= BuddySize[k])}
<1>1. PICK k \in Bad : \A i \in Bad : ~(i < k)
  <2>1. Bad \in SUBSET Nat /\ Bad # {}
    BY OrderFacts
  <2> QED
    BY <2>1, SmallestElement
<1>2. k # 0 /\ k - 1 \in Orders /\ j \in Nat /\ k \in Nat
  BY OrderFacts
<1>3. BuddySize[k] = 2 * BuddySize[k - 1]
  BY <1>2, SizeFacts
<1>4. BuddySize[k - 1] \in Nat /\ BuddySize[j] \in Nat
  BY <1>2, SizeFacts
<1>5. CASE k - 1 = j
  BY <1>3, <1>4, <1>5
<1>6. CASE j < k - 1
  <2>1. k - 1 \notin Bad
    BY <1>1, <1>2
  <2> QED
    BY <1>2, <1>3, <1>4, <1>6, <2>1
<1> QED
  BY <1>2, <1>5, <1>6

LEMMA PristineInside ==
  \A k \in Orders : \A x \in Pristine[k] :
    x \in Nat /\ x + BuddySize[k] <= SingleAreaSize
<1> SUFFICES ASSUME NEW k \in Orders, NEW x \in Pristine[k]
             PROVE  x \in Nat /\ x + BuddySize[k] <= SingleAreaSize
  OBVIOUS
<1>1. x \in Nat /\ x <= BuddySize[k]
  BY SizeFacts, OrderFacts DEF Pristine
<1>2. BuddySize[k] <= BuddySize[Top]
  <2>1. CASE k = Top
    BY <2>1, SizeFacts, OrderFacts
  <2>2. CASE k # Top
    BY <2>2, SizesGrow, SizeFacts, OrderFacts
  <2> QED
    BY <2>1, <2>2
<1> QED
  BY <1>1, <1>2, SizeFacts, OrderFacts

LEMMA PristineApart ==
  \A k, l \in Orders : \A x \in Pristine[k], y \in Pristine[l] :
    (k = l /\ x = y) \/ Apart(x, BuddySize[k], y, BuddySize[l])
<1>1. ASSUME NEW k \in Orders, NEW l \in Orders, k < l,
             NEW x \in Pristine[k], NEW y \in Pristine[l]
      PROVE  x + BuddySize[k] <= y
  <2>1. y = BuddySize[l] /\ x <= BuddySize[k] /\ x \in Nat
    BY <1>1, SizeFacts, OrderFacts DEF Pristine
  <2>2. 2 * BuddySize[k] <= BuddySize[l]
    BY <1>1, SizesGrow
  <2> QED
    BY <2>1, <2>2, SizeFacts
<1>2. ASSUME NEW k \in Orders, NEW x \in Pristine[k], NEW y \in Pristine[k]
      PROVE  x = y \/ Apart(x, BuddySize[k], y, BuddySize[k])
  BY SizeFacts, OrderFacts DEF Pristine, Apart
<1> SUFFICES ASSUME NEW k \in Orders, NEW l \in Orders,
                    NEW x \in Pristine[k], NEW y \in Pristine[l]
             PROVE  (k = l /\ x = y) \/ Apart(x, BuddySize[k], y, BuddySize[l])
  OBVIOUS
<1>3. k < l \/ l < k \/ k = l
  BY OrderFacts
<1> QED
  BY <1>1, <1>2, <1>3 DEF Apart
(***************************************************************************)
(* NoOverlap is inductive.                                                 *)
(***************************************************************************)
LEMMA FreeFacts ==
  ASSUME TypeOK, NEW a \in Areas, NEW k \in Orders, NEW x \in free[a][k]
  PROVE  x \in Nat
BY DEF TypeOK

LEMMA HeldPositive ==
  ASSUME TypeOK, Shape, NEW r \in held
  PROVE  r.len >= 1
<1>1. CASE r.area \in moreAreas /\ r.len = areaLen[r.area]
  <2>1. areaLen[r.area] \in Nat /\ areaLen[r.area] >= SingleAreaSize
    BY <1>1, HeldFacts DEF Shape, AreaShape, TypeOK
  <2>2. BuddySize[Top] \in Nat /\ BuddySize[Top] >= 1
    BY SizeFacts, OrderFacts
  <2> QED
    BY <1>1, <2>1, <2>2, SizeFacts
<1>2. CASE \E k \in Orders : r.len = BuddySize[k]
  BY <1>2, SizeFacts
<1> QED
  BY <1>1, <1>2 DEF Shape, HeldShape

LEMMA InitOverlap == Init => NoOverlap
<1> SUFFICES ASSUME Init PROVE NoOverlap
  OBVIOUS
<1>1. PICK a \in Areas :
        /\ areaLen = [b \in Areas |-> IF b = a THEN SingleAreaSize ELSE 0]
        /\ free = [b \in Areas |-> IF b = a THEN Pristine ELSE NoBlocks]
  BY DEF Init
<1>2. \A d \in Areas, k \in Orders :
        \/ free[d][k] = {}
        \/ free[d][k] = Pristine[k] /\ free[d] = Pristine
           /\ areaLen[d] = SingleAreaSize
  BY <1>1 DEF NoBlocks
<1>3. FreeApart
  BY <1>1, PristineApart DEF FreeApart, NoBlocks
<1>4. held = {} /\ op = Idle
  BY DEF Init
<1>5. InsideArea
  BY <1>2, <1>4, PristineInside DEF InsideArea, Idle
<1> QED
  BY <1>3, <1>4, <1>5
     DEF NoOverlap, HeldApart, FreeHeldApart, HandApart, Idle

\* Nothing new is owned.
LEMMA ShrinkOverlap ==
  ASSUME NoOverlap, UNCHANGED <<free, areaLen>>, held' \subseteq held,
         op' = op \/ op'.at # "put"
  PROVE  NoOverlap'
BY DEF NoOverlap, FreeApart, HeldApart, FreeHeldApart, HandApart, InsideArea

LEMMA NewAreaOverlap ==
  ASSUME TypeOK, Shape, NoOverlap, NEW c \in Clients, ChooseNewArea(c)
  PROVE  NoOverlap'
<1>1. PICK index \in Orders, a \in Areas :
        /\ AreaCreate(a, TRUE, SingleAreaSize)
        /\ held' = held
        /\ StartGet(c, a, index)
  BY DEF ChooseNewArea
<1>2. a \notin areaList /\ a \notin moreAreas
  BY <1>1, CreatedWasFree DEF AreaCreate
<1>3. \A r \in held : r.area # a /\ r.area \in Areas
  BY <1>2, HeldFacts DEF Shape, HeldShape
<1>4. /\ free'[a] = Pristine /\ areaLen'[a] = SingleAreaSize
      /\ \A d \in Areas : d # a => free'[d] = free[d] /\ areaLen'[d] = areaLen[d]
  BY <1>1 DEF AreaCreate, TypeOK
<1>5. FreeApart'
  BY <1>4, PristineApart DEF NoOverlap, FreeApart
<1>6. FreeHeldApart'
  BY <1>1, <1>3, <1>4 DEF NoOverlap, FreeHeldApart
<1>7. InsideArea'
  <2>1. op'.at # "put"
    BY <1>1 DEF StartGet
  <2> QED
    BY <1>1, <1>3, <1>4, <2>1, PristineInside DEF NoOverlap, InsideArea
<1> QED
  BY <1>1, <1>5, <1>6, <1>7 DEF NoOverlap, HeldApart, HandApart, StartGet

LEMMA WholeAreaOverlap ==
  ASSUME TypeOK, Shape, NoOverlap, NEW c \in Clients, MallocArea(c)
  PROVE  NoOverlap'
<1> DEFINE n == AreaLength(request[c].size)
<1>1. PICK a \in Areas : AreaCreate(a, FALSE, n) /\ Grant(c, a, 0, n)
  BY DEF MallocArea
<1>2. n \in Nat
  <2>1. request[c].size \in Nat
    BY RequestFacts, ReqSizesAssumption DEF MallocArea, WantsArea, MallocRequest
  <2> QED
    BY <2>1, SizeFacts DEF AreaLength
<1> HIDE DEF n
<1>3. a \notin areaList /\ a \notin moreAreas /\ areaLen[a] = 0
  BY <1>1, CreatedWasFree DEF AreaCreate
<1>4. \A r \in held : r.area # a /\ r.area \in Areas
  BY <1>3, HeldFacts DEF Shape, HeldShape
<1>5. \A k \in Orders : free[a][k] = {}
  <2> SUFFICES ASSUME NEW k \in Orders, NEW x \in free[a][k] PROVE FALSE
    OBVIOUS
  <2>1. x + BuddySize[k] <= 0
    BY <1>3 DEF NoOverlap, InsideArea
  <2> QED
    BY <2>1, FreeFacts, SizeFacts
<1> DEFINE g == [client |-> c, area |-> a, off |-> 0, len |-> n]
<1>6. held' = held \cup {g} /\ g.area = a /\ g.off = 0 /\ g.len = n
  BY <1>1 DEF Grant
<1> HIDE DEF g
<1>7. /\ free' = free /\ op' = op /\ op.at # "put" /\ areaLen'[a] = n
      /\ \A d \in Areas : d # a => areaLen'[d] = areaLen[d]
  BY <1>1 DEF AreaCreate, MallocArea, WantsArea, Idle, TypeOK
<1>8. HeldApart'
  BY <1>4, <1>6 DEF NoOverlap, HeldApart
<1>9. FreeHeldApart'
  BY <1>5, <1>6, <1>7 DEF NoOverlap, FreeHeldApart
<1>10. InsideArea'
  <2>1. \A d \in Areas, k \in Orders : \A x \in free[d][k] :
          x + BuddySize[k] <= areaLen'[d]
    BY <1>5, <1>7 DEF NoOverlap, InsideArea
  <2>2. \A r \in held' : r.off + r.len <= areaLen'[r.area]
    BY <1>2, <1>4, <1>6, <1>7 DEF NoOverlap, InsideArea
  <2> QED
    BY <1>7, <2>1, <2>2 DEF InsideArea
<1> QED
  BY <1>7, <1>8, <1>9, <1>10 DEF NoOverlap, FreeApart, HandApart

LEMMA SplitOverlap ==
  ASSUME TypeOK, NoOverlap, GetSplit
  PROVE  NoOverlap'
<1>1. PICK i \in Orders : GetSplit!2!(i)
  BY DEF GetSplit
<1>2. PICK x \in free[op.area][i] :
        free' = [free EXCEPT ![op.area][i] = @ \ {x},
                             ![op.area][i - 1] = @ \cup Halves(x, i)]
  BY <1>1
<1> DEFINE a == op.area
           h == BuddySize[i - 1]
<1>3. /\ op \in GetOp /\ a \in Areas /\ i - 1 \in Orders /\ i - 1 # i
      /\ op.at # "put"
  BY <1>1, OpFacts, OrderFacts DEF GetSplit, IsFirstNonEmpty, GetOp
<1>4. x \in Nat /\ h \in Nat /\ BuddySize[i] = 2 * h /\ Halves(x, i) = {x, x + h}
  BY <1>3, FreeFacts, SizeFacts, OrderFacts DEF Halves
<1>5. /\ free'[a][i] = free[a][i] \ {x}
      /\ free'[a][i - 1] = free[a][i - 1] \cup {x, x + h}
      /\ \A k \in Orders : k # i /\ k # i - 1 => free'[a][k] = free[a][k]
      /\ \A d \in Areas : d # a => free'[d] = free[d]
  BY <1>2, <1>3, <1>4 DEF TypeOK
<1>6. UNCHANGED <<areaLen, held, op>>
  BY DEF GetSplit
<1> HIDE DEF a, h
\* A free block is an old one, and then apart from the block split, or a half.
<1>7. ASSUME NEW d \in Areas, NEW k \in Orders, NEW y \in free'[d][k]
      PROVE  \/ d = a /\ k = i - 1 /\ y \in {x, x + h}
             \/ /\ y \in free[d][k] /\ y \in Nat
                /\ d = a => Apart(x, 2 * h, y, BuddySize[k])
  <2>1. CASE d = a /\ k = i - 1 /\ y \in {x, x + h}
    BY <2>1
  <2>2. CASE ~(d = a /\ k = i - 1 /\ y \in {x, x + h})
    <3>1. y \in free[d][k] /\ ~(d = a /\ k = i /\ y = x)
      BY <1>3, <1>5, <2>2
    <3>2. d = a => Apart(x, 2 * h, y, BuddySize[k])
      BY <1>2, <1>3, <1>4, <3>1 DEF NoOverlap, FreeApart, a
    <3> QED
      BY <3>1, <3>2, FreeFacts
  <2> QED
    BY <2>1, <2>2
<1>8. FreeApart'
  <2> SUFFICES ASSUME NEW d \in Areas, NEW k \in Orders, NEW l \in Orders,
                      NEW y \in free'[d][k], NEW z \in free'[d][l]
               PROVE  \/ k = l /\ y = z
                      \/ Apart(y, BuddySize[k], z, BuddySize[l])
    BY DEF FreeApart
  <2>1. CASE d = a /\ k = i - 1 /\ y \in {x, x + h}
    BY <1>4, <1>7, <2>1, SizeFacts DEF h, Apart
  <2>2. CASE d = a /\ l = i - 1 /\ z \in {x, x + h}
    BY <1>4, <1>7, <2>2, SizeFacts DEF h, Apart
  <2>3. CASE y \in free[d][k] /\ z \in free[d][l]
    BY <2>3 DEF NoOverlap, FreeApart
  <2> QED
    BY <1>7, <2>1, <2>2, <2>3
<1>9. FreeHeldApart'
  <2> SUFFICES ASSUME NEW r \in held, NEW k \in Orders,
                      NEW y \in free'[r.area][k]
               PROVE  Apart(r.off, r.len, y, BuddySize[k])
    BY <1>6 DEF FreeHeldApart
  <2>1. r.area \in Areas /\ r.off \in Nat /\ r.len \in Nat
    BY HeldFacts
  <2>2. r.area = a => Apart(r.off, r.len, x, 2 * h)
    BY <1>2, <1>4 DEF NoOverlap, FreeHeldApart, a
  <2>3. CASE r.area = a /\ k = i - 1 /\ y \in {x, x + h}
    BY <1>4, <2>1, <2>2, <2>3 DEF h, Apart
  <2>4. CASE y \in free[r.area][k]
    BY <2>4 DEF NoOverlap, FreeHeldApart
  <2> QED
    BY <1>7, <2>1, <2>3, <2>4
<1>10. InsideArea'
  <2>1. x + 2 * h <= areaLen[a] /\ areaLen[a] \in Nat
    BY <1>2, <1>3, <1>4 DEF NoOverlap, InsideArea, TypeOK, a
  <2>2. ASSUME NEW d \in Areas, NEW k \in Orders, NEW y \in free'[d][k]
        PROVE  y + BuddySize[k] <= areaLen[d]
    <3>1. CASE d = a /\ k = i - 1 /\ y \in {x, x + h}
      BY <1>4, <2>1, <3>1 DEF h
    <3>2. CASE y \in free[d][k]
      BY <3>2 DEF NoOverlap, InsideArea
    <3> QED
      BY <1>7, <3>1, <3>2
  <2> QED
    BY <1>3, <1>6, <2>2 DEF NoOverlap, InsideArea
<1> QED
  BY <1>3, <1>6, <1>8, <1>9, <1>10 DEF NoOverlap, HeldApart, HandApart

LEMMA TakeOverlap ==
  ASSUME TypeOK, NoOverlap, GetTake
  PROVE  NoOverlap'
<1>1. PICK x \in free[op.area][op.index] :
        /\ free' = [free EXCEPT ![op.area][op.index] = @ \ {x}]
        /\ Grant(op.client, op.area, x, BuddySize[op.index])
  BY DEF GetTake
<1>2. op \in GetOp /\ op.area \in Areas /\ op.index \in Orders
  BY OpFacts DEF GetTake, GetOp
<1> DEFINE g == [client |-> op.client, area |-> op.area, off |-> x,
                 len |-> BuddySize[op.index]]
<1>3. /\ held' = held \cup {g} /\ g.area = op.area /\ g.off = x
      /\ g.len = BuddySize[op.index]
  BY <1>1 DEF Grant
<1> HIDE DEF g
<1>4. UNCHANGED areaLen /\ op' = Idle
  BY DEF GetTake
<1>5. \A d \in Areas, k \in Orders : \A y \in free'[d][k] :
        /\ y \in free[d][k]
        /\ ~(d = op.area /\ k = op.index /\ y = x)
  BY <1>1, <1>2 DEF TypeOK
<1>6. FreeApart'
  BY <1>5 DEF NoOverlap, FreeApart
<1>7. HeldApart'
  <2>1. \A r \in held : r.area = op.area =>
          Apart(r.off, r.len, x, BuddySize[op.index])
    BY <1>1, <1>2 DEF NoOverlap, FreeHeldApart
  <2> QED
    BY <1>3, <2>1 DEF NoOverlap, HeldApart, Apart
<1>8. FreeHeldApart'
  <2> SUFFICES ASSUME NEW r \in held', NEW k \in Orders,
                      NEW y \in free'[r.area][k]
               PROVE  Apart(r.off, r.len, y, BuddySize[k])
    BY DEF FreeHeldApart
  <2>1. CASE r \in held
    BY <1>5, <2>1, HeldFacts DEF NoOverlap, FreeHeldApart
  <2>2. CASE r = g
    BY <1>1, <1>2, <1>3, <1>5, <2>2 DEF NoOverlap, FreeApart
  <2> QED
    BY <1>3, <2>1, <2>2
<1>9. InsideArea'
  <2>1. x + BuddySize[op.index] <= areaLen[op.area]
    BY <1>1, <1>2 DEF NoOverlap, InsideArea
  <2> QED
    BY <1>3, <1>4, <1>5, <2>1 DEF NoOverlap, InsideArea, Idle
<1> QED
  BY <1>4, <1>6, <1>7, <1>8, <1>9 DEF NoOverlap, HandApart, Idle

LEMMA FreeBlockOverlap ==
  ASSUME TypeOK, NoOverlap, NEW c \in Clients, FreeBlock(c)
  PROVE  NoOverlap'
<1>1. PICK r \in held, index \in Orders : FreeBlock(c)!(r, index)
  BY DEF FreeBlock
<1>2. /\ held' = held \ {r} /\ UNCHANGED <<free, areaLen>>
      /\ op' = [at |-> "put", client |-> c, area |-> r.area,
                index |-> index, off |-> r.off]
      /\ BuddySize[index] = r.len
  BY <1>1 DEF Release, poolVars
<1>3. HandApart'
  BY <1>2 DEF NoOverlap, HandApart, FreeHeldApart, HeldApart
<1>4. InsideArea'
  BY <1>2 DEF NoOverlap, InsideArea
<1> QED
  BY <1>2, <1>3, <1>4
     DEF NoOverlap, FreeApart, HeldApart, FreeHeldApart

LEMMA MergeOverlap ==
  ASSUME TypeOK, Shape, NoOverlap, PutMerge
  PROVE  NoOverlap'
<1> DEFINE a == op.area
           k == op.index
           x == op.off
           b == BuddyOf(x, k)
           m == Merged(x, b)
           h == BuddySize[k]
<1>1. /\ op \in PutOp /\ a \in Areas /\ k \in Orders /\ x \in Nat
      /\ b \in free[a][k] /\ b \in Nat /\ k # Top /\ k + 1 \in Orders
  BY OpFacts, OrderFacts DEF PutMerge, CanMerge, PutOp, TypeOK
<1>2. h \in Nat /\ h >= 1 /\ BuddySize[k + 1] = 2 * h
  BY <1>1, SizeFacts
<1>3. m \in Nat /\ ((m = x /\ b = x + h) \/ (m = b /\ x = b + h))
  <2>1. b = x + h \/ b = x - h
    BY DEF BuddyOf
  <2>2. (m = b /\ b < x) \/ (m = x /\ ~(b < x))
    BY DEF Merged
  <2> HIDE DEF b, m, h
  <2>3. x - h < x /\ ~(x + h < x) /\ (x - h) + h = x
    BY <1>1, <1>2
  <2> QED
    BY <1>1, <1>2, <2>1, <2>2, <2>3
<1>4. /\ free' = [free EXCEPT ![a][k] = @ \ {b}]
      /\ UNCHANGED <<areaLen, held>>
  BY DEF PutMerge
<1>5. op'.at = "put" /\ op'.area = a /\ op'.index = k + 1 /\ op'.off = m
  BY <1>1 DEF PutMerge, PutOp
<1>6. \A d \in Areas, l \in Orders : \A y \in free'[d][l] :
        y \in free[d][l] /\ ~(d = a /\ l = k /\ y = b)
  BY <1>1, <1>4 DEF TypeOK
<1>7. op.at = "put"
  BY DEF PutMerge
<1> HIDE DEF b, m
<1>8. FreeApart' /\ HeldApart' /\ FreeHeldApart'
  BY <1>4, <1>6, HeldFacts DEF NoOverlap, FreeApart, HeldApart, FreeHeldApart
<1>9. HandApart'
  <2>1. ASSUME NEW l \in Orders, NEW y \in free'[a][l]
        PROVE  Apart(m, 2 * h, y, BuddySize[l])
    <3>1. Apart(x, h, y, BuddySize[l]) /\ Apart(b, h, y, BuddySize[l])
      BY <1>1, <1>6, <1>7 DEF NoOverlap, HandApart, FreeApart
    <3>2. y \in Nat /\ BuddySize[l] \in Nat /\ BuddySize[l] >= 1
      BY <1>1, <1>6, FreeFacts, SizeFacts
    <3> HIDE DEF x, h
    <3> QED
      BY <1>1, <1>2, <1>3, <3>1, <3>2 DEF Apart
  <2>2. ASSUME NEW r \in held, r.area = a
        PROVE  Apart(m, 2 * h, r.off, r.len)
    <3>1. Apart(x, h, r.off, r.len) /\ Apart(r.off, r.len, b, h)
      BY <1>1, <1>7, <2>2 DEF NoOverlap, HandApart, FreeHeldApart
    <3>2. r.off \in Nat /\ r.len \in Nat /\ r.len >= 1
      BY HeldFacts, HeldPositive
    <3> HIDE DEF x, h
    <3> QED
      BY <1>1, <1>2, <1>3, <3>1, <3>2 DEF Apart
  <2> QED
    BY <1>2, <1>4, <1>5, <2>1, <2>2 DEF HandApart
<1>10. InsideArea'
  <2>1. m + 2 * h <= areaLen[a]
    BY <1>1, <1>2, <1>3, <1>7 DEF NoOverlap, InsideArea, TypeOK
  <2> QED
    BY <1>2, <1>4, <1>5, <1>6, <2>1 DEF NoOverlap, InsideArea
<1> QED
  BY <1>8, <1>9, <1>10 DEF NoOverlap

LEMMA InsertOverlap ==
  ASSUME TypeOK, NoOverlap, PutInsert
  PROVE  NoOverlap'
<1> DEFINE a == op.area
           k == op.index
           x == op.off
<1>1. /\ op \in PutOp /\ a \in Areas /\ k \in Orders /\ x \in Nat
      /\ op.at = "put"
  BY OpFacts DEF PutInsert, PutOp
<1>2. /\ free' = [free EXCEPT ![a][k] = @ \cup {x}]
      /\ UNCHANGED <<areaLen, held>> /\ op' = Idle
  BY DEF PutInsert
<1>3. \A d \in Areas, l \in Orders : \A y \in free'[d][l] :
        y \in free[d][l] \/ (d = a /\ l = k /\ y = x)
  BY <1>1, <1>2 DEF TypeOK
<1>4. /\ \A l \in Orders : \A y \in free[a][l] :
           Apart(x, BuddySize[k], y, BuddySize[l])
      /\ \A r \in held : r.area = a =>
           Apart(x, BuddySize[k], r.off, r.len)
      /\ x + BuddySize[k] <= areaLen[a]
  BY <1>1 DEF NoOverlap, HandApart, InsideArea
<1>5. FreeApart'
  BY <1>3, <1>4 DEF NoOverlap, FreeApart, Apart
<1>6. FreeHeldApart'
  BY <1>2, <1>3, <1>4, HeldFacts DEF NoOverlap, FreeHeldApart, Apart
<1>7. InsideArea'
  BY <1>2, <1>3, <1>4 DEF NoOverlap, InsideArea, Idle
<1> QED
  BY <1>2, <1>5, <1>6, <1>7 DEF NoOverlap, HeldApart, HandApart, Idle

\* A whole area is taken back: the other regions are in other areas.
LEMMA FreedAreaOverlap ==
  ASSUME TypeOK, Shape, NoOverlap, op = Idle, op' = op, NEW c \in Clients,
         NEW r \in held, r.area \in moreAreas, Release(c, r),
         NEW list, list = Pristine \/ list = NoBlocks,
         free' = [free EXCEPT ![r.area] = list],
         \/ list = Pristine /\ UNCHANGED areaLen /\ r.len <= SingleAreaSize
         \/ list = NoBlocks /\ areaLen' = [areaLen EXCEPT ![r.area] = 0]
  PROVE  NoOverlap'
<1>1. r.area \in Areas /\ held' \subseteq held
  BY HeldFacts DEF Release
<1>2. \A s \in held' : s \in held /\ s.area # r.area /\ s.area \in Areas
  BY HeldFacts DEF Release, Shape, WholeAlone
<1>3. /\ free'[r.area] = list
      /\ \A d \in Areas : d # r.area =>
           free'[d] = free[d] /\ areaLen'[d] = areaLen[d]
  BY <1>1 DEF TypeOK
<1>4. list = Pristine => areaLen'[r.area] >= SingleAreaSize
  <2>1. Pristine # NoBlocks
    BY OrderFacts DEF Pristine, NoBlocks
  <2>2. list = Pristine => UNCHANGED areaLen
    BY <2>1
  <2> QED
    BY <1>1, <2>2 DEF Shape, AreaShape
<1>5. areaLen'[r.area] \in Nat
  BY <1>1 DEF TypeOK
<1>6. FreeApart'
  BY <1>3, PristineApart DEF NoOverlap, FreeApart, NoBlocks
<1>7. HeldApart'
  BY <1>2 DEF NoOverlap, HeldApart
<1>8. FreeHeldApart'
  BY <1>2, <1>3 DEF NoOverlap, FreeHeldApart
<1>9. InsideArea'
  <2>1. \A k \in Orders : \A x \in list[k] :
          x + BuddySize[k] <= areaLen'[r.area]
    BY <1>4, <1>5, PristineInside, SizeFacts DEF NoBlocks
  <2>2. \A d \in Areas, k \in Orders : \A x \in free'[d][k] :
          x + BuddySize[k] <= areaLen'[d]
    BY <1>3, <2>1 DEF NoOverlap, InsideArea
  <2> QED
    BY <1>2, <1>3, <2>2 DEF NoOverlap, InsideArea, Idle
<1> QED
  BY <1>6, <1>7, <1>8, <1>9 DEF NoOverlap, HandApart, Idle

LEMMA NextOverlap == TypeOK /\ Shape /\ NoOverlap /\ [Next]_vars => NoOverlap'
<1> SUFFICES ASSUME TypeOK, Shape, NoOverlap, [Next]_vars PROVE NoOverlap'
  OBVIOUS
<1>1. ASSUME NEW c \in Clients, SendMalloc(c) \/ SendFree(c)
      PROVE  NoOverlap'
  BY <1>1, ShrinkOverlap DEF SendMalloc, SendFree, poolVars
<1>2. ASSUME NEW c \in Clients, ChooseCurArea(c) \/ ChooseListedArea(c)
      PROVE  NoOverlap'
  BY <1>2, ShrinkOverlap
     DEF ChooseCurArea, ChooseListedArea, StartGet, poolVars
<1>3. ASSUME NEW c \in Clients, NewAreaFails(c) \/ MallocAreaFails(c)
      PROVE  NoOverlap'
  BY <1>3, ShrinkOverlap
     DEF NewAreaFails, MallocAreaFails, Refuse, poolVars
<1>4. ASSUME NEW c \in Clients, FreeArea(c) PROVE NoOverlap'
  BY <1>4, FreedAreaOverlap DEF FreeArea, WantsFree, IsAreaOfSingleSize
<1>5. ASSUME NEW c \in Clients, FreeAreaDrops(c) \/ FreeMoreArea(c)
      PROVE  NoOverlap'
  BY <1>5, FreedAreaOverlap
     DEF FreeAreaDrops, FreeMoreArea, WantsFree, IsAreaOfSingleSize, Deregister
<1>6. CASE GetSplitFails \/ GetNone
  BY <1>6, ShrinkOverlap DEF GetSplitFails, GetNone, Refuse, poolVars, Idle
<1>7. CASE UNCHANGED vars
  BY <1>7, ShrinkOverlap DEF vars, poolVars
<1> QED
  BY <1>1, <1>2, <1>3, <1>4, <1>5, <1>6, <1>7, NewAreaOverlap,
     WholeAreaOverlap, SplitOverlap, TakeOverlap, FreeBlockOverlap,
     MergeOverlap, InsertOverlap DEF Next, Malloc, Free, Loop

\* No byte of NVM is ever owned twice: not by two clients, not by a client
\* and a free list, not by two free blocks, not by the block a handler is
\* putting back and anything else.
THEOREM PoolNoOverlap == Spec => []NoOverlap
<1>1. TypeOK /\ Shape /\ NoOverlap /\ [Next]_vars
        => (TypeOK /\ Shape /\ NoOverlap)'
  BY NextType, NextShape, NextOverlap
<1> QED
  BY <1>1, InitType, InitShape, InitOverlap, PTL DEF Spec

(***************************************************************************)
(* NvmPool implements NvmPromise: the regions granted and the requests not *)
(* yet answered are the same in both, and every step of the pool is a step *)
(* of the promise or leaves the two alone.                                 *)
(***************************************************************************)

(***************************************************************************)
(* The request a handler is at work on stays the same from turn to turn of *)
(* its retry loop: a get serves a malloc the block it looks for is large   *)
(* enough for, a put serves a free whose region is already given up.       *)
(***************************************************************************)
InHand ==
  /\ op.at = "get" => /\ request[op.client].kind = "malloc"
                      /\ request[op.client].size <= BuddySize[op.index]
  /\ op.at = "put" => /\ request[op.client].kind = "free"
                      /\ request[op.client].region \notin held

LEMMA InitInHand == Init => InHand
BY DEF Init, InHand, Idle

\* A client whose request is in a handler's hands sends no other one.
LEMMA SendKeepsRequest ==
  ASSUME TypeOK, InHand, op # Idle, NEW c \in Clients, request[c] = NoRequest,
         NEW q, request' = [request EXCEPT ![c] = q]
  PROVE  op.client \in Clients /\ request'[op.client] = request[op.client]
<1>1. op \in GetOp \/ op \in PutOp
  BY DEF TypeOK
<1>2. request[op.client].kind \in {"malloc", "free"}
  BY <1>1 DEF InHand, GetOp, PutOp
<1>3. op.client # c
  BY <1>2 DEF NoRequest
<1> QED
  BY <1>1, <1>3 DEF TypeOK, GetOp, PutOp

LEMMA NextInHand == TypeOK /\ InHand /\ [Next]_vars => InHand'
<1> SUFFICES ASSUME TypeOK, InHand, [Next]_vars PROVE InHand'
  OBVIOUS
<1>1. ASSUME NEW c \in Clients, SendMalloc(c) \/ SendFree(c) PROVE InHand'
  <2>1. PICK q : request' = [request EXCEPT ![c] = q] /\ request[c] = NoRequest
    BY <1>1 DEF SendMalloc, SendFree
  <2>2. UNCHANGED <<op, held>>
    BY <1>1 DEF SendMalloc, SendFree
  <2>3. CASE op = Idle
    BY <2>2, <2>3 DEF InHand, Idle
  <2>4. CASE op # Idle
    <3>1. request'[op.client] = request[op.client]
      BY <2>1, <2>4, SendKeepsRequest
    <3> QED
      BY <2>2, <3>1 DEF InHand
  <2> QED
    BY <2>3, <2>4
<1>2. ASSUME NEW c \in Clients,
             \/ ChooseCurArea(c) \/ ChooseListedArea(c) \/ ChooseNewArea(c)
      PROVE  InHand'
  <2>1. PICK index \in Orders, a \in Areas :
          /\ Wants(c, index) /\ StartGet(c, a, index) /\ request' = request
    BY <1>2 DEF ChooseCurArea, ChooseListedArea, ChooseNewArea, TypeOK
  <2> QED
    BY <2>1 DEF Wants, StartGet, IsIndexFor, InHand
<1>3. ASSUME NEW c \in Clients, FreeBlock(c) PROVE InHand'
  <2>1. PICK r \in held, index \in Orders : FreeBlock(c)!(r, index)
    BY <1>3 DEF FreeBlock
  <2> QED
    BY <2>1 DEF WantsFree, Release, InHand
<1>4. ASSUME NEW c \in Clients,
             \/ NewAreaFails(c) \/ MallocArea(c) \/ MallocAreaFails(c)
             \/ FreeArea(c) \/ FreeAreaDrops(c) \/ FreeMoreArea(c)
      PROVE  InHand'
  <2>1. op' = Idle
    BY <1>4 DEF NewAreaFails, MallocArea, MallocAreaFails, FreeArea,
         FreeAreaDrops, FreeMoreArea, Wants, WantsArea, WantsFree
  <2> QED
    BY <2>1 DEF Idle, InHand
<1>5. CASE GetSplit
  BY <1>5 DEF GetSplit, InHand
<1>6. CASE GetSplitFails \/ GetTake \/ GetNone \/ PutInsert
  BY <1>6 DEF GetSplitFails, GetTake, GetNone, PutInsert, Idle, InHand
<1>7. CASE PutMerge
  <2>1. /\ op'.at = "put" /\ op'.client = op.client /\ op.at = "put"
        /\ UNCHANGED <<request, held>>
    BY <1>7, OpFacts DEF PutMerge, PutOp
  <2> QED
    BY <2>1 DEF InHand
<1>8. CASE UNCHANGED vars
  BY <1>8 DEF vars, poolVars, InHand
<1> QED
  BY <1>1, <1>2, <1>3, <1>4, <1>5, <1>6, <1>7, <1>8 DEF Next, Malloc, Free, Loop

(***************************************************************************)
(* The step simulation.                                                    *)
(***************************************************************************)
LEMMA ApartShareNothing ==
  ASSUME NEW x \in Nat, NEW m \in Nat, NEW y \in Nat, NEW n \in Nat,
         Apart(x, m, y, n)
  PROVE  ~(y < x + m /\ x < y + n)
BY DEF Apart

LEMMA GetTakeKeeps ==
  ASSUME TypeOK, NoOverlap, InHand, GetTake
  PROVE  \E c \in Clients : Promise!Grant(c)
<1>1. op \in GetOp /\ op.area \in Areas /\ op.index \in Orders
      /\ op.client \in Clients
  BY OpFacts DEF GetTake, GetOp
<1>2. PICK x \in free[op.area][op.index] :
        Grant(op.client, op.area, x, BuddySize[op.index])
  BY DEF GetTake
<1>3. x \in Nat /\ BuddySize[op.index] \in Nat
  BY <1>1, FreeFacts, SizeFacts
<1> DEFINE r == [client |-> op.client, area |-> op.area, off |-> x,
                 len |-> BuddySize[op.index]]
<1>4. /\ r \in Region /\ r.client = op.client /\ r.area = op.area
      /\ r.off = x /\ r.len = BuddySize[op.index]
  BY <1>1, <1>3 DEF Region
<1>5. held' = held \cup {r} /\ Answer(op.client)
  BY <1>2 DEF Grant
<1> HIDE DEF r
<1>6. ASSUME NEW s \in held PROVE ~Promise!Shares(r, s)
  <2> SUFFICES ASSUME s.area = op.area
               PROVE  ~(r.off < s.off + s.len /\ s.off < r.off + r.len)
    BY <1>4 DEF Promise!Shares
  <2>1. Apart(s.off, s.len, x, BuddySize[op.index])
    BY <1>1 DEF NoOverlap, FreeHeldApart
  <2> QED
    BY <1>3, <1>4, <2>1, HeldFacts, ApartShareNothing
<1>7. request[op.client].kind = "malloc" /\ r.len >= request[op.client].size
  <2>1. request[op.client].kind = "malloc"
        /\ request[op.client].size <= BuddySize[op.index]
    BY DEF InHand, GetTake
  <2>2. request[op.client].size \in Nat
    BY <1>1, <2>1, RequestFacts, ReqSizesAssumption DEF MallocRequest
  <2> QED
    BY <1>3, <1>4, <2>1, <2>2
<1>8. Promise!Grant(op.client)
  BY <1>4, <1>5, <1>6, <1>7
     DEF Promise!Grant, Promise!Answer, Promise!Region, Promise!NoRequest,
         Answer, NoRequest, Region
<1> QED
  BY <1>1, <1>8

LEMMA MallocAreaKeeps ==
  ASSUME TypeOK, Shape, NEW c \in Clients, MallocArea(c)
  PROVE  Promise!Grant(c)
<1> DEFINE n == AreaLength(request[c].size)
<1>1. request[c].kind = "malloc" /\ request[c].size \in Nat
  BY RequestFacts, ReqSizesAssumption DEF MallocArea, WantsArea, MallocRequest
<1>2. n \in Nat /\ n >= request[c].size
  BY <1>1, SizeFacts DEF AreaLength
<1>3. PICK a \in Areas : AreaCreate(a, FALSE, n) /\ Grant(c, a, 0, n)
  BY DEF MallocArea
<1> HIDE DEF n
<1>4. \A s \in held : s.area # a
  BY <1>3, CreatedWasFree DEF AreaCreate, Shape, HeldShape
<1> DEFINE r == [client |-> c, area |-> a, off |-> 0, len |-> n]
<1>5. r \in Region /\ r.client = c /\ r.area = a /\ r.len = n
  BY <1>2 DEF Region
<1>6. held' = held \cup {r} /\ Answer(c)
  BY <1>3 DEF Grant
<1> HIDE DEF r
<1>7. \A s \in held : ~Promise!Shares(r, s)
  BY <1>4, <1>5 DEF Promise!Shares
<1> QED
  BY <1>1, <1>2, <1>5, <1>6, <1>7
     DEF Promise!Grant, Promise!Answer, Promise!Region, Promise!NoRequest,
         Answer, NoRequest, Region

LEMMA InitKeeps == Init => Promise!Init
BY DEF Init, Promise!Init, Promise!NoRequest, NoRequest

LEMMA NextKeeps ==
  TypeOK /\ Shape /\ NoOverlap /\ InHand /\ [Next]_vars
    => [Promise!Next]_Promise!vars
<1> SUFFICES ASSUME TypeOK, Shape, NoOverlap, InHand, [Next]_vars
             PROVE  Promise!Next \/ UNCHANGED <<held, request>>
  BY DEF Promise!vars
<1>1. ASSUME NEW c \in Clients, SendMalloc(c) PROVE Promise!AskMalloc(c)
  BY <1>1 DEF SendMalloc, Promise!AskMalloc, Promise!NoRequest, NoRequest
<1>2. ASSUME NEW c \in Clients, SendFree(c) PROVE Promise!AskFree(c)
  BY <1>2 DEF SendFree, Promise!AskFree, Promise!NoRequest, NoRequest
<1>3. ASSUME NEW c \in Clients,
             \/ ChooseCurArea(c) \/ ChooseListedArea(c) \/ ChooseNewArea(c)
      PROVE  UNCHANGED <<held, request>>
  BY <1>3 DEF ChooseCurArea, ChooseListedArea, ChooseNewArea
<1>4. ASSUME NEW c \in Clients, NewAreaFails(c) \/ MallocAreaFails(c)
      PROVE  Promise!Refuse(c)
  BY <1>4 DEF NewAreaFails, MallocAreaFails, Wants, WantsArea, Refuse, Answer,
       Promise!Refuse, Promise!Answer, Promise!NoRequest, NoRequest
<1>5. ASSUME NEW c \in Clients, FreeBlock(c) PROVE Promise!Release(c)
  BY <1>5 DEF FreeBlock, WantsFree, Release, Promise!Release
<1>6. ASSUME NEW c \in Clients,
             FreeArea(c) \/ FreeAreaDrops(c) \/ FreeMoreArea(c)
      PROVE  Promise!Released(c)
  BY <1>6 DEF FreeArea, FreeAreaDrops, FreeMoreArea, WantsFree, Release,
       Answer, Promise!Released, Promise!Answer, Promise!NoRequest, NoRequest
<1>7. CASE GetSplit \/ PutMerge
  BY <1>7 DEF GetSplit, PutMerge
<1>8. CASE GetSplitFails \/ GetNone
  <2>1. op.client \in Clients /\ request[op.client].kind = "malloc"
    BY <1>8, OpFacts DEF GetSplitFails, GetNone, GetOp, InHand
  <2>2. Promise!Refuse(op.client)
    BY <1>8, <2>1 DEF GetSplitFails, GetNone, Refuse, Answer,
         Promise!Refuse, Promise!Answer, Promise!NoRequest, NoRequest
  <2> QED
    BY <2>1, <2>2 DEF Promise!Next
<1>9. CASE GetTake
  BY <1>9, GetTakeKeeps DEF Promise!Next
<1>10. CASE PutInsert
  <2>1. /\ op.client \in Clients /\ request[op.client].kind = "free"
        /\ request[op.client].region \notin held
    BY <1>10, OpFacts DEF PutInsert, PutOp, InHand
  <2>2. Promise!Released(op.client)
    BY <1>10, <2>1 DEF PutInsert, Answer,
         Promise!Released, Promise!Answer, Promise!NoRequest, NoRequest
  <2> QED
    BY <2>1, <2>2 DEF Promise!Next
<1>11. CASE UNCHANGED vars
  BY <1>11 DEF vars, poolVars
<1> QED
  BY <1>1, <1>2, <1>3, <1>4, <1>5, <1>6, <1>7, <1>8, <1>9, <1>10, <1>11,
     MallocAreaKeeps DEF Next, Malloc, Free, Loop, Promise!Next

\* The pool keeps its promise: whatever the areas, lists and retry loops are
\* doing, a malloc that is not refused returns a region as long as was asked
\* for that shares no byte with a region anyone holds, and a region is held
\* until its client frees it.
THEOREM PoolKeepsPromise == Spec => PromiseSpec
<1>1. TypeOK /\ Shape /\ NoOverlap /\ InHand /\ [Next]_vars
        => (TypeOK /\ Shape /\ NoOverlap /\ InHand)'
  BY NextType, NextShape, NextOverlap, NextInHand
<1> QED
  BY <1>1, InitType, InitShape, InitOverlap, InitInHand, InitKeeps, NextKeeps,
     PTL DEF Spec, PromiseSpec, Promise!Spec

(***************************************************************************)
(* What a client is charged for.  TotalLength sums lengths in an order of  *)
(* its own; CountingTheorems shows that the order does not matter.              *)
(***************************************************************************)
Lengths == [r \in Region |-> r.len]

LEMMA TotalIsSum ==
  ASSUME NEW R \in SUBSET Region, IsFiniteSet(R)
  PROVE  TotalLength(R) = SumOf(Lengths, R)
<1> DEFINE IsTotal(g) ==
             g = [s \in SUBSET R |->
                    IF s = {} THEN 0
                    ELSE (CHOOSE x \in s : TRUE).len
                           + g[s \ {CHOOSE x \in s : TRUE}]]
           table == CHOOSE g : IsTotal(g)
<1>1. TotalLength(R) = table[R]
  BY DEF TotalLength, MapThenSumSet, MapThenFoldSet
<1>2. ASSUME NEW g PROVE IsTotal(g) <=> IsTable(g, Lengths, R)
  <2>1. \A s \in SUBSET R : s # {} => Lengths[Some(s)] = Some(s).len
    BY SomeIn DEF Lengths
  <2>2. [s \in SUBSET R |-> IF s = {} THEN 0
                            ELSE Some(s).len + g[s \ {Some(s)}]]
          = [s \in SUBSET R |-> IF s = {} THEN 0
                                ELSE Lengths[Some(s)] + g[s \ {Some(s)}]]
    BY <2>1
  <2>3. IsTotal(g) <=> g = [s \in SUBSET R |->
                              IF s = {} THEN 0
                              ELSE Some(s).len + g[s \ {Some(s)}]]
    BY DEF Some
  <2> QED BY <2>2, <2>3 DEF IsTable, PartialSums
<1> HIDE DEF IsTotal
<1>3. \E g : IsTotal(g)
  BY <1>2, PartialSumsExist
<1>4. IsTotal(table)
  BY <1>3
<1> HIDE DEF table
<1>5. IsTable(table, Lengths, R)
  BY <1>2, <1>4
<1>6. table[R] = SumOf(Lengths, R)
  <2>1. R \in SUBSET R
    OBVIOUS
  <2> QED BY <1>5, <2>1, SumOfIs
<1> QED BY <1>1, <1>6

LEMMA TotalAdds ==
  ASSUME NEW R \in SUBSET Region, IsFiniteSet(R), NEW r \in Region, r \notin R
  PROVE  TotalLength(R \cup {r}) = TotalLength(R) + r.len
<1> DEFINE S == R \cup {r}
<1>1. S \in SUBSET Region /\ IsFiniteSet(S) /\ r \in S /\ S \ {r} = R
  BY FS_AddElement
<1>2. \A x \in S : Lengths[x] \in Int
  BY <1>1 DEF Lengths, Region
<1> HIDE DEF S
<1>3. SumOf(Lengths, S) = Lengths[r] + SumOf(Lengths, S \ {r})
  BY <1>1, <1>2, SumAdds
<1>4. SumOf(Lengths, R) \in Int
  <2>1. \A x \in R : Lengths[x] \in Int
    BY DEF Lengths, Region
  <2> QED BY <2>1, SumAdds
<1>5. TotalLength(S) = SumOf(Lengths, S) /\ TotalLength(R) = SumOf(Lengths, R)
  BY <1>1, TotalIsSum
<1>6. Lengths[r] = r.len /\ r.len \in Int
  BY DEF Lengths, Region
<1>7. TotalLength(S) = TotalLength(R) + r.len
  <2>1. S \ {r} = R
    BY <1>1
  <2>2. SumOf(Lengths, S \ {r}) = SumOf(Lengths, R)
    BY <2>1, Zenon
  <2> QED BY <1>3, <1>4, <1>5, <1>6, <2>2
<1> QED BY <1>7 DEF S

LEMMA TotalType ==
  ASSUME NEW R \in SUBSET Region, IsFiniteSet(R)
  PROVE  TotalLength(R) \in Int
<1>1. \A x \in R : Lengths[x] \in Int
  BY DEF Lengths, Region
<1>2. SumOf(Lengths, R) \in Int
  BY <1>1, SumAdds
<1> QED BY <1>2, TotalIsSum

HoldsOf(c) == {r \in held : r.client = c}
Accounts == IsFiniteSet(held) /\ NvmAccounting

\* A client frees regions of its own.
FreesOwn ==
  \A c \in Clients : request[c].kind = "free" => request[c].region.client = c

\* The two steps that change what a client holds.
Granted(c, r) == /\ r.client = c
                 /\ held' = held \cup {r}
                 /\ nvmUsed' = [nvmUsed EXCEPT ![c] = @ + r.len]
Freed(c, r) == /\ r.client = c
               /\ held' = held \ {r}
               /\ nvmUsed' = [nvmUsed EXCEPT ![c] = @ - r.len]

LEMMA HoldsFacts ==
  ASSUME TypeOK, IsFiniteSet(held), NEW c \in Clients
  PROVE  HoldsOf(c) \in SUBSET Region /\ IsFiniteSet(HoldsOf(c))
BY FS_Subset DEF HoldsOf, TypeOK

LEMMA GrantedAccounts ==
  ASSUME TypeOK, Accounts, NEW c \in Clients, NEW r \in Region, r \notin held,
         Granted(c, r)
  PROVE  Accounts'
<1>1. IsFiniteSet(held')
  BY FS_AddElement DEF Granted, Accounts
<1>2. ASSUME NEW d \in Clients PROVE nvmUsed'[d] = TotalLength(HoldsOf(d)')
  <2>1. nvmUsed[d] = TotalLength(HoldsOf(d))
    BY DEF Accounts, NvmAccounting, HoldsOf
  <2>2. CASE d = c
    <3>1. HoldsOf(d)' = HoldsOf(d) \cup {r} /\ r \notin HoldsOf(d)
      BY <2>2 DEF HoldsOf, Granted
    <3>2. TotalLength(HoldsOf(d) \cup {r}) = TotalLength(HoldsOf(d)) + r.len
      BY <3>1, HoldsFacts, TotalAdds DEF Accounts
    <3>3. nvmUsed'[d] = nvmUsed[d] + r.len
      BY <2>2 DEF Granted, TypeOK
    <3> QED BY <2>1, <3>1, <3>2, <3>3
  <2>3. CASE d # c
    <3>1. HoldsOf(d)' = HoldsOf(d) /\ nvmUsed'[d] = nvmUsed[d]
      BY <2>3 DEF HoldsOf, Granted, TypeOK
    <3> QED BY <2>1, <3>1
  <2> QED BY <2>2, <2>3
<1> QED BY <1>1, <1>2 DEF Accounts, NvmAccounting, HoldsOf

LEMMA FreedAccounts ==
  ASSUME TypeOK, Accounts, NEW c \in Clients, NEW r \in held, Freed(c, r)
  PROVE  Accounts'
<1>1. IsFiniteSet(held')
  BY FS_RemoveElement DEF Freed, Accounts
<1>2. ASSUME NEW d \in Clients PROVE nvmUsed'[d] = TotalLength(HoldsOf(d)')
  <2>1. nvmUsed[d] = TotalLength(HoldsOf(d))
    BY DEF Accounts, NvmAccounting, HoldsOf
  <2>2. CASE d = c
    <3> DEFINE R == HoldsOf(d) \ {r}
    <3>1. /\ HoldsOf(d)' = R /\ r \notin R
          /\ HoldsOf(d) = R \cup {r}
      BY <2>2 DEF HoldsOf, Freed
    <3>2. R \in SUBSET Region /\ IsFiniteSet(R) /\ r \in Region /\ r.len \in Int
      <4>1. HoldsOf(d) \in SUBSET Region /\ IsFiniteSet(HoldsOf(d))
        BY HoldsFacts DEF Accounts
      <4> QED BY <4>1, HeldFacts, FS_RemoveElement
    <3> HIDE DEF R
    <3>3. TotalLength(R \cup {r}) = TotalLength(R) + r.len
      BY <3>1, <3>2, TotalAdds
    <3>4. nvmUsed'[d] = nvmUsed[d] - r.len
      BY <2>2 DEF Freed, TypeOK
    <3>5. TotalLength(R) \in Int
      BY <3>2, TotalType
    <3>6. /\ TotalLength(HoldsOf(d)) = TotalLength(R \cup {r})
          /\ TotalLength(HoldsOf(d)') = TotalLength(R)
      <4>1. HoldsOf(d)' = R /\ HoldsOf(d) = R \cup {r}
        BY <3>1
      <4> QED BY <4>1, Zenon
    <3>7. r.len \in Int
      BY <3>2
    <3> QED BY <2>1, <3>3, <3>4, <3>5, <3>6, <3>7
  <2>3. CASE d # c
    <3>1. HoldsOf(d)' = HoldsOf(d) /\ nvmUsed'[d] = nvmUsed[d]
      BY <2>3 DEF HoldsOf, Freed, TypeOK
    <3> QED BY <2>1, <3>1
  <2> QED BY <2>2, <2>3
<1> QED BY <1>1, <1>2 DEF Accounts, NvmAccounting, HoldsOf

LEMMA InitAccounts == Init => Accounts
<1> SUFFICES ASSUME Init PROVE Accounts
  OBVIOUS
<1>1. {} \in SUBSET Region /\ IsFiniteSet({})
  BY FS_EmptySet
<1>2. TotalLength({}) = 0
  BY <1>1, TotalIsSum, SumEmpty
<1>3. held = {} /\ \A c \in Clients : HoldsOf(c) = {} /\ nvmUsed[c] = 0
  BY DEF Init, HoldsOf
<1> QED BY <1>1, <1>2, <1>3 DEF Accounts, NvmAccounting, HoldsOf

LEMMA GetTakeGrants ==
  ASSUME TypeOK, NoOverlap, GetTake
  PROVE  \E r \in Region : r \notin held /\ Granted(op.client, r)
<1>1. op \in GetOp /\ op.area \in Areas /\ op.index \in Orders
      /\ op.client \in Clients
  BY OpFacts DEF GetTake, GetOp
<1>2. PICK x \in free[op.area][op.index] :
        Grant(op.client, op.area, x, BuddySize[op.index])
  BY DEF GetTake
<1>3. x \in Nat /\ BuddySize[op.index] \in Nat \ {0}
  BY <1>1, FreeFacts, SizeFacts
<1> DEFINE r == [client |-> op.client, area |-> op.area, off |-> x,
                 len |-> BuddySize[op.index]]
<1>4. /\ r \in Region /\ r.client = op.client /\ r.area = op.area
      /\ r.off = x /\ r.len = BuddySize[op.index]
  BY <1>1, <1>3 DEF Region
<1>5. Granted(op.client, r)
  BY <1>2 DEF Grant, Granted
<1> HIDE DEF r
<1>6. r \notin held
  <2> SUFFICES ASSUME r \in held PROVE FALSE
    OBVIOUS
  <2>1. Apart(r.off, r.len, x, BuddySize[op.index])
    BY <1>1, <1>4 DEF NoOverlap, FreeHeldApart
  <2> QED BY <1>3, <1>4, <2>1 DEF Apart
<1> QED BY <1>4, <1>5, <1>6

LEMMA MallocAreaGrants ==
  ASSUME TypeOK, Shape, NEW c \in Clients, MallocArea(c)
  PROVE  \E r \in Region : r \notin held /\ Granted(c, r)
<1> DEFINE n == AreaLength(request[c].size)
<1>1. request[c].kind = "malloc" /\ request[c].size \in Nat
  BY RequestFacts, ReqSizesAssumption DEF MallocArea, WantsArea, MallocRequest
<1>2. n \in Nat
  BY <1>1, SizeFacts DEF AreaLength
<1>3. PICK a \in Areas : AreaCreate(a, FALSE, n) /\ Grant(c, a, 0, n)
  BY DEF MallocArea
<1> HIDE DEF n
<1>4. \A s \in held : s.area # a
  BY <1>3, CreatedWasFree DEF AreaCreate, Shape, HeldShape
<1> DEFINE r == [client |-> c, area |-> a, off |-> 0, len |-> n]
<1>5. r \in Region /\ r.area = a
  BY <1>2 DEF Region
<1>6. Granted(c, r)
  BY <1>3 DEF Grant, Granted
<1> QED BY <1>4, <1>5, <1>6

LEMMA InitFreesOwn == Init => FreesOwn
BY DEF Init, FreesOwn, NoRequest

LEMMA NextFreesOwn == TypeOK /\ FreesOwn /\ [Next]_vars => FreesOwn'
<1> SUFFICES ASSUME TypeOK, FreesOwn, [Next]_vars PROVE FreesOwn'
  OBVIOUS
<1>1. ASSUME NEW c, Answer(c) PROVE FreesOwn'
  BY <1>1 DEF TypeOK, FreesOwn, Answer, NoRequest
<1>2. CASE UNCHANGED request
  BY <1>2 DEF FreesOwn
<1>3. ASSUME NEW c \in Clients, SendMalloc(c) PROVE FreesOwn'
  BY <1>3 DEF TypeOK, FreesOwn, SendMalloc
<1>4. ASSUME NEW c \in Clients, SendFree(c) PROVE FreesOwn'
  BY <1>4 DEF TypeOK, FreesOwn, SendFree
<1>5. ASSUME NEW c \in Clients, Malloc(c) \/ Free(c)
      PROVE  Answer(c) \/ UNCHANGED request
  BY <1>5 DEF Malloc, Free, ChooseCurArea, ChooseListedArea, ChooseNewArea,
       NewAreaFails, MallocArea, MallocAreaFails, Grant, Refuse, FreeBlock,
       FreeArea, FreeAreaDrops, FreeMoreArea
<1>6. Loop => Answer(op.client) \/ UNCHANGED request
  BY DEF Loop, GetTake, GetSplit, GetSplitFails, GetNone, PutMerge, PutInsert,
       Grant, Refuse
<1>7. CASE UNCHANGED vars
  BY <1>2, <1>7 DEF vars
<1> QED
  BY <1>1, <1>2, <1>3, <1>4, <1>5, <1>6, <1>7 DEF Next

LEMMA NextAccounts ==
  TypeOK /\ Shape /\ NoOverlap /\ FreesOwn /\ Accounts /\ [Next]_vars
    => Accounts'
<1> SUFFICES ASSUME TypeOK, Shape, NoOverlap, FreesOwn, Accounts, [Next]_vars
             PROVE  Accounts'
  OBVIOUS
<1>1. CASE UNCHANGED <<held, nvmUsed>>
  BY <1>1 DEF Accounts, NvmAccounting
<1>2. ASSUME NEW c \in Clients,
             FreeBlock(c) \/ FreeArea(c) \/ FreeAreaDrops(c) \/ FreeMoreArea(c)
      PROVE  Accounts'
  <2>1. PICK r \in held : WantsFree(c, r) /\ Release(c, r)
    BY <1>2 DEF FreeBlock, FreeArea, FreeAreaDrops, FreeMoreArea
  <2>2. r.client = c
    BY <2>1 DEF WantsFree, FreesOwn
  <2>3. Freed(c, r)
    BY <2>1, <2>2 DEF Release, Freed
  <2> QED BY <2>3, FreedAccounts
<1>3. ASSUME NEW c \in Clients, MallocArea(c) PROVE Accounts'
  BY <1>3, MallocAreaGrants, GrantedAccounts
<1>4. CASE GetTake
  <2>1. op.client \in Clients
    BY <1>4, OpFacts DEF GetTake, GetOp
  <2> QED BY <1>4, <2>1, GetTakeGrants, GrantedAccounts
<1>5. ASSUME NEW c \in Clients,
             \/ SendMalloc(c) \/ SendFree(c)
             \/ ChooseCurArea(c) \/ ChooseListedArea(c) \/ ChooseNewArea(c)
             \/ NewAreaFails(c) \/ MallocAreaFails(c)
      PROVE  UNCHANGED <<held, nvmUsed>>
  BY <1>5 DEF SendMalloc, SendFree, ChooseCurArea, ChooseListedArea,
       ChooseNewArea, NewAreaFails, MallocAreaFails, Refuse
<1>6. GetSplit \/ GetSplitFails \/ GetNone \/ PutMerge \/ PutInsert
        => UNCHANGED <<held, nvmUsed>>
  BY DEF GetSplit, GetSplitFails, GetNone, PutMerge, PutInsert, Refuse
<1>7. CASE UNCHANGED vars
  BY <1>1, <1>7 DEF vars
<1> QED
  BY <1>1, <1>2, <1>3, <1>4, <1>5, <1>6, <1>7 DEF Next, Malloc, Free, Loop

\* What the watcher is told: at every moment the NVM a client's transport is
\* charged for (nvm_used_size) is the sum of the lengths of the regions the
\* client was granted and has not freed.
THEOREM PoolNvmAccounting == Spec => []NvmAccounting
<1>1. TypeOK /\ Shape /\ NoOverlap /\ FreesOwn /\ Accounts /\ [Next]_vars
        => (TypeOK /\ Shape /\ NoOverlap /\ FreesOwn /\ Accounts)'
  BY NextType, NextShape, NextOverlap, NextFreesOwn, NextAccounts
<1>2. Accounts => NvmAccounting
  BY DEF Accounts
<1> QED
  BY <1>1, <1>2, InitType, InitShape, InitOverlap, InitFreesOwn, InitAccounts,
     PTL DEF Spec

----------------------------------------------------------------------------
(***************************************************************************)
(* What the free lists say of an area.                                     *)
(***************************************************************************)
(***************************************************************************)
(* No byte is lost.                                                        *)
(***************************************************************************)
\* Byte n of area a has an owner.
FreeOwns(a, n) ==
  \E k \in Orders : \E x \in free[a][k] : Within(n, x, BuddySize[k])
HeldOwns(a, n) == \E r \in held : r.area = a /\ Within(n, r.off, r.len)
HandOwns(a, n) ==
  op.at = "put" /\ op.area = a /\ Within(n, op.off, BuddySize[op.index])
Owned(a, n) == FreeOwns(a, n) \/ HeldOwns(a, n) \/ HandOwns(a, n)

LEMMA NoByteLostOwned ==
  ASSUME NoByteLost, NEW a \in Areas, NEW n \in 0 .. areaLen[a] - 1
  PROVE  Owned(a, n)
BY DEF NoByteLost, Owned, FreeOwns, HeldOwns, HandOwns

\* The blocks of a new area cover it: byte n is in the block of the first
\* order k with n < 2 * BuddySize[k].
LEMMA PristineCovers ==
  ASSUME NEW n \in 0 .. SingleAreaSize - 1
  PROVE  \E k \in Orders : \E x \in Pristine[k] : Within(n, x, BuddySize[k])
<1> DEFINE Fits == {k \in Orders : n < 2 * BuddySize[k]}
<1>1. Fits \in SUBSET Nat /\ Top \in Fits
  <2>1. n < 2 * BuddySize[Top]
    BY SizeFacts
  <2> QED
    BY <2>1, OrderFacts
<1>2. PICK k \in Fits : \A i \in Fits : ~(i < k)
  BY <1>1, SmallestElement
<1>3. n \in Nat /\ BuddySize[k] \in Nat
  BY SizeFacts
<1>4. CASE k = 0
  <2>1. BuddySize[0] \in Pristine[0] /\ 0 \in Pristine[0]
    BY OrderFacts DEF Pristine
  <2> QED
    BY <1>3, <1>4, <2>1, OrderFacts DEF Within
<1>5. CASE k # 0
  <2>1. k - 1 \in Orders /\ BuddySize[k] = 2 * BuddySize[k - 1] /\ k - 1 < k
    BY <1>5, OrderFacts, SizeFacts
  <2>2. ~(n < BuddySize[k])
    BY <1>2, <2>1
  <2>3. BuddySize[k] \in Pristine[k]
    BY <1>5 DEF Pristine
  <2> QED
    BY <1>3, <2>2, <2>3 DEF Within
<1> QED
  BY <1>4, <1>5

LEMMA InitBytes == Init => NoByteLost
<1> SUFFICES ASSUME Init, NEW a \in Areas, NEW n \in 0 .. areaLen[a] - 1
             PROVE  \E k \in Orders : \E x \in free[a][k] :
                      Within(n, x, BuddySize[k])
  BY DEF NoByteLost
<1>1. areaLen[a] = SingleAreaSize /\ free[a] = Pristine
  <2>1. areaLen[a] # 0
    OBVIOUS
  <2> QED
    BY <2>1 DEF Init
<1> QED
  BY <1>1, PristineCovers

\* The steps after which every byte has the owner it had.
LEMMA SameOwners ==
  ASSUME NoByteLost, UNCHANGED <<free, areaLen>>, held \subseteq held',
         op' = op \/ op.at # "put"
  PROVE  NoByteLost'
BY DEF NoByteLost

\* The areas other than the one a step works on keep their bytes.
LEMMA OtherAreas ==
  ASSUME NoByteLost, NEW a \in Areas, NEW d \in Areas, d # a,
         free'[d] = free[d], areaLen'[d] = areaLen[d],
         \A r \in held : r.area = d => r \in held',
         op.at = "put" => op.area = a,
         NEW n \in 0 .. areaLen'[d] - 1
  PROVE  Owned(d, n)'
<1>1. FreeOwns(d, n) \/ HeldOwns(d, n)
  BY DEF NoByteLost, FreeOwns, HeldOwns
<1> QED
  BY <1>1 DEF Owned, FreeOwns, HeldOwns

LEMMA NewAreaBytes ==
  ASSUME TypeOK, NoByteLost, NEW c \in Clients, ChooseNewArea(c)
  PROVE  NoByteLost'
<1>1. PICK a \in Areas : AreaCreate(a, TRUE, SingleAreaSize)
  BY DEF ChooseNewArea
<1>2. /\ free'[a] = Pristine /\ areaLen'[a] = SingleAreaSize
      /\ \A d \in Areas : d # a => free'[d] = free[d] /\ areaLen'[d] = areaLen[d]
  BY <1>1 DEF AreaCreate, TypeOK
<1>3. held' = held /\ op.at # "put"
  BY DEF ChooseNewArea, Wants, Idle
<1> SUFFICES ASSUME NEW d \in Areas, NEW n \in 0 .. areaLen'[d] - 1
             PROVE  Owned(d, n)'
  BY DEF NoByteLost, Owned, FreeOwns, HeldOwns, HandOwns
<1>4. CASE d = a
  <2>1. \E k \in Orders : \E x \in Pristine[k] : Within(n, x, BuddySize[k])
    BY <1>2, <1>4, PristineCovers
  <2> QED
    BY <1>2, <1>4, <2>1 DEF Owned, FreeOwns
<1>5. CASE d # a
  BY <1>2, <1>3, <1>5, OtherAreas
<1> QED
  BY <1>4, <1>5

LEMMA WholeAreaBytes ==
  ASSUME TypeOK, Shape, NoByteLost, NEW c \in Clients, MallocArea(c)
  PROVE  NoByteLost'
<1> DEFINE n == AreaLength(request[c].size)
<1>1. PICK a \in Areas : AreaCreate(a, FALSE, n) /\ Grant(c, a, 0, n)
  BY DEF MallocArea
<1>2. n \in Nat
  <2>1. request[c].size \in Nat
    BY RequestFacts, ReqSizesAssumption DEF MallocArea, WantsArea, MallocRequest
  <2> QED
    BY <2>1, SizeFacts DEF AreaLength
<1> HIDE DEF n
<1> DEFINE g == [client |-> c, area |-> a, off |-> 0, len |-> n]
<1>3. held' = held \cup {g} /\ g.area = a /\ g.off = 0 /\ g.len = n
  BY <1>1 DEF Grant
<1> HIDE DEF g
<1>4. /\ free' = free /\ op.at # "put" /\ areaLen'[a] = n
      /\ \A d \in Areas : d # a => areaLen'[d] = areaLen[d]
  BY <1>1 DEF AreaCreate, MallocArea, WantsArea, Idle, TypeOK
<1> SUFFICES ASSUME NEW d \in Areas, NEW m \in 0 .. areaLen'[d] - 1
             PROVE  Owned(d, m)'
  BY DEF NoByteLost, Owned, FreeOwns, HeldOwns, HandOwns
<1>5. CASE d = a
  <2>1. g \in held' /\ Within(m, g.off, g.len)
    BY <1>2, <1>3, <1>4, <1>5 DEF Within
  <2> QED
    BY <1>3, <1>5, <2>1 DEF Owned, HeldOwns
<1>6. CASE d # a
  BY <1>3, <1>4, <1>6, OtherAreas
<1> QED
  BY <1>5, <1>6

LEMMA SplitBytes ==
  ASSUME TypeOK, NoByteLost, GetSplit
  PROVE  NoByteLost'
<1>1. PICK i \in Orders : GetSplit!2!(i)
  BY DEF GetSplit
<1>2. PICK x \in free[op.area][i] :
        free' = [free EXCEPT ![op.area][i] = @ \ {x},
                             ![op.area][i - 1] = @ \cup Halves(x, i)]
  BY <1>1
<1> DEFINE a == op.area
           h == BuddySize[i - 1]
<1>3. /\ op \in GetOp /\ a \in Areas /\ i - 1 \in Orders /\ i - 1 # i
      /\ op.at # "put"
  BY <1>1, OpFacts, OrderFacts DEF GetSplit, IsFirstNonEmpty, GetOp
<1>4. x \in Nat /\ h \in Nat /\ BuddySize[i] = 2 * h /\ Halves(x, i) = {x, x + h}
  BY <1>3, FreeFacts, SizeFacts, OrderFacts DEF Halves
<1>5. /\ free'[a][i] = free[a][i] \ {x}
      /\ free'[a][i - 1] = free[a][i - 1] \cup {x, x + h}
      /\ \A k \in Orders : k # i /\ k # i - 1 => free'[a][k] = free[a][k]
      /\ \A d \in Areas : d # a => free'[d] = free[d]
  BY <1>2, <1>3, <1>4 DEF TypeOK
<1>6. UNCHANGED <<areaLen, held, op>>
  BY DEF GetSplit
<1> HIDE DEF a
<1> SUFFICES ASSUME NEW d \in Areas, NEW n \in 0 .. areaLen[d] - 1
             PROVE  Owned(d, n)'
  BY <1>6 DEF NoByteLost, Owned, FreeOwns, HeldOwns, HandOwns
<1>7. CASE HeldOwns(d, n)
  BY <1>6, <1>7 DEF Owned, HeldOwns
<1>8. ASSUME NEW k \in Orders, NEW y \in free[d][k], Within(n, y, BuddySize[k])
      PROVE  FreeOwns(d, n)'
  <2>1. CASE y \in free'[d][k]
    BY <1>8, <2>1 DEF FreeOwns
  <2>2. CASE y \notin free'[d][k]
    <3>1. d = a /\ k = i /\ y = x
      BY <1>3, <1>5, <2>2
    <3>2. Within(n, x, 2 * h)
      BY <1>4, <1>8, <3>1
    <3>3. Within(n, x, h) \/ Within(n, x + h, h)
      BY <1>4, <3>2 DEF Within
    <3> QED
      BY <1>3, <1>5, <3>1, <3>3 DEF FreeOwns
  <2> QED
    BY <2>1, <2>2
<1> QED
  BY <1>3, <1>7, <1>8, NoByteLostOwned DEF Owned, FreeOwns, HandOwns

LEMMA TakeBytes ==
  ASSUME TypeOK, NoByteLost, GetTake
  PROVE  NoByteLost'
<1>1. op \in GetOp /\ op.area \in Areas /\ op.index \in Orders
      /\ op.at # "put"
  BY OpFacts DEF GetTake, GetOp
<1>2. PICK x \in free[op.area][op.index] :
        /\ free' = [free EXCEPT ![op.area][op.index] = @ \ {x}]
        /\ Grant(op.client, op.area, x, BuddySize[op.index])
  BY DEF GetTake
<1> DEFINE g == [client |-> op.client, area |-> op.area, off |-> x,
                 len |-> BuddySize[op.index]]
<1>3. /\ held' = held \cup {g} /\ g.area = op.area /\ g.off = x
      /\ g.len = BuddySize[op.index]
  BY <1>2 DEF Grant
<1> HIDE DEF g
<1>4. UNCHANGED areaLen
  BY DEF GetTake
<1> SUFFICES ASSUME NEW d \in Areas, NEW n \in 0 .. areaLen[d] - 1
             PROVE  Owned(d, n)'
  BY <1>4 DEF NoByteLost, Owned, FreeOwns, HeldOwns, HandOwns
<1>5. CASE HeldOwns(d, n)
  BY <1>3, <1>5 DEF Owned, HeldOwns
<1>6. ASSUME NEW k \in Orders, NEW y \in free[d][k], Within(n, y, BuddySize[k])
      PROVE  Owned(d, n)'
  <2>1. CASE y \in free'[d][k]
    BY <1>6, <2>1 DEF Owned, FreeOwns
  <2>2. CASE y \notin free'[d][k]
    <3>1. d = op.area /\ k = op.index /\ y = x
      BY <1>1, <1>2, <2>2 DEF TypeOK
    <3> QED
      BY <1>3, <1>6, <3>1 DEF Owned, HeldOwns
  <2> QED
    BY <2>1, <2>2
<1> QED
  BY <1>1, <1>5, <1>6, NoByteLostOwned DEF Owned, FreeOwns, HandOwns

LEMMA FreeBlockBytes ==
  ASSUME TypeOK, NoByteLost, NEW c \in Clients, FreeBlock(c)
  PROVE  NoByteLost'
<1>1. PICK r \in held, index \in Orders : FreeBlock(c)!(r, index)
  BY DEF FreeBlock
<1>2. /\ held' = held \ {r} /\ UNCHANGED <<free, areaLen>>
      /\ op' = [at |-> "put", client |-> c, area |-> r.area,
                index |-> index, off |-> r.off]
      /\ BuddySize[index] = r.len /\ op.at # "put"
  BY <1>1 DEF Release, poolVars, WantsFree, Idle
<1> SUFFICES ASSUME NEW d \in Areas, NEW n \in 0 .. areaLen[d] - 1
             PROVE  Owned(d, n)'
  BY <1>2 DEF NoByteLost, Owned, FreeOwns, HeldOwns, HandOwns
<1>3. CASE FreeOwns(d, n)
  BY <1>2, <1>3 DEF Owned, FreeOwns
<1>4. CASE HeldOwns(d, n)
  BY <1>2, <1>4 DEF Owned, HeldOwns, HandOwns
<1> QED
  BY <1>2, <1>3, <1>4, NoByteLostOwned DEF Owned, HandOwns

LEMMA MergeBytes ==
  ASSUME TypeOK, NoByteLost, PutMerge
  PROVE  NoByteLost'
<1> DEFINE a == op.area
           k == op.index
           x == op.off
           b == BuddyOf(x, k)
           m == Merged(x, b)
           h == BuddySize[k]
<1>1. /\ op \in PutOp /\ a \in Areas /\ k \in Orders /\ x \in Nat
      /\ b \in free[a][k] /\ b \in Nat /\ k # Top /\ k + 1 \in Orders
  BY OpFacts, OrderFacts DEF PutMerge, CanMerge, PutOp, TypeOK
<1>2. h \in Nat /\ h >= 1 /\ BuddySize[k + 1] = 2 * h
  BY <1>1, SizeFacts
<1>3. m \in Nat /\ ((m = x /\ b = x + h) \/ (m = b /\ x = b + h))
  <2>1. b = x + h \/ b = x - h
    BY DEF BuddyOf
  <2>2. (m = b /\ b < x) \/ (m = x /\ ~(b < x))
    BY DEF Merged
  <2> HIDE DEF b, m, h
  <2>3. x - h < x /\ ~(x + h < x) /\ (x - h) + h = x
    BY <1>1, <1>2
  <2> QED
    BY <1>1, <1>2, <2>1, <2>2, <2>3
<1>4. /\ free' = [free EXCEPT ![a][k] = @ \ {b}]
      /\ UNCHANGED <<areaLen, held>>
  BY DEF PutMerge
<1>5. op'.at = "put" /\ op'.area = a /\ op'.index = k + 1 /\ op'.off = m
  BY <1>1 DEF PutMerge, PutOp
<1>6. ASSUME NEW d \in Areas, d = a,
             NEW n \in Nat, Within(n, x, h) \/ Within(n, b, h)
      PROVE  HandOwns(d, n)'
  <2>1. Within(n, m, 2 * h)
    <3> HIDE DEF x, b, m, h
    <3> QED
      BY <1>1, <1>2, <1>3, <1>6 DEF Within
  <2> QED
    BY <1>2, <1>5, <1>6, <2>1 DEF HandOwns
<1> HIDE DEF b, m
<1> SUFFICES ASSUME NEW d \in Areas, NEW n \in 0 .. areaLen[d] - 1
             PROVE  Owned(d, n)'
  BY <1>4 DEF NoByteLost, Owned, FreeOwns, HeldOwns, HandOwns
<1> n \in Nat
  BY DEF TypeOK
<1>7. CASE HeldOwns(d, n)
  BY <1>4, <1>7 DEF Owned, HeldOwns
<1>8. CASE HandOwns(d, n)
  BY <1>6, <1>8 DEF Owned, HandOwns
<1>9. ASSUME NEW l \in Orders, NEW y \in free[d][l], Within(n, y, BuddySize[l])
      PROVE  Owned(d, n)'
  <2>1. CASE y \in free'[d][l]
    BY <1>9, <2>1 DEF Owned, FreeOwns
  <2>2. CASE y \notin free'[d][l]
    <3>1. d = a /\ l = k /\ y = b
      BY <1>1, <1>4, <2>2 DEF TypeOK
    <3> QED
      BY <1>6, <1>9, <3>1 DEF Owned
  <2> QED
    BY <2>1, <2>2
<1> QED
  BY <1>7, <1>8, <1>9, NoByteLostOwned DEF Owned, FreeOwns

LEMMA InsertBytes ==
  ASSUME TypeOK, NoByteLost, PutInsert
  PROVE  NoByteLost'
<1>1. op \in PutOp /\ op.area \in Areas /\ op.index \in Orders
  BY OpFacts DEF PutInsert, PutOp
<1>2. /\ free' = [free EXCEPT ![op.area][op.index] = @ \cup {op.off}]
      /\ UNCHANGED <<areaLen, held>>
  BY DEF PutInsert
<1>3. /\ op.off \in free'[op.area][op.index]
      /\ \A d \in Areas, k \in Orders : free[d][k] \subseteq free'[d][k]
  BY <1>1, <1>2 DEF TypeOK
<1> SUFFICES ASSUME NEW d \in Areas, NEW n \in 0 .. areaLen[d] - 1
             PROVE  Owned(d, n)'
  BY <1>2 DEF NoByteLost, Owned, FreeOwns, HeldOwns, HandOwns
<1>4. CASE FreeOwns(d, n)
  BY <1>3, <1>4 DEF Owned, FreeOwns
<1>5. CASE HeldOwns(d, n)
  BY <1>2, <1>5 DEF Owned, HeldOwns
<1>6. CASE HandOwns(d, n)
  BY <1>1, <1>3, <1>6 DEF Owned, HandOwns, FreeOwns
<1> QED
  BY <1>4, <1>5, <1>6, NoByteLostOwned DEF Owned

LEMMA FreedAreaBytes ==
  ASSUME TypeOK, Shape, NoByteLost, op = Idle, op' = op, NEW c \in Clients,
         NEW r \in held, r.area \in moreAreas, Release(c, r),
         \/ /\ free' = [free EXCEPT ![r.area] = Pristine]
            /\ UNCHANGED areaLen /\ r.len <= SingleAreaSize
         \/ /\ free' = [free EXCEPT ![r.area] = NoBlocks]
            /\ areaLen' = [areaLen EXCEPT ![r.area] = 0]
  PROVE  NoByteLost'
<1>1. r.area \in Areas /\ r.area \notin areaList /\ held' = held \ {r}
  BY HeldFacts DEF Release, Shape, AreaShape
<1>2. \A d \in Areas : d # r.area =>
        free'[d] = free[d] /\ areaLen'[d] = areaLen[d]
  BY <1>1 DEF TypeOK
<1>3. op.at # "put"
  BY DEF Idle
<1> SUFFICES ASSUME NEW d \in Areas, NEW n \in 0 .. areaLen'[d] - 1
             PROVE  Owned(d, n)'
  BY DEF NoByteLost, Owned, FreeOwns, HeldOwns, HandOwns
<1>4. CASE d # r.area
  BY <1>1, <1>2, <1>3, <1>4, OtherAreas
<1>5. CASE d = r.area
  <2>1. areaLen'[d] # 0
    OBVIOUS
  <2>2. free'[d] = Pristine /\ areaLen'[d] = areaLen[d] /\ r.len <= SingleAreaSize
    BY <1>1, <1>5, <2>1 DEF TypeOK
  <2>3. areaLen[d] = r.len
    BY <1>1, <1>5 DEF Shape, HeldShape
  <2>4. n \in 0 .. SingleAreaSize - 1
    BY <1>1, <2>2, <2>3, HeldFacts, SizeFacts
  <2> QED
    BY <2>2, <2>4, PristineCovers DEF Owned, FreeOwns
<1> QED
  BY <1>4, <1>5

LEMMA NextBytes == TypeOK /\ Shape /\ NoByteLost /\ [Next]_vars => NoByteLost'
<1> SUFFICES ASSUME TypeOK, Shape, NoByteLost, [Next]_vars PROVE NoByteLost'
  OBVIOUS
<1>1. ASSUME NEW c \in Clients, SendMalloc(c) \/ SendFree(c)
      PROVE  NoByteLost'
  BY <1>1, SameOwners DEF SendMalloc, SendFree, poolVars
<1>2. ASSUME NEW c \in Clients, ChooseCurArea(c) \/ ChooseListedArea(c)
      PROVE  NoByteLost'
  BY <1>2, SameOwners
     DEF ChooseCurArea, ChooseListedArea, Wants, Idle, poolVars
<1>3. ASSUME NEW c \in Clients, NewAreaFails(c) \/ MallocAreaFails(c)
      PROVE  NoByteLost'
  BY <1>3, SameOwners DEF NewAreaFails, MallocAreaFails, Refuse, poolVars
<1>4. ASSUME NEW c \in Clients, FreeArea(c) PROVE NoByteLost'
  BY <1>4, FreedAreaBytes DEF FreeArea, WantsFree, IsAreaOfSingleSize
<1>5. ASSUME NEW c \in Clients, FreeAreaDrops(c) \/ FreeMoreArea(c)
      PROVE  NoByteLost'
  BY <1>5, FreedAreaBytes
     DEF FreeAreaDrops, FreeMoreArea, WantsFree, IsAreaOfSingleSize, Deregister
<1>6. CASE GetSplitFails \/ GetNone
  BY <1>6, SameOwners DEF GetSplitFails, GetNone, Refuse, poolVars
<1>7. CASE UNCHANGED vars
  BY <1>7, SameOwners DEF vars, poolVars
<1> QED
  BY <1>1, <1>2, <1>3, <1>4, <1>5, <1>6, <1>7, NewAreaBytes, WholeAreaBytes,
     SplitBytes, TakeBytes, FreeBlockBytes, MergeBytes, InsertBytes
     DEF Next, Malloc, Free, Loop

\* No byte of NVM is ever lost: whatever is split, merged, granted, given
\* back or rebuilt, each byte of a registered area has an owner.
THEOREM PoolNoByteLost == Spec => []NoByteLost
<1>1. TypeOK /\ Shape /\ NoByteLost /\ [Next]_vars
        => (TypeOK /\ Shape /\ NoByteLost)'
  BY NextType, NextShape, NextBytes
<1> QED
  BY <1>1, InitType, InitShape, InitBytes, PTL DEF Spec

(***************************************************************************)
(* max_index.  It is exact in every area no handler is at work in.  In the *)
(* area a get is at work in it may be too high after a split, which the    *)
(* last turn puts right, but there is always a block to be had: that is    *)
(* why the area was chosen.  In the area a put is at work in it may be     *)
(* anything: the last turn finds it anew.  When a list node cannot be      *)
(* allocated a get ends between two turns (GetSplitFails), and none of     *)
(* this holds: the theorems below are about a heap that does not fail.     *)
(***************************************************************************)
IndexExact ==
  \A a \in areaList :
    op = Idle \/ op.area # a => IsHighest(free[a], Top, maxIndex[a])

GetFinds ==
  op.at = "get" =>
    /\ \A j \in Orders : free[op.area][j] # {} => j <= maxIndex[op.area]
    /\ \E i \in Orders : i >= op.index /\ free[op.area][i] # {}

IndexInv == IndexExact /\ GetFinds

LEMMA PristineHighest == IsHighest(Pristine, Top, Top)
BY OrderFacts DEF IsHighest, Pristine

\* A list that is not empty is at or below max_index.
LEMMA HighestBounds ==
  ASSUME NEW f, NEW k, IsHighest(f, Top, k), NEW j \in Orders, f[j] # {}
  PROVE  k \in Orders /\ j <= k /\ f[k] # {}
BY OrderFacts DEF IsHighest

LEMMA InitIndex == Init => IndexInv
BY PristineHighest DEF Init, IndexInv, IndexExact, GetFinds, Idle

\* A handler takes up an area whose max_index is exact and high enough.
LEMMA ChosenFinds ==
  ASSUME TypeOK, IndexExact, op = Idle, NEW a \in areaList,
         NEW index \in Orders, maxIndex[a] >= index
  PROVE  /\ \A j \in Orders : free[a][j] # {} => j <= maxIndex[a]
         /\ \E i \in Orders : i >= index /\ free[a][i] # {}
<1>1. IsHighest(free[a], Top, maxIndex[a])
  BY DEF IndexExact
<1>2. maxIndex[a] # -1
  BY OrderFacts
<1> QED
  BY <1>1, <1>2, OrderFacts DEF IsHighest

LEMMA ChooseIndex ==
  ASSUME TypeOK, IndexInv, NEW c \in Clients,
         ChooseCurArea(c) \/ ChooseListedArea(c)
  PROVE  IndexInv'
<1>1. PICK index \in Orders, a \in areaList :
        /\ op = Idle /\ maxIndex[a] >= index /\ StartGet(c, a, index)
        /\ UNCHANGED <<areaList, free, maxIndex>>
  BY DEF ChooseCurArea, ChooseListedArea, Wants, TypeOK, poolVars
<1>2. IndexExact'
  BY <1>1 DEF IndexInv, IndexExact
<1>3. GetFinds'
  BY <1>1, ChosenFinds DEF IndexInv, StartGet, GetFinds
<1> QED
  BY <1>2, <1>3 DEF IndexInv

LEMMA NewAreaIndex ==
  ASSUME TypeOK, IndexInv, NEW c \in Clients, ChooseNewArea(c)
  PROVE  IndexInv'
<1>1. PICK index \in Orders, a \in Areas :
        AreaCreate(a, TRUE, SingleAreaSize) /\ StartGet(c, a, index) /\ op = Idle
  BY DEF ChooseNewArea, Wants
<1>2. /\ areaList' = areaList \cup {a}
      /\ free'[a] = Pristine /\ maxIndex'[a] = Top
      /\ \A d \in Areas : d # a =>
           free'[d] = free[d] /\ maxIndex'[d] = maxIndex[d]
  BY <1>1 DEF AreaCreate, TypeOK
<1>3. IndexExact'
  BY <1>1, <1>2, PristineHighest DEF TypeOK, IndexInv, IndexExact
<1>4. GetFinds'
  <2>1. Pristine[Top] # {}
    BY OrderFacts DEF Pristine
  <2> QED
    BY <1>1, <1>2, <2>1, OrderFacts DEF StartGet, GetFinds
<1> QED
  BY <1>3, <1>4 DEF IndexInv

LEMMA SplitIndex ==
  ASSUME TypeOK, IndexInv, GetSplit
  PROVE  IndexInv'
<1>1. PICK i \in Orders : GetSplit!2!(i)
  BY DEF GetSplit
<1>2. PICK x \in free[op.area][i] :
        free' = [free EXCEPT ![op.area][i] = @ \ {x},
                             ![op.area][i - 1] = @ \cup Halves(x, i)]
  BY <1>1
<1>3. /\ op \in GetOp /\ op.area \in Areas /\ op.index \in Orders
      /\ i - 1 \in Orders /\ i - 1 # i /\ i - 1 >= op.index /\ op.at = "get"
  BY <1>1, OpFacts, OrderFacts DEF GetSplit, IsFirstNonEmpty, GetOp
<1>4. /\ free'[op.area][i] = free[op.area][i] \ {x}
      /\ free'[op.area][i - 1] = free[op.area][i - 1] \cup Halves(x, i)
      /\ \A k \in Orders : k # i /\ k # i - 1 =>
           free'[op.area][k] = free[op.area][k]
      /\ \A d \in Areas : d # op.area => free'[d] = free[d]
  BY <1>2, <1>3 DEF TypeOK
<1>5. UNCHANGED <<areaList, maxIndex, op>>
  BY DEF GetSplit
<1>6. i <= maxIndex[op.area] /\ maxIndex[op.area] \in Int
  BY <1>2, <1>3 DEF IndexInv, GetFinds, TypeOK
<1>7. \A j \in Orders : free'[op.area][j] # {} => j <= maxIndex[op.area]
  <2> SUFFICES ASSUME NEW j \in Orders, free'[op.area][j] # {}
               PROVE  j <= maxIndex[op.area]
    OBVIOUS
  <2>1. CASE j = i \/ j = i - 1
    BY <1>6, <2>1, OrderFacts
  <2>2. CASE j # i /\ j # i - 1
    BY <1>3, <1>4, <2>2 DEF IndexInv, GetFinds
  <2> QED
    BY <2>1, <2>2
<1>8. \E k \in Orders : k >= op.index /\ free'[op.area][k] # {}
  <2>1. free'[op.area][i - 1] # {}
    BY <1>4 DEF Halves
  <2> QED
    BY <1>3, <2>1
<1>9. IndexExact'
  BY <1>3, <1>4, <1>5 DEF TypeOK, Idle, IndexInv, IndexExact
<1> QED
  BY <1>5, <1>7, <1>8, <1>9 DEF IndexInv, GetFinds

LEMMA TakeIndex ==
  ASSUME TypeOK, IndexInv, GetTake
  PROVE  IndexInv'
<1>1. op \in GetOp /\ op.area \in Areas /\ op.index \in Orders /\ op.at = "get"
  BY OpFacts DEF GetTake, GetOp
<1>2. PICK x \in free[op.area][op.index] :
        free' = [free EXCEPT ![op.area][op.index] = @ \ {x}]
  BY DEF GetTake
<1>3. PICK k \in Orders \cup {-1} :
        /\ IsHighest(free'[op.area], maxIndex[op.area], k)
        /\ maxIndex' = [maxIndex EXCEPT ![op.area] = k]
  BY DEF GetTake, LowerIndex
<1>4. \A j \in Orders : free'[op.area][j] # {} => j <= maxIndex[op.area]
  <2>1. \A j \in Orders : free'[op.area][j] \subseteq free[op.area][j]
    BY <1>1, <1>2 DEF TypeOK
  <2> QED
    BY <1>1, <2>1 DEF IndexInv, GetFinds
<1>5. IsHighest(free'[op.area], Top, k)
  BY <1>3, <1>4, OrderFacts DEF IsHighest
<1>6. /\ maxIndex'[op.area] = k
      /\ \A d \in Areas : d # op.area =>
           free'[d] = free[d] /\ maxIndex'[d] = maxIndex[d]
  BY <1>1, <1>2, <1>3 DEF TypeOK
<1>7. areaList' = areaList /\ op' = Idle
  BY DEF GetTake
<1>8. IndexExact'
  BY <1>1, <1>5, <1>6, <1>7 DEF TypeOK, Idle, IndexInv, IndexExact
<1> QED
  BY <1>7, <1>8 DEF IndexInv, GetFinds, Idle

LEMMA InsertIndex ==
  ASSUME TypeOK, IndexInv, PutInsert
  PROVE  IndexInv'
<1>1. op \in PutOp /\ op.area \in Areas
  BY OpFacts DEF PutInsert, PutOp
<1>2. PICK k \in Orders :
        /\ IsHighest(free'[op.area], Top, k)
        /\ maxIndex' = [maxIndex EXCEPT ![op.area] = k]
  BY DEF PutInsert
<1>3. /\ areaList' = areaList /\ op' = Idle /\ maxIndex'[op.area] = k
      /\ \A d \in Areas : d # op.area =>
           free'[d] = free[d] /\ maxIndex'[d] = maxIndex[d]
  BY <1>1, <1>2 DEF PutInsert, TypeOK
<1>4. IndexExact'
  BY <1>1, <1>2, <1>3 DEF TypeOK, PutOp, Idle, IndexInv, IndexExact
<1> QED
  BY <1>3, <1>4 DEF IndexInv, GetFinds, Idle

LEMMA PutIndex ==
  ASSUME TypeOK, IndexInv, PutMerge \/ \E c \in Clients : FreeBlock(c)
  PROVE  IndexInv'
<1>1. CASE PutMerge
  <2>1. op \in PutOp /\ op.area \in Areas
    BY <1>1, OpFacts DEF PutMerge, PutOp
  <2>2. /\ op'.area = op.area /\ op'.at = "put" /\ op # Idle
        /\ UNCHANGED <<areaList, maxIndex>>
        /\ \A d \in Areas : d # op.area => free'[d] = free[d]
    BY <1>1, <2>1 DEF PutMerge, PutOp, Idle, TypeOK
  <2> QED
    BY <2>1, <2>2 DEF TypeOK, IndexInv, IndexExact, GetFinds, Idle
<1>2. ASSUME NEW c \in Clients, FreeBlock(c) PROVE IndexInv'
  <2>1. op'.at = "put" /\ op = Idle /\ UNCHANGED <<areaList, maxIndex, free>>
    BY <1>2 DEF FreeBlock, WantsFree, poolVars
  <2> QED
    BY <2>1 DEF IndexInv, IndexExact, GetFinds
<1> QED
  BY <1>1, <1>2

LEMMA FreedAreaIndex ==
  ASSUME TypeOK, Shape, IndexInv, op = Idle, op' = op,
         NEW r \in held, r.area \in moreAreas,
         \/ /\ areaList' = areaList \cup {r.area}
            /\ free' = [free EXCEPT ![r.area] = Pristine]
            /\ maxIndex' = [maxIndex EXCEPT ![r.area] = Top]
         \/ areaList' = areaList /\ Deregister(r.area)
  PROVE  IndexInv'
<1>1. r.area \in Areas /\ r.area \notin areaList
  BY HeldFacts DEF Shape, AreaShape
<1>2. \A d \in Areas : d # r.area =>
        free'[d] = free[d] /\ maxIndex'[d] = maxIndex[d]
  BY DEF TypeOK, Deregister
<1>3. r.area \in areaList' => free'[r.area] = Pristine /\ maxIndex'[r.area] = Top
  BY <1>1 DEF TypeOK
<1>4. IndexExact'
  BY <1>1, <1>2, <1>3, PristineHighest DEF TypeOK, IndexInv, IndexExact
<1> QED
  BY <1>4 DEF IndexInv, GetFinds, Idle

LEMMA NextIndex ==
  ASSUME ~HeapMayFail
  PROVE  TypeOK /\ Shape /\ IndexInv /\ [Next]_vars => IndexInv'
<1> SUFFICES ASSUME TypeOK, Shape, IndexInv, [Next]_vars PROVE IndexInv'
  OBVIOUS
<1>1. ASSUME UNCHANGED <<areaList, free, maxIndex, op>> PROVE IndexInv'
  BY <1>1 DEF IndexInv, IndexExact, GetFinds
<1>2. ASSUME NEW c \in Clients,
             \/ SendMalloc(c) \/ SendFree(c)
             \/ NewAreaFails(c) \/ MallocAreaFails(c)
      PROVE  IndexInv'
  BY <1>1, <1>2
     DEF SendMalloc, SendFree, NewAreaFails, MallocAreaFails, poolVars
<1>3. ASSUME NEW c \in Clients, MallocArea(c) PROVE IndexInv'
  <2>1. PICK a \in Areas : AreaCreate(a, FALSE, AreaLength(request[c].size))
    BY <1>3 DEF MallocArea
  <2>2. /\ a \notin areaList /\ UNCHANGED <<areaList, free>> /\ op' = op
        /\ op = Idle /\ \A d \in areaList : maxIndex'[d] = maxIndex[d]
    BY <1>3, <2>1, CreatedWasFree DEF MallocArea, WantsArea, AreaCreate, TypeOK
  <2> QED
    BY <2>2 DEF IndexInv, IndexExact, GetFinds, Idle
<1>4. ASSUME NEW c \in Clients, FreeArea(c) PROVE IndexInv'
  BY <1>4, FreedAreaIndex DEF FreeArea, WantsFree, IsAreaOfSingleSize
<1>5. ASSUME NEW c \in Clients, FreeAreaDrops(c) \/ FreeMoreArea(c)
      PROVE  IndexInv'
  BY <1>5, FreedAreaIndex
     DEF FreeAreaDrops, FreeMoreArea, WantsFree, IsAreaOfSingleSize
<1>6. ~GetSplitFails
  BY DEF GetSplitFails
<1>7. ~GetNone
  BY OpFacts, OrderFacts DEF GetNone, GetOp, IndexInv, GetFinds
<1>8. CASE UNCHANGED vars
  BY <1>1, <1>8 DEF vars, poolVars
<1> QED
  BY <1>2, <1>3, <1>4, <1>5, <1>6, <1>7, <1>8, ChooseIndex, NewAreaIndex,
     SplitIndex, TakeIndex, InsertIndex, PutIndex DEF Next, Malloc, Free, Loop

\* Whenever no handler is at work, max_index of every area is the last order
\* that has a free block, as long as no list node fails to be allocated.
THEOREM PoolMaxIndexExact ==
  ASSUME ~HeapMayFail
  PROVE  Spec => []MaxIndexExact
<1>1. TypeOK /\ Shape /\ IndexInv /\ [Next]_vars
        => (TypeOK /\ Shape /\ IndexInv)'
  BY NextType, NextShape, NextIndex
<1>2. IndexInv => MaxIndexExact
  BY DEF IndexInv, IndexExact, MaxIndexExact
<1> QED
  BY <1>1, <1>2, InitType, InitShape, InitIndex, PTL DEF Spec

(***************************************************************************)
(* When a malloc is refused.                                               *)
(***************************************************************************)
\* A step that grants a region grants a new one, so that it is no refusal.
LEMMA GrantsNew ==
  ASSUME TypeOK, Shape, NoOverlap,
         GetTake \/ \E c \in Clients : MallocArea(c)
  PROVE  held' # held
<1>1. CASE GetTake
  <2>1. op.area \in Areas /\ op.index \in Orders
    BY <1>1, OpFacts DEF GetTake, GetOp
  <2>2. PICK x \in free[op.area][op.index] :
          Grant(op.client, op.area, x, BuddySize[op.index])
    BY <1>1 DEF GetTake
  <2> DEFINE g == [client |-> op.client, area |-> op.area, off |-> x,
                   len |-> BuddySize[op.index]]
  <2>3. /\ g \in held' /\ g.area = op.area /\ g.off = x
        /\ g.len = BuddySize[op.index]
    BY <2>2 DEF Grant
  <2> HIDE DEF g
  <2>4. g \notin held
    <3> SUFFICES ASSUME g \in held PROVE FALSE
      OBVIOUS
    <3>1. Apart(x, BuddySize[op.index], x, BuddySize[op.index])
      BY <2>1, <2>3 DEF NoOverlap, FreeHeldApart
    <3> QED
      BY <2>1, <3>1, FreeFacts, SizeFacts DEF Apart
  <2> QED
    BY <2>3, <2>4
<1>2. ASSUME NEW c \in Clients, MallocArea(c) PROVE held' # held
  <2> DEFINE n == AreaLength(request[c].size)
  <2>1. PICK a \in Areas : AreaCreate(a, FALSE, n) /\ Grant(c, a, 0, n)
    BY <1>2 DEF MallocArea
  <2> HIDE DEF n
  <2> DEFINE g == [client |-> c, area |-> a, off |-> 0, len |-> n]
  <2>2. g \in held' /\ g.area = a
    BY <2>1 DEF Grant
  <2> HIDE DEF g
  <2>3. g \notin held
    BY <2>1, <2>2, CreatedWasFree DEF AreaCreate, Shape, HeldShape
  <2> QED
    BY <2>2, <2>3
<1> QED
  BY <1>1, <1>2

\* max_index of every area is below the order the request needs.
LEMMA NoAreaMeansFull ==
  ASSUME TypeOK, IndexExact, op = Idle, NEW index \in Orders, NEW size \in Nat,
         IsIndexFor(index, size), NoAreaFor(index),
         NEW a \in areaList, NEW k \in Orders, size <= BuddySize[k]
  PROVE  free[a][k] = {}
<1>1. k >= index
  <2>1. \A j \in Orders : j < index => j \in 0 .. index - 1
    BY OrderFacts
  <2> QED
    BY <2>1, OrderFacts, SizeFacts DEF IsIndexFor
<1>2. maxIndex[a] < index /\ maxIndex[a] \in Int
  BY DEF NoAreaFor, TypeOK
<1>3. free[a][k] # {} => k <= maxIndex[a]
  BY HighestBounds DEF IndexExact
<1> QED
  BY <1>1, <1>2, <1>3, OrderFacts

LEMMA StepRefuses ==
  ASSUME ~HeapMayFail, TypeOK, Shape, NoOverlap, InHand, IndexInv, [Next]_vars,
         NEW c \in Clients, Refused(c), request[c].size <= BuddySize[Top]
  PROVE  \A a \in areaList, k \in Orders :
           request[c].size <= BuddySize[k] => free[a][k] = {}
<1>1. request[c].kind = "malloc" /\ request'[c] = NoRequest /\ held' = held
  BY DEF Refused
<1>2. request[c].size \in Nat
  BY <1>1, RequestFacts, ReqSizesAssumption DEF MallocRequest
<1>3. BuddySize[Top] \in Nat /\ request'[c] # request[c]
  BY <1>1, OrderFacts, SizeFacts DEF NoRequest
\* A request that is answered is the one the step is about.
<1>4. ASSUME NEW d \in Clients, Answer(d) PROVE d = c
  BY <1>3, <1>4 DEF Answer, TypeOK
<1>5. ASSUME NEW d \in Clients, SendMalloc(d) \/ SendFree(d) PROVE FALSE
  BY <1>1, <1>3, <1>5
     DEF SendMalloc, SendFree, TypeOK, NoRequest
<1>6. ASSUME NEW d \in Clients,
             \/ ChooseCurArea(d) \/ ChooseListedArea(d) \/ ChooseNewArea(d)
             \/ FreeBlock(d)
      PROVE  FALSE
  BY <1>3, <1>6
     DEF ChooseCurArea, ChooseListedArea, ChooseNewArea, FreeBlock
<1>7. ASSUME NEW d \in Clients, NewAreaFails(d)
      PROVE  \A a \in areaList, k \in Orders :
               request[c].size <= BuddySize[k] => free[a][k] = {}
  <2>1. d = c
    BY <1>4, <1>7 DEF NewAreaFails, Refuse
  <2>2. PICK index \in Orders : Wants(c, index) /\ NoAreaFor(index)
    BY <1>7, <2>1 DEF NewAreaFails
  <2> QED
    BY <1>2, <2>2, NoAreaMeansFull DEF Wants, IndexInv
<1>8. ASSUME NEW d \in Clients, MallocAreaFails(d) PROVE FALSE
  <2>1. d = c
    BY <1>4, <1>8 DEF MallocAreaFails, Refuse
  <2> QED
    BY <1>2, <1>3, <1>8, <2>1 DEF MallocAreaFails, WantsArea
<1>9. ASSUME NEW d \in Clients, FreeArea(d) \/ FreeAreaDrops(d) \/ FreeMoreArea(d)
      PROVE  FALSE
  BY <1>1, <1>4, <1>9 DEF FreeArea, FreeAreaDrops, FreeMoreArea, WantsFree
<1>10. CASE GetTake \/ \E d \in Clients : MallocArea(d)
  BY <1>1, <1>10, GrantsNew
<1>11. ~GetSplitFails
  BY DEF GetSplitFails
<1>12. ~GetNone
  BY OpFacts, OrderFacts DEF GetNone, GetOp, IndexInv, GetFinds
<1>13. ~GetSplit /\ ~PutMerge
  BY <1>3 DEF GetSplit, PutMerge
<1>14. ~PutInsert
  BY <1>1, <1>4, OpFacts DEF PutInsert, PutOp, InHand
<1>15. CASE UNCHANGED vars
  BY <1>3, <1>15 DEF vars
<1> QED
  BY <1>5, <1>6, <1>7, <1>8, <1>9, <1>10, <1>11, <1>12, <1>13, <1>14, <1>15
     DEF Next, Malloc, Free, Loop

\* A malloc of at most a block is refused only when no area has a free block
\* that is large enough, as long as no list node fails to be allocated.
THEOREM PoolRefusesOnlyWhenFull ==
  ASSUME ~HeapMayFail
  PROVE  Spec => RefusedOnlyWhenFull
<1> DEFINE Inv == TypeOK /\ Shape /\ NoOverlap /\ InHand /\ IndexInv
           Full == \A c \in Clients :
                     Refused(c) /\ request[c].size <= BuddySize[Top] =>
                       \A a \in areaList, k \in Orders :
                         request[c].size <= BuddySize[k] => free[a][k] = {}
<1>1. Init => Inv
  BY InitType, InitShape, InitOverlap, InitInHand, InitIndex
<1>2. Inv /\ [Next]_vars => Inv'
  BY NextType, NextShape, NextOverlap, NextInHand, NextIndex
<1>3. Inv /\ [Next]_vars => [Full]_vars
  BY StepRefuses
<1> HIDE DEF Inv
<1> QED
  BY <1>1, <1>2, <1>3, PTL DEF Spec, RefusedOnlyWhenFull

(***************************************************************************)
(* Multiples: the blocks of an order begin at multiples of its size.       *)
(***************************************************************************)
LEMMA DivisionWithRest ==
  ASSUME NEW n \in Nat, n >= 1, NEW x \in Nat,
         NEW q \in Int, q = x \div n, NEW r \in Int, r = x % n
  PROVE  x = n * q + r /\ r \in 0 .. n - 1 /\ q \in Nat
BY SMT

LEMMA Quotient ==
  ASSUME NEW n \in Nat, n >= 1, NEW x \in Nat
  PROVE  \E q \in Nat, r \in 0 .. n - 1 : r = x % n /\ x = n * q + r
<1>1. x \div n \in Int /\ x % n \in Int
  BY SMT
<1>2. PICK q \in Int, r \in Int : q = x \div n /\ r = x % n
  BY <1>1
<1>3. x = n * q + r /\ r \in 0 .. n - 1 /\ q \in Nat
  BY <1>2, DivisionWithRest
<1> QED
  BY <1>2, <1>3

LEMMA ModIs ==
  ASSUME NEW n \in Nat, n >= 1, NEW q \in Nat, NEW r \in 0 .. n - 1,
         NEW x \in Nat, x = n * q + r
  PROVE  x % n = r
BY SMT

LEMMA EvenOrOdd ==
  ASSUME NEW q \in Nat
  PROVE  \E p \in Nat : q = 2 * p \/ q = 2 * p + 1
<1>1. PICK p \in Nat, r \in 0 .. 1 : q = 2 * p + r
  BY Quotient
<1> QED
  BY <1>1

LEMMA Twice ==
  ASSUME NEW n \in Nat, n >= 1, NEW p \in Nat
  PROVE  /\ n * (2 * p) = (2 * n) * p /\ n * (2 * p + 1) = (2 * n) * p + n
         /\ (2 * n) * p \in Nat
BY SMT

\* A multiple of n is one of 2 * n, or n more than one.
LEMMA HalfMultiple ==
  ASSUME NEW n \in Nat, n >= 1, NEW x \in Nat, x % n = 0
  PROVE  \/ x % (2 * n) = 0 /\ (x + n) % (2 * n) = n
         \/ x % (2 * n) = n /\ x >= n /\ (x - n) % (2 * n) = 0
<1>1. PICK q \in Nat : x = n * q
  BY Quotient
<1>2. PICK p \in Nat : q = 2 * p \/ q = 2 * p + 1
  BY EvenOrOdd
<1>3. n * (2 * p) = (2 * n) * p /\ n * (2 * p + 1) = (2 * n) * p + n
      /\ (2 * n) * p \in Nat
  BY Twice
<1>4. 2 * n \in Nat /\ 2 * n >= 1 /\ n \in 0 .. 2 * n - 1 /\ 0 \in 0 .. 2 * n - 1
  OBVIOUS
<1>5. CASE q = 2 * p
  <2>1. x = (2 * n) * p + 0 /\ x + n = (2 * n) * p + n /\ x + n \in Nat
    BY <1>1, <1>3, <1>5
  <2> QED
    BY <1>4, <2>1, ModIs
<1>6. CASE q = 2 * p + 1
  <2>1. x = (2 * n) * p + n /\ x - n = (2 * n) * p + 0 /\ x - n \in Nat
    BY <1>1, <1>3, <1>6
  <2>2. x >= n
    BY <2>1
  <2> QED
    BY <1>4, <2>1, <2>2, ModIs
<1> QED
  BY <1>2, <1>5, <1>6

\* The two halves of a block of length 2 * n that begins at a multiple of it.
LEMMA MultipleHalves ==
  ASSUME NEW n \in Nat, n >= 1, NEW x \in Nat, x % (2 * n) = 0
  PROVE  x % n = 0 /\ (x + n) % n = 0 /\ (x + n) % (2 * n) = n
<1>1. PICK q \in Nat : x = (2 * n) * q
  <2>1. 2 * n \in Nat /\ 2 * n >= 1
    OBVIOUS
  <2> QED
    BY <2>1, Quotient
<1>2. n * (2 * q) = (2 * n) * q /\ n * (2 * q + 1) = (2 * n) * q + n
      /\ (2 * n) * q \in Nat
  BY Twice
<1>3. x % n = 0
  <2>1. x = n * (2 * q) + 0 /\ 2 * q \in Nat /\ 0 \in 0 .. n - 1
    BY <1>1, <1>2
  <2> QED
    BY <2>1, ModIs
<1>4. (x + n) % n = 0
  <2>1. x + n = n * (2 * q + 1) + 0 /\ 2 * q + 1 \in Nat /\ 0 \in 0 .. n - 1
        /\ x + n \in Nat
    BY <1>1, <1>2
  <2>2. PICK y \in Nat, p \in Nat : y = x + n /\ p = 2 * q + 1
    BY <2>1
  <2>3. y = n * p + 0
    BY <2>1, <2>2
  <2>4. y % n = 0
    BY <2>1, <2>3, ModIs
  <2> QED
    BY <2>2, <2>4
<1>5. (x + n) % (2 * n) = n
  BY <1>3, HalfMultiple
<1> QED
  BY <1>3, <1>4, <1>5

(***************************************************************************)
(* Buddies of aligned blocks come in pairs.                                *)
(***************************************************************************)
Aligned(x, k) == x % BuddySize[k] = 0

LEMMA BuddyFacts ==
  ASSUME NEW k \in Orders, k # Top, NEW x \in Nat, Aligned(x, k)
  PROVE  /\ BuddyOf(x, k) \in Nat /\ BuddyOf(x, k) # x
         /\ Aligned(BuddyOf(x, k), k)
         /\ BuddyOf(BuddyOf(x, k), k) = x
         /\ Aligned(Merged(x, BuddyOf(x, k)), k + 1)
<1> DEFINE n == BuddySize[k]
<1>1. n \in Nat /\ n >= 1 /\ BuddySize[k + 1] = 2 * n
  BY SizeFacts
<1>2. x % n = 0
  BY DEF Aligned
<1> HIDE DEF n
<1>3. CASE x % (2 * n) = 0
  <2>1. BuddyOf(x, k) = x + n
    BY <1>1, <1>3 DEF BuddyOf, n
  <2>2. (x + n) % n = 0 /\ (x + n) % (2 * n) = n
    BY <1>1, <1>3, MultipleHalves
  <2>3. BuddyOf(x + n, k) = x /\ x + n \in Nat /\ x + n # x
    <3>1. (x + n) % BuddySize[k + 1] # 0
      BY <1>1, <2>2
    <3>2. BuddyOf(x + n, k) = (x + n) - n
      BY <3>1 DEF BuddyOf, n
    <3> QED
      BY <1>1, <3>2
  <2>4. Merged(x, x + n) = x
    BY <1>1 DEF Merged
  <2> QED
    BY <1>1, <1>3, <2>1, <2>2, <2>3, <2>4 DEF Aligned, n
<1>4. CASE x % (2 * n) # 0
  <2>1. x >= n /\ (x - n) % (2 * n) = 0
    <3>1. n \in Nat /\ n >= 1
      BY <1>1
    <3> QED
      BY <1>2, <1>4, <3>1, HalfMultiple, Zenon
  <2>2. BuddyOf(x, k) = x - n
    BY <1>1, <1>4 DEF BuddyOf, n
  <2>3. PICK y \in Nat : y = x - n
    BY <1>1, <2>1
  <2>4. y % n = 0 /\ y % (2 * n) = 0 /\ y + n = x /\ y < x
    <3>1. y % (2 * n) = 0
      BY <2>1, <2>3
    <3>2. y % n = 0
      BY <1>1, <3>1, MultipleHalves
    <3> QED
      BY <1>1, <2>3, <3>1, <3>2
  <2>5. BuddyOf(y, k) = x
    BY <1>1, <2>4 DEF BuddyOf, n
  <2>6. Merged(x, y) = y
    BY <2>4 DEF Merged
  <2> QED
    BY <1>1, <2>2, <2>3, <2>4, <2>5, <2>6 DEF Aligned, n
<1> QED
  BY <1>3, <1>4

LEMMA HalvesFacts ==
  ASSUME NEW i \in Orders, i # 0, NEW x \in Nat, Aligned(x, i)
  PROVE  /\ i - 1 \in Orders /\ i - 1 # Top
         /\ BuddyOf(x, i - 1) = x + BuddySize[i - 1]
         /\ Halves(x, i) = {x, BuddyOf(x, i - 1)}
         /\ \A y \in Halves(x, i) :
              /\ y \in Nat /\ Aligned(y, i - 1)
              /\ Halves(x, i) = {y, BuddyOf(y, i - 1)}
<1> DEFINE n == BuddySize[i - 1]
<1>1. i - 1 \in Orders /\ i - 1 # Top /\ (i - 1) + 1 = i
  BY OrderFacts
<1>2. n \in Nat /\ n >= 1 /\ BuddySize[i] = 2 * n
  BY <1>1, SizeFacts
<1>3. x % (2 * n) = 0
  BY <1>2 DEF Aligned
<1>4. x % n = 0
  BY <1>2, <1>3, MultipleHalves
<1>5. BuddyOf(x, i - 1) = x + n
  BY <1>1, <1>2, <1>3 DEF BuddyOf
<1>6. Halves(x, i) = {x, BuddyOf(x, i - 1)}
  BY <1>5 DEF Halves
<1>7. Aligned(x, i - 1)
  BY <1>4 DEF Aligned
<1>8. /\ BuddyOf(x, i - 1) \in Nat /\ Aligned(BuddyOf(x, i - 1), i - 1)
      /\ BuddyOf(BuddyOf(x, i - 1), i - 1) = x
  BY <1>1, <1>7, BuddyFacts
<1> QED
  BY <1>1, <1>5, <1>6, <1>7, <1>8

(***************************************************************************)
(* Every block of an order, free, granted or in a put's hands, begins at a *)
(* multiple of its size: splitting and merging keep to the grid.           *)
(***************************************************************************)
FreeAligned == \A a \in Areas, k \in Orders : \A x \in free[a][k] : Aligned(x, k)
HeldAligned ==
  \A r \in held, k \in Orders : r.len = BuddySize[k] => Aligned(r.off, k)
HandAligned == op.at = "put" => Aligned(op.off, op.index)

OnGrid == FreeAligned /\ HeldAligned /\ HandAligned

LEMMA EndsAligned ==
  ASSUME NEW k \in Orders
  PROVE  Aligned(0, k) /\ Aligned(BuddySize[k], k)
<1>1. PICK n \in Nat : n = BuddySize[k] /\ n >= 1
  BY SizeFacts
<1>2. 0 % n = 0
  <2>1. 0 = n * 0 + 0 /\ 0 \in 0 .. n - 1
    BY <1>1
  <2> QED
    BY <1>1, <2>1, ModIs
<1>3. n % n = 0
  <2>1. n = n * 1 + 0 /\ 0 \in 0 .. n - 1 /\ 1 \in Nat
    BY <1>1
  <2> QED
    BY <1>1, <2>1, ModIs
<1> QED
  BY <1>1, <1>2, <1>3 DEF Aligned

LEMMA PristineAligned == \A k \in Orders : \A x \in Pristine[k] : Aligned(x, k)
BY EndsAligned, OrderFacts DEF Pristine

LEMMA SizesDiffer ==
  ASSUME NEW j \in Orders, NEW k \in Orders, BuddySize[j] = BuddySize[k]
  PROVE  j = k
<1>1. j < k \/ k < j \/ j = k
  BY OrderFacts
<1>2. BuddySize[j] \in Nat /\ BuddySize[j] >= 1
  BY SizeFacts
<1> QED
  BY <1>1, <1>2, SizesGrow

LEMMA InitGrid == Init => OnGrid
BY PristineAligned DEF Init, OnGrid, FreeAligned, HeldAligned, HandAligned,
     NoBlocks, Idle

LEMMA NewListsGrid ==
  ASSUME TypeOK, OnGrid, NEW a \in Areas, held' \subseteq held,
         op' = op \/ op'.at # "put", NEW list, list = Pristine \/ list = NoBlocks,
         free' = [free EXCEPT ![a] = list]
  PROVE  OnGrid'
<1>1. free'[a] = list /\ \A d \in Areas : d # a => free'[d] = free[d]
  BY DEF TypeOK
<1>2. FreeAligned'
  BY <1>1, PristineAligned DEF OnGrid, FreeAligned, NoBlocks
<1> QED
  BY <1>2 DEF OnGrid, HeldAligned, HandAligned

LEMMA SplitGrid ==
  ASSUME TypeOK, OnGrid, GetSplit
  PROVE  OnGrid'
<1>1. PICK i \in Orders : GetSplit!2!(i)
  BY DEF GetSplit
<1>2. PICK x \in free[op.area][i] :
        free' = [free EXCEPT ![op.area][i] = @ \ {x},
                             ![op.area][i - 1] = @ \cup Halves(x, i)]
  BY <1>1
<1>3. /\ op \in GetOp /\ op.area \in Areas /\ i # 0 /\ op.at # "put"
  BY <1>1, OpFacts, OrderFacts DEF GetSplit, IsFirstNonEmpty, GetOp
<1>4. x \in Nat /\ Aligned(x, i) /\ i - 1 \in Orders
  BY <1>3, FreeFacts, OrderFacts DEF OnGrid, FreeAligned
<1>5. \A d \in Areas, k \in Orders : \A y \in free'[d][k] :
        y \in free[d][k] \/ (k = i - 1 /\ y \in Halves(x, i))
  BY <1>2, <1>3, <1>4 DEF TypeOK
<1>6. FreeAligned'
  BY <1>3, <1>4, <1>5, HalvesFacts DEF OnGrid, FreeAligned
<1> QED
  BY <1>3, <1>6 DEF GetSplit, OnGrid, HeldAligned, HandAligned

LEMMA TakeGrid ==
  ASSUME TypeOK, OnGrid, GetTake
  PROVE  OnGrid'
<1>1. op.area \in Areas /\ op.index \in Orders
  BY OpFacts DEF GetTake, GetOp
<1>2. PICK x \in free[op.area][op.index] :
        /\ free' = [free EXCEPT ![op.area][op.index] = @ \ {x}]
        /\ Grant(op.client, op.area, x, BuddySize[op.index])
  BY DEF GetTake
<1> DEFINE g == [client |-> op.client, area |-> op.area, off |-> x,
                 len |-> BuddySize[op.index]]
<1>3. held' = held \cup {g} /\ g.off = x /\ g.len = BuddySize[op.index]
  BY <1>2 DEF Grant
<1> HIDE DEF g
<1>4. HeldAligned'
  BY <1>1, <1>3, SizesDiffer DEF OnGrid, HeldAligned, FreeAligned
<1>5. FreeAligned'
  BY <1>1, <1>2 DEF TypeOK, OnGrid, FreeAligned
<1> QED
  BY <1>4, <1>5 DEF GetTake, Idle, OnGrid, HandAligned

LEMMA WholeAreaGrid ==
  ASSUME TypeOK, OnGrid, NEW c \in Clients, MallocArea(c)
  PROVE  OnGrid'
<1> DEFINE n == AreaLength(request[c].size)
<1>1. PICK a \in Areas : AreaCreate(a, FALSE, n) /\ Grant(c, a, 0, n)
  BY DEF MallocArea
<1> HIDE DEF n
<1> DEFINE g == [client |-> c, area |-> a, off |-> 0, len |-> n]
<1>2. held' = held \cup {g} /\ g.off = 0
  BY <1>1 DEF Grant
<1> HIDE DEF g
<1>3. HeldAligned'
  BY <1>2, EndsAligned DEF OnGrid, HeldAligned
<1> QED
  BY <1>1, <1>3 DEF AreaCreate, MallocArea, OnGrid, FreeAligned, HandAligned

LEMMA PutGrid ==
  ASSUME TypeOK, OnGrid,
         PutMerge \/ PutInsert \/ \E c \in Clients : FreeBlock(c)
  PROVE  OnGrid'
<1>1. CASE PutMerge
  <2> DEFINE b == BuddyOf(op.off, op.index)
  <2>1. /\ op \in PutOp /\ op.area \in Areas /\ op.index \in Orders
        /\ op.off \in Nat /\ op.index # Top /\ Aligned(op.off, op.index)
    BY <1>1, OpFacts DEF PutMerge, CanMerge, PutOp, OnGrid, HandAligned
  <2>2. Aligned(Merged(op.off, b), op.index + 1)
    BY <2>1, BuddyFacts
  <2>3. op'.off = Merged(op.off, b) /\ op'.index = op.index + 1
    BY <1>1, <2>1 DEF PutMerge, PutOp
  <2>4. free' = [free EXCEPT ![op.area][op.index] = @ \ {b}] /\ held' = held
    BY <1>1 DEF PutMerge
  <2>5. FreeAligned'
    BY <2>1, <2>4 DEF TypeOK, OnGrid, FreeAligned
  <2> QED
    BY <2>2, <2>3, <2>4, <2>5 DEF OnGrid, HeldAligned, HandAligned
<1>2. CASE PutInsert
  <2>1. /\ op \in PutOp /\ op.area \in Areas /\ op.index \in Orders
        /\ Aligned(op.off, op.index)
    BY <1>2, OpFacts DEF PutInsert, PutOp, OnGrid, HandAligned
  <2>2. free' = [free EXCEPT ![op.area][op.index] = @ \cup {op.off}]
        /\ held' = held /\ op' = Idle
    BY <1>2 DEF PutInsert
  <2>3. FreeAligned'
    BY <2>1, <2>2 DEF TypeOK, OnGrid, FreeAligned
  <2> QED
    BY <2>2, <2>3 DEF OnGrid, HeldAligned, HandAligned, Idle
<1>3. ASSUME NEW c \in Clients, FreeBlock(c) PROVE OnGrid'
  <2>1. PICK r \in held, index \in Orders : FreeBlock(c)!(r, index)
    BY <1>3 DEF FreeBlock
  <2> QED
    BY <2>1 DEF Release, poolVars, OnGrid, FreeAligned, HeldAligned, HandAligned
<1> QED
  BY <1>1, <1>2, <1>3

LEMMA NextGrid == TypeOK /\ OnGrid /\ [Next]_vars => OnGrid'
<1> SUFFICES ASSUME TypeOK, OnGrid, [Next]_vars PROVE OnGrid'
  OBVIOUS
<1>1. ASSUME UNCHANGED <<free, held>>, op' = op \/ op'.at # "put"
      PROVE  OnGrid'
  BY <1>1 DEF OnGrid, FreeAligned, HeldAligned, HandAligned
<1>2. ASSUME NEW c \in Clients,
             \/ SendMalloc(c) \/ SendFree(c) \/ ChooseCurArea(c)
             \/ ChooseListedArea(c) \/ NewAreaFails(c) \/ MallocAreaFails(c)
      PROVE  OnGrid'
  BY <1>1, <1>2 DEF SendMalloc, SendFree, ChooseCurArea, ChooseListedArea,
       StartGet, NewAreaFails, MallocAreaFails, Refuse, poolVars
<1>3. ASSUME NEW c \in Clients, ChooseNewArea(c) PROVE OnGrid'
  <2>1. PICK index \in Orders, a \in Areas :
          /\ AreaCreate(a, TRUE, SingleAreaSize) /\ StartGet(c, a, index)
          /\ held' = held
    BY <1>3 DEF ChooseNewArea
  <2>2. free' = [free EXCEPT ![a] = Pristine] /\ op'.at # "put"
    BY <2>1 DEF AreaCreate, StartGet
  <2> QED
    BY <2>1, <2>2, NewListsGrid
<1>4. ASSUME NEW c \in Clients,
             FreeArea(c) \/ FreeAreaDrops(c) \/ FreeMoreArea(c)
      PROVE  OnGrid'
  <2>1. PICK r \in held :
          /\ held' \subseteq held /\ op' = op
          /\ \/ free' = [free EXCEPT ![r.area] = Pristine]
             \/ free' = [free EXCEPT ![r.area] = NoBlocks]
    BY <1>4 DEF FreeArea, FreeAreaDrops, FreeMoreArea, Release, Deregister
  <2>2. r.area \in Areas
    BY HeldFacts
  <2> QED
    BY <2>1, <2>2, NewListsGrid
<1>5. CASE GetSplitFails \/ GetNone
  BY <1>1, <1>5 DEF GetSplitFails, GetNone, Refuse, poolVars, Idle
<1>6. CASE UNCHANGED vars
  BY <1>1, <1>6 DEF vars, poolVars
<1> QED
  BY <1>2, <1>3, <1>4, <1>5, <1>6, SplitGrid, TakeGrid, WholeAreaGrid, PutGrid
     DEF Next, Malloc, Free, Loop

(***************************************************************************)
(* No two buddies stay free.  Between two turns of a get the block that    *)
(* was just split lies in its list as two buddies, which are then alone in *)
(* the first list that is not empty: the next turn takes or splits one.    *)
(***************************************************************************)
FirstBlocks(x, k) == k = 0 /\ x <= BuddySize[0]

JustSplit(a, x, k) ==
  /\ op.at = "get" /\ op.area = a /\ k >= op.index
  /\ \A j \in Orders : j >= op.index /\ j < k => free[a][j] = {}
  /\ free[a][k] = {x, BuddyOf(x, k)}

BuddiesApart ==
  \A a \in areaList, k \in Orders : \A x \in free[a][k] :
    k # Top /\ BuddyOf(x, k) \in free[a][k] =>
      FirstBlocks(x, k) \/ JustSplit(a, x, k)

LEMMA PristineBuddies ==
  ASSUME NEW k \in Orders, k # Top, NEW x \in Pristine[k],
         BuddyOf(x, k) \in Pristine[k]
  PROVE  FirstBlocks(x, k)
<1>1. CASE k = 0
  BY <1>1, SizeFacts DEF Pristine, FirstBlocks
<1>2. CASE k # 0
  <2>1. x = BuddySize[k] /\ BuddyOf(x, k) = BuddySize[k]
    BY <1>2 DEF Pristine
  <2>2. x \in Nat /\ Aligned(x, k)
    BY <2>1, SizeFacts, PristineAligned
  <2> QED
    BY <2>1, <2>2, BuddyFacts
<1> QED
  BY <1>1, <1>2

LEMMA InitBuddies == Init => BuddiesApart
BY PristineBuddies DEF Init, BuddiesApart

LEMMA NewAreaBuddies ==
  ASSUME TypeOK, BuddiesApart, op = Idle, NEW a \in Areas,
         areaList' \subseteq areaList \cup {a},
         a \in areaList' => free'[a] = Pristine,
         \A d \in Areas : d # a => free'[d] = free[d]
  PROVE  BuddiesApart'
BY PristineBuddies
   DEF TypeOK, BuddiesApart, FirstBlocks, JustSplit, Idle

LEMMA SplitBuddies ==
  ASSUME TypeOK, OnGrid, BuddiesApart, GetSplit
  PROVE  BuddiesApart'
<1>1. PICK i \in Orders : GetSplit!2!(i)
  BY DEF GetSplit
<1>2. PICK x \in free[op.area][i] :
        free' = [free EXCEPT ![op.area][i] = @ \ {x},
                             ![op.area][i - 1] = @ \cup Halves(x, i)]
  BY <1>1
<1>3. /\ op \in GetOp /\ op.area \in Areas /\ op.index \in Orders
      /\ i - 1 \in Orders /\ i # 0 /\ i - 1 >= op.index /\ op.at = "get"
      /\ \A j \in Orders : j >= op.index /\ j < i => free[op.area][j] = {}
  <2>1. op \in GetOp
    BY OpFacts DEF GetSplit
  <2>2. op.index \in Orders /\ i >= op.index /\ i # op.index
        /\ \A j \in op.index .. i - 1 : free[op.area][j] = {}
    BY <1>1, <2>1 DEF IsFirstNonEmpty, GetOp
  <2>3. \A j \in Orders : j >= op.index /\ j < i => j \in op.index .. i - 1
    BY <2>2, OrderFacts
  <2> QED
    BY <2>1, <2>2, <2>3, OrderFacts DEF GetSplit, GetOp
<1>4. x \in Nat /\ Aligned(x, i)
  BY <1>2, <1>3, FreeFacts DEF OnGrid, FreeAligned
<1>5. /\ free'[op.area][i] = free[op.area][i] \ {x}
      /\ free'[op.area][i - 1] = Halves(x, i)
      /\ \A k \in Orders : k # i /\ k # i - 1 =>
           free'[op.area][k] = free[op.area][k]
      /\ \A d \in Areas : d # op.area => free'[d] = free[d]
  <2>1. free[op.area][i - 1] = {} /\ i - 1 # i
    BY <1>3, OrderFacts
  <2> QED
    BY <1>2, <1>3, <2>1 DEF TypeOK
<1>6. UNCHANGED <<areaList, op>>
  BY DEF GetSplit
<1> SUFFICES ASSUME NEW a \in areaList, NEW k \in Orders, k # Top,
                    NEW y \in free'[a][k], BuddyOf(y, k) \in free'[a][k]
             PROVE  FirstBlocks(y, k) \/ JustSplit(a, y, k)'
  BY <1>6 DEF BuddiesApart
<1>7. CASE a # op.area
  <2>1. free'[a] = free[a]
    BY <1>5, <1>7 DEF TypeOK
  <2> QED
    BY <1>7, <2>1 DEF BuddiesApart, JustSplit
<1>8. CASE a = op.area /\ k = i - 1
  <2>1. Halves(x, i) = {y, BuddyOf(y, k)}
    BY <1>3, <1>4, <1>5, <1>8, HalvesFacts
  <2>2. \A j \in Orders : j >= op.index /\ j < k => free'[a][j] = {}
    BY <1>3, <1>5, <1>8, OrderFacts
  <2> QED
    BY <1>3, <1>5, <1>6, <1>8, <2>1, <2>2 DEF JustSplit
<1>9. CASE a = op.area /\ k # i - 1
  <2>1. y \in free[a][k] /\ BuddyOf(y, k) \in free[a][k]
    BY <1>5, <1>9
  <2>2. CASE FirstBlocks(y, k)
    BY <2>2
  <2>3. CASE JustSplit(a, y, k)
    <3>1. ~(i < k)
      BY <1>2, <1>3, <1>9, <2>3, OrderFacts DEF JustSplit
    <3>2. ~(k < i)
      BY <1>3, <1>9, <2>1, <2>3 DEF JustSplit
    <3>3. k = i
      BY <3>1, <3>2, OrderFacts
    <3>4. x \in {y, BuddyOf(y, k)}
      BY <1>2, <1>9, <2>3, <3>3 DEF JustSplit
    <3> QED
      BY <1>5, <1>9, <3>3, <3>4
  <2> QED
    BY <2>1, <2>2, <2>3 DEF BuddiesApart
<1> QED
  BY <1>7, <1>8, <1>9

LEMMA TakeBuddies ==
  ASSUME TypeOK, BuddiesApart, GetTake
  PROVE  BuddiesApart'
<1>1. op.area \in Areas /\ op.index \in Orders /\ op.at = "get"
  BY OpFacts DEF GetTake, GetOp
<1>2. PICK x \in free[op.area][op.index] :
        free' = [free EXCEPT ![op.area][op.index] = @ \ {x}]
  BY DEF GetTake
<1>3. /\ free'[op.area][op.index] = free[op.area][op.index] \ {x}
      /\ \A d \in Areas, k \in Orders : free'[d][k] \subseteq free[d][k]
  BY <1>1, <1>2 DEF TypeOK
<1>4. areaList' = areaList
  BY DEF GetTake
<1> SUFFICES ASSUME NEW a \in areaList, NEW k \in Orders, k # Top,
                    NEW y \in free'[a][k], BuddyOf(y, k) \in free'[a][k],
                    ~FirstBlocks(y, k)
             PROVE  FALSE
  BY <1>4 DEF BuddiesApart
<1>5. JustSplit(a, y, k)
  BY <1>3 DEF TypeOK, BuddiesApart
<1>6. a = op.area /\ k >= op.index /\ free[a][k] = {y, BuddyOf(y, k)}
  BY <1>5 DEF JustSplit
<1>7. k = op.index
  BY <1>1, <1>2, <1>5, <1>6, OrderFacts DEF JustSplit
<1> QED
  BY <1>2, <1>3, <1>6, <1>7

LEMMA MergeBuddies ==
  ASSUME TypeOK, BuddiesApart, PutMerge
  PROVE  BuddiesApart'
<1>1. op.area \in Areas /\ op.index \in Orders /\ op.at = "put"
  BY OpFacts DEF PutMerge, PutOp
<1>2. \A d \in Areas, k \in Orders : free'[d][k] \subseteq free[d][k]
  BY <1>1 DEF PutMerge, TypeOK
<1> QED
  BY <1>1, <1>2 DEF PutMerge, TypeOK, BuddiesApart, JustSplit

LEMMA InsertBuddies ==
  ASSUME TypeOK, OnGrid, BuddiesApart, PutInsert
  PROVE  BuddiesApart'
<1> DEFINE b == op.off
<1>1. /\ op \in PutOp /\ op.area \in Areas /\ op.index \in Orders
      /\ op.at = "put" /\ b \in Nat /\ Aligned(b, op.index)
  BY OpFacts DEF PutInsert, PutOp, OnGrid, HandAligned
<1>2. /\ free' = [free EXCEPT ![op.area][op.index] = @ \cup {b}]
      /\ areaList' = areaList
      /\ op.index # Top => BuddyOf(b, op.index) \notin free[op.area][op.index]
  BY DEF PutInsert, CanMerge
<1> HIDE DEF b
<1>3. \A d \in Areas, k \in Orders :
        \/ free'[d][k] = free[d][k]
        \/ d = op.area /\ k = op.index /\ free'[d][k] = free[d][k] \cup {b}
  BY <1>1, <1>2 DEF TypeOK
<1> SUFFICES ASSUME NEW a \in areaList, NEW k \in Orders, k # Top,
                    NEW y \in free'[a][k], BuddyOf(y, k) \in free'[a][k]
             PROVE  FirstBlocks(y, k)
  BY <1>2 DEF BuddiesApart
<1>4. a \in Areas
  BY DEF TypeOK
<1>5. CASE y \in free[a][k] /\ BuddyOf(y, k) \in free[a][k]
  BY <1>1, <1>5 DEF BuddiesApart, JustSplit
<1>6. CASE y \notin free[a][k] \/ BuddyOf(y, k) \notin free[a][k]
  <2>1. a = op.area /\ k = op.index /\ free'[a][k] = free[a][k] \cup {b}
    BY <1>3, <1>4, <1>6
  <2>2. b \in Nat /\ BuddyOf(b, k) # b /\ Aligned(b, k)
    BY <1>1, <2>1, BuddyFacts
  <2>3. CASE y = b
    BY <1>2, <2>1, <2>2, <2>3
  <2>4. CASE y # b
    <3>1. y \in free[a][k] /\ BuddyOf(y, k) = b
      BY <1>6, <2>1, <2>4
    <3>2. y \in Nat /\ Aligned(y, k)
      BY <1>4, <3>1, FreeFacts DEF OnGrid, FreeAligned
    <3>3. BuddyOf(b, k) = y
      BY <3>1, <3>2, BuddyFacts
    <3> QED
      BY <1>2, <2>1, <3>1, <3>3
  <2> QED
    BY <2>3, <2>4
<1> QED
  BY <1>5, <1>6

LEMMA NextBuddies ==
  ASSUME ~HeapMayFail
  PROVE  TypeOK /\ Shape /\ OnGrid /\ BuddiesApart /\ [Next]_vars => BuddiesApart'
<1> SUFFICES ASSUME TypeOK, Shape, OnGrid, BuddiesApart, [Next]_vars
             PROVE  BuddiesApart'
  OBVIOUS
<1>1. ASSUME UNCHANGED <<areaList, free>>, op' = op \/ op = Idle
      PROVE  BuddiesApart'
  BY <1>1 DEF BuddiesApart, JustSplit, Idle
<1>2. ASSUME NEW c \in Clients,
             \/ SendMalloc(c) \/ SendFree(c) \/ ChooseCurArea(c)
             \/ ChooseListedArea(c) \/ NewAreaFails(c) \/ MallocArea(c)
             \/ MallocAreaFails(c) \/ FreeBlock(c)
      PROVE  BuddiesApart'
  BY <1>1, <1>2 DEF SendMalloc, SendFree, ChooseCurArea, ChooseListedArea,
       NewAreaFails, MallocArea, MallocAreaFails, FreeBlock, AreaCreate,
       Wants, WantsFree, poolVars
<1>3. ASSUME NEW c \in Clients, ChooseNewArea(c) PROVE BuddiesApart'
  <2>1. PICK a \in Areas : AreaCreate(a, TRUE, SingleAreaSize)
    BY <1>3 DEF ChooseNewArea
  <2>2. /\ areaList' = areaList \cup {a} /\ free'[a] = Pristine
        /\ \A d \in Areas : d # a => free'[d] = free[d]
    BY <2>1 DEF AreaCreate, TypeOK
  <2> QED
    BY <1>3, <2>2, NewAreaBuddies DEF ChooseNewArea, Wants
<1>4. ASSUME NEW c \in Clients, FreeArea(c) PROVE BuddiesApart'
  <2>1. PICK r \in held : /\ areaList' = areaList \cup {r.area} /\ op = Idle
                          /\ free' = [free EXCEPT ![r.area] = Pristine]
    BY <1>4 DEF FreeArea, WantsFree
  <2> QED
    BY <2>1, HeldFacts, NewAreaBuddies DEF TypeOK
<1>5. ASSUME NEW c \in Clients, FreeAreaDrops(c) \/ FreeMoreArea(c)
      PROVE  BuddiesApart'
  <2>1. PICK r \in held : /\ r.area \in moreAreas /\ areaList' = areaList
                          /\ free' = [free EXCEPT ![r.area] = NoBlocks]
                          /\ op = Idle
    BY <1>5 DEF FreeAreaDrops, FreeMoreArea, WantsFree, IsAreaOfSingleSize,
         Deregister
  <2>2. r.area \notin areaList' /\ r.area \in Areas
    BY <2>1, HeldFacts DEF Shape, AreaShape
  <2> QED
    BY <2>1, <2>2, NewAreaBuddies DEF TypeOK
<1>6. ~GetSplitFails
  BY DEF GetSplitFails
<1>7. CASE GetNone
  <2>1. \A a \in areaList, k \in Orders, x \in Nat : ~JustSplit(a, x, k)
    <3>1. \A k \in Orders : k >= op.index => k \in op.index .. Top
      <4>1. op.index \in Orders
        BY <1>7, OpFacts DEF GetNone, GetOp
      <4> QED
        BY <4>1, OrderFacts
    <3> QED
      BY <1>7, <3>1 DEF GetNone, JustSplit
  <2>2. UNCHANGED <<areaList, free>>
    BY <1>7 DEF GetNone, poolVars
  <2>3. \A a \in areaList : a \in Areas
    BY DEF TypeOK
  <2> QED
    BY <2>1, <2>2, <2>3, FreeFacts DEF BuddiesApart
<1>8. CASE UNCHANGED vars
  BY <1>1, <1>8 DEF vars, poolVars
<1> QED
  BY <1>2, <1>3, <1>4, <1>5, <1>6, <1>7, <1>8, SplitBuddies, TakeBuddies,
     MergeBuddies, InsertBuddies DEF Next, Malloc, Free, Loop

\* Freeing undoes fragmentation: whenever no handler is at work, no two
\* buddies are free side by side, except the two smallest blocks an area
\* begins with, as long as no list node fails to be allocated.
THEOREM PoolCoalesced ==
  ASSUME ~HeapMayFail
  PROVE  Spec => []Coalesced
<1>1. TypeOK /\ Shape /\ OnGrid /\ BuddiesApart /\ [Next]_vars
        => (TypeOK /\ Shape /\ OnGrid /\ BuddiesApart)'
  BY NextType, NextShape, NextGrid, NextBuddies
<1>2. BuddiesApart => Coalesced
  <2>1. \A k \in 0 .. Top - 1 : k \in Orders /\ k # Top
    BY MaxOrderAssumption DEF Orders, Top
  <2> SUFFICES ASSUME BuddiesApart, op = Idle, NEW a \in areaList,
                      NEW k \in 0 .. Top - 1, NEW x \in free[a][k],
                      BuddyOf(x, k) \in free[a][k]
               PROVE  FirstBlocks(x, k)
    BY DEF Coalesced, FirstBlocks
  <2> QED
    BY <2>1 DEF BuddiesApart, JustSplit, Idle
<1> QED
  BY <1>1, <1>2, InitType, InitShape, InitGrid, InitBuddies, PTL DEF Spec
=============================================================================
