--------------------------- MODULE DramCacheProofs ---------------------------
(***************************************************************************)
(* The DRAM copies, for any number of servers, objects and accesses, if    *)
(* the ++ and the -- of poll_num never overlap (DramRace shows what        *)
(* happens when they do): poll_num counts what is not answered, the client *)
(* and the servers agree on which objects have a copy, a server's account  *)
(* is what its copies take, and that is within the quota.                  *)
(*                                                                         *)
(* All of it rests on what the requests of a cycle may name.  A cycle      *)
(* sends each server at most one CLEAR, of objects that have a copy, and   *)
(* one APPLY, of objects that have none, and nothing else can change what  *)
(* they name while the work thread waits.  That it waits long enough is    *)
(* what poll_num is for.                                                   *)
(***************************************************************************)
EXTENDS DramCache, CacheModelTheorems

Kinds == {"clear", "apply"}
Orders == [to : Servers, type : Kinds, objs : Seq(Objects)]
Asks == [type : Kinds, objs : Seq(Objects)]
Answers == [type : {"clear"}, objs : SUBSET Objects]
             \cup [type : {"apply"}, objs : SUBSET Objects, null : SUBSET Objects]

(***************************************************************************)
(* The invariant.                                                          *)
(***************************************************************************)
\* The types, without what needs the accounts to be right.
Types ==
  /\ known \subseteq Objects /\ inDram \subseteq known
  /\ policy \in [Servers -> BOOLEAN]
  /\ threshold \in [Servers -> Nat]
  /\ asked \in [Servers -> SUBSET Objects]
  /\ work \in Ops
  /\ pollNum \in Int /\ workReg \in Int /\ epollReg \in Int
  /\ toServer \in [Servers -> Seq(Asks)]
  /\ toClient \in [Servers -> Seq(Answers)]
  /\ copies \in [Objects -> {0, 1}]
  /\ pollUsed \in [Servers -> Int] /\ connUsed \in [Servers -> Int]

\* The requests sent and not answered.
UnderWay == MapThenSumSet(LAMBDA s : Len(toServer[s]) + Len(toClient[s]), Servers)

\* poll_num and the registers of the two threads.
CounterInv ==
  /\ workReg # None => /\ work.at = "poll" /\ work.todo # <<>>
                       /\ workReg = pollNum /\ epollReg = None
  /\ epollReg # None => work.at = "poll" /\ epollReg = pollNum
  /\ work.at = "poll" =>
       pollNum = UnderWay + (IF epollReg = None THEN 0 ELSE 1)

\* Outside a cycle nothing is under way, and an object that is freed has left
\* the hash table.
QuietInv ==
  /\ work.at # "poll" =>
       \A s \in Servers : toServer[s] = <<>> /\ toClient[s] = <<>>
  /\ work.at = "free" => work.obj \notin known

\* A cycle has one request of a kind for each server.
OneEach(q) == \A j, k \in 1 .. Len(q) : j # k => q[j].type # q[k].type
OneOrder(q) ==
  \A j, k \in 1 .. Len(q) : j # k => q[j].to # q[k].to \/ q[j].type # q[k].type
Apart(q, r) == \A j \in 1 .. Len(q), k \in 1 .. Len(r) : q[j].type # r[k].type
OrdersApart(q, s, r) ==
  \A j \in 1 .. Len(q), k \in 1 .. Len(r) : q[j].to = s => q[j].type # r[k].type

OnceInv ==
  /\ work.at = "poll" => OneOrder(work.todo)
  /\ \A s \in Servers :
       /\ OneEach(toServer[s]) /\ OneEach(toClient[s])
       /\ Apart(toServer[s], toClient[s])
       /\ work.at = "poll" => /\ OrdersApart(work.todo, s, toServer[s])
                              /\ OrdersApart(work.todo, s, toClient[s])

\* What a request names, where c are the copies, d is what the client takes
\* to be cached, and n is what it knows: a CLEAR names copies there are, an
\* APPLY objects that have none.
Due(m, s, c, d, n) ==
  \A k \in 1 .. Len(m.objs) :
    /\ NodeOf[m.objs[k]] = s
    /\ m.type = "clear" => c[m.objs[k]] = 1 /\ m.objs[k] \in d
    /\ m.type = "apply" => c[m.objs[k]] = 0 /\ m.objs[k] \in n \ d

\* What an answer names: the client has not heard of the change yet.
Told(m, s, c, d, n) ==
  /\ \A o \in m.objs :
       /\ NodeOf[o] = s
       /\ m.type = "clear" => c[o] = 0 /\ o \in d
       /\ m.type = "apply" => c[o] = 1 /\ o \in n \ d
  /\ m.type = "apply" => \A o \in m.null : NodeOf[o] = s /\ c[o] = 0 /\ o \notin d

NamesInv ==
  /\ work.at = "poll" => \A k \in 1 .. Len(work.todo) :
       Due(work.todo[k], work.todo[k].to, copies, inDram, known)
  /\ \A s \in Servers :
       /\ \A k \in 1 .. Len(toServer[s]) : Due(toServer[s][k], s, copies, inDram, known)
       /\ \A k \in 1 .. Len(toClient[s]) : Told(toClient[s][k], s, copies, inDram, known)

\* Only a free takes from the account of the other connection.
AccountInv ==
  /\ UsedIsCached /\ WithinQuota
  /\ \A s \in Servers : connUsed[s] <= 0

CacheInv ==
  /\ Types /\ CounterInv /\ QuietInv /\ OnceInv /\ NamesInv
  /\ Agreement /\ AccountInv

(***************************************************************************)
(* Sums.                                                                   *)
(***************************************************************************)
LEMMA ConstantsFacts ==
  /\ IsFiniteSet(Servers) /\ Servers # {}
  /\ IsFiniteSet(Objects) /\ \A s \in Servers : IsFiniteSet(ObjectsOf(s))
  /\ Length \in [Objects -> Nat] /\ NodeOf \in [Objects -> Servers]
<1>1. IsFiniteSet(Servers) /\ 0 \in Servers
  BY ObjectsAssumption, FS_Interval DEF Servers
<1>2. \A s \in Servers : ObjectsOf(s) \in SUBSET Objects
  BY DEF ObjectsOf
<1> QED BY <1>1, <1>2, ObjectsAssumption, FS_Subset

LEMMA SizeIsSum ==
  ASSUME NEW T \in SUBSET Objects
  PROVE  SizeOf(T) = SumOf(Length, T)
<1> DEFINE IsSize(g) ==
             g = [s \in SUBSET T |->
                    IF s = {} THEN 0
                    ELSE Length[CHOOSE x \in s : TRUE]
                           + g[s \ {CHOOSE x \in s : TRUE}]]
           table == CHOOSE g : IsSize(g)
<1>1. SizeOf(T) = table[T]
  BY DEF SizeOf, MapThenSumSet, MapThenFoldSet
<1>2. ASSUME NEW g PROVE IsSize(g) <=> IsTable(g, Length, T)
  BY DEF IsTable, PartialSums, Some
<1> HIDE DEF IsSize
<1>3. IsFiniteSet(T)
  BY ConstantsFacts, FS_Subset
<1>4. \E g : IsSize(g)
  BY <1>2, <1>3, PartialSumsExist
<1>5. IsTable(table, Length, T)
  BY <1>2, <1>4
<1> HIDE DEF table
<1>6. table[T] = SumOf(Length, T)
  <2>1. T \in SUBSET T
    OBVIOUS
  <2> QED BY <1>3, <1>5, <2>1, SumOfIs
<1> QED BY <1>1, <1>6

LEMMA SizeFacts ==
  ASSUME NEW T \in SUBSET Objects
  PROVE  /\ SizeOf(T) \in Nat
         /\ \A o \in T : SizeOf(T) = Length[o] + SizeOf(T \ {o})
<1>1. IsFiniteSet(T) /\ Positive(T, Length) /\ \A o \in T : Length[o] \in Int
  BY ConstantsFacts, FS_Subset DEF Positive
<1>2. SumOf(Length, T) \in Nat
  BY <1>1, SumPositive
<1>3. \A o \in T : SumOf(Length, T) = Length[o] + SumOf(Length, T \ {o})
  BY <1>1, SumAdds
<1>4. \A o \in T : SizeOf(T \ {o}) = SumOf(Length, T \ {o})
  <2> SUFFICES ASSUME NEW o \in T PROVE SizeOf(T \ {o}) = SumOf(Length, T \ {o})
    OBVIOUS
  <2>1. T \ {o} \in SUBSET Objects
    OBVIOUS
  <2> QED BY <2>1, SizeIsSum
<1> QED BY <1>2, <1>3, <1>4, SizeIsSum

LEMMA SizeEmpty == SizeOf({}) = 0
BY SizeIsSum, SumEmpty

LEMMA SizeOne ==
  ASSUME NEW o \in Objects
  PROVE  SizeOf({o}) = Length[o]
<1>1. {o} \in SUBSET Objects /\ o \in {o}
  OBVIOUS
<1>2. SizeOf({o}) = Length[o] + SizeOf({o} \ {o})
  BY <1>1, SizeFacts
<1>3. {o} \ {o} = {}
  OBVIOUS
<1>4. SizeOf({o} \ {o}) = SizeOf({})
  BY <1>3, Zenon
<1>5. Length[o] \in Nat
  BY ConstantsFacts
<1> QED BY <1>2, <1>4, <1>5, SizeEmpty

\* What the copies c of a server take.
BytesOf(c, s) == MapThenSumSet(LAMBDA o : c[o] * Length[o], ObjectsOf(s))
CopyBytes(c) == [o \in Objects |-> c[o] * Length[o]]

LEMMA BytesIsSum ==
  ASSUME NEW c, NEW s \in Servers
  PROVE  BytesOf(c, s) = SumOf(CopyBytes(c), ObjectsOf(s))
<1> DEFINE T == ObjectsOf(s)
           IsBytes(g) ==
             g = [r \in SUBSET T |->
                    IF r = {} THEN 0
                    ELSE c[CHOOSE x \in r : TRUE] * Length[CHOOSE x \in r : TRUE]
                           + g[r \ {CHOOSE x \in r : TRUE}]]
           table == CHOOSE g : IsBytes(g)
<1>1. BytesOf(c, s) = table[T]
  BY DEF BytesOf, MapThenSumSet, MapThenFoldSet
<1>2. ASSUME NEW g PROVE IsBytes(g) <=> IsTable(g, CopyBytes(c), T)
  <2>1. \A r \in SUBSET T : r # {} =>
          CopyBytes(c)[Some(r)] = c[Some(r)] * Length[Some(r)]
    BY SomeIn DEF CopyBytes, ObjectsOf
  <2>2. [r \in SUBSET T |-> IF r = {} THEN 0
                            ELSE c[Some(r)] * Length[Some(r)] + g[r \ {Some(r)}]]
          = [r \in SUBSET T |-> IF r = {} THEN 0
                                ELSE CopyBytes(c)[Some(r)] + g[r \ {Some(r)}]]
    BY <2>1
  <2>3. IsBytes(g) <=> g = [r \in SUBSET T |->
                              IF r = {} THEN 0
                              ELSE c[Some(r)] * Length[Some(r)] + g[r \ {Some(r)}]]
    BY DEF Some
  <2> QED BY <2>2, <2>3 DEF IsTable, PartialSums
<1> HIDE DEF IsBytes
<1>3. IsFiniteSet(T)
  BY ConstantsFacts
<1> HIDE DEF T
<1>4. \E g : IsBytes(g)
  BY <1>2, <1>3, PartialSumsExist
<1>5. IsTable(table, CopyBytes(c), T)
  BY <1>2, <1>4
<1> HIDE DEF table
<1>6. table[T] = SumOf(CopyBytes(c), T)
  <2>1. T \in SUBSET T
    OBVIOUS
  <2> QED BY <1>3, <1>5, <2>1, SumOfIs
<1> QED BY <1>1, <1>6 DEF T

\* Where the copies do not differ, nor do the bytes; and copies of the
\* objects of T take the size of T.
AgreeOn(S, c, d) == \A o \in S : c[o] = d[o]
MoreBy(T, c, d) == \A o \in T : c[o] = 0 /\ d[o] = 1

LEMMA BytesType ==
  ASSUME NEW c \in [Objects -> {0, 1}], NEW s \in Servers
  PROVE  BytesOf(c, s) \in Nat
<1> DEFINE S == ObjectsOf(s)
<1>1. IsFiniteSet(S) /\ S \in SUBSET Objects
  BY ConstantsFacts DEF ObjectsOf
<1> HIDE DEF S
<1>2. Positive(S, CopyBytes(c))
  <2> SUFFICES ASSUME NEW o \in S PROVE CopyBytes(c)[o] \in Nat
    BY DEF Positive
  <2>1. o \in Objects /\ Length[o] \in Nat
    BY <1>1, ConstantsFacts
  <2>2. c[o] = 0 \/ c[o] = 1
    BY <2>1
  <2>3. CopyBytes(c)[o] = c[o] * Length[o]
    BY <2>1 DEF CopyBytes
  <2> QED BY <2>1, <2>2, <2>3
<1>3. SumOf(CopyBytes(c), S) \in Nat
  BY <1>1, <1>2, SumPositive
<1> QED BY <1>3, BytesIsSum DEF S

LEMMA BytesSame ==
  ASSUME NEW c, NEW d, NEW s \in Servers, AgreeOn(ObjectsOf(s), c, d)
  PROVE  BytesOf(d, s) = BytesOf(c, s)
<1>1. \A o \in ObjectsOf(s) : CopyBytes(c)[o] = CopyBytes(d)[o]
  BY DEF AgreeOn, CopyBytes, ObjectsOf
<1>2. SumOf(CopyBytes(c), ObjectsOf(s)) = SumOf(CopyBytes(d), ObjectsOf(s))
  BY <1>1, ConstantsFacts, SumSame
<1> QED BY <1>2, BytesIsSum

LEMMA BytesMore ==
  ASSUME NEW c \in [Objects -> {0, 1}], NEW d \in [Objects -> {0, 1}],
         NEW s \in Servers, NEW T \in SUBSET ObjectsOf(s),
         MoreBy(T, c, d), AgreeOn(ObjectsOf(s) \ T, c, d)
  PROVE  BytesOf(d, s) = BytesOf(c, s) + SizeOf(T)
<1> DEFINE S == ObjectsOf(s)
           u == [o \in Objects |-> IF o \in T THEN Length[o] ELSE 0]
<1>1. IsFiniteSet(S) /\ S \in SUBSET Objects /\ T \in SUBSET S
      /\ T \in SUBSET Objects /\ IsFiniteSet(T)
  BY ConstantsFacts, FS_Subset DEF ObjectsOf
<1> HIDE DEF S
<1>2. Adds(S, CopyBytes(d), CopyBytes(c), u)
  <2> SUFFICES ASSUME NEW o \in S
               PROVE  /\ CopyBytes(c)[o] \in Int /\ u[o] \in Int
                      /\ CopyBytes(d)[o] = CopyBytes(c)[o] + u[o]
    BY DEF Adds
  <2>1. o \in Objects /\ Length[o] \in Nat
    BY <1>1, ConstantsFacts
  <2>2. CopyBytes(c)[o] = c[o] * Length[o] /\ CopyBytes(d)[o] = d[o] * Length[o]
    BY <2>1 DEF CopyBytes
  <2>3. u[o] = IF o \in T THEN Length[o] ELSE 0
    BY <2>1
  <2> HIDE DEF u
  <2>4. c[o] = 0 \/ c[o] = 1
    BY <2>1
  <2>5. CASE o \in T
    <3>1. c[o] = 0 /\ d[o] = 1
      BY <2>5 DEF MoreBy
    <3> QED BY <2>1, <2>2, <2>3, <2>5, <3>1
  <2>6. CASE o \notin T
    <3>1. c[o] = d[o]
      BY <2>6 DEF AgreeOn, S
    <3> QED BY <2>1, <2>2, <2>3, <2>4, <2>6, <3>1
  <2> QED BY <2>5, <2>6
<1>3. ZeroOff(S, T, u)
  BY <1>1, ConstantsFacts DEF ZeroOff
<1>4. \A o \in T : u[o] = Length[o]
  BY <1>1
<1> HIDE DEF u
<1>5. SumOf(CopyBytes(d), S) = SumOf(CopyBytes(c), S) + SumOf(u, S)
  BY <1>1, <1>2, SumPlus
<1>6. SumOf(u, S) = SumOf(u, T)
  BY <1>1, <1>3, SumRest
<1>7. SumOf(u, T) = SumOf(Length, T)
  BY <1>1, <1>4, SumSame
<1>8. SumOf(Length, T) = SizeOf(T)
  BY <1>1, SizeIsSum
<1> QED BY <1>5, <1>6, <1>7, <1>8, BytesIsSum DEF S

LEMMA SizeAddsOne ==
  ASSUME NEW T \in SUBSET Objects, NEW o \in Objects
  PROVE  SizeOf(T \cup {o}) <= SizeOf(T) + Length[o]
<1>1. SizeOf(T) \in Nat /\ Length[o] \in Nat
  BY SizeFacts, ConstantsFacts
<1>2. CASE o \in T
  <2>1. T \cup {o} = T
    BY <1>2
  <2>2. SizeOf(T \cup {o}) = SizeOf(T)
    BY <2>1, Zenon
  <2> QED BY <1>1, <2>2
<1>3. CASE o \notin T
  <2>1. T \cup {o} \in SUBSET Objects /\ o \in T \cup {o}
    OBVIOUS
  <2>2. SizeOf(T \cup {o}) = Length[o] + SizeOf((T \cup {o}) \ {o})
    BY <2>1, SizeFacts
  <2>3. (T \cup {o}) \ {o} = T
    BY <1>3
  <2>4. SizeOf((T \cup {o}) \ {o}) = SizeOf(T)
    BY <2>3, Zenon
  <2> QED BY <1>1, <2>2, <2>4
<1> QED BY <1>2, <1>3

\* The messages in the queues a and b of all servers.
Waiting(a, b) == MapThenSumSet(LAMBDA s : Len(a[s]) + Len(b[s]), Servers)
Queued(a, b) == [s \in Servers |-> Len(a[s]) + Len(b[s])]

LEMMA WaitingIsSum ==
  ASSUME NEW a, NEW b
  PROVE  Waiting(a, b) = SumOf(Queued(a, b), Servers)
<1> DEFINE IsCount(g) ==
             g = [r \in SUBSET Servers |->
                    IF r = {} THEN 0
                    ELSE (Len(a[CHOOSE x \in r : TRUE]) + Len(b[CHOOSE x \in r : TRUE]))
                           + g[r \ {CHOOSE x \in r : TRUE}]]
           table == CHOOSE g : IsCount(g)
<1>1. Waiting(a, b) = table[Servers]
  BY DEF Waiting, MapThenSumSet, MapThenFoldSet
<1>2. ASSUME NEW g PROVE IsCount(g) <=> IsTable(g, Queued(a, b), Servers)
  <2>1. \A r \in SUBSET Servers : r # {} =>
          Queued(a, b)[Some(r)] = Len(a[Some(r)]) + Len(b[Some(r)])
    BY SomeIn DEF Queued
  <2>2. [r \in SUBSET Servers |->
           IF r = {} THEN 0
           ELSE (Len(a[Some(r)]) + Len(b[Some(r)])) + g[r \ {Some(r)}]]
          = [r \in SUBSET Servers |-> IF r = {} THEN 0
                                ELSE Queued(a, b)[Some(r)] + g[r \ {Some(r)}]]
    BY <2>1
  <2>3. IsCount(g) <=> g = [r \in SUBSET Servers |->
           IF r = {} THEN 0
           ELSE (Len(a[Some(r)]) + Len(b[Some(r)])) + g[r \ {Some(r)}]]
    BY DEF Some
  <2> QED BY <2>2, <2>3 DEF IsTable, PartialSums
<1> HIDE DEF IsCount
<1>3. IsFiniteSet(Servers)
  BY ConstantsFacts
<1>4. \E g : IsCount(g)
  BY <1>2, <1>3, PartialSumsExist
<1>5. IsTable(table, Queued(a, b), Servers)
  BY <1>2, <1>4
<1> HIDE DEF table
<1>6. table[Servers] = SumOf(Queued(a, b), Servers)
  <2>1. Servers \in SUBSET Servers
    OBVIOUS
  <2> QED BY <1>3, <1>5, <2>1, SumOfIs
<1> QED BY <1>1, <1>6

LEMMA WaitingFacts ==
  ASSUME NEW A, NEW B, NEW a \in [Servers -> Seq(A)], NEW b \in [Servers -> Seq(B)]
  PROVE  /\ Waiting(a, b) \in Nat
         /\ \A s \in Servers : Len(a[s]) + Len(b[s]) <= Waiting(a, b)
         /\ (\A s \in Servers : a[s] = <<>> /\ b[s] = <<>>) => Waiting(a, b) = 0
<1> DEFINE w == Queued(a, b)
<1>1. \A s \in Servers : w[s] = Len(a[s]) + Len(b[s]) /\ Len(a[s]) \in Nat /\ Len(b[s]) \in Nat
  BY LenProperties DEF Queued
<1> HIDE DEF w
<1>2. IsFiniteSet(Servers) /\ Positive(Servers, w)
  BY <1>1, ConstantsFacts DEF Positive
<1>3. SumOf(w, Servers) \in Nat /\ \A s \in Servers : w[s] <= SumOf(w, Servers)
  BY <1>2, SumPositive
<1>4. ASSUME \A s \in Servers : a[s] = <<>> /\ b[s] = <<>>
      PROVE  SumOf(w, Servers) = 0
  <2>1. {} \in SUBSET Servers /\ ZeroOff(Servers, {}, w)
    BY <1>1, <1>4 DEF ZeroOff
  <2>2. SumOf(w, Servers) = SumOf(w, {})
    BY <1>2, <2>1, SumRest
  <2> QED BY <2>2, SumEmpty
<1>5. Waiting(a, b) = SumOf(w, Servers)
  BY WaitingIsSum DEF w
<1> QED BY <1>1, <1>3, <1>4, <1>5

\* A queue of one server gets longer or shorter.
Elsewhere(a, b, s) == Waiting(a, b) - (Len(a[s]) + Len(b[s]))
SameButAt(s, a, b, c, d) == \A t \in Servers \ {s} : c[t] = a[t] /\ d[t] = b[t]

LEMMA WaitingMoves ==
  ASSUME NEW a \in [Servers -> Seq(Asks)], NEW b \in [Servers -> Seq(Answers)],
         NEW c \in [Servers -> Seq(Asks)], NEW d \in [Servers -> Seq(Answers)],
         NEW s \in Servers, SameButAt(s, a, b, c, d)
  PROVE  Elsewhere(c, d, s) = Elsewhere(a, b, s)
<1> DEFINE w == Queued(a, b)
           v == Queued(c, d)
           R == Servers \ {s}
<1>1. /\ \A t \in Servers : w[t] = Len(a[t]) + Len(b[t]) /\ w[t] \in Int
      /\ \A t \in Servers : v[t] = Len(c[t]) + Len(d[t]) /\ v[t] \in Int
  BY LenProperties DEF Queued
<1> HIDE DEF w, v
<1>2. \A t \in R : w[t] = v[t] /\ w[t] \in Int
  BY <1>1 DEF SameButAt
<1>3. IsFiniteSet(Servers) /\ IsFiniteSet(R)
  BY ConstantsFacts, FS_Subset
<1>4. SumOf(w, Servers) = w[s] + SumOf(w, R)
  BY <1>1, <1>3, SumAdds
<1>5. SumOf(v, Servers) = v[s] + SumOf(v, R)
  BY <1>1, <1>3, SumAdds
<1> HIDE DEF R
<1>6. SumOf(w, R) = SumOf(v, R)
  BY <1>2, <1>3, SumSame
<1>7. SumOf(w, R) \in Int
  BY <1>2, <1>3, SumAdds
<1>8. Waiting(a, b) = SumOf(w, Servers) /\ Waiting(c, d) = SumOf(v, Servers)
  BY WaitingIsSum DEF w, v
<1>9. w[s] = Len(a[s]) + Len(b[s]) /\ v[s] = Len(c[s]) + Len(d[s])
      /\ w[s] \in Int /\ v[s] \in Int
  BY <1>1
<1>10. Waiting(c, d) - v[s] = Waiting(a, b) - w[s]
  BY <1>4, <1>5, <1>6, <1>7, <1>8, <1>9
<1> QED BY <1>9, <1>10 DEF Elsewhere

(***************************************************************************)
(* What a cycle asks for.                                                  *)
(***************************************************************************)
ColdObjects(s) == inDram \cap known \cap ObjectsOf(s)
HotObjects(s) == (known \ inDram) \cap ObjectsOf(s)

LEMMA OrdersOfSet ==
  ASSUME NEW S \in SUBSET Objects, NEW q \in SetToSeqs(S)
  PROVE  q \in Seq(S)
<1>1. Cardinality(S) \in Nat
  BY ConstantsFacts, FS_Subset, FS_CardinalityType
<1>2. q \in [1 .. Cardinality(S) -> S]
  BY DEF SetToSeqs
<1> QED BY <1>1, <1>2, SeqDef

LEMMA MapSeq ==
  ASSUME NEW S, NEW q \in Seq(S), NEW T, NEW f, DOMAIN f = DOMAIN q,
         f = [k \in DOMAIN q |-> f[k]], \A k \in 1 .. Len(q) : f[k] \in T
  PROVE  f \in Seq(T) /\ Len(f) = Len(q)
<1>1. Len(q) \in Nat /\ DOMAIN q = 1 .. Len(q)
  BY LenProperties
<1>2. f \in [1 .. Len(q) -> T]
  BY <1>1
<1> QED BY <1>1, <1>2, SeqDef, LenProperties

LEMMA PlanFacts ==
  ASSUME known \in SUBSET Objects, threshold \in [Servers -> Nat],
         NEW rw \in [known -> 0 .. MaxRw], NEW s \in Servers,
         NEW p \in Plans(s, rw)
  PROVE  p.cold \in Seq(ColdObjects(s)) /\ p.hot \in Seq(HotObjects(s))
<1>1. CASE NextPolicy(s)
  <2>1. PICK q \in ScanOrders(PoolHot(s, rw)) : p = [cold |-> <<>>, hot |-> q]
    BY <1>1 DEF Plans
  <2>2. PoolHot(s, rw) \in SUBSET Objects /\ PoolHot(s, rw) \subseteq HotObjects(s)
    BY DEF PoolHot, HotObjects
  <2>3. q \in Seq(PoolHot(s, rw))
    BY <2>2, OrdersOfSet DEF ScanOrders
  <2>4. q \in Seq(HotObjects(s))
    BY <2>2, <2>3, SeqMonotonic
  <2> QED BY <2>1, <2>4, EmptySeq
<1>2. CASE ~ NextPolicy(s)
  <2> DEFINE C == Candidates(s, rw)
             E == {Entry(o, rw) : o \in C}
             least == NextThreshold(s)
  <2>1. PICK es \in SortedOrders(C, rw) :
          p = [cold |-> [k \in DOMAIN HandleCacheModel(es, least).cold |->
                            HandleCacheModel(es, least).cold[k].obj],
               hot |-> [k \in DOMAIN HandleCacheModel(es, least).hot |->
                            HandleCacheModel(es, least).hot[k].obj]]
    BY <1>2 DEF Plans
  <2>2. C \in SUBSET Objects /\ C \subseteq known /\ C \subseteq ObjectsOf(s)
    BY DEF Candidates
  <2> HIDE DEF C
  <2>3. least \in Int
    BY BoundsAssumption DEF NextThreshold
  <2> HIDE DEF least
  <2>4. PICK q \in SetToSeqs(C) : es = [k \in DOMAIN q |-> Entry(q[k], rw)]
    BY <2>1 DEF SortedOrders
  <2>5. Sorted(es)
    BY <2>1 DEF SortedOrders
  <2>6. es \in Seq(E)
    <3>1. q \in Seq(C)
      BY <2>2, OrdersOfSet
    <3>2. DOMAIN q = 1 .. Len(q) /\ \A k \in 1 .. Len(q) : q[k] \in C
      BY <3>1, LenProperties, ElementOfSeq
    <3>3. DOMAIN es = DOMAIN q /\ es = [k \in DOMAIN q |-> es[k]]
          /\ \A k \in 1 .. Len(q) : es[k] \in E
      BY <2>4, <3>2
    <3> QED BY <3>1, <3>3, MapSeq
  <2>7. Counted(E)
    <3>1. \A o \in C : Entry(o, rw).rw \in Int
      BY <2>2, BoundsAssumption DEF Entry
    <3> QED BY <3>1 DEF Counted
  <2>8. \A x \in E : /\ x.obj \in C
                     /\ x.inDram => x.obj \in inDram
                     /\ ~ x.inDram => x.obj \notin inDram
    <3> SUFFICES ASSUME NEW o \in C
                 PROVE  /\ Entry(o, rw).obj \in C
                        /\ Entry(o, rw).inDram => Entry(o, rw).obj \in inDram
                        /\ ~ Entry(o, rw).inDram => Entry(o, rw).obj \notin inDram
      OBVIOUS
    <3>1. Entry(o, rw).obj = o /\ Entry(o, rw).inDram = (o \in inDram)
      BY DEF Entry
    <3> HIDE DEF E
    <3> QED BY <3>1
  <2> HIDE DEF E
  <2> DEFINE c == ColdAt(es)
             h == HotAt(es, least)
             f == HandleCacheModel(es, least).cold
             g == HandleCacheModel(es, least).hot
  <2>9. Positions(es, c, h) /\ Paired(es, c, h)
    BY <2>3, <2>5, <2>6, <2>7, PickFacts
  <2>10. f = EntriesAt(es, c) /\ g = EntriesAt(es, h)
    BY HandleIs
  <2> HIDE DEF c, h, f, g
  <2>11. c \in Seq(1 .. Len(es)) /\ h \in Seq(1 .. Len(es))
    BY <2>9 DEF Positions
  <2>12. /\ f \in Seq(E) /\ DOMAIN f = 1 .. Len(c) /\ Len(f) = Len(c)
         /\ \A k \in 1 .. Len(c) : f[k] = es[c[k]]
    BY <2>6, <2>10, <2>11, EntriesAtIs
  <2>13. /\ g \in Seq(E) /\ DOMAIN g = 1 .. Len(h) /\ Len(g) = Len(h)
         /\ \A k \in 1 .. Len(h) : g[k] = es[h[k]]
    BY <2>6, <2>10, <2>11, EntriesAtIs
  <2>14. \A k \in 1 .. Len(f) : f[k] \in E /\ f[k].inDram
    BY <2>9, <2>12, ElementOfSeq DEF Paired
  <2>15. \A k \in 1 .. Len(g) : g[k] \in E /\ ~ g[k].inDram
    BY <2>9, <2>13, ElementOfSeq DEF Paired
  <2>16. \A k \in 1 .. Len(f) : f[k].obj \in ColdObjects(s)
    BY <2>2, <2>8, <2>14 DEF ColdObjects
  <2>17. \A k \in 1 .. Len(g) : g[k].obj \in HotObjects(s)
    BY <2>2, <2>8, <2>15 DEF HotObjects
  <2>18. p.cold = [k \in DOMAIN f |-> f[k].obj] /\ p.hot = [k \in DOMAIN g |-> g[k].obj]
    BY <2>1 DEF f, g
  <2>19. p.cold \in Seq(ColdObjects(s))
    <3>1. /\ DOMAIN p.cold = DOMAIN f /\ p.cold = [k \in DOMAIN f |-> p.cold[k]]
          /\ \A k \in 1 .. Len(f) : p.cold[k] \in ColdObjects(s)
      BY <2>12, <2>16, <2>18
    <3> QED BY <2>12, <3>1, MapSeq
  <2>20. p.hot \in Seq(HotObjects(s))
    <3>1. /\ DOMAIN p.hot = DOMAIN g /\ p.hot = [k \in DOMAIN g |-> p.hot[k]]
          /\ \A k \in 1 .. Len(g) : p.hot[k] \in HotObjects(s)
      BY <2>13, <2>17, <2>18
    <3> QED BY <2>13, <3>1, MapSeq
  <2> QED BY <2>19, <2>20
<1> QED BY <1>1, <1>2

(***************************************************************************)
(* The requests of a cycle: for every server at most one of a kind.        *)
(***************************************************************************)
OrdersUpTo(plans, n) ==
  {m \in Orders : /\ m.to < n
                  /\ m.type = "clear" => m.objs = plans[m.to].cold
                  /\ m.type = "apply" => m.objs = plans[m.to].hot}

Differ(q, r) ==
  \A j \in 1 .. Len(q), k \in 1 .. Len(r) :
    q[j].to # r[k].to \/ q[j].type # r[k].type

LEMMA JoinOrders ==
  ASSUME NEW S, NEW q \in Seq(S), NEW r \in Seq(S), OneOrder(q), OneOrder(r),
         Differ(q, r)
  PROVE  q \o r \in Seq(S) /\ OneOrder(q \o r)
<1> DEFINE t == q \o r
<1>1. Len(q) \in Nat /\ Len(r) \in Nat
  BY LenProperties
<1>2. /\ t \in Seq(S) /\ Len(t) = Len(q) + Len(r)
      /\ \A k \in 1 .. Len(q) + Len(r) :
           t[k] = IF k <= Len(q) THEN q[k] ELSE r[k - Len(q)]
  BY ConcatProperties
<1> HIDE DEF t
<1>3. \A k \in 1 .. Len(t) :
        \/ k \in 1 .. Len(q) /\ t[k] = q[k]
        \/ k \notin 1 .. Len(q) /\ k - Len(q) \in 1 .. Len(r) /\ t[k] = r[k - Len(q)]
  <2> SUFFICES ASSUME NEW k \in 1 .. Len(t)
               PROVE  \/ k \in 1 .. Len(q) /\ t[k] = q[k]
                      \/ /\ k \notin 1 .. Len(q) /\ k - Len(q) \in 1 .. Len(r)
                         /\ t[k] = r[k - Len(q)]
    OBVIOUS
  <2>1. t[k] = IF k <= Len(q) THEN q[k] ELSE r[k - Len(q)]
    BY <1>2
  <2>2. k <= Len(q) => k \in 1 .. Len(q)
    BY <1>1, <1>2
  <2>3. ~(k <= Len(q)) => k \notin 1 .. Len(q) /\ k - Len(q) \in 1 .. Len(r)
    BY <1>1, <1>2
  <2> QED BY <2>1, <2>2, <2>3
<1>4. ASSUME NEW j \in 1 .. Len(t), NEW k \in 1 .. Len(t), j # k
      PROVE  t[j].to # t[k].to \/ t[j].type # t[k].type
  <2>1. CASE j \in 1 .. Len(q) /\ k \in 1 .. Len(q)
    BY <1>3, <1>4, <2>1 DEF OneOrder
  <2>2. CASE j \in 1 .. Len(q) /\ k \notin 1 .. Len(q)
    BY <1>3, <2>2 DEF Differ
  <2>3. CASE j \notin 1 .. Len(q) /\ k \in 1 .. Len(q)
    BY <1>3, <2>3 DEF Differ
  <2>4. CASE j \notin 1 .. Len(q) /\ k \notin 1 .. Len(q)
    <3>1. /\ j - Len(q) \in 1 .. Len(r) /\ t[j] = r[j - Len(q)]
          /\ k - Len(q) \in 1 .. Len(r) /\ t[k] = r[k - Len(q)]
      BY <1>3, <2>4
    <3>2. j - Len(q) # k - Len(q)
      BY <1>1, <1>4
    <3> QED BY <3>1, <3>2 DEF OneOrder
  <2> QED BY <2>1, <2>2, <2>3, <2>4
<1>5. OneOrder(t)
  BY <1>4 DEF OneOrder
<1> QED BY <1>2, <1>5 DEF t

\* The requests for one server.
PlansTyped(plans) ==
  \A s \in Servers : plans[s].cold \in Seq(Objects) /\ plans[s].hot \in Seq(Objects)
OrdersFor(plans, s) == Clear(s, plans[s]) \o Apply(s, plans[s])

LEMMA OrdersForOne ==
  ASSUME NEW plans, PlansTyped(plans), NEW s \in Servers
  PROVE  /\ OrdersFor(plans, s) \in Seq({m \in OrdersUpTo(plans, s + 1) : m.to = s})
         /\ OneOrder(OrdersFor(plans, s))
<1> DEFINE M == {m \in OrdersUpTo(plans, s + 1) : m.to = s}
           q == Clear(s, plans[s])
           r == Apply(s, plans[s])
           a == [to |-> s, type |-> "clear", objs |-> plans[s].cold]
           b == [to |-> s, type |-> "apply", objs |-> plans[s].hot]
<1>1. a \in M /\ b \in M
  <2>1. s < s + 1
    BY DEF Servers
  <2>2. a \in Orders /\ b \in Orders
    BY DEF Orders, Kinds, PlansTyped
  <2> QED BY <2>1, <2>2 DEF OrdersUpTo
<1>2. a.type = "clear" /\ b.type = "apply"
  OBVIOUS
<1>3. q = <<>> \/ q = <<a>>
  BY DEF Clear
<1>4. r = <<>> \/ r = <<b>>
  BY DEF Apply
<1> HIDE DEF M, q, r, a, b
<1>5. /\ <<a>> \in Seq(M) /\ <<b>> \in Seq(M) /\ <<>> \in Seq(M)
      /\ Len(<<a>>) = 1 /\ Len(<<b>>) = 1 /\ Len(<<>>) = 0
  <2>1. ASSUME NEW m \in M PROVE <<m>> \in Seq(M) /\ Len(<<m>>) = 1
    OBVIOUS
  <2> QED BY <1>1, <2>1, EmptySeq
<1>6. /\ q \in Seq(M) /\ (Len(q) = 0 \/ Len(q) = 1)
      /\ r \in Seq(M) /\ (Len(r) = 0 \/ Len(r) = 1)
  BY <1>3, <1>4, <1>5
<1>7. /\ \A k \in 1 .. Len(q) : q[k].type = "clear"
      /\ \A k \in 1 .. Len(r) : r[k].type = "apply"
  BY <1>2, <1>3, <1>4
<1>8. OneOrder(q) /\ OneOrder(r)
  BY <1>6 DEF OneOrder
<1>9. Differ(q, r)
  BY <1>7 DEF Differ
<1>10. q \o r \in Seq(M) /\ OneOrder(q \o r)
  BY <1>6, <1>8, <1>9, JoinOrders
<1> QED BY <1>10 DEF OrdersFor, M, q, r

\* FlattenSeq, as the recursive function of its definition.
Joined(i, qs, rest) == IF i = 1 THEN qs[i] ELSE rest \o qs[i]
Flats(f, qs, n) == f = [i \in 1 .. n |-> Joined(i, qs, f[i - 1])]

LEMMA FlatsExist == \A qs, n : n \in Nat => \E f : Flats(f, qs, n)
<1> SUFFICES ASSUME NEW qs PROVE \A n \in Nat : \E f : Flats(f, qs, n)
  OBVIOUS
<1> DEFINE Good == {n \in Nat : \E f : Flats(f, qs, n)}
<1>1. 0 \in Good
  <2> DEFINE f == [i \in 1 .. 0 |-> <<>>]
  <2>1. f = [i \in 1 .. 0 |-> Joined(i, qs, f[i - 1])]
    OBVIOUS
  <2>2. Flats(f, qs, 0)
    BY <2>1 DEF Flats
  <2> HIDE DEF f
  <2> QED BY <2>2
<1>2. ASSUME NEW n \in Nat, n \in Good PROVE n + 1 \in Good
  <2>1. PICK f : Flats(f, qs, n)
    BY <1>2
  <2> DEFINE g == [i \in 1 .. n + 1 |-> Joined(i, qs, f[i - 1])]
  <2>2. \A i \in 1 .. n : g[i] = f[i]
    BY <2>1 DEF Flats
  <2>3. \A i \in 1 .. n + 1 : i # 1 => i - 1 \in 1 .. n
    OBVIOUS
  <2>4. \A i \in 1 .. n + 1 : Joined(i, qs, f[i - 1]) = Joined(i, qs, g[i - 1])
    BY <2>2, <2>3 DEF Joined
  <2>5. g = [i \in 1 .. n + 1 |-> Joined(i, qs, g[i - 1])]
    BY <2>4
  <2>6. Flats(g, qs, n + 1)
    BY <2>5 DEF Flats
  <2> HIDE DEF g
  <2> QED BY <2>6
<1> HIDE DEF Good
<1>3. \A n \in Nat : n \in Good
  BY <1>1, <1>2, CountUp
<1> QED BY <1>3 DEF Good

LEMMA RequestsFacts ==
  ASSUME NEW plans, PlansTyped(plans)
  PROVE  /\ Requests(plans) \in Seq(OrdersUpTo(plans, NodeNum))
         /\ OneOrder(Requests(plans))
<1> DEFINE qs == [k \in 1 .. NodeNum |->
                    Clear(k - 1, plans[k - 1]) \o Apply(k - 1, plans[k - 1])]
           f == CHOOSE g : Flats(g, qs, NodeNum)
           Up(i) == OrdersUpTo(plans, i)
           Good == {i \in Nat : i \in 1 .. NodeNum => f[i] \in Seq(Up(i)) /\ OneOrder(f[i])}
<1>1. NodeNum \in Nat /\ NodeNum # 0
  BY ObjectsAssumption
<1>2. \A k \in 1 .. NodeNum : k - 1 \in Servers
  BY <1>1 DEF Servers
<1>3. \A k \in 1 .. NodeNum :
        qs[k] \in Seq({m \in Up(k) : m.to = k - 1}) /\ OneOrder(qs[k])
  <2> SUFFICES ASSUME NEW k \in 1 .. NodeNum
               PROVE  qs[k] \in Seq({m \in Up(k) : m.to = k - 1}) /\ OneOrder(qs[k])
    OBVIOUS
  <2>1. qs[k] = OrdersFor(plans, k - 1) /\ (k - 1) + 1 = k
    BY <1>1 DEF OrdersFor
  <2> QED BY <1>2, <2>1, OrdersForOne
<1>4. \A k \in 1 .. NodeNum : qs[k] \in Seq(Up(k))
  <2> SUFFICES ASSUME NEW k \in 1 .. NodeNum PROVE qs[k] \in Seq(Up(k))
    OBVIOUS
  <2>1. {m \in Up(k) : m.to = k - 1} \subseteq Up(k)
    OBVIOUS
  <2> QED BY <1>3, <2>1, SeqMonotonic
<1>5. Len(qs) = NodeNum
  <2> DEFINE A == UNION {Seq(Up(k)) : k \in 1 .. NodeNum}
  <2>1. qs \in [1 .. NodeNum -> A]
    BY <1>4
  <2>2. qs \in Seq(A)
    BY <1>1, <2>1, SeqDef
  <2> QED BY <1>1, <2>1, <2>2, LenProperties
<1>6. Requests(plans) = f[NodeNum]
  <2>1. Requests(plans) = FlattenSeq(qs)
    BY DEF Requests
  <2> HIDE DEF qs
  <2>2. FlattenSeq(qs) = (CHOOSE g : Flats(g, qs, NodeNum))[NodeNum]
    BY <1>1, <1>5 DEF FlattenSeq, Flats, Joined
  <2> QED BY <2>1, <2>2
<1> HIDE DEF qs
<1>7. Flats(f, qs, NodeNum)
  BY <1>1, FlatsExist
<1> HIDE DEF f
<1>8. \A i \in 1 .. NodeNum : f[i] = Joined(i, qs, f[i - 1])
  BY <1>7 DEF Flats
<1>9. 0 \in Good
  OBVIOUS
<1>10. ASSUME NEW n \in Nat, n \in Good PROVE n + 1 \in Good
  <2> SUFFICES ASSUME n + 1 \in 1 .. NodeNum
               PROVE  f[n + 1] \in Seq(Up(n + 1)) /\ OneOrder(f[n + 1])
    OBVIOUS
  <2>1. CASE n = 0
    <3>1. 1 \in 1 .. NodeNum /\ n + 1 = 1
      BY <1>1, <2>1
    <3>2. f[1] = qs[1]
      BY <1>8, <3>1 DEF Joined
    <3>3. qs[1] \in Seq(Up(1)) /\ OneOrder(qs[1])
      BY <1>3, <1>4, <3>1
    <3> HIDE DEF Up
    <3> QED BY <3>1, <3>2, <3>3
  <2>2. CASE n # 0
    <3>1. n \in 1 .. NodeNum /\ f[n + 1] = f[n] \o qs[n + 1]
      <4>1. n \in 1 .. NodeNum /\ n + 1 # 1 /\ (n + 1) - 1 = n
        BY <1>1, <2>2
      <4>2. f[n + 1] = Joined(n + 1, qs, f[(n + 1) - 1])
        BY <1>8
      <4> QED BY <4>1, <4>2 DEF Joined
    <3>2. f[n] \in Seq(Up(n)) /\ OneOrder(f[n])
      BY <1>10, <3>1
    <3>3. Up(n) \subseteq Up(n + 1)
      BY DEF OrdersUpTo, Orders, Servers
    <3>4. f[n] \in Seq(Up(n + 1)) /\ qs[n + 1] \in Seq(Up(n + 1)) /\ OneOrder(qs[n + 1])
      BY <1>3, <1>4, <3>2, <3>3, SeqMonotonic
    <3>5. Differ(f[n], qs[n + 1])
      <4>1. \A k \in 1 .. Len(f[n]) : f[n][k].to < n /\ f[n][k].to \in Int
        BY <3>2, ElementOfSeq DEF OrdersUpTo, Orders, Servers
      <4>2. \A k \in 1 .. Len(qs[n + 1]) : qs[n + 1][k].to = n
        <5>1. qs[n + 1] \in Seq({m \in Up(n + 1) : m.to = (n + 1) - 1})
          BY <1>3
        <5>2. \A k \in 1 .. Len(qs[n + 1]) : qs[n + 1][k].to = (n + 1) - 1
          BY <5>1, ElementOfSeq
        <5> QED BY <5>2
      <4> QED BY <4>1, <4>2 DEF Differ
    <3> HIDE DEF Up
    <3> QED BY <3>1, <3>2, <3>4, <3>5, JoinOrders
  <2> QED BY <2>1, <2>2
<1> HIDE DEF Good
<1>11. NodeNum \in Good
  BY <1>1, <1>9, <1>10, CountUp
<1> QED BY <1>1, <1>6, <1>11 DEF Good

(***************************************************************************)
(* Queues.                                                                 *)
(***************************************************************************)
\* r is q without its head; r is q with x at its end.
Shorter(q, r) ==
  /\ 1 \in 1 .. Len(q) /\ Len(r) = Len(q) - 1
  /\ \A k \in 1 .. Len(r) : k + 1 \in 1 .. Len(q) /\ r[k] = q[k + 1] /\ k + 1 # 1
Longer(q, r, x) ==
  /\ Len(r) = Len(q) + 1
  /\ \A k \in 1 .. Len(r) : r[k] = x \/ (k \in 1 .. Len(q) /\ r[k] = q[k])
  /\ \A j, k \in 1 .. Len(r) : j # k => j \in 1 .. Len(q) \/ k \in 1 .. Len(q)
  /\ \A k \in 1 .. Len(r) : k \notin 1 .. Len(q) => r[k] = x
  /\ \A k \in 1 .. Len(q) : k \in 1 .. Len(r) /\ r[k] = q[k]

LEMMA TailShorter ==
  ASSUME NEW S, NEW q \in Seq(S), q # <<>>
  PROVE  /\ Tail(q) \in Seq(S) /\ Head(q) \in S /\ Head(q) = q[1]
         /\ Shorter(q, Tail(q))
<1> DEFINE r == Tail(q)
<1>1. /\ r \in Seq(S) /\ Head(q) \in S /\ Len(r) = Len(q) - 1
      /\ \A i \in 1 .. Len(r) : r[i] = q[i + 1]
  BY HeadTailProperties
<1>2. Head(q) = q[1] /\ Len(q) \in Nat /\ Len(q) # 0
  BY LenProperties, EmptySeq
<1> HIDE DEF r
<1>3. 1 \in 1 .. Len(q)
  BY <1>2
<1>4. \A k \in 1 .. Len(r) : k + 1 \in 1 .. Len(q) /\ k + 1 # 1
  BY <1>1, <1>2
<1> QED BY <1>1, <1>2, <1>3, <1>4 DEF Shorter, r

LEMMA AppendLonger ==
  ASSUME NEW S, NEW q \in Seq(S), NEW x \in S
  PROVE  Append(q, x) \in Seq(S) /\ Longer(q, Append(q, x), x)
<1> DEFINE r == Append(q, x)
<1>1. /\ r \in Seq(S) /\ Len(r) = Len(q) + 1
      /\ \A i \in 1 .. Len(q) : r[i] = q[i]
      /\ r[Len(q) + 1] = x
  BY AppendProperties
<1>2. Len(q) \in Nat
  BY LenProperties
<1> HIDE DEF r
<1>3. \A k \in 1 .. Len(r) : k = Len(q) + 1 \/ k \in 1 .. Len(q)
  BY <1>1, <1>2
<1>4. \A k \in 1 .. Len(q) : k \in 1 .. Len(r)
  BY <1>1, <1>2
<1> QED BY <1>1, <1>3, <1>4 DEF Longer, r

\* The work thread takes a request from its list and sends it.
LEMMA OnceSent ==
  ASSUME NEW w, NEW v, NEW q, NEW p, NEW r, NEW x, Shorter(w, v), Longer(q, p, x),
         x.type = w[1].type,
         OneOrder(w), OneEach(q), OrdersApart(w, w[1].to, q),
         OrdersApart(w, w[1].to, r), Apart(q, r)
  PROVE  /\ OneEach(p) /\ Apart(p, r)
         /\ OrdersApart(v, w[1].to, p)
<1>1. \A k \in 1 .. Len(q) : q[k].type # x.type
  BY DEF OrdersApart, Shorter
<1>2. \A k \in 1 .. Len(r) : r[k].type # x.type
  BY DEF OrdersApart, Shorter
<1>3. OneEach(p)
  <2> SUFFICES ASSUME NEW j \in 1 .. Len(p), NEW k \in 1 .. Len(p), j # k
               PROVE  p[j].type # p[k].type
    BY DEF OneEach
  <2>1. CASE j \in 1 .. Len(q) /\ k \in 1 .. Len(q)
    BY <2>1 DEF OneEach, Longer
  <2>2. CASE j \notin 1 .. Len(q)
    <3>1. p[j] = x /\ k \in 1 .. Len(q) /\ p[k] = q[k]
      BY <2>2 DEF Longer
    <3> QED BY <1>1, <3>1
  <2>3. CASE k \notin 1 .. Len(q)
    <3>1. p[k] = x /\ j \in 1 .. Len(q) /\ p[j] = q[j]
      BY <2>3 DEF Longer
    <3> QED BY <1>1, <3>1
  <2> QED BY <2>1, <2>2, <2>3
<1>4. Apart(p, r)
  <2> SUFFICES ASSUME NEW j \in 1 .. Len(p), NEW k \in 1 .. Len(r)
               PROVE  p[j].type # r[k].type
    BY DEF Apart
  <2>1. p[j] = x \/ (j \in 1 .. Len(q) /\ p[j] = q[j])
    BY DEF Longer
  <2> QED BY <1>2, <2>1 DEF Apart
<1>5. OrdersApart(v, w[1].to, p)
  <2> SUFFICES ASSUME NEW j \in 1 .. Len(v), NEW k \in 1 .. Len(p), v[j].to = w[1].to
               PROVE  v[j].type # p[k].type
    BY DEF OrdersApart
  <2>1. /\ j + 1 \in 1 .. Len(w) /\ v[j] = w[j + 1] /\ j + 1 # 1
        /\ 1 \in 1 .. Len(w)
    BY DEF Shorter
  <2>2. p[k] = x \/ (k \in 1 .. Len(q) /\ p[k] = q[k])
    BY DEF Longer
  <2>3. v[j].type # x.type
    BY <2>1 DEF OneOrder
  <2> QED BY <2>1, <2>2, <2>3 DEF OrdersApart
<1> QED BY <1>3, <1>4, <1>5

LEMMA OnceListed ==
  ASSUME NEW w, NEW v, Shorter(w, v), OneOrder(w)
  PROVE  /\ OneOrder(v)
         /\ \A s, q : OrdersApart(w, s, q) => OrdersApart(v, s, q)
<1>1. \A j, k \in 1 .. Len(v) : j # k => j + 1 # k + 1
  OBVIOUS
<1>2. \A k \in 1 .. Len(v) : k + 1 \in 1 .. Len(w) /\ v[k] = w[k + 1]
  BY DEF Shorter
<1>3. ASSUME NEW j \in 1 .. Len(v), NEW k \in 1 .. Len(v), j # k
      PROVE  v[j].to # v[k].to \/ v[j].type # v[k].type
  <2>1. w[j + 1].to # w[k + 1].to \/ w[j + 1].type # w[k + 1].type
    BY <1>1, <1>2, <1>3 DEF OneOrder
  <2> QED BY <1>2, <2>1
<1>4. ASSUME NEW s, NEW q, OrdersApart(w, s, q)
      PROVE  OrdersApart(v, s, q)
  BY <1>2, <1>4 DEF OrdersApart
<1> QED BY <1>3, <1>4 DEF OneOrder

\* The server takes a request and answers it.
LEMMA OnceAnswered ==
  ASSUME NEW q, NEW p, NEW r, NEW u, NEW x, Shorter(q, p), Longer(r, u, x),
         x.type = q[1].type, OneEach(q), OneEach(r), Apart(q, r)
  PROVE  /\ OneEach(p) /\ OneEach(u) /\ Apart(p, u)
         /\ \A w, s : OrdersApart(w, s, q) /\ OrdersApart(w, s, r) =>
              OrdersApart(w, s, p) /\ OrdersApart(w, s, u)
<1>1. \A k \in 1 .. Len(r) : r[k].type # x.type
  BY DEF Apart, Shorter
<1>2. \A j, k \in 1 .. Len(p) : j # k => j + 1 # k + 1
  OBVIOUS
<1>3. OneEach(p)
  BY <1>2 DEF OneEach, Shorter
<1>4. OneEach(u)
  <2> SUFFICES ASSUME NEW j \in 1 .. Len(u), NEW k \in 1 .. Len(u), j # k
               PROVE  u[j].type # u[k].type
    BY DEF OneEach
  <2>1. CASE j \in 1 .. Len(r) /\ k \in 1 .. Len(r)
    BY <2>1 DEF OneEach, Longer
  <2>2. CASE j \notin 1 .. Len(r)
    <3>1. u[j] = x /\ k \in 1 .. Len(r) /\ u[k] = r[k]
      BY <2>2 DEF Longer
    <3> QED BY <1>1, <3>1
  <2>3. CASE k \notin 1 .. Len(r)
    <3>1. u[k] = x /\ j \in 1 .. Len(r) /\ u[j] = r[j]
      BY <2>3 DEF Longer
    <3> QED BY <1>1, <3>1
  <2> QED BY <2>1, <2>2, <2>3
<1>5. \A j \in 1 .. Len(p) : p[j].type # x.type
  BY DEF OneEach, Shorter
<1>6. Apart(p, u)
  <2> SUFFICES ASSUME NEW j \in 1 .. Len(p), NEW k \in 1 .. Len(u)
               PROVE  p[j].type # u[k].type
    BY DEF Apart
  <2>1. u[k] = x \/ (k \in 1 .. Len(r) /\ u[k] = r[k])
    BY DEF Longer
  <2>2. j + 1 \in 1 .. Len(q) /\ p[j] = q[j + 1]
    BY DEF Shorter
  <2> QED BY <1>5, <2>1, <2>2 DEF Apart
<1>7. ASSUME NEW w, NEW s, OrdersApart(w, s, q), OrdersApart(w, s, r)
      PROVE  OrdersApart(w, s, p) /\ OrdersApart(w, s, u)
  <2>1. OrdersApart(w, s, p)
    BY <1>7 DEF OrdersApart, Shorter
  <2>2. ASSUME NEW j \in 1 .. Len(w), NEW k \in 1 .. Len(u), w[j].to = s
        PROVE  w[j].type # u[k].type
    <3>1. u[k] = x \/ (k \in 1 .. Len(r) /\ u[k] = r[k])
      BY DEF Longer
    <3>2. w[j].type # x.type
      BY <1>7, <2>2 DEF OrdersApart, Shorter
    <3> QED BY <1>7, <2>2, <3>1, <3>2 DEF OrdersApart
  <2> QED BY <2>1, <2>2 DEF OrdersApart
<1> QED BY <1>3, <1>4, <1>6, <1>7

\* The client takes an answer.
LEMMA OnceHandled ==
  ASSUME NEW q, NEW r, NEW u, Shorter(r, u), OneEach(r), Apart(q, r)
  PROVE  /\ OneEach(u) /\ Apart(q, u)
         /\ \A w, s : OrdersApart(w, s, r) => OrdersApart(w, s, u)
<1>1. \A j, k \in 1 .. Len(u) : j # k => j + 1 # k + 1
  OBVIOUS
<1>2. OneEach(u)
  BY <1>1 DEF OneEach, Shorter
<1> QED BY <1>2 DEF Apart, OrdersApart, Shorter

(***************************************************************************)
(* Agreement, by queue positions.                                          *)
(***************************************************************************)
Ans(q, o, t) == \E k \in 1 .. Len(q) : q[k].type = t /\ o \in q[k].objs

Agrees(c, d, q, w) ==
  \A o \in Objects :
    c[o] = 1 <=> \/ o \in d /\ ~ Ans(q[NodeOf[o]], o, "clear")
                 \/ Ans(q[NodeOf[o]], o, "apply")
                 \/ w.at = "free" /\ w.obj = o /\ c[o] = 1

Named(q, o, t) == \E m \in ToSet(q) : m.type = t /\ o \in m.objs

LEMMA AnsIs ==
  ASSUME NEW S, NEW q \in Seq(S), NEW o, NEW t
  PROVE  Named(q, o, t) <=> Ans(q, o, t)
<1>1. DOMAIN q = 1 .. Len(q)
  BY LenProperties
<1> QED BY <1>1 DEF ToSet, Ans, Named

Expected(c, d, q, w, o) ==
  IF \/ o \in d /\ ~ Named(q[NodeOf[o]], o, "clear")
     \/ Named(q[NodeOf[o]], o, "apply")
     \/ (w.at = "free" /\ w.obj = o) /\ c[o] > 0
  THEN 1 ELSE 0

LEMMA AgreesIs ==
  ASSUME NEW c \in [Objects -> {0, 1}], NEW d, NEW S, NEW q \in [Servers -> Seq(S)],
         NEW w
  PROVE  (\A o \in Objects : c[o] = Expected(c, d, q, w, o)) <=> Agrees(c, d, q, w)
<1>1. ASSUME NEW o \in Objects
      PROVE  c[o] = Expected(c, d, q, w, o)
               <=> (c[o] = 1 <=> \/ o \in d /\ ~ Ans(q[NodeOf[o]], o, "clear")
                                 \/ Ans(q[NodeOf[o]], o, "apply")
                                 \/ w.at = "free" /\ w.obj = o /\ c[o] = 1)
  <2>1. q[NodeOf[o]] \in Seq(S)
    BY ConstantsFacts
  <2>2. /\ Named(q[NodeOf[o]], o, "clear") <=> Ans(q[NodeOf[o]], o, "clear")
        /\ Named(q[NodeOf[o]], o, "apply") <=> Ans(q[NodeOf[o]], o, "apply")
    BY <2>1, AnsIs
  <2>3. c[o] = 0 \/ c[o] = 1
    OBVIOUS
  <2>4. c[o] > 0 <=> c[o] = 1
    BY <2>3
  <2> QED BY <2>2, <2>3, <2>4 DEF Expected
<1> QED BY <1>1 DEF Agrees

LEMMA AgreementNow ==
  ASSUME Types
  PROVE  Agreement <=> Agrees(copies, inDram, toClient, work)
<1>1. copies \in [Objects -> {0, 1}] /\ toClient \in [Servers -> Seq(Answers)]
  BY DEF Types
<1>2. Agreement <=> \A o \in Objects :
                      copies[o] = Expected(copies, inDram, toClient, work, o)
  BY DEF Agreement, Answered, Freeing, Expected, Named
<1> QED BY <1>1, <1>2, AgreesIs

LEMMA AgreementNext ==
  ASSUME Types'
  PROVE  Agreement' <=> Agrees(copies', inDram', toClient', work')
<1>1. copies' \in [Objects -> {0, 1}] /\ toClient' \in [Servers -> Seq(Answers)]
  BY DEF Types
<1>2. Agreement' <=> \A o \in Objects :
                       copies'[o] = Expected(copies', inDram', toClient', work', o)
  BY DEF Agreement, Answered, Freeing, Expected, Named
<1> QED BY <1>1, <1>2, AgreesIs

(***************************************************************************)
(* The steps.  First those between two cycles.                             *)
(***************************************************************************)
PollOps == [at : {"poll"}, touched : BOOLEAN, todo : Seq(Orders)]
FreeOps == [at : {"free"}, obj : Objects]

LEMMA OpsAre == Ops = {Idle} \cup FreeOps \cup PollOps
BY DEF Ops, FreeOps, PollOps, Orders, Kinds

LEMMA WorkFacts ==
  ASSUME NEW w \in Ops
  PROVE  /\ w.at = "poll" => w \in PollOps /\ w.todo \in Seq(Orders)
         /\ w.at = "free" => w \in FreeOps /\ w.obj \in Objects
         /\ w.at # "poll" /\ w.at # "free" => w = Idle
         /\ Idle.at = "idle" /\ Idle \in Ops
BY OpsAre DEF Idle, FreeOps, PollOps

LEMMA CalmFacts ==
  ASSUME CacheInv, work.at # "poll"
  PROVE  /\ workReg = None /\ epollReg = None
         /\ \A s \in Servers : toServer[s] = <<>> /\ toClient[s] = <<>>
         /\ \A o \in Objects :
              copies[o] = 1 <=> \/ o \in inDram
                                \/ work.at = "free" /\ work.obj = o /\ copies[o] = 1
<1>1. workReg = None /\ epollReg = None
  BY DEF CacheInv, CounterInv
<1>2. \A s \in Servers : toServer[s] = <<>> /\ toClient[s] = <<>>
  BY DEF CacheInv, QuietInv
<1>3. Agrees(copies, inDram, toClient, work)
  BY AgreementNow DEF CacheInv
<1>4. \A o \in Objects, t \in Kinds : ~ Ans(toClient[NodeOf[o]], o, t)
  <2> SUFFICES ASSUME NEW o \in Objects, NEW t \in Kinds
               PROVE  ~ Ans(toClient[NodeOf[o]], o, t)
    OBVIOUS
  <2>1. toClient[NodeOf[o]] = <<>>
    BY <1>2, ConstantsFacts
  <2>2. 1 .. Len(<<>>) = {}
    BY EmptySeq
  <2>3. ~ Ans(<<>>, o, t)
    BY <2>2 DEF Ans
  <2> QED BY <2>1, <2>3
<1> QED BY <1>1, <1>2, <1>3, <1>4 DEF Agrees, Kinds

\* The same, for the other direction.
LEMMA CalmAgrees ==
  ASSUME NEW c, NEW d, NEW q, NEW w, \A s \in Servers : q[s] = <<>>,
         \A o \in Objects :
           c[o] = 1 <=> o \in d \/ (w.at = "free" /\ w.obj = o /\ c[o] = 1)
  PROVE  Agrees(c, d, q, w)
<1>1. \A o \in Objects, t \in Kinds : ~ Ans(q[NodeOf[o]], o, t)
  <2> SUFFICES ASSUME NEW o \in Objects, NEW t \in Kinds
               PROVE  ~ Ans(q[NodeOf[o]], o, t)
    OBVIOUS
  <2>1. q[NodeOf[o]] = <<>>
    BY ConstantsFacts
  <2>2. 1 .. Len(<<>>) = {}
    BY EmptySeq
  <2>3. ~ Ans(<<>>, o, t)
    BY <2>2 DEF Ans
  <2> QED BY <2>1, <2>3
<1> QED BY <1>1 DEF Agrees, Kinds

LEMMA CalmNext ==
  ASSUME CacheInv, work.at # "poll", work'.at # "poll", UNCHANGED <<counter, channels>>,
         work'.at = "free" => work'.obj \notin known'
  PROVE  CounterInv' /\ QuietInv' /\ OnceInv' /\ NamesInv'
<1>1. /\ workReg' = None /\ epollReg' = None
      /\ \A s \in Servers : toServer'[s] = <<>> /\ toClient'[s] = <<>>
  BY CalmFacts DEF counter, channels
<1>2. 1 .. Len(<<>>) = {}
  BY EmptySeq
<1>3. CounterInv' /\ QuietInv'
  BY <1>1 DEF CounterInv, QuietInv
<1>4. OnceInv'
  BY <1>1, <1>2 DEF OnceInv, OneEach, Apart
<1>5. NamesInv'
  BY <1>1, <1>2 DEF NamesInv
<1> QED BY <1>3, <1>4, <1>5

LEMMA AccountKept ==
  ASSUME AccountInv, UNCHANGED server
  PROVE  AccountInv'
<1>1. UNCHANGED <<copies, pollUsed, connUsed>>
  BY DEF server
<1>2. ASSUME NEW s \in Servers
      PROVE  DramUsed(s)' = DramUsed(s) /\ CachedBytes(s)' = CachedBytes(s)
  BY <1>1 DEF DramUsed, CachedBytes, MapThenSumSet, MapThenFoldSet
<1>3. UsedIsCached'
  BY <1>2 DEF AccountInv, UsedIsCached
<1>4. WithinQuota'
  BY <1>2 DEF AccountInv, WithinQuota
<1> QED BY <1>1, <1>3, <1>4 DEF AccountInv

LEMMA MallocKeeps ==
  ASSUME CacheInv, NEW o \in Objects, Malloc(o)
  PROVE  CacheInv'
<1>1. /\ work = Idle /\ known' = known \cup {o}
      /\ UNCHANGED <<inDram, policy, threshold, asked, work, pollNum, workReg, epollReg,
                     toServer, toClient, copies, pollUsed, connUsed>>
  BY DEF Malloc, counter, channels, server
<1>2. Types'
  BY <1>1 DEF CacheInv, Types
<1>3. /\ work.at # "poll" /\ work'.at # "poll" /\ work'.at # "free"
      /\ UNCHANGED <<counter, channels, server>>
  BY <1>1 DEF Idle, counter, channels, server
<1>4. CounterInv' /\ QuietInv' /\ OnceInv' /\ NamesInv' /\ AccountInv'
  BY <1>3, CalmNext, AccountKept DEF CacheInv
<1>5. Agreement'
  BY <1>1, <1>2, AgreementNow, AgreementNext DEF CacheInv
<1> QED BY <1>2, <1>4, <1>5 DEF CacheInv

LEMMA FreeKeeps ==
  ASSUME CacheInv, NEW o \in Objects, Free(o)
  PROVE  CacheInv'
<1>1. /\ work = Idle /\ known' = known \ {o} /\ inDram' = inDram \ {o}
      /\ work' = [at |-> "free", obj |-> o]
      /\ UNCHANGED <<policy, threshold, asked, pollNum, workReg, epollReg,
                     toServer, toClient, copies, pollUsed, connUsed>>
  BY DEF Free, counter, channels, server
<1>2. Types'
  <2>1. work' \in Ops
    BY <1>1, OpsAre DEF FreeOps
  <2> QED BY <1>1, <2>1 DEF CacheInv, Types
<1>3. /\ work.at # "poll" /\ work'.at # "poll" /\ work'.obj \notin known'
      /\ UNCHANGED <<counter, channels, server>>
  BY <1>1 DEF Idle, counter, channels, server
<1>4. CounterInv' /\ QuietInv' /\ OnceInv' /\ NamesInv' /\ AccountInv'
  BY <1>3, CalmNext, AccountKept DEF CacheInv
<1>5. Agreement'
  <2>1. /\ \A s \in Servers : toClient'[s] = <<>>
        /\ \A p \in Objects : copies[p] = 1 <=> p \in inDram
    BY <1>1, <1>3, CalmFacts DEF Idle
  <2>2. \A p \in Objects :
          copies'[p] = 1 <=> \/ p \in inDram'
                             \/ work'.at = "free" /\ work'.obj = p /\ copies'[p] = 1
    BY <1>1, <2>1
  <2> QED BY <1>2, <2>1, <2>2, CalmAgrees, AgreementNext
<1> QED BY <1>2, <1>4, <1>5 DEF CacheInv

LEMMA QuotaFacts == Max(Quotas) \in Nat /\ \A q \in Quotas : q <= Max(Quotas)
<1>1. PICK most \in Quotas : \A q \in Quotas : q <= most
  BY BoundsAssumption
<1>2. most \in Nat /\ Quotas \in SUBSET (0 .. most) /\ Quotas # {}
  BY <1>1, BoundsAssumption
<1>3. Max(Quotas) \in Quotas /\ \A q \in Quotas : q <= Max(Quotas)
  BY <1>2, MaxIs, Zenon
<1> QED BY <1>3, BoundsAssumption

\* The account after copies of the objects of T have come or gone.
LEMMA AccountMoves ==
  ASSUME AccountInv, Types, NEW T, NEW s \in Servers, T \in SUBSET ObjectsOf(s),
         copies' \in [Objects -> {0, 1}],
         AgreeOn(Objects \ T, copies, copies')
  PROVE  /\ CachedBytes(s) \in Nat /\ CachedBytes(s)' \in Nat /\ SizeOf(T) \in Nat
         /\ MoreBy(T, copies, copies') => CachedBytes(s)' = CachedBytes(s) + SizeOf(T)
         /\ MoreBy(T, copies', copies) => CachedBytes(s)' = CachedBytes(s) - SizeOf(T)
         /\ \A t \in Servers \ {s} : CachedBytes(t)' = CachedBytes(t)
<1>1. ASSUME NEW t
      PROVE  /\ CachedBytes(t) = BytesOf(copies, t)
             /\ CachedBytes(t)' = BytesOf(copies', t)
  BY DEF CachedBytes, BytesOf, MapThenSumSet, MapThenFoldSet
<1>2. copies \in [Objects -> {0, 1}]
  BY DEF Types
<1>3. BytesOf(copies, s) \in Nat /\ BytesOf(copies', s) \in Nat
  BY <1>2, BytesType
<1>4. T \in SUBSET Objects /\ SizeOf(T) \in Nat
  <2>1. T \in SUBSET Objects
    BY DEF ObjectsOf
  <2> QED BY <2>1, SizeFacts
<1>5. AgreeOn(ObjectsOf(s) \ T, copies, copies') /\ AgreeOn(ObjectsOf(s) \ T, copies', copies)
  BY DEF AgreeOn, ObjectsOf
<1>6. MoreBy(T, copies, copies') => BytesOf(copies', s) = BytesOf(copies, s) + SizeOf(T)
  BY <1>2, <1>5, BytesMore
<1>7. MoreBy(T, copies', copies) => BytesOf(copies', s) = BytesOf(copies, s) - SizeOf(T)
  <2>1. MoreBy(T, copies', copies) => BytesOf(copies, s) = BytesOf(copies', s) + SizeOf(T)
    BY <1>2, <1>5, BytesMore
  <2> QED BY <1>3, <1>4, <2>1
<1>8. ASSUME NEW t \in Servers \ {s} PROVE CachedBytes(t)' = CachedBytes(t)
  <2>1. AgreeOn(ObjectsOf(t), copies, copies')
    BY DEF AgreeOn, ObjectsOf
  <2> QED BY <1>1, <2>1, BytesSame
<1> QED BY <1>1, <1>3, <1>4, <1>6, <1>7, <1>8

LEMMA ServerFreeKeeps ==
  ASSUME CacheInv, ServerFree
  PROVE  CacheInv'
<1>0. PICK o \in Objects : work.obj = o /\ work.at = "free"
  BY WorkFacts DEF ServerFree, CacheInv, Types
<1> DEFINE s == NodeOf[o]
<1>1. s \in Servers /\ work.at = "free" /\ work.obj = o
  BY <1>0, ConstantsFacts
<1>2. /\ copies' = [copies EXCEPT ![o] = IF @ > 0 THEN @ - 1 ELSE @]
      /\ connUsed' = [connUsed EXCEPT ![s] = @ - FreedBytes(o)]
      /\ work' = Idle
      /\ UNCHANGED <<known, inDram, policy, threshold, asked, pollNum, workReg, epollReg,
                     toServer, toClient, pollUsed>>
  BY <1>0 DEF ServerFree, counter, channels
<1> HIDE DEF s
<1> PICK T \in SUBSET Objects : T = IF copies[o] > 0 THEN {o} ELSE {}
  OBVIOUS
<1>3. /\ copies \in [Objects -> {0, 1}] /\ (copies[o] = 0 \/ copies[o] = 1)
      /\ copies' \in [Objects -> {0, 1}] /\ copies'[o] = 0
      /\ \A p \in Objects : p # o => copies'[p] = copies[p]
  BY <1>1, <1>2 DEF CacheInv, Types
<1>4. FreedBytes(o) = SizeOf(T) /\ T \in SUBSET ObjectsOf(s) /\ SizeOf(T) \in Nat
      /\ connUsed' \in [Servers -> Int]
  <2>1. T \in SUBSET ObjectsOf(s) /\ T \in SUBSET Objects
    BY <1>1 DEF ObjectsOf, s
  <2>2. SizeOf(T) \in Nat
    BY <2>1, SizeFacts
  <2>3. FreedBytes(o) = SizeOf(T)
    <3>1. CASE copies[o] = 1
      BY <1>1, <3>1, SizeOne DEF FreedBytes
    <3>2. CASE copies[o] = 0
      BY <3>2, SizeEmpty DEF FreedBytes
    <3> QED BY <1>3, <3>1, <3>2
  <2>4. connUsed \in [Servers -> Int]
    BY DEF CacheInv, Types
  <2>5. connUsed' \in [Servers -> Int]
    BY <1>1, <1>2, <2>2, <2>3, <2>4
  <2> QED BY <2>1, <2>2, <2>3, <2>5
<1>5. Types'
  BY <1>2, <1>3, <1>4, WorkFacts DEF CacheInv, Types
<1>6. /\ work.at # "poll" /\ work'.at # "poll" /\ work'.at # "free"
      /\ UNCHANGED <<counter, channels>>
  BY <1>1, <1>2 DEF Idle, counter, channels
<1>7. CounterInv' /\ QuietInv' /\ OnceInv' /\ NamesInv'
  BY <1>6, CalmNext
<1>8. o \notin inDram
  BY <1>1 DEF CacheInv, QuietInv, Types
<1>9. Agreement'
  <2>1. /\ \A t \in Servers : toClient'[t] = <<>>
        /\ \A p \in Objects : p # o => (copies[p] = 1 <=> p \in inDram)
    BY <1>1, <1>2, <1>6, CalmFacts
  <2>2. \A p \in Objects :
          copies'[p] = 1 <=> \/ p \in inDram'
                             \/ work'.at = "free" /\ work'.obj = p /\ copies'[p] = 1
    BY <1>2, <1>3, <1>6, <1>8, <2>1
  <2> QED BY <1>5, <2>1, <2>2, CalmAgrees, AgreementNext
<1>10. AccountInv'
  <2>1. AccountInv /\ Types
    BY DEF CacheInv
  <2>2. AgreeOn(Objects \ T, copies, copies') /\ MoreBy(T, copies', copies)
    BY <1>3 DEF AgreeOn, MoreBy
  <2>3. s \in Servers
    BY <1>1
  <2>4. /\ CachedBytes(s) \in Nat /\ CachedBytes(s)' = CachedBytes(s) - SizeOf(T)
        /\ \A t \in Servers \ {s} : CachedBytes(t)' = CachedBytes(t)
    BY <1>3, <1>4, <2>1, <2>2, <2>3, AccountMoves
  <2>5. /\ pollUsed' = pollUsed /\ pollUsed[s] \in Int /\ connUsed[s] \in Int
        /\ connUsed'[s] = connUsed[s] - SizeOf(T)
        /\ \A t \in Servers \ {s} : connUsed'[t] = connUsed[t]
    BY <1>2, <1>4, <2>1, <2>3 DEF Types
  <2>6. ASSUME NEW t \in Servers
        PROVE  /\ pollUsed'[t] + connUsed'[t] = CachedBytes(t)'
               /\ CachedBytes(t)' <= Max(Quotas) /\ connUsed'[t] <= 0
    <3>1. /\ pollUsed[t] + connUsed[t] = CachedBytes(t)
          /\ CachedBytes(t) <= Max(Quotas) /\ connUsed[t] <= 0
      BY <2>1 DEF AccountInv, UsedIsCached, WithinQuota, DramUsed
    <3>2. CASE t = s
      BY <1>4, <2>4, <2>5, <3>1, <3>2, QuotaFacts
    <3>3. CASE t # s
      BY <2>4, <2>5, <3>1, <3>3
    <3> QED BY <3>2, <3>3
  <2> QED BY <2>6 DEF AccountInv, UsedIsCached, WithinQuota, DramUsed
<1> QED BY <1>5, <1>7, <1>9, <1>10 DEF CacheInv

(***************************************************************************)
(* The work thread in a cycle.                                             *)
(***************************************************************************)
LEMMA UnderWayFacts ==
  ASSUME Types
  PROVE  /\ UnderWay \in Nat /\ UnderWay = Waiting(toServer, toClient)
         /\ \A s \in Servers : Len(toServer[s]) + Len(toClient[s]) <= UnderWay
         /\ (\A s \in Servers : toServer[s] = <<>> /\ toClient[s] = <<>>) => UnderWay = 0
<1>1. toServer \in [Servers -> Seq(Asks)] /\ toClient \in [Servers -> Seq(Answers)]
  BY DEF Types
<1>2. UnderWay = Waiting(toServer, toClient)
  BY DEF UnderWay, Waiting
<1> QED BY <1>1, <1>2, WaitingFacts

Moves(a, b, c, d, s) ==
  /\ Len(c[s]) = Len(a[s]) + 1 /\ d[s] = b[s] => Waiting(c, d) = Waiting(a, b) + 1
  /\ Len(c[s]) = Len(a[s]) - 1 /\ Len(d[s]) = Len(b[s]) + 1 => Waiting(c, d) = Waiting(a, b)
  /\ c[s] = a[s] /\ Len(d[s]) = Len(b[s]) - 1 => Waiting(c, d) = Waiting(a, b) - 1

LEMMA WaitingMoved ==
  ASSUME NEW a \in [Servers -> Seq(Asks)], NEW b \in [Servers -> Seq(Answers)],
         NEW c \in [Servers -> Seq(Asks)], NEW d \in [Servers -> Seq(Answers)],
         NEW s \in Servers, SameButAt(s, a, b, c, d)
  PROVE  Moves(a, b, c, d, s)
<1>1. Elsewhere(c, d, s) = Elsewhere(a, b, s)
  BY WaitingMoves
<1>0. Waiting(a, b) \in Nat /\ Waiting(c, d) \in Nat
  BY WaitingFacts
<1> DEFINE i == Len(a[s])
           j == Len(b[s])
           k == Len(c[s])
           l == Len(d[s])
           y == Waiting(c, d)
           z == Waiting(a, b)
<1>2. y \in Nat /\ z \in Nat
  BY <1>0
<1>3. i \in Nat /\ j \in Nat /\ k \in Nat /\ l \in Nat
  <2>1. /\ a[s] \in Seq(Asks) /\ b[s] \in Seq(Answers)
        /\ c[s] \in Seq(Asks) /\ d[s] \in Seq(Answers)
    OBVIOUS
  <2> QED BY <2>1, LenProperties
<1>4. (d[s] = b[s] => l = j) /\ (c[s] = a[s] => k = i)
  OBVIOUS
<1>5. Elsewhere(c, d, s) = y - (k + l) /\ Elsewhere(a, b, s) = z - (i + j)
  BY DEF Elsewhere
<1> HIDE DEF i, j, k, l, y, z
<1>6. /\ k = i + 1 /\ l = j => y = z + 1
      /\ k = i - 1 /\ l = j + 1 => y = z
      /\ k = i /\ l = j - 1 => y = z - 1
  <2>1. y - (k + l) = z - (i + j)
    BY <1>1, <1>5
  <2> QED BY <1>2, <1>3, <2>1
<1>7. /\ k = i + 1 /\ d[s] = b[s] => y = z + 1
      /\ k = i - 1 /\ l = j + 1 => y = z
      /\ c[s] = a[s] /\ l = j - 1 => y = z - 1
  BY <1>4, <1>6
<1> QED BY <1>7 DEF Moves, i, j, k, l, y, z

\* What is under way after a request was sent, answered, or its answer read.
LEMMA UnderWayMoves ==
  ASSUME Types, Types', NEW s \in Servers,
         \A t \in Servers \ {s} : toServer'[t] = toServer[t] /\ toClient'[t] = toClient[t]
  PROVE  /\ Moves(toServer, toClient, toServer', toClient', s)
         /\ UnderWay = Waiting(toServer, toClient)
         /\ UnderWay' = Waiting(toServer', toClient')
<1> PICK a, b, c, d : a = toServer /\ b = toClient /\ c = toServer' /\ d = toClient'
  OBVIOUS
<1>1. /\ a \in [Servers -> Seq(Asks)] /\ b \in [Servers -> Seq(Answers)]
      /\ c \in [Servers -> Seq(Asks)] /\ d \in [Servers -> Seq(Answers)]
  BY DEF Types
<1>2. SameButAt(s, a, b, c, d)
  BY DEF SameButAt
<1>3. UnderWay = Waiting(toServer, toClient) /\ UnderWay' = Waiting(toServer', toClient')
  BY DEF UnderWay, Waiting, MapThenSumSet, MapThenFoldSet
<1>4. Moves(a, b, c, d, s)
  BY <1>1, <1>2, WaitingMoved
<1> QED BY <1>3, <1>4

\* A step that leaves all this alone.
Places == <<work, copies, inDram, known, toServer, toClient>>

LEMMA PlacesKept ==
  ASSUME CacheInv, UNCHANGED Places
  PROVE  /\ QuietInv' /\ OnceInv' /\ NamesInv' /\ UnderWay' = UnderWay
         /\ Types' => Agreement'
<1>1. UNCHANGED <<work, copies, inDram, known, toServer, toClient>>
  BY DEF Places
<1>2. QuietInv' /\ OnceInv' /\ NamesInv'
  BY <1>1 DEF CacheInv, QuietInv, OnceInv, NamesInv
<1>3. UnderWay' = UnderWay
  BY <1>1 DEF UnderWay, MapThenSumSet, MapThenFoldSet
<1>4. Types' => Agreement'
  BY <1>1, AgreementNow, AgreementNext DEF CacheInv
<1> QED BY <1>2, <1>3, <1>4

LEMMA IncLoadKeeps ==
  ASSUME CacheInv, IncLoad, ~ RacyPollNum
  PROVE  CacheInv'
<1>1. /\ work.at = "poll" /\ work.todo # <<>> /\ workReg = None /\ epollReg = None
      /\ workReg' = pollNum
      /\ UNCHANGED <<known, inDram, policy, threshold, asked, work, pollNum, epollReg,
                     toServer, toClient, copies, pollUsed, connUsed>>
  BY DEF IncLoad, client, channels, server
<1>2. Types'
  BY <1>1 DEF CacheInv, Types
<1>3. UNCHANGED Places /\ UNCHANGED server
  BY <1>1 DEF Places, server
<1>4. QuietInv' /\ OnceInv' /\ NamesInv' /\ Agreement' /\ UnderWay' = UnderWay
  BY <1>2, <1>3, PlacesKept
<1>5. AccountInv'
  BY <1>3, AccountKept DEF CacheInv
<1>6. CounterInv'
  BY <1>1, <1>4 DEF CacheInv, CounterInv
<1> QED BY <1>2, <1>4, <1>5, <1>6 DEF CacheInv

LEMMA DecStoreKeeps ==
  ASSUME CacheInv, DecStore
  PROVE  CacheInv'
<1>1. /\ epollReg # None /\ pollNum' = epollReg - 1 /\ epollReg' = None
      /\ UNCHANGED <<known, inDram, policy, threshold, asked, work, workReg,
                     toServer, toClient, copies, pollUsed, connUsed>>
  BY DEF DecStore, client, channels, server
<1>2. Types'
  BY <1>1 DEF CacheInv, Types, None
<1>3. UNCHANGED Places /\ UNCHANGED server
  BY <1>1 DEF Places, server
<1>4. QuietInv' /\ OnceInv' /\ NamesInv' /\ Agreement' /\ UnderWay' = UnderWay
  BY <1>2, <1>3, PlacesKept
<1>5. AccountInv'
  BY <1>3, AccountKept DEF CacheInv
<1>6. CounterInv'
  <2>1. UnderWay \in Nat /\ pollNum \in Int
    BY UnderWayFacts DEF CacheInv, Types
  <2>2. /\ work.at = "poll" /\ epollReg = pollNum /\ pollNum = UnderWay + 1
        /\ workReg = None
    BY <1>1 DEF CacheInv, CounterInv
  <2> QED BY <1>1, <1>4, <2>1, <2>2 DEF CounterInv
<1> QED BY <1>2, <1>4, <1>5, <1>6 DEF CacheInv

LEMMA PollEndKeeps ==
  ASSUME CacheInv, PollEnd
  PROVE  CacheInv'
<1>1. /\ work.at = "poll" /\ work.todo = <<>> /\ pollNum <= 0 /\ work' = Idle
      /\ UNCHANGED <<known, inDram, policy, asked, pollNum, workReg, epollReg,
                     toServer, toClient, copies, pollUsed, connUsed>>
  BY DEF PollEnd, Waited, counter, channels, server
<1>2. workReg = None /\ epollReg = None
      /\ \A s \in Servers : toServer[s] = <<>> /\ toClient[s] = <<>>
  <2>1. UnderWay \in Nat /\ pollNum \in Int
    BY UnderWayFacts DEF CacheInv, Types
  <2>2. workReg = None /\ epollReg = None /\ UnderWay = 0
    BY <1>1, <2>1 DEF CacheInv, CounterInv
  <2>3. ASSUME NEW s \in Servers PROVE toServer[s] = <<>> /\ toClient[s] = <<>>
    <3>1. toServer[s] \in Seq(Asks) /\ toClient[s] \in Seq(Answers)
      BY DEF CacheInv, Types
    <3>2. Len(toServer[s]) \in Nat /\ Len(toClient[s]) \in Nat
      BY <3>1, LenProperties
    <3>3. Len(toServer[s]) + Len(toClient[s]) <= 0
      BY <2>2, UnderWayFacts DEF CacheInv
    <3> DEFINE i == Len(toServer[s])
               j == Len(toClient[s])
    <3> HIDE DEF i, j
    <3>4. i = 0 /\ j = 0
      <4>1. i \in Nat /\ j \in Nat /\ i + j <= 0
        BY <3>2, <3>3 DEF i, j
      <4> QED BY <4>1
    <3> USE DEF i, j
    <3> QED BY <3>1, <3>4, EmptySeq
  <2> QED BY <2>2, <2>3
<1>3. threshold' \in [Servers -> Nat]
  <2> DEFINE most == Max({threshold[s] : s \in Servers})
  <2>1. threshold' \in [Servers -> 0 .. most]
    BY Zenon DEF PollEnd
  <2> HIDE DEF most
  <2>2. \A k \in 0 .. most : k \in Nat
    OBVIOUS
  <2> QED BY <2>1, <2>2
<1>4. Types'
  BY <1>1, <1>3, WorkFacts DEF CacheInv, Types
<1>5. work'.at # "poll" /\ work'.at # "free"
  BY <1>1 DEF Idle
<1>6. 1 .. Len(<<>>) = {}
  BY EmptySeq
<1>7. CounterInv' /\ QuietInv'
  BY <1>1, <1>2, <1>5 DEF CounterInv, QuietInv
<1>8. OnceInv' /\ NamesInv'
  BY <1>1, <1>5 DEF CacheInv, OnceInv, NamesInv
<1>9. Agreement'
  <2>1. Agrees(copies, inDram, toClient, work)
    BY AgreementNow DEF CacheInv
  <2>2. Agrees(copies, inDram, toClient, work')
    BY <1>1, <1>5, <2>1 DEF Agrees
  <2> QED BY <1>1, <1>4, <2>2, AgreementNext
<1>10. AccountInv'
  BY <1>1, AccountKept DEF CacheInv, server
<1> QED BY <1>4, <1>7, <1>8, <1>9, <1>10 DEF CacheInv

LEMMA PollStartKeeps ==
  ASSUME CacheInv, PollStart
  PROVE  CacheInv'
<1>1. /\ work = Idle /\ pollNum' = 0
      /\ policy' = [s \in Servers |-> NextPolicy(s)]
      /\ threshold' = [s \in Servers |-> NextThreshold(s)]
      /\ UNCHANGED <<known, inDram, workReg, epollReg, toServer, toClient,
                     copies, pollUsed, connUsed>>
  BY DEF PollStart, channels, server
<1>2. PICK rw \in [known -> 0 .. MaxRw] :
      \E plans \in {f \in [Servers -> UNION {Plans(s, rw) : s \in Servers}] :
                      \A s \in Servers : f[s] \in Plans(s, rw)} :
        /\ asked' = [s \in Servers |-> ToSet(plans[s].hot)]
        /\ work' = [at |-> "poll", todo |-> Requests(plans),
                    touched |-> \E o \in known : rw[o] > 0]
  BY DEF PollStart
<1>3. PICK plans :
        /\ \A s \in Servers : plans[s] \in Plans(s, rw)
        /\ asked' = [s \in Servers |-> ToSet(plans[s].hot)]
        /\ work' = [at |-> "poll", todo |-> Requests(plans),
                    touched |-> \E o \in known : rw[o] > 0]
  BY <1>2
<1>4. known \in SUBSET Objects /\ threshold \in [Servers -> Nat] /\ inDram \subseteq known
  BY DEF CacheInv, Types
<1>5. \A s \in Servers : /\ plans[s].cold \in Seq(ColdObjects(s))
                         /\ plans[s].hot \in Seq(HotObjects(s))
  BY <1>3, <1>4, PlanFacts
<1>6. PlansTyped(plans)
  <2>1. \A s \in Servers : ColdObjects(s) \subseteq Objects /\ HotObjects(s) \subseteq Objects
    BY <1>4 DEF ColdObjects, HotObjects
  <2> QED BY <1>5, <2>1, SeqMonotonic DEF PlansTyped
<1>7. /\ Requests(plans) \in Seq(OrdersUpTo(plans, NodeNum))
      /\ OneOrder(Requests(plans))
  BY <1>6, RequestsFacts
<1>8. work'.at = "poll" /\ work'.todo = Requests(plans) /\ work' \in Ops
  <2>1. OrdersUpTo(plans, NodeNum) \subseteq Orders
    BY DEF OrdersUpTo
  <2>2. Requests(plans) \in Seq(Orders)
    BY <1>7, <2>1, SeqMonotonic
  <2>3. work' \in PollOps
    BY <1>3, <2>2 DEF PollOps
  <2> QED BY <1>3, <2>3, OpsAre
<1>9. work.at # "poll" /\ work.at # "free"
  BY <1>1 DEF Idle
<1>10. /\ workReg = None /\ epollReg = None
       /\ \A s \in Servers : toServer[s] = <<>> /\ toClient[s] = <<>>
       /\ \A o \in Objects : copies[o] = 1 <=> o \in inDram
  BY <1>9, CalmFacts
<1>11. Types'
  <2>1. policy' \in [Servers -> BOOLEAN]
    BY <1>1 DEF NextPolicy
  <2>2. threshold' \in [Servers -> Nat]
    BY <1>1, <1>4, BoundsAssumption DEF NextThreshold
  <2>3. asked' \in [Servers -> SUBSET Objects]
    <3>1. \A s \in Servers : ToSet(plans[s].hot) \subseteq Objects
      <4> SUFFICES ASSUME NEW s \in Servers PROVE ToSet(plans[s].hot) \subseteq Objects
        OBVIOUS
      <4>1. plans[s].hot \in Seq(Objects)
        BY <1>6 DEF PlansTyped
      <4> QED BY <4>1, LenProperties, ElementOfSeq DEF ToSet
    <3> QED BY <1>3, <3>1
  <2> QED BY <1>1, <1>8, <2>1, <2>2, <2>3 DEF CacheInv, Types
<1>12. CounterInv'
  <2>1. UnderWay' = UnderWay
    BY <1>1 DEF UnderWay, MapThenSumSet, MapThenFoldSet
  <2>2. UnderWay = 0
    BY <1>10, UnderWayFacts DEF CacheInv
  <2> QED BY <1>1, <1>10, <2>1, <2>2 DEF CounterInv
<1>13. QuietInv'
  BY <1>8 DEF QuietInv
<1>14. 1 .. Len(<<>>) = {}
  BY EmptySeq
<1>15. OnceInv'
  BY <1>1, <1>7, <1>8, <1>10, <1>14 DEF OnceInv, OneEach, Apart, OrdersApart
<1>16. NamesInv'
  <2>1. ASSUME NEW k \in 1 .. Len(work'.todo)
        PROVE  Due(work'.todo[k], work'.todo[k].to, copies, inDram, known)
    <3> DEFINE m == work'.todo[k]
               s == m.to
    <3>1. /\ m \in Orders /\ s \in Servers
          /\ m.type = "clear" => m.objs = plans[s].cold
          /\ m.type = "apply" => m.objs = plans[s].hot
          /\ m.type = "clear" \/ m.type = "apply"
      BY <1>7, <1>8, ElementOfSeq DEF OrdersUpTo, Orders, Kinds
    <3> HIDE DEF m
    <3>2. ASSUME NEW j \in 1 .. Len(m.objs)
          PROVE  /\ NodeOf[m.objs[j]] = s
                 /\ m.type = "clear" => copies[m.objs[j]] = 1 /\ m.objs[j] \in inDram
                 /\ m.type = "apply" => /\ copies[m.objs[j]] = 0
                                        /\ m.objs[j] \in known \ inDram
      <4>1. CASE m.type = "clear"
        <5>1. m.objs[j] \in ColdObjects(s)
          BY <1>5, <3>1, <4>1, ElementOfSeq
        <5> QED BY <1>10, <4>1, <5>1 DEF ColdObjects, ObjectsOf
      <4>2. CASE m.type = "apply"
        <5>1. m.objs[j] \in HotObjects(s)
          BY <1>5, <3>1, <4>2, ElementOfSeq
        <5>2. m.objs[j] \in Objects /\ copies[m.objs[j]] # 1
          BY <1>10, <5>1 DEF HotObjects, ObjectsOf
        <5>3. copies[m.objs[j]] = 0
          BY <5>2 DEF CacheInv, Types
        <5> QED BY <4>2, <5>1, <5>3 DEF HotObjects, ObjectsOf
      <4> QED BY <3>1, <4>1, <4>2
    <3> QED BY <3>2 DEF Due, m
  <2> QED BY <1>1, <1>10, <1>14, <2>1 DEF NamesInv
<1>17. Agreement'
  <2>1. Agrees(copies, inDram, toClient, work')
    BY <1>8, <1>10, CalmAgrees
  <2> QED BY <1>1, <1>11, <2>1, AgreementNext
<1>18. AccountInv'
  BY <1>1, AccountKept DEF CacheInv, server
<1> QED BY <1>11, <1>12, <1>13, <1>15, <1>16, <1>17, <1>18 DEF CacheInv

\* A request is moved from the list of the work thread to its server's queue.
LEMMA SendKeeps ==
  ASSUME CacheInv, Send
  PROVE  CacheInv'
<1>1. /\ work.at = "poll" /\ work.todo # <<>> /\ workReg = pollNum /\ epollReg = None
      /\ pollNum' = workReg + 1 /\ workReg' = None
      /\ UNCHANGED <<known, inDram, policy, threshold, asked, epollReg, toClient,
                     copies, pollUsed, connUsed>>
  BY DEF Send, server, CacheInv, CounterInv
<1>2. work \in PollOps /\ work.todo \in Seq(Orders)
  BY <1>1, WorkFacts DEF CacheInv, Types
<1>21. PICK w, v, m, s :
         w = work.todo /\ v = Tail(w) /\ m = Head(w) /\ s = m.to
  OBVIOUS
<1>3. /\ w \in Seq(Orders) /\ v \in Seq(Orders) /\ m \in Orders /\ m = w[1]
      /\ Shorter(w, v) /\ w = work.todo
  BY <1>1, <1>2, <1>21, TailShorter
<1>4. s \in Servers /\ m.type \in Kinds /\ m.objs \in Seq(Objects) /\ s = w[1].to
  BY <1>3, <1>21 DEF Orders
<1>22. PICK x : x = [type |-> m.type, objs |-> m.objs]
  OBVIOUS
<1>5. x \in Asks /\ x.type = m.type /\ x.objs = m.objs
  BY <1>4, <1>22 DEF Asks
<1>6. work' = [work EXCEPT !.todo = v] /\ toServer' = [toServer EXCEPT ![s] = Append(@, x)]
  BY <1>21, <1>22 DEF Send
<1>7. work'.at = "poll" /\ work'.todo = v /\ work' \in Ops
  <2>1. work' \in PollOps
    BY <1>2, <1>3, <1>6 DEF PollOps
  <2> QED BY <1>1, <1>2, <1>6, <2>1, OpsAre DEF PollOps
<1>23. PICK q, p : q = toServer[s] /\ p = Append(q, x)
  OBVIOUS
<1>8. toServer \in [Servers -> Seq(Asks)] /\ toClient \in [Servers -> Seq(Answers)]
  BY DEF CacheInv, Types
<1>9. q \in Seq(Asks) /\ p \in Seq(Asks) /\ Longer(q, p, x) /\ q = toServer[s]
  BY <1>4, <1>5, <1>8, <1>23, AppendLonger
<1>10. /\ toServer' \in [Servers -> Seq(Asks)] /\ toServer'[s] = p
       /\ \A t \in Servers \ {s} : toServer'[t] = toServer[t]
  BY <1>4, <1>6, <1>8, <1>9, <1>23
<1>11. pollNum \in Int /\ UnderWay \in Nat /\ pollNum = UnderWay
  <2>1. Types /\ pollNum \in Int
    BY DEF CacheInv, Types
  <2>2. pollNum = UnderWay
    <3>1. UnderWay \in Nat
      BY <2>1, UnderWayFacts
    <3>2. pollNum = UnderWay + 0
      BY <1>1 DEF CacheInv, CounterInv
    <3> QED BY <3>1, <3>2
  <2> QED BY <2>1, <2>2, UnderWayFacts
<1>12. Types'
  <2>1. pollNum' \in Int /\ workReg' \in Int /\ epollReg' \in Int
    BY <1>1, <1>11 DEF CacheInv, Types, None
  <2> QED BY <1>1, <1>7, <1>10, <2>1 DEF CacheInv, Types
<1>13. UnderWay' = UnderWay + 1
  <2>1. Len(toServer'[s]) = Len(toServer[s]) + 1 /\ toClient'[s] = toClient[s]
    BY <1>1, <1>9, <1>10 DEF Longer
  <2>2. Types /\ Types' /\ s \in Servers /\ \A t \in Servers \ {s} :
          toServer'[t] = toServer[t] /\ toClient'[t] = toClient[t]
    BY <1>1, <1>4, <1>10, <1>12 DEF CacheInv
  <2>3. /\ Moves(toServer, toClient, toServer', toClient', s)
        /\ UnderWay = Waiting(toServer, toClient)
        /\ UnderWay' = Waiting(toServer', toClient')
    BY <2>2, UnderWayMoves
  <2>4. Waiting(toServer', toClient') = Waiting(toServer, toClient) + 1
    BY <2>1, <2>3 DEF Moves
  <2> QED BY <2>3, <2>4
<1>14. CounterInv' /\ QuietInv'
  BY <1>1, <1>7, <1>11, <1>13 DEF CounterInv, QuietInv, None
<1>15. OnceInv'
  <2>1. /\ OneOrder(w) /\ OneEach(q) /\ OrdersApart(w, s, q)
        /\ OrdersApart(w, s, toClient[s]) /\ Apart(q, toClient[s])
    BY <1>1, <1>3, <1>4, <1>9 DEF CacheInv, OnceInv
  <2>2. OneEach(p) /\ Apart(p, toClient[s]) /\ OrdersApart(v, s, p)
    <3> PICK r : r = toClient[s]
      OBVIOUS
    <3>1. Shorter(w, v) /\ Longer(q, p, x) /\ x.type = w[1].type /\ s = w[1].to
      BY <1>3, <1>4, <1>5, <1>9
    <3>2. /\ OneOrder(w) /\ OneEach(q) /\ OrdersApart(w, w[1].to, q)
          /\ OrdersApart(w, w[1].to, r) /\ Apart(q, r)
      BY <2>1, <3>1
    <3>3. OneEach(p) /\ Apart(p, r) /\ OrdersApart(v, w[1].to, p)
      BY <3>1, <3>2, OnceSent
    <3> QED BY <3>1, <3>3
  <2>3. OneOrder(v) /\ \A t, u : OrdersApart(w, t, u) => OrdersApart(v, t, u)
    BY <1>3, <2>1, OnceListed
  <2>4. ASSUME NEW t \in Servers
        PROVE  /\ OneEach(toServer'[t]) /\ OneEach(toClient'[t])
               /\ Apart(toServer'[t], toClient'[t])
               /\ OrdersApart(v, t, toServer'[t]) /\ OrdersApart(v, t, toClient'[t])
    <3>1. /\ OneEach(toServer[t]) /\ OneEach(toClient[t])
          /\ Apart(toServer[t], toClient[t])
          /\ OrdersApart(w, t, toServer[t]) /\ OrdersApart(w, t, toClient[t])
      BY <1>1, <1>3 DEF CacheInv, OnceInv
    <3>2. CASE t = s
      BY <1>1, <1>10, <2>2, <2>3, <3>1, <3>2
    <3>3. CASE t # s
      BY <1>1, <1>10, <2>3, <3>1, <3>3
    <3> QED BY <3>2, <3>3
  <2> QED BY <1>7, <2>3, <2>4 DEF OnceInv
<1>16. NamesInv'
  <2>1. /\ \A k \in 1 .. Len(w) : Due(w[k], w[k].to, copies, inDram, known)
        /\ \A t \in Servers :
             /\ \A k \in 1 .. Len(toServer[t]) : Due(toServer[t][k], t, copies, inDram, known)
             /\ \A k \in 1 .. Len(toClient[t]) : Told(toClient[t][k], t, copies, inDram, known)
    BY <1>1, <1>3 DEF CacheInv, NamesInv
  <2>2. \A k \in 1 .. Len(v) : Due(v[k], v[k].to, copies, inDram, known)
    BY <1>3, <2>1 DEF Shorter
  <2>3. Due(x, s, copies, inDram, known)
    <3>1. 1 \in 1 .. Len(w)
      BY <1>3 DEF Shorter
    <3>2. Due(m, s, copies, inDram, known)
      BY <1>3, <1>4, <2>1, <3>1
    <3> QED BY <1>5, <3>2 DEF Due
  <2>4. \A k \in 1 .. Len(p) : Due(p[k], s, copies, inDram, known)
    <3>1. \A k \in 1 .. Len(q) : Due(q[k], s, copies, inDram, known)
      BY <1>4, <1>9, <2>1
    <3>2. \A k \in 1 .. Len(p) : p[k] = x \/ (k \in 1 .. Len(q) /\ p[k] = q[k])
      BY <1>9 DEF Longer
    <3> QED BY <2>3, <3>1, <3>2
  <2>5. ASSUME NEW t \in Servers
        PROVE  \A k \in 1 .. Len(toServer'[t]) :
                 Due(toServer'[t][k], t, copies, inDram, known)
    BY <1>10, <2>1, <2>4
  <2> QED BY <1>1, <1>7, <2>1, <2>2, <2>5 DEF NamesInv
<1>17. Agreement'
  <2>1. Agrees(copies, inDram, toClient, work)
    BY AgreementNow DEF CacheInv
  <2>2. Agrees(copies, inDram, toClient, work')
    BY <1>1, <1>7, <2>1 DEF Agrees
  <2> QED BY <1>1, <1>12, <2>2, AgreementNext
<1>18. AccountInv'
  BY <1>1, AccountKept DEF CacheInv, server
<1> QED BY <1>12, <1>14, <1>15, <1>16, <1>17, <1>18 DEF CacheInv

(***************************************************************************)
(* A request is handled, or an answer read, at one server.  The objects of *)
(* a CLEAR are in inDram and those of an APPLY are not, so what one        *)
(* message names no other message under way does.                          *)
(***************************************************************************)
\* X are objects that a message of type y between the client and s may name.
AllOf(X, s, y, d) ==
  y \in Kinds /\ \A o \in X : NodeOf[o] = s /\ (y = "clear" <=> o \in d)

\* Only the objects of X change.
SameOff(X, c, e, d, f) ==
  \A o \in Objects \ X : e[o] = c[o] /\ (o \in f <=> o \in d)

LEMMA DueKept ==
  ASSUME NEW n, NEW t, NEW c, NEW d, NEW k, NEW e, NEW f, NEW X, NEW s, NEW y,
         n.type \in Kinds, n.objs \in Seq(Objects), Due(n, t, c, d, k),
         AllOf(X, s, y, d), t # s \/ n.type # y, SameOff(X, c, e, d, f)
  PROVE  Due(n, t, e, f, k)
<1> SUFFICES ASSUME NEW j \in 1 .. Len(n.objs)
             PROVE  /\ NodeOf[n.objs[j]] = t
                    /\ n.type = "clear" => e[n.objs[j]] = 1 /\ n.objs[j] \in f
                    /\ n.type = "apply" => e[n.objs[j]] = 0 /\ n.objs[j] \in k \ f
  BY DEF Due
<1> PICK o : o = n.objs[j]
  OBVIOUS
<1>1. o \in Objects
  BY ElementOfSeq
<1>2. /\ NodeOf[o] = t
      /\ n.type = "clear" => c[o] = 1 /\ o \in d
      /\ n.type = "apply" => c[o] = 0 /\ o \in k \ d
  BY DEF Due
<1>3. o \notin X
  BY <1>2 DEF AllOf, Kinds
<1> QED BY <1>1, <1>2, <1>3 DEF SameOff

LEMMA ToldKept ==
  ASSUME NEW n \in Answers, NEW t, NEW c, NEW d, NEW k, NEW e, NEW f, NEW X, NEW s, NEW y,
         Told(n, t, c, d, k),
         AllOf(X, s, y, d), t # s \/ n.type # y, SameOff(X, c, e, d, f)
  PROVE  Told(n, t, e, f, k)
<1>1. /\ n.type \in Kinds /\ n.objs \subseteq Objects
      /\ n.type = "apply" => n.null \subseteq Objects
  BY DEF Answers, Kinds
<1>2. ASSUME NEW o \in n.objs
      PROVE  /\ NodeOf[o] = t
             /\ n.type = "clear" => e[o] = 0 /\ o \in f
             /\ n.type = "apply" => e[o] = 1 /\ o \in k \ f
  <2>1. /\ NodeOf[o] = t
        /\ n.type = "clear" => c[o] = 0 /\ o \in d
        /\ n.type = "apply" => c[o] = 1 /\ o \in k \ d
    BY DEF Told
  <2>2. o \in Objects /\ o \notin X
    BY <1>1, <2>1 DEF AllOf, Kinds
  <2> QED BY <2>1, <2>2 DEF SameOff
<1>3. ASSUME n.type = "apply", NEW o \in n.null
      PROVE  NodeOf[o] = t /\ e[o] = 0 /\ o \notin f
  <2>1. NodeOf[o] = t /\ c[o] = 0 /\ o \notin d
    BY <1>3 DEF Told
  <2>2. o \in Objects /\ o \notin X
    BY <1>1, <1>3, <2>1 DEF AllOf, Kinds
  <2> QED BY <2>1, <2>2 DEF SameOff
<1> QED BY <1>2, <1>3 DEF Told

LEMMA AnsLonger ==
  ASSUME NEW q, NEW p, NEW x, Longer(q, p, x), NEW o, NEW t
  PROVE  /\ o \notin x.objs => (Ans(p, o, t) <=> Ans(q, o, t))
         /\ o \in x.objs /\ t = x.type /\ Len(q) \in Nat => Ans(p, o, t)
<1>1. ASSUME o \notin x.objs PROVE Ans(p, o, t) <=> Ans(q, o, t)
  BY <1>1 DEF Ans, Longer
<1>2. ASSUME o \in x.objs, t = x.type, Len(q) \in Nat PROVE Ans(p, o, t)
  <2>1. Len(q) + 1 \in 1 .. Len(p) /\ Len(q) + 1 \notin 1 .. Len(q)
    BY <1>2 DEF Longer
  <2>2. p[Len(q) + 1] = x
    BY <2>1 DEF Longer
  <2> QED BY <1>2, <2>1, <2>2 DEF Ans
<1> QED BY <1>1, <1>2

LEMMA AnsShorter ==
  ASSUME NEW S, NEW q \in Seq(S), NEW p, Shorter(q, p), NEW o, NEW t
  PROVE  /\ o \notin q[1].objs => (Ans(p, o, t) <=> Ans(q, o, t))
         /\ Ans(p, o, t) => Ans(q, o, t)
<1>1. Ans(p, o, t) => Ans(q, o, t)
  BY DEF Ans, Shorter
<1>2. ASSUME o \notin q[1].objs, Ans(q, o, t) PROVE Ans(p, o, t)
  <2>1. PICK k \in 1 .. Len(q) : q[k].type = t /\ o \in q[k].objs
    BY <1>2 DEF Ans
  <2>2. k # 1 /\ Len(q) \in Nat
    BY <1>2, <2>1, LenProperties
  <2>3. k - 1 \in 1 .. Len(p) /\ (k - 1) + 1 = k
    BY <2>2 DEF Shorter
  <2>4. p[k - 1] = q[k]
    BY <2>3 DEF Shorter
  <2> QED BY <2>1, <2>3, <2>4 DEF Ans
<1> QED BY <1>1, <1>2

\* q and r are the queues of answers before and after.
SameAnswers(q, r, s, X) ==
  /\ \A t \in Servers \ {s} : r[t] = q[t]
  /\ \A o \in Objects \ X : \A t \in Kinds : Ans(r[s], o, t) <=> Ans(q[s], o, t)
AgreesOn(X, c, d, q) ==
  \A o \in X : c[o] = 1 <=> \/ o \in d /\ ~ Ans(q, o, "clear")
                            \/ Ans(q, o, "apply")

LEMMA AgreesKept ==
  ASSUME NEW c, NEW d, NEW q, NEW w, NEW e, NEW f, NEW r, NEW X, NEW s \in Servers,
         Agrees(c, d, q, w), w.at = "poll", SameOff(X, c, e, d, f),
         X \subseteq ObjectsOf(s), SameAnswers(q, r, s, X), AgreesOn(X, e, f, r[s])
  PROVE  Agrees(e, f, r, w)
<1> SUFFICES ASSUME NEW o \in Objects
             PROVE  e[o] = 1 <=> \/ o \in f /\ ~ Ans(r[NodeOf[o]], o, "clear")
                                 \/ Ans(r[NodeOf[o]], o, "apply")
  BY DEF Agrees
<1>1. CASE o \in X
  <2>1. NodeOf[o] = s
    BY <1>1 DEF ObjectsOf
  <2> QED BY <1>1, <2>1 DEF AgreesOn
<1>2. CASE o \notin X
  <2>1. c[o] = 1 <=> \/ o \in d /\ ~ Ans(q[NodeOf[o]], o, "clear")
                     \/ Ans(q[NodeOf[o]], o, "apply")
    BY DEF Agrees
  <2>2. e[o] = c[o] /\ (o \in f <=> o \in d)
    BY <1>2 DEF SameOff
  <2>3. \A t \in Kinds : Ans(r[NodeOf[o]], o, t) <=> Ans(q[NodeOf[o]], o, t)
    <3>1. CASE NodeOf[o] = s
      BY <1>2, <3>1 DEF SameAnswers
    <3>2. CASE NodeOf[o] # s
      <4>1. r[NodeOf[o]] = q[NodeOf[o]]
        BY <3>2, ConstantsFacts DEF SameAnswers
      <4> QED BY <4>1
    <3> QED BY <3>1, <3>2
  <2> QED BY <2>1, <2>2, <2>3 DEF Kinds
<1> QED BY <1>1, <1>2

\* The server s answers the request at the head of its queue with x.
Answering(s, x) ==
  /\ toServer[s] # <<>> /\ x \in Answers /\ x.type = Head(toServer[s]).type
  /\ toServer' = [toServer EXCEPT ![s] = Tail(@)]
  /\ toClient' = [toClient EXCEPT ![s] = Append(@, x)]
  /\ UNCHANGED <<client, counter>>

LEMMA AnsweringKeeps ==
  ASSUME CacheInv, Types', NEW s \in Servers, NEW x, Answering(s, x),
         AllOf(x.objs, s, x.type, inDram),
         \A o \in Objects \ x.objs : copies'[o] = copies[o],
         \A o \in x.objs : copies'[o] = IF x.type = "apply" THEN 1 ELSE 0,
         Told(x, s, copies', inDram, known)
  PROVE  CounterInv' /\ QuietInv' /\ OnceInv' /\ NamesInv' /\ Agreement'
<1>1. /\ toServer \in [Servers -> Seq(Asks)] /\ toClient \in [Servers -> Seq(Answers)]
      /\ UNCHANGED <<known, inDram, work, pollNum, workReg, epollReg>>
  BY DEF Answering, client, counter, CacheInv, Types
<1>2. work.at = "poll"
  BY DEF Answering, CacheInv, QuietInv
<1> PICK q, p, r, u : /\ q = toServer[s] /\ p = Tail(q)
                      /\ r = toClient[s] /\ u = Append(r, x)
  OBVIOUS
<1>3. q \in Seq(Asks) /\ r \in Seq(Answers) /\ q # <<>> /\ x \in Answers
  BY <1>1 DEF Answering
<1>4. /\ p \in Seq(Asks) /\ u \in Seq(Answers) /\ Shorter(q, p) /\ Longer(r, u, x)
      /\ x.type = q[1].type /\ x.type \in Kinds /\ x.objs \subseteq Objects
  <2>1. p \in Seq(Asks) /\ Shorter(q, p) /\ Head(q) = q[1]
    BY <1>3, TailShorter
  <2>2. u \in Seq(Answers) /\ Longer(r, u, x)
    BY <1>3, AppendLonger
  <2> QED BY <1>3, <2>1, <2>2 DEF Answering, Answers, Kinds
<1>5. /\ toServer'[s] = p /\ toClient'[s] = u
      /\ \A t \in Servers \ {s} : toServer'[t] = toServer[t] /\ toClient'[t] = toClient[t]
  BY <1>1 DEF Answering
<1>6. UnderWay' = UnderWay
  <2>1. Types
    BY DEF CacheInv
  <2>2. /\ Moves(toServer, toClient, toServer', toClient', s)
        /\ UnderWay = Waiting(toServer, toClient)
        /\ UnderWay' = Waiting(toServer', toClient')
    BY <1>5, <2>1, UnderWayMoves
  <2>3. Len(toServer'[s]) = Len(toServer[s]) - 1 /\ Len(toClient'[s]) = Len(toClient[s]) + 1
    BY <1>4, <1>5 DEF Shorter, Longer
  <2>4. Waiting(toServer', toClient') = Waiting(toServer, toClient)
    BY <2>2, <2>3 DEF Moves
  <2> QED BY <2>2, <2>4
<1>7. CounterInv' /\ QuietInv'
  BY <1>1, <1>2, <1>6 DEF CacheInv, CounterInv, QuietInv
<1>8. OnceInv'
  <2>1. /\ OneEach(q) /\ OneEach(r) /\ Apart(q, r)
        /\ OrdersApart(work.todo, s, q) /\ OrdersApart(work.todo, s, r)
    BY <1>2 DEF CacheInv, OnceInv
  <2>2. /\ OneEach(p) /\ OneEach(u) /\ Apart(p, u)
        /\ \A w, t : OrdersApart(w, t, q) /\ OrdersApart(w, t, r) =>
             OrdersApart(w, t, p) /\ OrdersApart(w, t, u)
    BY <1>4, <2>1, OnceAnswered
  <2>3. OrdersApart(work.todo, s, p) /\ OrdersApart(work.todo, s, u)
    BY <2>1, <2>2
  <2>4. ASSUME NEW t \in Servers
        PROVE  /\ OneEach(toServer'[t]) /\ OneEach(toClient'[t])
               /\ Apart(toServer'[t], toClient'[t])
               /\ OrdersApart(work.todo, t, toServer'[t])
               /\ OrdersApart(work.todo, t, toClient'[t])
    <3>1. CASE t = s
      BY <1>5, <2>2, <2>3, <3>1
    <3>2. CASE t # s
      BY <1>2, <1>5, <3>2 DEF CacheInv, OnceInv
    <3> QED BY <3>1, <3>2
  <2>5. OneOrder(work.todo)
    BY <1>2 DEF CacheInv, OnceInv
  <2> QED BY <1>1, <2>4, <2>5 DEF OnceInv
<1> PICK c, d, k, e, X, y :
       /\ c = copies /\ d = inDram /\ k = known /\ e = copies' /\ X = x.objs /\ y = x.type
  OBVIOUS
<1>9. AllOf(X, s, y, d) /\ SameOff(X, c, e, d, d)
  BY DEF SameOff
<1>10. NamesInv'
  <2>1. ASSUME NEW i \in 1 .. Len(work.todo)
        PROVE  Due(work.todo[i], work.todo[i].to, e, d, k)
    <3> PICK n : n = work.todo[i]
      OBVIOUS
    <3>1. n \in Orders
      BY <1>2, WorkFacts, ElementOfSeq DEF CacheInv, Types
    <3>2. n.type \in Kinds /\ n.objs \in Seq(Objects)
      BY <3>1 DEF Orders
    <3>3. Due(n, n.to, c, d, k)
      BY <1>2 DEF CacheInv, NamesInv
    <3>4. n.to # s \/ n.type # y
      <4>1. 1 \in 1 .. Len(q) /\ OrdersApart(work.todo, s, q)
        BY <1>2, <1>4 DEF CacheInv, OnceInv, Shorter
      <4> QED BY <1>4, <4>1 DEF OrdersApart
    <3>5. Due(n, n.to, e, d, k)
      BY <1>9, <3>2, <3>3, <3>4, DueKept
    <3> QED BY <3>5
  <2>2. ASSUME NEW t \in Servers, NEW i \in 1 .. Len(toServer[t]), t # s \/ i # 1
        PROVE  Due(toServer[t][i], t, e, d, k)
    <3> PICK n : n = toServer[t][i]
      OBVIOUS
    <3>1. n \in Asks
      BY <1>1, ElementOfSeq
    <3>2. n.type \in Kinds /\ n.objs \in Seq(Objects)
      BY <3>1 DEF Asks
    <3>3. Due(n, t, c, d, k)
      BY DEF CacheInv, NamesInv
    <3>4. t # s \/ n.type # y
      <4>1. 1 \in 1 .. Len(q) /\ OneEach(q)
        BY <1>2, <1>4 DEF CacheInv, OnceInv, Shorter
      <4> QED BY <1>4, <2>2, <4>1 DEF OneEach
    <3>5. Due(n, t, e, d, k)
      BY <1>9, <3>2, <3>3, <3>4, DueKept
    <3> QED BY <3>5
  <2>3. ASSUME NEW t \in Servers, NEW i \in 1 .. Len(toClient[t])
        PROVE  Told(toClient[t][i], t, e, d, k)
    <3> PICK n : n = toClient[t][i]
      OBVIOUS
    <3>1. n \in Answers
      BY <1>1, ElementOfSeq
    <3>2. Told(n, t, c, d, k)
      BY DEF CacheInv, NamesInv
    <3>3. t # s \/ n.type # y
      <4>1. 1 \in 1 .. Len(q) /\ Apart(q, r)
        BY <1>2, <1>4 DEF CacheInv, OnceInv, Shorter
      <4> QED BY <1>4, <4>1 DEF Apart
    <3>4. Told(n, t, e, d, k)
      BY <1>9, <3>1, <3>2, <3>3, ToldKept
    <3> QED BY <3>4
  <2>4. ASSUME NEW t \in Servers
        PROVE  /\ \A i \in 1 .. Len(toServer'[t]) : Due(toServer'[t][i], t, e, d, k)
               /\ \A i \in 1 .. Len(toClient'[t]) : Told(toClient'[t][i], t, e, d, k)
    <3>1. CASE t # s
      BY <1>5, <2>2, <2>3, <3>1
    <3>2. CASE t = s
      <4>1. \A i \in 1 .. Len(p) : Due(p[i], s, e, d, k)
        BY <1>4, <2>2 DEF Shorter
      <4>2. \A i \in 1 .. Len(u) : Told(u[i], s, e, d, k)
        BY <1>4, <2>3 DEF Longer
      <4> QED BY <1>5, <3>2, <4>1, <4>2
    <3> QED BY <3>1, <3>2
  <2> QED BY <1>1, <2>1, <2>4 DEF NamesInv
<1>11. Agreement'
  <2> PICK a, b, w : a = toClient /\ b = toClient' /\ w = work
    OBVIOUS
  <2>1. Agrees(c, d, a, w)
    BY AgreementNow DEF CacheInv
  <2>2. X \subseteq ObjectsOf(s)
    BY <1>4, <1>9 DEF AllOf, ObjectsOf
  <2>3. a[s] = r /\ b[s] = u /\ \A t \in Servers \ {s} : b[t] = a[t]
    BY <1>5
  <2>4. \A o \in Objects \ X : \A t \in Kinds : Ans(b[s], o, t) <=> Ans(a[s], o, t)
    BY <1>4, <2>3, AnsLonger
  <2>5. Len(r) \in Nat
    BY <1>3, LenProperties
  <2>6. \A o \in X : Ans(b[s], o, y)
    BY <1>4, <2>3, <2>5, AnsLonger
  <2>7. \A o \in X : e[o] = IF y = "apply" THEN 1 ELSE 0
    OBVIOUS
  <2>8. \A o \in X : y = "clear" => o \in d /\ ~ Ans(b[s], o, "apply")
    <3> SUFFICES ASSUME NEW o \in X, y = "clear", Ans(u, o, "apply") PROVE FALSE
      BY <1>9, <2>3 DEF AllOf
    <3>1. PICK i \in 1 .. Len(u) : u[i].type = "apply" /\ o \in u[i].objs
      BY DEF Ans
    <3>2. i \in 1 .. Len(r) /\ u[i] = r[i]
      BY <1>4, <3>1 DEF Longer
    <3>3. Told(r[i], s, c, d, k)
      BY <3>2 DEF CacheInv, NamesInv
    <3> QED BY <1>9, <3>1, <3>2, <3>3 DEF AllOf, Told
  <2>9. \A o \in X : e[o] = 1 <=> \/ o \in d /\ ~ Ans(b[s], o, "clear")
                                  \/ Ans(b[s], o, "apply")
    <3>1. CASE y = "apply"
      BY <2>6, <2>7, <3>1
    <3>2. CASE y = "clear"
      BY <2>6, <2>7, <2>8, <3>2
    <3> QED BY <1>4, <3>1, <3>2 DEF Kinds
  <2>10. SameAnswers(a, b, s, X) /\ AgreesOn(X, e, d, b[s]) /\ w.at = "poll"
    BY <1>2, <2>3, <2>4, <2>9 DEF SameAnswers, AgreesOn
  <2>11. Agrees(e, d, b, w)
    BY <1>9, <2>1, <2>2, <2>10, AgreesKept
  <2> QED BY <1>1, <2>11, AgreementNext
<1> QED BY <1>7, <1>8, <1>10, <1>11

\* The client reads x, the answer at the head of the queue of s.
LEMMA ReadingKeeps ==
  ASSUME CacheInv, ~ RacyPollNum, NEW s \in Servers, NEW y, Response(s, y),
         NEW x, x = Head(toClient[s]), inDram' \subseteq known,
         AllOf(x.objs, s, y, inDram),
         \A o \in Objects \ x.objs : o \in inDram' <=> o \in inDram,
         \A o \in x.objs : o \in inDram' <=> y = "apply"
  PROVE  CacheInv'
<1>1. /\ epollReg = None /\ workReg = None /\ epollReg' = pollNum
      /\ toClient[s] # <<>> /\ x.type = y /\ toClient' = [toClient EXCEPT ![s] = Tail(@)]
      /\ UNCHANGED <<known, policy, threshold, asked, work, pollNum, workReg, toServer,
                     copies, pollUsed, connUsed>>
  BY DEF Response, server
<1>2. toServer \in [Servers -> Seq(Asks)] /\ toClient \in [Servers -> Seq(Answers)]
  BY DEF CacheInv, Types
<1>3. work.at = "poll"
  BY <1>1 DEF CacheInv, QuietInv
<1> PICK r, u : r = toClient[s] /\ u = Tail(r)
  OBVIOUS
<1>4. /\ r \in Seq(Answers) /\ u \in Seq(Answers) /\ Shorter(r, u) /\ x = r[1]
      /\ x \in Answers
  <2>1. r \in Seq(Answers) /\ r # <<>>
    BY <1>1, <1>2
  <2>2. u \in Seq(Answers) /\ Shorter(r, u) /\ Head(r) = r[1] /\ Head(r) \in Answers
    BY <2>1, TailShorter
  <2> QED BY <2>1, <2>2
<1>5. y \in Kinds /\ x.objs \subseteq Objects /\ 1 \in 1 .. Len(r)
  BY <1>1, <1>4 DEF Answers, Kinds, Shorter
<1>6. /\ toClient'[s] = u /\ toClient' \in [Servers -> Seq(Answers)]
      /\ \A t \in Servers \ {s} : toClient'[t] = toClient[t]
  BY <1>1, <1>2, <1>4
<1>7. Types'
  BY <1>1, <1>6 DEF CacheInv, Types
<1>8. pollNum \in Int /\ UnderWay \in Nat /\ UnderWay' \in Nat /\ pollNum = UnderWay
      /\ UnderWay' = UnderWay - 1
  <2>1. pollNum \in Int /\ UnderWay \in Nat /\ pollNum = UnderWay
    BY <1>1, <1>3, UnderWayFacts DEF CacheInv, Types, CounterInv
  <2>2. Types
    BY DEF CacheInv
  <2>3. /\ Moves(toServer, toClient, toServer', toClient', s)
        /\ UnderWay = Waiting(toServer, toClient)
        /\ UnderWay' = Waiting(toServer', toClient')
    BY <1>1, <1>6, <1>7, <2>2, UnderWayMoves
  <2>4. toServer'[s] = toServer[s] /\ Len(toClient'[s]) = Len(toClient[s]) - 1
    BY <1>1, <1>4, <1>6 DEF Shorter
  <2>5. Waiting(toServer', toClient') = Waiting(toServer, toClient) - 1
    BY <2>3, <2>4 DEF Moves
  <2>6. Waiting(toServer', toClient') \in Nat
    <3> PICK a, b : a = toServer' /\ b = toClient'
      OBVIOUS
    <3>1. a \in [Servers -> Seq(Asks)] /\ b \in [Servers -> Seq(Answers)]
      BY <1>1, <1>2, <1>6
    <3> QED BY <3>1, WaitingFacts
  <2> QED BY <2>1, <2>3, <2>5, <2>6
<1>9. CounterInv' /\ QuietInv'
  BY <1>1, <1>3, <1>8 DEF CounterInv, QuietInv, None
<1>10. OnceInv'
  <2>1. /\ OneEach(toServer[s]) /\ OneEach(r) /\ Apart(toServer[s], r)
        /\ OrdersApart(work.todo, s, r)
    BY <1>3 DEF CacheInv, OnceInv
  <2>2. /\ OneEach(u) /\ Apart(toServer[s], u) /\ OrdersApart(work.todo, s, u)
    <3> PICK q : q = toServer[s]
      OBVIOUS
    <3>1. /\ OneEach(u) /\ Apart(q, u)
          /\ \A w, t : OrdersApart(w, t, r) => OrdersApart(w, t, u)
      BY <1>4, <2>1, OnceHandled
    <3> QED BY <2>1, <3>1
  <2>3. ASSUME NEW t \in Servers
        PROVE  /\ OneEach(toServer[t]) /\ OneEach(toClient'[t])
               /\ Apart(toServer[t], toClient'[t])
               /\ OrdersApart(work.todo, t, toServer[t])
               /\ OrdersApart(work.todo, t, toClient'[t])
    <3>1. /\ OneEach(toServer[t]) /\ OneEach(toClient[t])
          /\ Apart(toServer[t], toClient[t])
          /\ OrdersApart(work.todo, t, toServer[t])
          /\ OrdersApart(work.todo, t, toClient[t])
      BY <1>3 DEF CacheInv, OnceInv
    <3>2. CASE t = s
      BY <1>6, <2>2, <3>1, <3>2
    <3>3. CASE t # s
      BY <1>6, <3>1, <3>3
    <3> QED BY <3>2, <3>3
  <2>4. OneOrder(work.todo)
    BY <1>3 DEF CacheInv, OnceInv
  <2> QED BY <1>1, <2>3, <2>4 DEF OnceInv
<1> PICK c, d, k, f, X :
       c = copies /\ d = inDram /\ k = known /\ f = inDram' /\ X = x.objs
  OBVIOUS
<1>11. AllOf(X, s, y, d) /\ SameOff(X, c, c, d, f)
  BY DEF SameOff
<1>12. Told(x, s, c, d, k)
  BY <1>4, <1>5 DEF CacheInv, NamesInv
<1>13. NamesInv'
  <2>1. ASSUME NEW i \in 1 .. Len(work.todo)
        PROVE  Due(work.todo[i], work.todo[i].to, c, f, k)
    <3> PICK n : n = work.todo[i]
      OBVIOUS
    <3>1. n \in Orders
      BY <1>3, WorkFacts, ElementOfSeq DEF CacheInv, Types
    <3>2. n.type \in Kinds /\ n.objs \in Seq(Objects)
      BY <3>1 DEF Orders
    <3>3. Due(n, n.to, c, d, k)
      BY <1>3 DEF CacheInv, NamesInv
    <3>4. n.to # s \/ n.type # y
      <4>1. OrdersApart(work.todo, s, r)
        BY <1>3 DEF CacheInv, OnceInv
      <4> QED BY <1>1, <1>4, <1>5, <4>1 DEF OrdersApart
    <3>5. Due(n, n.to, c, f, k)
      BY <1>11, <3>2, <3>3, <3>4, DueKept
    <3> QED BY <3>5
  <2>2. ASSUME NEW t \in Servers, NEW i \in 1 .. Len(toServer[t])
        PROVE  Due(toServer[t][i], t, c, f, k)
    <3> PICK n : n = toServer[t][i]
      OBVIOUS
    <3>1. n \in Asks
      BY <1>2, ElementOfSeq
    <3>2. n.type \in Kinds /\ n.objs \in Seq(Objects)
      BY <3>1 DEF Asks
    <3>3. Due(n, t, c, d, k)
      BY DEF CacheInv, NamesInv
    <3>4. t # s \/ n.type # y
      <4>1. Apart(toServer[s], r)
        BY DEF CacheInv, OnceInv
      <4> QED BY <1>1, <1>4, <1>5, <4>1 DEF Apart
    <3>5. Due(n, t, c, f, k)
      BY <1>11, <3>2, <3>3, <3>4, DueKept
    <3> QED BY <3>5
  <2>3. ASSUME NEW t \in Servers, NEW i \in 1 .. Len(toClient[t]), t # s \/ i # 1
        PROVE  Told(toClient[t][i], t, c, f, k)
    <3> PICK n : n = toClient[t][i]
      OBVIOUS
    <3>1. n \in Answers
      BY <1>2, ElementOfSeq
    <3>2. Told(n, t, c, d, k)
      BY DEF CacheInv, NamesInv
    <3>3. t # s \/ n.type # y
      <4>1. OneEach(r)
        BY DEF CacheInv, OnceInv
      <4> QED BY <1>1, <1>4, <1>5, <2>3, <4>1 DEF OneEach
    <3>4. Told(n, t, c, f, k)
      BY <1>11, <3>1, <3>2, <3>3, ToldKept
    <3> QED BY <3>4
  <2>4. ASSUME NEW t \in Servers
        PROVE  \A i \in 1 .. Len(toClient'[t]) : Told(toClient'[t][i], t, c, f, k)
    <3>1. CASE t # s
      BY <1>6, <2>3, <3>1
    <3>2. CASE t = s
      <4>1. \A i \in 1 .. Len(u) : Told(u[i], s, c, f, k)
        BY <1>4, <2>3 DEF Shorter
      <4> QED BY <1>6, <3>2, <4>1
    <3> QED BY <3>1, <3>2
  <2> QED BY <1>1, <2>1, <2>2, <2>4 DEF NamesInv
<1>14. Agreement'
  <2> PICK a, b, w : a = toClient /\ b = toClient' /\ w = work
    OBVIOUS
  <2>1. Agrees(c, d, a, w)
    BY AgreementNow DEF CacheInv
  <2>2. X \subseteq ObjectsOf(s)
    BY <1>5, <1>11 DEF AllOf, ObjectsOf
  <2>3. a[s] = r /\ b[s] = u /\ \A t \in Servers \ {s} : b[t] = a[t]
    BY <1>6
  <2>4. \A o \in Objects \ X : \A t \in Kinds : Ans(u, o, t) <=> Ans(r, o, t)
    BY <1>4, AnsShorter
  <2>5. SameAnswers(a, b, s, X)
    BY <2>3, <2>4 DEF SameAnswers
  <2>6. \A o \in X : o \in f <=> y = "apply"
    OBVIOUS
  <2>7. ASSUME NEW o \in X
        PROVE  /\ c[o] = IF y = "apply" THEN 1 ELSE 0
               /\ ~ Ans(u, o, "clear") /\ ~ Ans(u, o, "apply")
    <3>1. c[o] = IF y = "apply" THEN 1 ELSE 0
      BY <1>1, <1>5, <1>12 DEF Told, Kinds
    <3>2. ASSUME NEW i \in 1 .. Len(u), o \in u[i].objs PROVE FALSE
      <4>1. i + 1 \in 1 .. Len(r) /\ i + 1 # 1 /\ u[i] = r[i + 1]
        BY <1>4 DEF Shorter
      <4> PICK n : n = r[i + 1]
        OBVIOUS
      <4>2. Told(n, s, c, d, k) /\ n.type # y /\ n.type \in Kinds
        <5>1. OneEach(r)
          BY DEF CacheInv, OnceInv
        <5>2. n \in Answers
          BY <1>4, <4>1, ElementOfSeq
        <5>3. Told(n, s, c, d, k)
          BY <4>1 DEF CacheInv, NamesInv
        <5> QED BY <1>1, <1>4, <1>5, <4>1, <5>1, <5>2, <5>3 DEF OneEach, Answers, Kinds
      <4>3. o \in n.objs
        BY <3>2, <4>1
      <4> QED BY <1>5, <1>11, <4>2, <4>3 DEF AllOf, Told, Kinds
    <3> QED BY <3>1, <3>2 DEF Ans
  <2>8. AgreesOn(X, c, f, b[s])
    BY <2>3, <2>6, <2>7 DEF AgreesOn
  <2>9. Agrees(c, f, b, w)
    BY <1>3, <1>11, <2>1, <2>2, <2>5, <2>8, AgreesKept
  <2> QED BY <1>1, <1>7, <2>9, AgreementNext
<1>15. AccountInv'
  BY <1>1, AccountKept DEF CacheInv, server
<1> QED BY <1>7, <1>9, <1>10, <1>13, <1>14, <1>15 DEF CacheInv

LEMMA ClearResponseKeeps ==
  ASSUME CacheInv, ~ RacyPollNum, NEW s \in Servers, ClearResponse(s)
  PROVE  CacheInv'
<1> PICK x : x = Head(toClient[s])
  OBVIOUS
<1>1. Response(s, "clear") /\ inDram' = inDram \ x.objs /\ x.type = "clear"
      /\ toClient[s] # <<>>
  BY DEF ClearResponse, Response
<1>2. Told(x, s, copies, inDram, known)
  <2>1. toClient[s] \in Seq(Answers)
    BY DEF CacheInv, Types
  <2>2. x = toClient[s][1] /\ 1 \in 1 .. Len(toClient[s])
    BY <1>1, <2>1, TailShorter DEF Shorter
  <2> QED BY <2>2 DEF CacheInv, NamesInv
<1>3. AllOf(x.objs, s, "clear", inDram)
  BY <1>1, <1>2 DEF AllOf, Told, Kinds
<1>4. inDram' \subseteq known
  BY <1>1 DEF CacheInv, Types
<1> QED BY <1>1, <1>3, <1>4, ReadingKeeps

LEMMA ApplyResponseKeeps ==
  ASSUME CacheInv, ~ RacyPollNum, NEW s \in Servers, ApplyResponse(s)
  PROVE  CacheInv'
<1> PICK x : x = Head(toClient[s])
  OBVIOUS
<1>1. /\ Response(s, "apply") /\ inDram' = (inDram \ x.null) \cup (x.objs \cap known)
      /\ x.type = "apply" /\ toClient[s] # <<>>
  BY DEF ApplyResponse, Response
<1>2. Told(x, s, copies, inDram, known)
  <2>1. toClient[s] \in Seq(Answers)
    BY DEF CacheInv, Types
  <2>2. x = toClient[s][1] /\ 1 \in 1 .. Len(toClient[s])
    BY <1>1, <2>1, TailShorter DEF Shorter
  <2> QED BY <2>2 DEF CacheInv, NamesInv
<1>3. AllOf(x.objs, s, "apply", inDram)
  BY <1>1, <1>2 DEF AllOf, Told, Kinds
<1>4. inDram' = inDram \cup x.objs /\ x.objs \subseteq known
  BY <1>1, <1>2 DEF Told
<1>5. inDram' \subseteq known
  BY <1>4 DEF CacheInv, Types
<1> QED BY <1>1, <1>3, <1>4, <1>5, ReadingKeeps

(***************************************************************************)
(* The server's two handlers.                                              *)
(***************************************************************************)
LEMMA AnsweringTypes ==
  ASSUME Types, NEW s \in Servers, NEW x, Answering(s, x),
         copies' \in [Objects -> {0, 1}], pollUsed' \in [Servers -> Int],
         connUsed' = connUsed
  PROVE  Types'
<1>1. /\ toServer \in [Servers -> Seq(Asks)] /\ toClient \in [Servers -> Seq(Answers)]
      /\ UNCHANGED <<known, inDram, policy, threshold, asked, work,
                     pollNum, workReg, epollReg>>
  BY DEF Answering, client, counter, Types
<1>2. toServer' \in [Servers -> Seq(Asks)]
  <2>1. toServer[s] \in Seq(Asks) /\ toServer[s] # <<>>
    BY <1>1 DEF Answering
  <2>2. Tail(toServer[s]) \in Seq(Asks)
    BY <2>1, TailShorter
  <2> QED BY <1>1, <2>2 DEF Answering
<1>3. toClient' \in [Servers -> Seq(Answers)]
  <2>1. toClient[s] \in Seq(Answers) /\ x \in Answers
    BY <1>1 DEF Answering
  <2>2. Append(toClient[s], x) \in Seq(Answers)
    BY <2>1, AppendLonger
  <2> QED BY <1>1, <2>2 DEF Answering
<1> QED BY <1>1, <1>2, <1>3 DEF Types

\* The account of a server whose handler adds n to what it has cached.
LEMMA AccountChanges ==
  ASSUME AccountInv, Types, NEW s \in Servers, NEW n \in Int,
         CachedBytes(s) \in Nat, CachedBytes(s)' = CachedBytes(s) + n,
         CachedBytes(s)' <= Max(Quotas),
         \A t \in Servers \ {s} : CachedBytes(t)' = CachedBytes(t),
         pollUsed' = [pollUsed EXCEPT ![s] = @ + n], connUsed' = connUsed
  PROVE  AccountInv'
<1>1. pollUsed \in [Servers -> Int] /\ connUsed \in [Servers -> Int]
  BY DEF Types
<1>2. ASSUME NEW t \in Servers
      PROVE  /\ pollUsed'[t] + connUsed'[t] = CachedBytes(t)'
             /\ CachedBytes(t)' <= Max(Quotas) /\ connUsed'[t] <= 0
  <2>1. /\ pollUsed[t] + connUsed[t] = CachedBytes(t)
        /\ CachedBytes(t) <= Max(Quotas) /\ connUsed[t] <= 0
    BY DEF AccountInv, UsedIsCached, WithinQuota, DramUsed
  <2>2. CASE t = s
    <3>1. pollUsed'[t] = pollUsed[t] + n /\ pollUsed[t] \in Int /\ connUsed[t] \in Int
      BY <1>1, <2>2
    <3> QED BY <2>1, <2>2, <3>1
  <2>3. CASE t # s
    <3>1. pollUsed'[t] = pollUsed[t]
      BY <1>1, <2>3
    <3> QED BY <2>1, <2>3, <3>1
  <2> QED BY <2>2, <2>3
<1> QED BY <1>2 DEF AccountInv, UsedIsCached, WithinQuota, DramUsed

\* What the request at the head of a queue names.
LEMMA HeadDue ==
  ASSUME CacheInv, NEW s \in Servers, toServer[s] # <<>>
  PROVE  /\ Head(toServer[s]).type \in Kinds /\ Head(toServer[s]).objs \in Seq(Objects)
         /\ Due(Head(toServer[s]), s, copies, inDram, known)
<1>1. toServer[s] \in Seq(Asks)
  BY DEF CacheInv, Types
<1>2. /\ Head(toServer[s]) = toServer[s][1] /\ Head(toServer[s]) \in Asks
      /\ 1 \in 1 .. Len(toServer[s])
  BY <1>1, TailShorter DEF Shorter
<1> QED BY <1>2 DEF CacheInv, NamesInv, Asks

LEMMA InSeq ==
  ASSUME NEW S, NEW q \in Seq(S)
  PROVE  /\ ToSet(q) \subseteq S /\ Len(q) \in Nat /\ DOMAIN q = 1 .. Len(q)
         /\ \A o \in ToSet(q) : \E k \in 1 .. Len(q) : o = q[k]
<1>1. Len(q) \in Nat /\ DOMAIN q = 1 .. Len(q)
  BY LenProperties
<1>2. \A k \in 1 .. Len(q) : q[k] \in S
  BY ElementOfSeq
<1> QED BY <1>1, <1>2 DEF ToSet

LEMMA ClearRequestKeeps ==
  ASSUME CacheInv, NEW s \in Servers, ClearRequest(s)
  PROVE  CacheInv'
<1> PICK m, X, x : /\ m = Head(toServer[s]) /\ X = ToSet(m.objs)
                   /\ x = [type |-> "clear", objs |-> X]
  OBVIOUS
<1>1. /\ toServer[s] # <<>> /\ m.type = "clear" /\ connUsed' = connUsed
      /\ copies' = [o \in Objects |->
                      IF o \in X /\ copies[o] > 0 THEN copies[o] - 1 ELSE copies[o]]
      /\ pollUsed' = [pollUsed EXCEPT ![s] = @ - SizeOf(X)]
      /\ toServer' = [toServer EXCEPT ![s] = Tail(@)]
      /\ toClient' = [toClient EXCEPT ![s] = Append(@, x)]
      /\ UNCHANGED <<client, counter>>
  BY DEF ClearRequest
<1>2. m.objs \in Seq(Objects) /\ Due(m, s, copies, inDram, known)
  BY <1>1, HeadDue
<1>3. X \in SUBSET ObjectsOf(s) /\ \A o \in X : o \in inDram /\ copies[o] = 1
  <2>1. /\ X \subseteq Objects
        /\ \A o \in X : \E k \in 1 .. Len(m.objs) : o = m.objs[k]
    BY <1>2, InSeq
  <2>2. \A k \in 1 .. Len(m.objs) : LET o == m.objs[k]
                                   IN  NodeOf[o] = s /\ o \in inDram /\ copies[o] = 1
    BY <1>1, <1>2 DEF Due
  <2> QED BY <2>1, <2>2 DEF ObjectsOf
<1>4. /\ copies \in [Objects -> {0, 1}] /\ pollUsed \in [Servers -> Int]
      /\ X \in SUBSET Objects
  BY <1>3 DEF CacheInv, Types, ObjectsOf
<1>5. /\ copies' \in [Objects -> {0, 1}] /\ \A o \in X : copies'[o] = 0
      /\ \A o \in Objects \ X : copies'[o] = copies[o]
  BY <1>1, <1>3, <1>4
<1>6. Answering(s, x) /\ x.objs = X /\ x.type = "clear"
  BY <1>1, <1>4 DEF Answering, Answers
<1>7. SizeOf(X) \in Nat
  BY <1>4, SizeFacts
<1>8. pollUsed' \in [Servers -> Int]
  BY <1>1, <1>4, <1>7
<1>9. Types'
  BY <1>1, <1>5, <1>6, <1>8, AnsweringTypes DEF CacheInv
<1>10. AllOf(X, s, "clear", inDram) /\ Told(x, s, copies', inDram, known)
  BY <1>3, <1>5, <1>6 DEF AllOf, Told, ObjectsOf, Kinds
<1>11. CounterInv' /\ QuietInv' /\ OnceInv' /\ NamesInv' /\ Agreement'
  BY <1>5, <1>6, <1>9, <1>10, AnsweringKeeps
<1>12. AccountInv'
  <2>1. AccountInv /\ Types
    BY DEF CacheInv
  <2>2. AgreeOn(Objects \ X, copies, copies') /\ MoreBy(X, copies', copies)
    BY <1>3, <1>5 DEF AgreeOn, MoreBy
  <2>3. /\ CachedBytes(s) \in Nat /\ CachedBytes(s)' = CachedBytes(s) - SizeOf(X)
        /\ \A t \in Servers \ {s} : CachedBytes(t)' = CachedBytes(t)
    BY <1>3, <1>5, <2>1, <2>2, AccountMoves
  <2>4. CachedBytes(s) <= Max(Quotas)
    BY <2>1 DEF AccountInv, WithinQuota
  <2> PICK n \in Int : n = - SizeOf(X)
    BY <1>7
  <2>5. CachedBytes(s)' = CachedBytes(s) + n /\ CachedBytes(s)' <= Max(Quotas)
    BY <1>7, <2>3, <2>4, QuotaFacts
  <2>6. pollUsed' = [pollUsed EXCEPT ![s] = @ + n]
    BY <1>1, <1>4, <1>7
  <2> QED BY <1>1, <2>1, <2>3, <2>5, <2>6, AccountChanges
<1> QED BY <1>9, <1>11, <1>12 DEF CacheInv

\* The objects of the first i entries of q that memory is found for.
Granted(q, fails, i) == {q[k] : k \in 1 .. i} \ fails

\* What fits is within the quota, all of it together.
LEMMA FitsWithin ==
  ASSUME Types, NEW s \in Servers, NEW q \in Seq(Objects), NEW fails, NEW quota \in Nat,
         NEW n \in 0 .. Len(q), Fits(s, q, fails, quota, n)
  PROVE  \/ Granted(q, fails, n) = {}
         \/ pollUsed[s] + SizeOf(Granted(q, fails, n)) <= quota
<1>9. PICK used \in Int : used = pollUsed[s]
  BY DEF Types
<1> DEFINE G(i) == Granted(q, fails, i)
           Within(i) == G(i) = {} \/ used + SizeOf(G(i)) <= quota
           S == {i \in Nat : i <= n => Within(i)}
<1>1. Len(q) \in Nat /\ n \in Nat /\ \A k \in 1 .. Len(q) : q[k] \in Objects
  BY LenProperties, ElementOfSeq
<1>2. \A k \in 1 .. n : used + SizeOf(G(k - 1)) + Length[q[k]] <= quota
  BY <1>9 DEF Fits, Granted
<1>3. 0 \in S
  <2>1. {q[k] : k \in 1 .. 0} = {}
    OBVIOUS
  <2>2. G(0) = {}
    BY <2>1 DEF Granted
  <2> QED BY <2>2
<1>4. ASSUME NEW i \in Nat, i \in S PROVE i + 1 \in S
  <2> SUFFICES ASSUME i + 1 <= n PROVE Within(i + 1)
    OBVIOUS
  <2>1. i + 1 \in 1 .. n /\ i + 1 \in 1 .. Len(q) /\ (i + 1) - 1 = i /\ i <= n
    BY <1>1
  <2>2. Within(i)
    BY <1>4, <2>1
  <2>9. PICK o : o = q[i + 1]
    OBVIOUS
  <2>3. o \in Objects /\ Length[o] \in Nat
    BY <1>1, <2>1, <2>9, ConstantsFacts
  <2>4. G(i) \in SUBSET Objects
    <3>1. \A k \in 1 .. i : k \in 1 .. Len(q)
      BY <1>1, <2>1
    <3> QED BY <1>1, <3>1 DEF Granted
  <2>5. G(i + 1) = IF o \in fails THEN G(i) ELSE G(i) \cup {o}
    <3>1. \A k : k \in 1 .. i + 1 <=> k \in 1 .. i \/ k = i + 1
      BY <1>4
    <3>2. {q[k] : k \in 1 .. i + 1} = {q[k] : k \in 1 .. i} \cup {o}
      BY <2>9, <3>1
    <3> QED BY <3>2 DEF Granted
  <2>6. used + SizeOf(G(i)) + Length[o] <= quota
    BY <1>2, <2>1, <2>9
  <2> HIDE DEF G
  <2>7. CASE o \in fails
    <3>1. G(i + 1) = G(i)
      BY <2>5, <2>7
    <3> QED BY <2>2, <3>1
  <2>8. CASE o \notin fails
    <3>1. G(i + 1) = G(i) \cup {o}
      BY <2>5, <2>8
    <3>2. SizeOf(G(i + 1)) <= SizeOf(G(i)) + Length[o]
      BY <2>3, <2>4, <3>1, SizeAddsOne
    <3>3. G(i + 1) \in SUBSET Objects
      BY <2>3, <2>4, <3>1
    <3>4. SizeOf(G(i)) \in Nat /\ SizeOf(G(i + 1)) \in Nat
      BY <2>4, <3>3, SizeFacts
    <3>5. used + SizeOf(G(i + 1)) <= quota
      <4> DEFINE a == SizeOf(G(i))
                 b == SizeOf(G(i + 1))
      <4>1. a \in Nat /\ b \in Nat /\ b <= a + Length[o] /\ used + a + Length[o] <= quota
        BY <2>6, <3>2, <3>4
      <4> HIDE DEF a, b
      <4>2. used + b <= quota
        <5> PICK c : c = Length[o]
          OBVIOUS
        <5>1. used \in Int /\ quota \in Int /\ c \in Nat
          BY <2>3
        <5>2. b <= a + c /\ used + a + c <= quota
          BY <4>1
        <5> QED BY <4>1, <5>1, <5>2
      <4> QED BY <4>2 DEF b
    <3> QED BY <3>5
  <2> QED BY <2>7, <2>8
<1> HIDE DEF S
<1>5. \A i \in Nat : i \in S
  BY <1>3, <1>4, CountUp
<1>6. n \in S
  BY <1>1, <1>5
<1>7. n \in Nat /\ (n <= n => Within(n))
  BY <1>6 DEF S
<1>8. Within(n)
  BY <1>7
<1> QED BY <1>8, <1>9

\* How many objects fit.
Fitting(s, q, fails, quota) == Max({k \in 0 .. Len(q) : Fits(s, q, fails, quota, k)})

LEMMA FitsMost ==
  ASSUME NEW s, NEW q \in Seq(Objects), NEW fails, NEW quota,
         NEW n, n = Fitting(s, q, fails, quota)
  PROVE  n \in 0 .. Len(q) /\ Fits(s, q, fails, quota, n)
<1> DEFINE K == {k \in 0 .. Len(q) : Fits(s, q, fails, quota, k)}
<1>1. Len(q) \in Nat
  BY LenProperties
<1>2. Fits(s, q, fails, quota, 0)
  BY DEF Fits
<1>3. K \in SUBSET (0 .. Len(q)) /\ K # {}
  BY <1>1, <1>2
<1> HIDE DEF K
<1>4. Max(K) \in K
  BY <1>1, <1>3, MaxIs, Zenon
<1>5. n = Max(K)
  BY DEF K, Fitting
<1>6. n \in K
  BY <1>4, <1>5
<1> QED BY <1>6 DEF K

\* What the handler does with an APPLY of q of which n entries fit.
Grants(s, q, fails, n) ==
  /\ copies' = [o \in Objects |->
                  IF o \in Granted(q, fails, n) THEN copies[o] + 1 ELSE copies[o]]
  /\ pollUsed' = [pollUsed EXCEPT ![s] = @ + SizeOf(Granted(q, fails, n))]
  /\ toClient' = [toClient EXCEPT ![s] =
       Append(@, [type |-> "apply", objs |-> Granted(q, fails, n),
                  null |-> {q[k] : k \in 1 .. n} \cap fails])]

LEMMA ApplyRequestKeeps ==
  ASSUME CacheInv, NEW s \in Servers, ApplyRequest(s)
  PROVE  CacheInv'
<1> PICK q : q = Head(toServer[s]).objs
  OBVIOUS
<1>1. /\ toServer[s] # <<>> /\ Head(toServer[s]).type = "apply" /\ connUsed' = connUsed
      /\ toServer' = [toServer EXCEPT ![s] = Tail(@)]
      /\ UNCHANGED <<client, counter>>
  BY DEF ApplyRequest
<1> PICK quota \in Quotas : \E fails : Grants(s, q, fails, Fitting(s, q, fails, quota))
  <2>1. \E quota \in Quotas : \E fails :
           Grants(s, Head(toServer[s]).objs, fails,
                  Fitting(s, Head(toServer[s]).objs, fails, quota))
    BY Zenon DEF ApplyRequest, Grants, Granted, Fitting
  <2> QED BY <2>1
<1>2. PICK fails : Grants(s, q, fails, Fitting(s, q, fails, quota))
  OBVIOUS
<1> PICK n : n = Fitting(s, q, fails, quota)
  OBVIOUS
<1> PICK X : X = Granted(q, fails, n)
  OBVIOUS
<1> PICK N : N = {q[k] : k \in 1 .. n} \cap fails
  OBVIOUS
<1> PICK x : x = [type |-> "apply", objs |-> X, null |-> N]
  OBVIOUS
<1>3. /\ copies' = [o \in Objects |-> IF o \in X THEN copies[o] + 1 ELSE copies[o]]
      /\ pollUsed' = [pollUsed EXCEPT ![s] = @ + SizeOf(X)]
      /\ toClient' = [toClient EXCEPT ![s] = Append(@, x)]
  BY <1>2 DEF Grants
<1>4. q \in Seq(Objects) /\ Due(Head(toServer[s]), s, copies, inDram, known)
  BY <1>1, HeadDue
<1>5. n \in 0 .. Len(q) /\ Fits(s, q, fails, quota, n) /\ Len(q) \in Nat
  BY <1>4, FitsMost, LenProperties
<1>6. \A k \in 1 .. n : /\ q[k] \in ObjectsOf(s) /\ copies[q[k]] = 0
                        /\ q[k] \in known \ inDram
  <2>1. \A k \in 1 .. n : k \in 1 .. Len(q)
    BY <1>5
  <2>2. \A k \in 1 .. Len(q) : q[k] \in Objects
    BY <1>4, ElementOfSeq
  <2> QED BY <1>1, <1>4, <2>1, <2>2 DEF Due, ObjectsOf
<1>7. /\ X \in SUBSET ObjectsOf(s) /\ N \in SUBSET ObjectsOf(s) /\ X \cap N = {}
      /\ \A o \in X \cup N : copies[o] = 0 /\ o \in known \ inDram
  BY <1>6 DEF Granted
<1>8. /\ copies \in [Objects -> {0, 1}] /\ pollUsed \in [Servers -> Int]
      /\ X \in SUBSET Objects /\ N \in SUBSET Objects
  BY <1>7 DEF CacheInv, Types, ObjectsOf
<1>9. /\ copies' \in [Objects -> {0, 1}] /\ \A o \in X : copies'[o] = 1
      /\ \A o \in Objects \ X : copies'[o] = copies[o]
  <2>1. \A o \in X : copies[o] + 1 = 1
    BY <1>7
  <2> QED BY <1>3, <1>8, <2>1
<1>10. Answering(s, x) /\ x.objs = X /\ x.type = "apply" /\ x.null = N
  BY <1>1, <1>3, <1>8 DEF Answering, Answers
<1>11. SizeOf(X) \in Nat
  BY <1>8, SizeFacts
<1>12. pollUsed' \in [Servers -> Int]
  <2>1. pollUsed[s] + SizeOf(X) \in Int
    BY <1>8, <1>11
  <2> QED BY <1>3, <1>8, <2>1
<1>13. Types'
  BY <1>1, <1>9, <1>10, <1>12, AnsweringTypes DEF CacheInv
<1>14. AllOf(X, s, "apply", inDram)
  BY <1>7 DEF AllOf, ObjectsOf, Kinds
<1>15. Told(x, s, copies', inDram, known)
  <2>1. \A o \in N : o \in Objects \ X
    BY <1>7, <1>8
  <2>2. \A o \in X : NodeOf[o] = s /\ copies'[o] = 1 /\ o \in known \ inDram
    BY <1>7, <1>9 DEF ObjectsOf
  <2>3. \A o \in N : NodeOf[o] = s /\ copies'[o] = 0 /\ o \notin inDram
    <3>1. \A o \in N : o \in ObjectsOf(s) /\ copies[o] = 0 /\ o \notin inDram
      BY <1>7
    <3>2. \A o \in N : copies'[o] = copies[o]
      BY <1>9, <2>1
    <3> QED BY <3>1, <3>2 DEF ObjectsOf
  <2> QED BY <1>10, <2>2, <2>3 DEF Told
<1>16. CounterInv' /\ QuietInv' /\ OnceInv' /\ NamesInv' /\ Agreement'
  BY <1>9, <1>10, <1>13, <1>14, <1>15, AnsweringKeeps
<1>17. AccountInv'
  <2>1. AccountInv /\ Types
    BY DEF CacheInv
  <2>2. AgreeOn(Objects \ X, copies, copies') /\ MoreBy(X, copies, copies')
    BY <1>7, <1>9 DEF AgreeOn, MoreBy
  <2>3. /\ CachedBytes(s) \in Nat /\ CachedBytes(s)' = CachedBytes(s) + SizeOf(X)
        /\ \A t \in Servers \ {s} : CachedBytes(t)' = CachedBytes(t)
    BY <1>7, <1>9, <2>1, <2>2, AccountMoves
  <2>4. /\ CachedBytes(s) <= Max(Quotas) /\ connUsed[s] <= 0
        /\ pollUsed[s] + connUsed[s] = CachedBytes(s)
        /\ pollUsed[s] \in Int /\ connUsed[s] \in Int
    BY <2>1 DEF AccountInv, WithinQuota, UsedIsCached, DramUsed, Types
  <2>5. quota \in Nat /\ quota <= Max(Quotas) /\ Max(Quotas) \in Nat
    BY QuotaFacts, BoundsAssumption
  <2>6. X = {} \/ pollUsed[s] + SizeOf(X) <= quota
    BY <1>4, <1>5, <2>1, <2>5, FitsWithin
  <2>7. CachedBytes(s)' <= Max(Quotas)
    <3>1. CASE X = {}
      <4>1. SizeOf(X) = 0
        BY <3>1, SizeEmpty
      <4> QED BY <2>3, <2>4, <2>5, <4>1
    <3>2. CASE pollUsed[s] + SizeOf(X) <= quota
      BY <1>11, <2>3, <2>4, <2>5, <3>2
    <3> QED BY <2>6, <3>1, <3>2, Zenon
  <2> PICK k \in Int : k = SizeOf(X)
    BY <1>11
  <2>8. CachedBytes(s)' = CachedBytes(s) + k
    BY <2>3
  <2>9. pollUsed' = [pollUsed EXCEPT ![s] = @ + k]
    BY <1>3
  <2> QED BY <1>1, <2>1, <2>3, <2>7, <2>8, <2>9, AccountChanges
<1> QED BY <1>13, <1>16, <1>17 DEF CacheInv

(***************************************************************************)
(* The invariant holds, and what follows from it.                          *)
(***************************************************************************)
LEMMA InitHolds == Init => CacheInv
<1> SUFFICES ASSUME Init PROVE CacheInv
  OBVIOUS
<1>1. /\ known = {} /\ inDram = {} /\ work = Idle
      /\ pollNum = 0 /\ workReg = None /\ epollReg = None
      /\ \A s \in Servers : /\ toServer[s] = <<>> /\ toClient[s] = <<>>
                            /\ pollUsed[s] = 0 /\ connUsed[s] = 0
      /\ \A o \in Objects : copies[o] = 0
  BY DEF Init
<1>2. Types
  <2>1. <<>> \in Seq(Asks) /\ <<>> \in Seq(Answers) /\ Idle \in Ops
    BY EmptySeq, OpsAre
  <2> QED BY <2>1, BoundsAssumption DEF Init, Types, None
<1>3. work.at # "poll" /\ work.at # "free"
  BY <1>1 DEF Idle
<1>4. 1 .. Len(<<>>) = {}
  BY EmptySeq
<1>5. CounterInv /\ QuietInv
  BY <1>1, <1>3 DEF CounterInv, QuietInv
<1>6. OnceInv /\ NamesInv
  BY <1>1, <1>3, <1>4 DEF OnceInv, NamesInv, OneEach, Apart
<1>7. Agreement
  <2>1. Agrees(copies, inDram, toClient, work)
    BY <1>1, <1>3, CalmAgrees
  <2> QED BY <1>2, <2>1, AgreementNow
<1>8. AccountInv
  <2>1. ASSUME NEW s \in Servers PROVE CachedBytes(s) = 0
    <3> PICK c : c = copies
      OBVIOUS
    <3>1. BytesOf(c, s) = SumOf(CopyBytes(c), ObjectsOf(s))
      BY BytesIsSum
    <3>2. \A o \in ObjectsOf(s) : CopyBytes(c)[o] = 0
      <4>1. \A o \in ObjectsOf(s) : o \in Objects /\ Length[o] \in Nat
        BY ConstantsFacts DEF ObjectsOf
      <4> QED BY <1>1, <4>1 DEF CopyBytes
    <3>3. IsFiniteSet(ObjectsOf(s)) /\ {} \in SUBSET ObjectsOf(s)
      BY ConstantsFacts
    <3>4. ZeroOff(ObjectsOf(s), {}, CopyBytes(c))
      BY <3>2 DEF ZeroOff
    <3>5. SumOf(CopyBytes(c), ObjectsOf(s)) = SumOf(CopyBytes(c), {})
      BY <3>2, <3>3, <3>4, SumRest
    <3>6. CachedBytes(s) = BytesOf(c, s)
      BY DEF CachedBytes, BytesOf, MapThenSumSet, MapThenFoldSet
    <3> QED BY <3>1, <3>5, <3>6, SumEmpty
  <2> QED BY <1>1, <2>1, QuotaFacts DEF AccountInv, UsedIsCached, WithinQuota, DramUsed
<1> QED BY <1>2, <1>5, <1>6, <1>7, <1>8 DEF CacheInv

LEMMA StutterKeeps ==
  ASSUME CacheInv, UNCHANGED vars
  PROVE  CacheInv'
<1>1. /\ UNCHANGED <<known, inDram, policy, threshold, asked, work>>
      /\ UNCHANGED <<pollNum, workReg, epollReg>> /\ UNCHANGED <<toServer, toClient>>
      /\ UNCHANGED <<copies, pollUsed, connUsed>>
  BY DEF vars, client, counter, channels, server
<1>2. Types'
  BY <1>1 DEF CacheInv, Types
<1>3. UNCHANGED Places /\ UNCHANGED server
  BY <1>1 DEF Places, server
<1>4. QuietInv' /\ OnceInv' /\ NamesInv' /\ Agreement' /\ UnderWay' = UnderWay
  BY <1>2, <1>3, PlacesKept
<1>5. AccountInv'
  BY <1>3, AccountKept DEF CacheInv
<1>6. CounterInv'
  BY <1>1, <1>4 DEF CacheInv, CounterInv
<1> QED BY <1>2, <1>4, <1>5, <1>6 DEF CacheInv

LEMMA StepKeeps ==
  ASSUME ~ RacyPollNum, CacheInv, [Next]_vars
  PROVE  CacheInv'
<1>1. ASSUME NEW o \in Objects, Malloc(o) PROVE CacheInv'
  BY <1>1, MallocKeeps
<1>2. ASSUME NEW o \in Objects, Free(o) PROVE CacheInv'
  BY <1>2, FreeKeeps
<1>3. CASE ServerFree
  BY <1>3, ServerFreeKeeps
<1>4. CASE PollStart
  BY <1>4, PollStartKeeps
<1>5. CASE IncLoad
  BY <1>5, IncLoadKeeps
<1>6. CASE Send
  BY <1>6, SendKeeps
<1>7. CASE PollEnd
  BY <1>7, PollEndKeeps
<1>8. ASSUME NEW s \in Servers, ClearRequest(s) PROVE CacheInv'
  BY <1>8, ClearRequestKeeps
<1>9. ASSUME NEW s \in Servers, ApplyRequest(s) PROVE CacheInv'
  BY <1>9, ApplyRequestKeeps
<1>10. ASSUME NEW s \in Servers, ClearResponse(s) PROVE CacheInv'
  BY <1>10, ClearResponseKeeps
<1>11. ASSUME NEW s \in Servers, ApplyResponse(s) PROVE CacheInv'
  BY <1>11, ApplyResponseKeeps
<1>12. CASE DecStore
  BY <1>12, DecStoreKeeps
<1>13. CASE UNCHANGED vars
  BY <1>13, StutterKeeps
<1> QED BY <1>1, <1>2, <1>3, <1>4, <1>5, <1>6, <1>7, <1>8, <1>9, <1>10, <1>11, <1>12,
           <1>13 DEF Next

LEMMA CacheInvAlways ==
  ASSUME ~ RacyPollNum
  PROVE  Spec => []CacheInv
<1>1. CacheInv /\ [Next]_vars => CacheInv'
  BY StepKeeps
<1> QED BY <1>1, InitHolds, PTL DEF Spec

\* Nothing is freed that is not there: what the poll connection has in use is
\* never below 0, whatever the free requests have taken from the other one.
LEMMA UsedNotNegative ==
  ASSUME CacheInv, NEW s \in Servers
  PROVE  pollUsed[s] \in Nat
<1>1. /\ pollUsed[s] \in Int /\ connUsed[s] \in Int /\ connUsed[s] <= 0
      /\ pollUsed[s] + connUsed[s] = CachedBytes(s)
  BY DEF CacheInv, Types, AccountInv, UsedIsCached, DramUsed
<1>2. CachedBytes(s) \in Nat
  <2> PICK c \in [Objects -> {0, 1}] : c = copies
    BY DEF CacheInv, Types
  <2>1. BytesOf(c, s) \in Nat
    BY BytesType
  <2> QED BY <2>1 DEF CachedBytes, BytesOf, MapThenSumSet, MapThenFoldSet
<1> QED BY <1>1, <1>2

LEMMA InvImpliesTypes == CacheInv => TypeOK
<1> SUFFICES ASSUME CacheInv PROVE TypeOK
  OBVIOUS
<1>1. pollUsed \in [Servers -> Nat]
  BY UsedNotNegative DEF CacheInv, Types
<1>2. copies \in [Objects -> Nat]
  <2>1. copies \in [Objects -> {0, 1}]
    BY DEF CacheInv, Types
  <2>2. \A o \in Objects : copies[o] \in Nat
    BY <2>1
  <2> QED BY <2>1, <2>2
<1> QED BY <1>1, <1>2 DEF CacheInv, Types, TypeOK, Asks, Answers, Kinds

\* The state of the client and the servers keeps its types, and the bytes
\* that a poll connection has in use never fall below zero (TypeOK): a CLEAR
\* takes off the account only what an APPLY had put there.
THEOREM DramTypeOK ==
  ASSUME ~ RacyPollNum
  PROVE  Spec => []TypeOK
BY CacheInvAlways, InvImpliesTypes, PTL

\* The client takes for cached exactly the objects of which the server holds
\* a copy, or an answer about the object is under way (Agreement): no read
\* goes to DRAM that was given back, and no copy is forgotten.
THEOREM DramAgreement ==
  ASSUME ~ RacyPollNum
  PROVE  Spec => []Agreement
<1>1. CacheInv => Agreement
  BY DEF CacheInv
<1> QED BY <1>1, CacheInvAlways, PTL

\* dram_used_size of a server, changed in three handlers on two connections,
\* is always what its copies take (UsedIsCached).
THEOREM DramUsedIsCached ==
  ASSUME ~ RacyPollNum
  PROVE  Spec => []UsedIsCached
<1>1. CacheInv => UsedIsCached
  BY DEF CacheInv, AccountInv
<1> QED BY <1>1, CacheInvAlways, PTL

\* The copies of a server never take more than the largest quota that was in
\* force (WithinQuota), however the quota moves with the connections.
THEOREM DramWithinQuota ==
  ASSUME ~ RacyPollNum
  PROVE  Spec => []WithinQuota
<1>1. CacheInv => WithinQuota
  BY DEF CacheInv, AccountInv
<1> QED BY <1>1, CacheInvAlways, PTL
=============================================================================
