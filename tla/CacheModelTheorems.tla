------------------------- MODULE CacheModelTheorems -------------------------
(***************************************************************************)
(* dhmp_handle_cache_model for lists of every length: what its two scans   *)
(* and its last loop have found when they end.                             *)
(***************************************************************************)
EXTENDS CacheModel, CountingTheorems, SequenceTheorems

\* A list of entries: only that accesses are numbers matters.
Counted(E) == \A x \in E : x.rw \in Int

(***************************************************************************)
(* One scan.                                                               *)
(***************************************************************************)
LEMMA NextCachedFacts ==
  ASSUME NEW es, NEW s \in Nat, NEW e \in Nat, s <= e
  PROVE  /\ NextCached(es, s, e) \in s .. e
         /\ NextCached(es, s, e) = e \/ es[NextCached(es, s, e)].inDram
         /\ \A m \in s .. NextCached(es, s, e) - 1 : ~ es[m].inDram
<1> DEFINE Stops == {i \in s .. e : i = e \/ es[i].inDram}
           i == Min(Stops)
<1>1. e \in Stops /\ Stops \in SUBSET Nat
  OBVIOUS
<1>2. i \in Stops /\ \A x \in Stops : i <= x
  BY <1>1, MinIs
<1>3. \A m \in s .. e : m < i => m \notin Stops
  BY <1>1, <1>2
<1>4. i = NextCached(es, s, e)
  BY DEF NextCached
<1> HIDE DEF i
<1>5. \A m \in s .. i - 1 : ~ es[m].inDram
  BY <1>2, <1>3
<1> QED BY <1>2, <1>4, <1>5

LEMMA NextUncachedFacts ==
  ASSUME NEW es, NEW s \in Nat, NEW e \in Nat, s <= e
  PROVE  /\ NextUncached(es, s, e) \in s .. e
         /\ NextUncached(es, s, e) = s \/ ~ es[NextUncached(es, s, e)].inDram
         /\ \A m \in NextUncached(es, s, e) + 1 .. e : es[m].inDram
<1> DEFINE Stops == {j \in s .. e : j = s \/ ~ es[j].inDram}
           j == Max(Stops)
<1>1. s \in Stops /\ Stops \in SUBSET (0 .. e)
  OBVIOUS
<1>2. j \in Stops /\ \A x \in Stops : x <= j
  BY <1>1, MaxIs
<1>3. \A m \in s .. e : j < m => m \notin Stops
  BY <1>1, <1>2
<1>4. j = NextUncached(es, s, e)
  BY DEF NextUncached
<1> HIDE DEF j
<1>5. \A m \in j + 1 .. e : es[m].inDram
  BY <1>2, <1>3
<1> QED BY <1>2, <1>4, <1>5

(***************************************************************************)
(* The loop of the two scans.  Its invariant: what lies behind the cursors *)
(* has been dealt with, every cached entry below start is paired, and      *)
(* every uncached entry above end.                                         *)
(***************************************************************************)
Loops(es) == [start : 1 .. Len(es) + 1, end : 0 .. Len(es),
              cold : Seq(1 .. Len(es)), hot : Seq(1 .. Len(es))]

Behind(es, l) ==
  /\ l.start <= l.end + 1
  /\ Len(l.cold) = Len(l.hot)
  /\ \A k \in 1 .. Len(l.cold) : l.cold[k] < l.start /\ es[l.cold[k]].inDram
  /\ \A k \in 1 .. Len(l.hot) : l.hot[k] > l.end /\ ~ es[l.hot[k]].inDram

Ordered(l) ==
  /\ \A j, k \in 1 .. Len(l.cold) : j < k => l.cold[j] < l.cold[k]
  /\ \A j, k \in 1 .. Len(l.hot) : j < k => l.hot[j] > l.hot[k]

NoneMissed(es, l) ==
  /\ \A p \in 1 .. Len(es) : p < l.start /\ es[p].inDram =>
       \E k \in 1 .. Len(l.cold) : l.cold[k] = p
  /\ \A p \in 1 .. Len(es) : p > l.end /\ ~ es[p].inDram =>
       \E k \in 1 .. Len(l.hot) : l.hot[k] = p

LoopInv(es, l) ==
  l \in Loops(es) /\ Behind(es, l) /\ Ordered(l) /\ NoneMissed(es, l)

LEMMA FirstTurnInv ==
  ASSUME NEW E, NEW es \in Seq(E)
  PROVE  LoopInv(es, FirstTurn(es))
<1>1. Len(es) \in Nat
  BY LenProperties
<1>2. FirstTurn(es) \in Loops(es)
  BY <1>1 DEF FirstTurn, Loops
<1> QED
  BY <1>1, <1>2 DEF FirstTurn, LoopInv, Behind, Ordered, NoneMissed

LEMMA TurnInv ==
  ASSUME NEW E, NEW es \in Seq(E), NEW l, LoopInv(es, l)
  PROVE  /\ LoopInv(es, Turn(es, l))
         /\ \/ Turn(es, l).start >= Turn(es, l).end
            \/ Turn(es, l).end - Turn(es, l).start < l.end - l.start
<1> DEFINE N == Len(es)
<1>1. N \in Nat
  BY LenProperties
<1>2. /\ l.start \in 1 .. N + 1 /\ l.end \in 0 .. N
      /\ l.cold \in Seq(1 .. N) /\ l.hot \in Seq(1 .. N)
  BY DEF LoopInv, Loops
<1>3. CASE l.start >= l.end
  BY <1>3 DEF Turn
<1>4. CASE ~(l.start >= l.end)
  <2> DEFINE i == NextCached(es, l.start, l.end)
             j == NextUncached(es, i, l.end)
  <2>1. l.start \in Nat /\ l.end \in Nat /\ l.start <= l.end
    BY <1>1, <1>2, <1>4
  <2>2. /\ i \in l.start .. l.end
        /\ i = l.end \/ es[i].inDram
        /\ \A m \in l.start .. i - 1 : ~ es[m].inDram
    BY <2>1, NextCachedFacts
  <2>3. i \in Nat /\ i <= l.end
    BY <2>1, <2>2
  <2>4. /\ j \in i .. l.end
        /\ j = i \/ ~ es[j].inDram
        /\ \A m \in j + 1 .. l.end : es[m].inDram
    BY <2>1, <2>3, NextUncachedFacts
  <2>5. Turn(es, l) = IF i = j
                      THEN [start |-> i, end |-> j, cold |-> l.cold, hot |-> l.hot]
                      ELSE [start |-> i + 1, end |-> j - 1,
                            cold |-> Append(l.cold, i), hot |-> Append(l.hot, j)]
    BY <1>4 DEF Turn
  <2> HIDE DEF i, j
  <2>6. CASE i = j
    <3> DEFINE m == [start |-> i, end |-> j, cold |-> l.cold, hot |-> l.hot]
    <3>1. i \in 1 .. N + 1 /\ i \in 0 .. N
      BY <1>1, <1>2, <1>4, <2>1, <2>2
    <3> HIDE DEF m
    <3>4. m \in Loops(es) /\ m.start = i /\ m.end = i /\ m.cold = l.cold
          /\ m.hot = l.hot
      BY <1>2, <2>6, <3>1 DEF Loops, m
    <3>5. Behind(es, m)
      <4>1. \A k \in 1 .. Len(l.cold) : l.cold[k] \in 1 .. N
        BY <1>2, ElementOfSeq
      <4>2. \A k \in 1 .. Len(l.hot) : l.hot[k] \in 1 .. N
        BY <1>2, ElementOfSeq
      <4>3. \A k \in 1 .. Len(l.cold) : l.cold[k] < i /\ es[l.cold[k]].inDram
        <5>1. ASSUME NEW k \in 1 .. Len(l.cold)
              PROVE  l.cold[k] < l.start /\ es[l.cold[k]].inDram
          BY DEF LoopInv, Behind
        <5>2. \A k \in 1 .. Len(l.cold) : l.cold[k] < i
          BY <1>2, <2>2, <4>1, <5>1
        <5> QED BY <5>1, <5>2
      <4>4. \A k \in 1 .. Len(l.hot) : l.hot[k] > i /\ ~ es[l.hot[k]].inDram
        <5>1. ASSUME NEW k \in 1 .. Len(l.hot)
              PROVE  l.hot[k] > l.end /\ ~ es[l.hot[k]].inDram
          BY DEF LoopInv, Behind
        <5>2. \A k \in 1 .. Len(l.hot) : l.hot[k] > i
          BY <1>2, <2>2, <4>2, <5>1
        <5> QED BY <5>1, <5>2
      <4>5. i <= i + 1 /\ Len(l.cold) = Len(l.hot)
        BY <2>3 DEF LoopInv, Behind
      <4> QED BY <3>4, <4>3, <4>4, <4>5 DEF Behind
    <3>6. Ordered(m)
      BY <3>4 DEF LoopInv, Ordered
    <3>3. NoneMissed(es, m)
      <4>1. \A p \in 1 .. N : p < i /\ es[p].inDram => p < l.start
        BY <1>1, <1>2, <2>2
      <4>2. \A p \in 1 .. N : p > i /\ ~ es[p].inDram => p > l.end
        BY <1>1, <1>2, <2>2, <2>4, <2>6
      <4> QED BY <3>4, <4>1, <4>2 DEF LoopInv, NoneMissed
    <3> QED BY <2>3, <2>5, <2>6, <3>3, <3>4, <3>5, <3>6 DEF LoopInv, m
  <2>7. CASE i # j
    <3> DEFINE m == [start |-> i + 1, end |-> j - 1,
                     cold |-> Append(l.cold, i), hot |-> Append(l.hot, j)]
    <3>1. i < j /\ es[i].inDram /\ ~ es[j].inDram /\ i \in 1 .. N /\ j \in 1 .. N
      BY <1>1, <1>2, <2>1, <2>2, <2>4, <2>7
    <3>2. /\ Append(l.cold, i) \in Seq(1 .. N)
          /\ Len(Append(l.cold, i)) = Len(l.cold) + 1
          /\ \A k \in 1 .. Len(l.cold) : Append(l.cold, i)[k] = l.cold[k]
          /\ Append(l.cold, i)[Len(l.cold) + 1] = i
      BY <1>2, <3>1, AppendProperties
    <3>3. /\ Append(l.hot, j) \in Seq(1 .. N)
          /\ Len(Append(l.hot, j)) = Len(l.hot) + 1
          /\ \A k \in 1 .. Len(l.hot) : Append(l.hot, j)[k] = l.hot[k]
          /\ Append(l.hot, j)[Len(l.hot) + 1] = j
      BY <1>2, <3>1, AppendProperties
    <3>4. Len(l.cold) \in Nat /\ Len(l.hot) \in Nat
      BY <1>2, LenProperties
    <3>5. m \in Loops(es) /\ m.start = i + 1 /\ m.end = j - 1
          /\ m.cold = Append(l.cold, i) /\ m.hot = Append(l.hot, j)
      BY <1>1, <1>2, <2>1, <2>2, <3>1, <3>2, <3>3 DEF Loops
    <3> HIDE DEF m
    <3>6. \A k \in 1 .. Len(l.cold) : l.cold[k] \in 1 .. N /\ l.cold[k] < l.start
      BY <1>2, ElementOfSeq DEF LoopInv, Behind
    <3>7. \A k \in 1 .. Len(l.hot) : l.hot[k] \in 1 .. N /\ l.hot[k] > l.end
      BY <1>2, ElementOfSeq DEF LoopInv, Behind
    <3>11. \A k \in 1 .. Len(l.cold) : l.cold[k] < i /\ l.cold[k] < i + 1
      BY <1>2, <2>1, <2>2, <3>1, <3>6
    <3>12. \A k \in 1 .. Len(l.hot) : l.hot[k] > j /\ l.hot[k] > j - 1
      BY <1>2, <2>1, <2>4, <3>1, <3>7
    <3>8. Behind(es, m)
      <4>1. \A k \in 1 .. Len(m.cold) : m.cold[k] < m.start /\ es[m.cold[k]].inDram
        <5> SUFFICES ASSUME NEW k \in 1 .. Len(l.cold) + 1
                     PROVE  m.cold[k] < m.start /\ es[m.cold[k]].inDram
          BY <3>2, <3>5
        <5>1. CASE k = Len(l.cold) + 1
          BY <2>3, <3>1, <3>2, <3>5, <5>1
        <5>2. CASE k # Len(l.cold) + 1
          <6>1. k \in 1 .. Len(l.cold)
            BY <3>4, <5>2
          <6>2. m.cold[k] = l.cold[k] /\ es[l.cold[k]].inDram
            BY <3>2, <3>5, <6>1 DEF LoopInv, Behind
          <6> QED BY <3>5, <3>11, <6>1, <6>2
        <5> QED BY <5>1, <5>2
      <4>2. \A k \in 1 .. Len(m.hot) : m.hot[k] > m.end /\ ~ es[m.hot[k]].inDram
        <5> SUFFICES ASSUME NEW k \in 1 .. Len(l.hot) + 1
                     PROVE  m.hot[k] > m.end /\ ~ es[m.hot[k]].inDram
          BY <3>3, <3>5
        <5>1. CASE k = Len(l.hot) + 1
          BY <2>3, <3>1, <3>3, <3>5, <5>1
        <5>2. CASE k # Len(l.hot) + 1
          <6>1. k \in 1 .. Len(l.hot)
            BY <3>4, <5>2
          <6>2. m.hot[k] = l.hot[k] /\ ~ es[l.hot[k]].inDram
            BY <3>3, <3>5, <6>1 DEF LoopInv, Behind
          <6> QED BY <3>5, <3>12, <6>1, <6>2
        <5> QED BY <5>1, <5>2
      <4>3. m.start <= m.end + 1 /\ Len(m.cold) = Len(m.hot)
        BY <2>3, <3>1, <3>2, <3>3, <3>5 DEF LoopInv, Behind
      <4> QED BY <4>1, <4>2, <4>3 DEF Behind
    <3>9. Ordered(m)
      <4>1. ASSUME NEW k \in 1 .. Len(l.cold) + 1, NEW n \in 1 .. Len(l.cold) + 1,
                   k < n
            PROVE  m.cold[k] < m.cold[n]
        <5>1. k \in 1 .. Len(l.cold)
          BY <3>4, <4>1
        <5>2. CASE n = Len(l.cold) + 1
          <6>1. m.cold[k] = l.cold[k] /\ m.cold[n] = i
            BY <3>2, <3>5, <5>1, <5>2
          <6> QED BY <3>11, <5>1, <6>1
        <5>3. CASE n # Len(l.cold) + 1
          <6>1. n \in 1 .. Len(l.cold)
            BY <3>4, <5>3
          <6> QED BY <3>2, <3>5, <4>1, <5>1, <6>1 DEF LoopInv, Ordered
        <5> QED BY <5>2, <5>3
      <4>2. ASSUME NEW k \in 1 .. Len(l.hot) + 1, NEW n \in 1 .. Len(l.hot) + 1,
                   k < n
            PROVE  m.hot[k] > m.hot[n]
        <5>1. k \in 1 .. Len(l.hot)
          BY <3>4, <4>2
        <5>2. CASE n = Len(l.hot) + 1
          <6>1. m.hot[k] = l.hot[k] /\ m.hot[n] = j
            BY <3>3, <3>5, <5>1, <5>2
          <6> QED BY <3>12, <5>1, <6>1
        <5>3. CASE n # Len(l.hot) + 1
          <6>1. n \in 1 .. Len(l.hot)
            BY <3>4, <5>3
          <6> QED BY <3>3, <3>5, <4>2, <5>1, <6>1 DEF LoopInv, Ordered
        <5> QED BY <5>2, <5>3
      <4> QED BY <3>2, <3>3, <3>5, <4>1, <4>2 DEF Ordered
    <3>10. NoneMissed(es, m)
      <4>1. ASSUME NEW p \in 1 .. N, p < m.start, es[p].inDram
            PROVE  \E k \in 1 .. Len(m.cold) : m.cold[k] = p
        <5>1. CASE p = i
          BY <3>2, <3>4, <3>5, <5>1
        <5>2. CASE p # i
          <6>1. p < l.start
            BY <1>2, <2>1, <2>2, <3>5, <4>1, <5>2
          <6>2. PICK k \in 1 .. Len(l.cold) : l.cold[k] = p
            BY <4>1, <6>1 DEF LoopInv, NoneMissed
          <6>3. k \in 1 .. Len(m.cold) /\ m.cold[k] = p
            BY <3>2, <3>4, <3>5, <6>2
          <6> QED BY <6>3
        <5> QED BY <5>1, <5>2
      <4>2. ASSUME NEW p \in 1 .. N, p > m.end, ~ es[p].inDram
            PROVE  \E k \in 1 .. Len(m.hot) : m.hot[k] = p
        <5>1. CASE p = j
          BY <3>3, <3>4, <3>5, <5>1
        <5>2. CASE p # j
          <6>1. p > l.end
            BY <1>2, <2>1, <2>3, <2>4, <3>5, <4>2, <5>2
          <6>2. PICK k \in 1 .. Len(l.hot) : l.hot[k] = p
            BY <4>2, <6>1 DEF LoopInv, NoneMissed
          <6>3. k \in 1 .. Len(m.hot) /\ m.hot[k] = p
            BY <3>3, <3>4, <3>5, <6>2
          <6> QED BY <6>3
        <5> QED BY <5>1, <5>2
      <4> QED BY <4>1, <4>2 DEF NoneMissed
    <3>13. m.end - m.start < l.end - l.start
      <4>1. /\ l.start \in Int /\ l.end \in Int /\ i \in Int /\ j \in Int
            /\ l.start <= i /\ j <= l.end
        BY <1>2, <2>1, <2>2, <2>4
      <4>2. m.start = i + 1 /\ m.end = j - 1
        BY <3>5
      <4> QED BY <4>1, <4>2
    <3> QED BY <2>5, <2>7, <3>5, <3>8, <3>9, <3>10, <3>13 DEF LoopInv, m
  <2> QED BY <2>6, <2>7
<1> QED BY <1>3, <1>4

\* The turns of the loop, as the recursive function Scan defines.
Turns(t, es, n) ==
  t = [k \in 0 .. n |->
         IF k = 0 THEN FirstTurn(es) ELSE Turn(es, t[k - 1])]

LEMMA TurnsExist == \A es, n : n \in Nat => \E t : Turns(t, es, n)
<1> SUFFICES ASSUME NEW es PROVE \A n \in Nat : \E t : Turns(t, es, n)
  OBVIOUS
<1> DEFINE Good == {n \in Nat : \E t : Turns(t, es, n)}
<1>1. 0 \in Good
  <2> DEFINE t == [k \in 0 .. 0 |-> FirstTurn(es)]
  <2>1. t = [k \in 0 .. 0 |->
               IF k = 0 THEN FirstTurn(es) ELSE Turn(es, t[k - 1])]
    OBVIOUS
  <2> QED BY <2>1 DEF Turns
<1>2. ASSUME NEW n \in Nat, n \in Good PROVE n + 1 \in Good
  <2>1. PICK t : Turns(t, es, n)
    BY <1>2
  <2> DEFINE u == [k \in 0 .. n + 1 |->
                     IF k = 0 THEN FirstTurn(es) ELSE Turn(es, t[k - 1])]
  <2>2. \A k \in 0 .. n : u[k] = t[k]
    BY <2>1 DEF Turns
  <2>3. \A k \in 0 .. n + 1 : k # 0 => k - 1 \in 0 .. n
    OBVIOUS
  <2>4. u = [k \in 0 .. n + 1 |->
               IF k = 0 THEN FirstTurn(es) ELSE Turn(es, u[k - 1])]
    BY <2>2, <2>3
  <2>5. Turns(u, es, n + 1)
    BY <2>4 DEF Turns
  <2> HIDE DEF u
  <2> QED BY <2>5
<1> HIDE DEF Good
<1>3. \A n \in Nat : n \in Good
  BY <1>1, <1>2, CountUp
<1> QED BY <1>3 DEF Good

\* When the loop ends, start and end have met or passed each other.
LEMMA ScanFacts ==
  ASSUME NEW E, NEW es \in Seq(E)
  PROVE  LoopInv(es, Scan(es)) /\ Scan(es).start >= Scan(es).end
<1> DEFINE N == Len(es)
           t == CHOOSE u : Turns(u, es, N)
           Good == {n \in Nat : n <= N =>
                      /\ LoopInv(es, t[n])
                      /\ \/ t[n].start >= t[n].end
                         \/ t[n].end - t[n].start <= N - 1 - n}
<1>1. N \in Nat
  BY LenProperties
<1>2. Turns(t, es, N)
  BY <1>1, TurnsExist
<1>3. Scan(es) = t[N]
  BY DEF Scan, Turns
<1> HIDE DEF t
<1>4. t[0] = FirstTurn(es) /\ \A n \in Nat : n + 1 <= N => t[n + 1] = Turn(es, t[n])
  BY <1>1, <1>2 DEF Turns
<1>5. 0 \in Good
  <2>1. t[0].start = 1 /\ t[0].end = N
    BY <1>4 DEF FirstTurn
  <2> QED BY <1>1, <1>4, <2>1, FirstTurnInv
<1>6. ASSUME NEW n \in Nat, n \in Good PROVE n + 1 \in Good
  <2> SUFFICES ASSUME n + 1 <= N
               PROVE  /\ LoopInv(es, t[n + 1])
                      /\ \/ t[n + 1].start >= t[n + 1].end
                         \/ t[n + 1].end - t[n + 1].start <= N - 1 - (n + 1)
    BY <1>6
  <2>1. /\ LoopInv(es, t[n])
        /\ \/ t[n].start >= t[n].end
           \/ t[n].end - t[n].start <= N - 1 - n
    BY <1>1, <1>6
  <2>2. t[n + 1] = Turn(es, t[n])
    BY <1>4
  <2>3. /\ LoopInv(es, t[n + 1])
        /\ \/ t[n + 1].start >= t[n + 1].end
           \/ t[n + 1].end - t[n + 1].start < t[n].end - t[n].start
    BY <2>1, <2>2, TurnInv
  <2>4. /\ t[n].start \in Int /\ t[n].end \in Int
        /\ t[n + 1].start \in Int /\ t[n + 1].end \in Int
    BY <1>1, <2>1, <2>3 DEF LoopInv, Loops
  <2>5. CASE t[n].start >= t[n].end
    BY <2>1, <2>2, <2>5 DEF Turn
  <2>6. CASE t[n].end - t[n].start <= N - 1 - n
    BY <1>1, <2>3, <2>4, <2>6
  <2> QED BY <2>1, <2>5, <2>6
<1> HIDE DEF Good
<1>7. \A n \in Nat : n \in Good
  BY <1>5, <1>6, CountUp
<1>8. /\ LoopInv(es, t[N])
      /\ t[N].start >= t[N].end \/ t[N].end - t[N].start <= N - 1 - N
  BY <1>1, <1>7 DEF Good
<1>9. t[N].start \in Int /\ t[N].end \in Int
  BY <1>1, <1>8 DEF LoopInv, Loops
<1> QED BY <1>1, <1>3, <1>8, <1>9

(***************************************************************************)
(* The last loop.                                                          *)
(***************************************************************************)
AndBelow(es, least, i, rest) ==
  IF i = 0 \/ es[i].rw < least THEN <<>>
  ELSE (IF es[i].inDram THEN <<>> ELSE <<i>>) \o rest

Belows(b, es, least, n) ==
  b = [i \in 0 .. n |-> AndBelow(es, least, i, b[i - 1])]

LEMMA BelowsExist ==
  \A es, least, n : n \in Nat => \E b : Belows(b, es, least, n)
<1> SUFFICES ASSUME NEW es, NEW least
             PROVE  \A n \in Nat : \E b : Belows(b, es, least, n)
  OBVIOUS
<1> DEFINE Good == {n \in Nat : \E b : Belows(b, es, least, n)}
<1>1. 0 \in Good
  <2> DEFINE b == [i \in 0 .. 0 |-> <<>>]
  <2>1. b = [i \in 0 .. 0 |-> AndBelow(es, least, i, b[i - 1])]
    BY DEF AndBelow
  <2>2. Belows(b, es, least, 0)
    BY <2>1 DEF Belows
  <2> HIDE DEF b
  <2> QED BY <2>2
<1>2. ASSUME NEW n \in Nat, n \in Good PROVE n + 1 \in Good
  <2>1. PICK b : Belows(b, es, least, n)
    BY <1>2
  <2> DEFINE c == [i \in 0 .. n + 1 |-> AndBelow(es, least, i, b[i - 1])]
  <2>2. \A i \in 0 .. n : c[i] = b[i]
    BY <2>1 DEF Belows
  <2>3. \A i \in 0 .. n + 1 : i # 0 => i - 1 \in 0 .. n
    OBVIOUS
  <2>4. \A i \in 0 .. n + 1 :
          AndBelow(es, least, i, b[i - 1]) = AndBelow(es, least, i, c[i - 1])
    BY <2>2, <2>3 DEF AndBelow
  <2>5. c = [i \in 0 .. n + 1 |-> AndBelow(es, least, i, c[i - 1])]
    BY <2>4
  <2>6. Belows(c, es, least, n + 1)
    BY <2>5 DEF Belows
  <2> HIDE DEF c
  <2> QED BY <2>6
<1> HIDE DEF Good
<1>3. \A n \in Nat : n \in Good
  BY <1>1, <1>2, CountUp
<1> QED BY <1>3 DEF Good

\* What the loop has found below an entry.
BelowInv(es, least, i, ps) ==
  /\ ps \in Seq(1 .. i)
  /\ \A k \in 1 .. Len(ps) : ~ es[ps[k]].inDram /\ es[ps[k]].rw >= least
  /\ \A j, k \in 1 .. Len(ps) : j < k => ps[j] > ps[k]
  /\ \A p \in 1 .. i : ~ es[p].inDram /\ es[p].rw >= least =>
       \E k \in 1 .. Len(ps) : ps[k] = p

LEMMA BelowFacts ==
  ASSUME NEW E, Counted(E), NEW es \in Seq(E), Sorted(es), NEW least \in Int,
         NEW start \in 1 .. Len(es) + 1
  PROVE  BelowInv(es, least, start - 1, BelowStart(es, start, least))
<1> DEFINE N == Len(es)
           b == CHOOSE c : Belows(c, es, least, N)
           Good == {i \in Nat : i <= N => BelowInv(es, least, i, b[i])}
<1>1. N \in Nat /\ DOMAIN es = 1 .. N
  BY LenProperties
<1>2. Belows(b, es, least, N)
  BY <1>1, BelowsExist
<1>3. BelowStart(es, start, least) = b[start - 1]
  BY DEF BelowStart, Belows, AndBelow
<1> HIDE DEF b
<1>4. \A i \in 1 .. N : es[i].rw \in Int
  BY <1>1, ElementOfSeq DEF Counted
<1>5. 0 \in Good
  <2>1. b[0] = <<>>
    BY <1>1, <1>2 DEF Belows, AndBelow
  <2>2. <<>> \in Seq(1 .. 0) /\ Len(<<>>) = 0
    BY EmptySeq
  <2>3. BelowInv(es, least, 0, <<>>)
    BY <2>2 DEF BelowInv
  <2> QED BY <1>1, <2>1, <2>3
<1>6. ASSUME NEW n \in Nat, n \in Good PROVE n + 1 \in Good
  <2> DEFINE i == n + 1
  <2> SUFFICES ASSUME i <= N PROVE BelowInv(es, least, i, b[i])
    OBVIOUS
  <2>1. BelowInv(es, least, n, b[n]) /\ i \in 1 .. N /\ i - 1 = n
    BY <1>1, <1>6
  <2>2. b[i] = IF es[i].rw < least THEN <<>>
               ELSE (IF es[i].inDram THEN <<>> ELSE <<i>>) \o b[n]
    <3>1. i \in 0 .. N /\ i # 0
      BY <1>1, <2>1
    <3>2. b[i] = AndBelow(es, least, i, b[i - 1])
      BY <1>2, <3>1 DEF Belows
    <3> QED BY <2>1, <3>1, <3>2 DEF AndBelow
  <2>3. \A p \in 1 .. i : es[p].rw <= es[i].rw /\ es[p].rw \in Int
    BY <1>1, <1>4, <2>1 DEF Sorted
  <2>4. b[n] \in Seq(1 .. i) /\ b[n] \in Seq(1 .. n) /\ Len(b[n]) \in Nat
    <3>1. b[n] \in Seq(1 .. n)
      BY <2>1 DEF BelowInv
    <3> QED BY <3>1, SeqMonotonic, LenProperties
  <2> HIDE DEF i
  <2>5. CASE es[i].rw < least
    <3>1. b[i] = <<>>
      BY <2>2, <2>5
    <3>2. \A p \in 1 .. i : ~(es[p].rw >= least)
      BY <2>1, <2>3, <2>5, <1>4
    <3> QED BY <3>1, <3>2 DEF BelowInv
  <2>6. CASE ~(es[i].rw < least) /\ es[i].inDram
    <3>1. b[i] = b[n]
      BY <2>2, <2>4, <2>6, ConcatEmptySeq
    <3>2. \A p \in 1 .. i : p = i \/ p \in 1 .. n
      BY <2>1
    <3>3. ASSUME NEW p \in 1 .. i, ~ es[p].inDram, es[p].rw >= least
          PROVE  \E k \in 1 .. Len(b[n]) : b[n][k] = p
      BY <2>1, <2>6, <3>2, <3>3 DEF BelowInv
    <3>4. BelowInv(es, least, i, b[n])
      BY <2>1, <2>4, <3>3 DEF BelowInv
    <3> QED BY <3>1, <3>4
  <2>7. CASE ~(es[i].rw < least) /\ ~ es[i].inDram
    <3> DEFINE s == b[n]
               t == b[i]
    <3>1. t = <<i>> \o s
      BY <2>2, <2>7
    <3>2. /\ t \in Seq(1 .. i)
          /\ Len(t) = Len(s) + 1
          /\ t[1] = i
          /\ \A k \in 1 .. Len(s) : t[k + 1] = s[k]
      <4>1. <<i>> \in Seq(1 .. i) /\ Len(<<i>>) = 1 /\ <<i>>[1] = i
        BY <2>1
      <4>2. /\ <<i>> \o s \in Seq(1 .. i)
            /\ Len(<<i>> \o s) = 1 + Len(s)
            /\ \A k \in 1 .. 1 + Len(s) :
                 (<<i>> \o s)[k] = IF k <= 1 THEN <<i>>[k] ELSE s[k - 1]
        BY <2>4, <4>1, ConcatProperties
      <4> QED BY <2>4, <3>1, <4>1, <4>2
    <3> HIDE DEF s, t
    <3>3. /\ s \in Seq(1 .. n) /\ Len(s) \in Nat
          /\ \A k \in 1 .. Len(s) : s[k] \in 1 .. n
          /\ BelowInv(es, least, n, s)
      BY <2>1, <2>4, ElementOfSeq DEF s
    <3>4. \A k \in 1 .. Len(t) : k = 1 \/ (k - 1 \in 1 .. Len(s) /\ t[k] = s[k - 1])
      <4> SUFFICES ASSUME NEW k \in 1 .. Len(t), k # 1
                   PROVE  k - 1 \in 1 .. Len(s) /\ t[k] = s[k - 1]
        OBVIOUS
      <4>1. k - 1 \in 1 .. Len(s) /\ (k - 1) + 1 = k
        BY <3>2, <3>3
      <4> QED BY <3>2, <4>1
    <3>5. \A k \in 1 .. Len(t) : ~ es[t[k]].inDram /\ es[t[k]].rw >= least
      <4>1. es[i].rw >= least
        BY <1>4, <2>1, <2>7
      <4> SUFFICES ASSUME NEW k \in 1 .. Len(t)
                   PROVE  ~ es[t[k]].inDram /\ es[t[k]].rw >= least
        OBVIOUS
      <4>2. CASE k = 1
        BY <2>7, <3>2, <4>1, <4>2
      <4>3. CASE k # 1
        <5>1. k - 1 \in 1 .. Len(s) /\ t[k] = s[k - 1]
          BY <3>4, <4>3
        <5> QED BY <3>3, <5>1 DEF BelowInv
      <4> QED BY <4>2, <4>3
    <3>6. ASSUME NEW j \in 1 .. Len(t), NEW k \in 1 .. Len(t), j < k
          PROVE  t[j] > t[k]
      <4>1. k - 1 \in 1 .. Len(s) /\ t[k] = s[k - 1]
        BY <3>4, <3>6
      <4>2. CASE j = 1
        <5>1. t[j] = i /\ s[k - 1] \in 1 .. n
          BY <3>2, <3>3, <4>1, <4>2
        <5>2. \A u \in 1 .. n : i > u
          BY <2>1
        <5> QED BY <4>1, <5>1, <5>2
      <4>3. CASE j # 1
        <5>1. j - 1 \in 1 .. Len(s) /\ t[j] = s[j - 1] /\ j - 1 < k - 1
          BY <3>4, <3>6, <4>3
        <5> QED BY <3>3, <4>1, <5>1 DEF BelowInv
      <4> QED BY <4>2, <4>3
    <3>7. ASSUME NEW p \in 1 .. i, ~ es[p].inDram, es[p].rw >= least
          PROVE  \E k \in 1 .. Len(t) : t[k] = p
      <4>1. CASE p = i
        BY <3>2, <3>3, <4>1
      <4>2. CASE p # i
        <5>1. p \in 1 .. n
          BY <2>1, <4>2
        <5>2. PICK k \in 1 .. Len(s) : s[k] = p
          BY <3>3, <3>7, <5>1 DEF BelowInv
        <5>3. k + 1 \in 1 .. Len(t) /\ t[k + 1] = p
          BY <3>2, <3>3, <5>2
        <5> QED BY <5>3
      <4> QED BY <4>1, <4>2
    <3>8. BelowInv(es, least, i, t)
      BY <3>2, <3>5, <3>6, <3>7 DEF BelowInv
    <3> QED BY <3>8 DEF t
  <2> QED BY <2>5, <2>6, <2>7
<1> HIDE DEF Good
<1>7. \A i \in Nat : i \in Good
  BY <1>5, <1>6, CountUp
<1>8. start - 1 \in Nat /\ start - 1 <= N
  BY <1>1
<1>9. BelowInv(es, least, start - 1, b[start - 1])
  BY <1>7, <1>8 DEF Good
<1> QED BY <1>3, <1>9

(***************************************************************************)
(* What the function returns.  c and h are the positions of cold_nvm and   *)
(* hot_nvm, s is where the scans met: a cached entry that stays is not     *)
(* below s, an uncached one that is left out is at s.                      *)
(***************************************************************************)
ColdAt(es) == Scan(es).cold
HotAt(es, least) == Scan(es).hot \o BelowStart(es, Scan(es).start, least)

Positions(es, c, h) == c \in Seq(1 .. Len(es)) /\ h \in Seq(1 .. Len(es))

Paired(es, c, h) ==
  /\ Len(c) <= Len(h)
  /\ \A k \in 1 .. Len(c) : es[c[k]].inDram /\ c[k] < h[k]
  /\ \A k \in 1 .. Len(h) : ~ es[h[k]].inDram

EachOnce(c, h) ==
  /\ \A j, k \in 1 .. Len(c) : j # k => c[j] # c[k]
  /\ \A j, k \in 1 .. Len(h) : j # k => h[j] # h[k]

LeftAt(es, least, c, h, s) ==
  /\ \A p \in 1 .. Len(es) : es[p].inDram =>
       p >= s \/ \E k \in 1 .. Len(c) : c[k] = p
  /\ \A p \in 1 .. Len(es) : ~ es[p].inDram /\ es[p].rw >= least =>
       p = s \/ \E k \in 1 .. Len(h) : h[k] = p

LEMMA PickFacts ==
  ASSUME NEW E, Counted(E), NEW es \in Seq(E), Sorted(es), NEW least \in Int
  PROVE  /\ Positions(es, ColdAt(es), HotAt(es, least))
         /\ Paired(es, ColdAt(es), HotAt(es, least))
         /\ EachOnce(ColdAt(es), HotAt(es, least))
         /\ \E s \in Int : LeftAt(es, least, ColdAt(es), HotAt(es, least), s)
<1> DEFINE N == Len(es)
           l == Scan(es)
           s == l.start
           c == l.cold
           g == l.hot
           b == BelowStart(es, s, least)
           h == g \o b
<1>1. N \in Nat
  BY LenProperties
<1>2. LoopInv(es, l) /\ l.start >= l.end
  BY ScanFacts
<1> HIDE DEF l
<1>3. /\ s \in 1 .. N + 1 /\ l.end \in 0 .. N
      /\ c \in Seq(1 .. N) /\ g \in Seq(1 .. N)
  BY <1>2 DEF LoopInv, Loops
<1>4. BelowInv(es, least, s - 1, b)
  BY <1>3, BelowFacts
<1>5. c = ColdAt(es) /\ h = HotAt(es, least)
  BY DEF ColdAt, HotAt, l
<1> HIDE DEF b
<1>6. b \in Seq(1 .. N)
  <2>1. b \in Seq(1 .. s - 1)
    BY <1>4 DEF BelowInv
  <2>2. 1 .. s - 1 \subseteq 1 .. N
    BY <1>1, <1>3
  <2> QED BY <2>1, <2>2, SeqMonotonic
<1>7. Len(c) \in Nat /\ Len(g) \in Nat /\ Len(b) \in Nat
  BY <1>3, <1>6, LenProperties
<1>8. /\ h \in Seq(1 .. N)
      /\ Len(h) = Len(g) + Len(b)
      /\ \A k \in 1 .. Len(g) + Len(b) :
           h[k] = IF k <= Len(g) THEN g[k] ELSE b[k - Len(g)]
  BY <1>3, <1>6, ConcatProperties
<1> HIDE DEF h, c, g
<1>9. /\ \A k \in 1 .. Len(g) : h[k] = g[k]
      /\ \A k \in 1 .. Len(b) : Len(g) + k \in 1 .. Len(h) /\ h[Len(g) + k] = b[k]
      /\ \A k \in 1 .. Len(h) : k \in 1 .. Len(g) \/ k - Len(g) \in 1 .. Len(b)
      /\ \A k \in 1 .. Len(h) : k \notin 1 .. Len(g) => h[k] = b[k - Len(g)]
  <2>1. ASSUME NEW k \in 1 .. Len(g) PROVE h[k] = g[k]
    BY <1>7, <1>8
  <2>2. ASSUME NEW k \in 1 .. Len(b)
        PROVE  Len(g) + k \in 1 .. Len(h) /\ h[Len(g) + k] = b[k]
    <3> DEFINE m == Len(g) + k
    <3>1. m \in 1 .. Len(g) + Len(b) /\ ~(m <= Len(g)) /\ m - Len(g) = k
      BY <1>7
    <3> HIDE DEF m
    <3>2. h[m] = b[m - Len(g)]
      BY <1>8, <3>1
    <3> QED BY <1>8, <3>1, <3>2 DEF m
  <2>3. ASSUME NEW k \in 1 .. Len(h)
        PROVE  /\ k \in 1 .. Len(g) \/ k - Len(g) \in 1 .. Len(b)
               /\ k \notin 1 .. Len(g) => h[k] = b[k - Len(g)]
    BY <1>7, <1>8
  <2> QED BY <2>1, <2>2, <2>3
<1>10. /\ \A k \in 1 .. Len(g) : g[k] \in 1 .. N /\ g[k] > l.end
       /\ \A k \in 1 .. Len(b) : b[k] \in 1 .. s - 1
       /\ \A k \in 1 .. Len(c) : c[k] \in 1 .. s - 1
  <2>1. \A k \in 1 .. Len(g) : g[k] \in 1 .. N
    BY <1>3, ElementOfSeq
  <2>2. \A k \in 1 .. Len(c) : c[k] \in 1 .. N
    BY <1>3, ElementOfSeq
  <2>3. \A k \in 1 .. Len(b) : b[k] \in 1 .. s - 1
    BY <1>4, ElementOfSeq DEF BelowInv
  <2>4. \A k \in 1 .. Len(g) : g[k] > l.end
    BY <1>2 DEF LoopInv, Behind, g
  <2>5. \A k \in 1 .. Len(c) : c[k] < s
    BY <1>2 DEF LoopInv, Behind, c
  <2> QED BY <1>3, <2>1, <2>2, <2>3, <2>4, <2>5
<1>11. s <= l.end + 1 /\ Len(c) = Len(g)
  BY <1>2 DEF LoopInv, Behind, c, g
<1>12. Paired(es, c, h)
  <2>1. Len(c) <= Len(h)
    BY <1>7, <1>8, <1>11
  <2>2. ASSUME NEW k \in 1 .. Len(c) PROVE es[c[k]].inDram /\ c[k] < h[k]
    <3>1. k \in 1 .. Len(g)
      BY <1>11
    <3>2. es[c[k]].inDram
      BY <1>2 DEF LoopInv, Behind, c
    <3>3. h[k] = g[k] /\ g[k] > l.end /\ g[k] \in 1 .. N /\ c[k] \in 1 .. s - 1
      BY <1>9, <1>10, <3>1
    <3> QED BY <1>3, <1>11, <3>2, <3>3
  <2>3. ASSUME NEW k \in 1 .. Len(h) PROVE ~ es[h[k]].inDram
    <3>1. CASE k \in 1 .. Len(g)
      BY <1>2, <1>9, <3>1 DEF LoopInv, Behind, g
    <3>2. CASE k \notin 1 .. Len(g)
      <4>1. k - Len(g) \in 1 .. Len(b) /\ h[k] = b[k - Len(g)]
        BY <1>9, <3>2
      <4> QED BY <1>4, <4>1 DEF BelowInv
    <3> QED BY <3>1, <3>2
  <2> QED BY <2>1, <2>2, <2>3 DEF Paired
<1>13. EachOnce(c, h)
  <2>1. ASSUME NEW j \in 1 .. Len(c), NEW k \in 1 .. Len(c), j < k
        PROVE  c[j] < c[k]
    BY <1>2, <2>1 DEF LoopInv, Ordered, c
  <2>2. \A j, k \in 1 .. Len(c) : j # k => c[j] # c[k]
    BY <1>7, <1>10, <2>1
  <2>3. ASSUME NEW j \in 1 .. Len(h), NEW k \in 1 .. Len(h), j < k
        PROVE  h[j] # h[k]
    <3>1. CASE j \in 1 .. Len(g) /\ k \in 1 .. Len(g)
      <4>1. g[j] > g[k]
        BY <1>2, <2>3, <3>1 DEF LoopInv, Ordered, g
      <4> QED BY <1>9, <1>10, <3>1, <4>1
    <3>2. CASE j \in 1 .. Len(g) /\ k \notin 1 .. Len(g)
      <4>1. h[j] = g[j] /\ h[k] = b[k - Len(g)] /\ k - Len(g) \in 1 .. Len(b)
        BY <1>9, <3>2
      <4>2. g[j] > l.end /\ g[j] \in 1 .. N /\ b[k - Len(g)] \in 1 .. s - 1
        BY <1>10, <3>2, <4>1
      <4>3. \A u \in 1 .. N, v \in 1 .. s - 1 : u > l.end => u # v
        BY <1>3, <1>11
      <4> QED BY <4>1, <4>2, <4>3
    <3>3. CASE j \notin 1 .. Len(g)
      <4>1. k \notin 1 .. Len(g)
        BY <1>7, <1>8, <2>3, <3>3
      <4>2. /\ j - Len(g) \in 1 .. Len(b) /\ h[j] = b[j - Len(g)]
            /\ k - Len(g) \in 1 .. Len(b) /\ h[k] = b[k - Len(g)]
        BY <1>9, <3>3, <4>1
      <4>3. j - Len(g) < k - Len(g)
        BY <1>7, <2>3
      <4>4. b[j - Len(g)] > b[k - Len(g)]
        BY <1>4, <4>2, <4>3 DEF BelowInv
      <4>5. b[j - Len(g)] \in 1 .. s - 1 /\ b[k - Len(g)] \in 1 .. s - 1
        BY <1>10, <4>2
      <4> QED BY <1>3, <4>2, <4>4, <4>5
    <3> QED BY <3>1, <3>2, <3>3
  <2>4. \A j, k \in 1 .. Len(h) : j # k => h[j] # h[k]
    <3> SUFFICES ASSUME NEW j \in 1 .. Len(h), NEW k \in 1 .. Len(h), j # k
                 PROVE  h[j] # h[k]
      OBVIOUS
    <3>1. j < k \/ k < j
      BY <1>7, <1>8
    <3> QED BY <2>3, <3>1
  <2> QED BY <2>2, <2>4 DEF EachOnce
<1>14. LeftAt(es, least, c, h, s)
  <2>1. ASSUME NEW p \in 1 .. N, es[p].inDram
        PROVE  p >= s \/ \E k \in 1 .. Len(c) : c[k] = p
    <3>1. CASE p < s
      BY <1>2, <2>1, <3>1 DEF LoopInv, NoneMissed, c, s
    <3> QED BY <1>3, <3>1
  <2>2. ASSUME NEW p \in 1 .. N, ~ es[p].inDram, es[p].rw >= least
        PROVE  p = s \/ \E k \in 1 .. Len(h) : h[k] = p
    <3>1. CASE p > l.end
      <4>1. PICK k \in 1 .. Len(g) : g[k] = p
        BY <1>2, <2>2, <3>1 DEF LoopInv, NoneMissed, g
      <4>2. k \in 1 .. Len(h) /\ h[k] = p
        BY <1>7, <1>8, <1>9, <4>1
      <4> QED BY <4>2
    <3>2. CASE p < s
      <4>1. p \in 1 .. s - 1
        BY <1>3, <3>2
      <4>2. PICK k \in 1 .. Len(b) : b[k] = p
        BY <1>4, <2>2, <4>1 DEF BelowInv
      <4>3. Len(g) + k \in 1 .. Len(h) /\ h[Len(g) + k] = p
        BY <1>9, <4>2
      <4> QED BY <4>3
    <3> QED BY <1>2, <1>3, <3>1, <3>2
  <2> QED BY <2>1, <2>2 DEF LeftAt
<1> QED BY <1>3, <1>5, <1>8, <1>12, <1>13, <1>14 DEF Positions

\* The function returns the entries at these positions.
LEMMA HandleIs ==
  ASSUME NEW es, NEW least
  PROVE  /\ HandleCacheModel(es, least).cold = EntriesAt(es, ColdAt(es))
         /\ HandleCacheModel(es, least).hot = EntriesAt(es, HotAt(es, least))
BY DEF HandleCacheModel, ColdAt, HotAt

\* The entries at some positions.
LEMMA EntriesAtIs ==
  ASSUME NEW E, NEW es \in Seq(E), NEW ps \in Seq(1 .. Len(es))
  PROVE  /\ EntriesAt(es, ps) \in Seq(E)
         /\ DOMAIN EntriesAt(es, ps) = 1 .. Len(ps)
         /\ Len(EntriesAt(es, ps)) = Len(ps)
         /\ \A k \in 1 .. Len(ps) :
              EntriesAt(es, ps)[k] = es[ps[k]] /\ ps[k] \in 1 .. Len(es)
<1>1. Len(ps) \in Nat /\ DOMAIN ps = 1 .. Len(ps)
  BY LenProperties
<1>2. \A k \in 1 .. Len(ps) : ps[k] \in 1 .. Len(es)
  BY ElementOfSeq
<1>3. \A k \in 1 .. Len(ps) : es[ps[k]] \in E
  BY <1>2, ElementOfSeq
<1>4. EntriesAt(es, ps) = [k \in 1 .. Len(ps) |-> es[ps[k]]]
  BY <1>1 DEF EntriesAt
<1>5. EntriesAt(es, ps) \in [1 .. Len(ps) -> E]
  BY <1>3, <1>4
<1> QED BY <1>1, <1>2, <1>4, <1>5, SeqDef, LenProperties
=============================================================================
