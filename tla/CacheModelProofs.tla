-------------------------- MODULE CacheModelProofs --------------------------
(***************************************************************************)
(* The promises of dhmp_handle_cache_model (SwapsGain, NoSwapLeft,         *)
(* OneLeftOut) for candidates of any number, any number of accesses and    *)
(* any threshold.                                                          *)
(***************************************************************************)
EXTENDS MCCacheModel, CacheModelTheorems

Entries == [obj : Nat, rw : Int, inDram : BOOLEAN]

\* What the code has put into sa_entries before it calls the function.
ListInv ==
  /\ sa \in Seq(Entries)
  /\ threshold \in Int
  /\ Sorted(sa)
  /\ \A p \in 1 .. Len(sa) :
       sa[p].obj = p /\ (sa[p].inDram \/ sa[p].rw >= threshold)

LEMMA ListInvAlways == Spec => []ListInv
<1>1. Init => ListInv
  BY BoundsAssumption DEF Init, ListInv, Sorted
<1>2. ASSUME ListInv, [Next]_vars PROVE ListInv'
  <2>1. CASE UNCHANGED vars
    BY <1>2, <2>1 DEF ListInv, Sorted, vars
  <2>2. CASE Next
    <3>1. PICK rw \in 1 .. MaxRw, dram \in BOOLEAN : Touched(rw, dram)
      BY <2>2 DEF Next
    <3> DEFINE x == [obj |-> Len(sa) + 1, rw |-> rw, inDram |-> dram]
    <3>2. Len(sa) \in Nat
      BY <1>2, LenProperties DEF ListInv
    <3>3. x \in Entries /\ (x.rw >= threshold \/ x.inDram) /\ x.obj = Len(sa) + 1
      BY <3>1, <3>2, BoundsAssumption DEF Touched, Entries
    <3>4. sa' = Append(sa, x) /\ Sorted(sa') /\ threshold' = threshold
      BY <3>1 DEF Touched
    <3> HIDE DEF x
    <3>5. /\ sa' \in Seq(Entries) /\ Len(sa') = Len(sa) + 1
          /\ \A p \in 1 .. Len(sa) : sa'[p] = sa[p]
          /\ sa'[Len(sa) + 1] = x
      BY <1>2, <3>3, <3>4, AppendProperties DEF ListInv
    <3>6. ASSUME NEW p \in 1 .. Len(sa')
          PROVE  sa'[p].obj = p /\ (sa'[p].inDram \/ sa'[p].rw >= threshold)
      <4>1. CASE p = Len(sa) + 1
        BY <3>3, <3>5, <4>1
      <4>2. CASE p # Len(sa) + 1
        <5>1. p \in 1 .. Len(sa)
          BY <3>2, <3>5, <4>2
        <5> QED BY <1>2, <3>5, <5>1 DEF ListInv
      <4> QED BY <4>1, <4>2
    <3> QED BY <1>2, <3>4, <3>5, <3>6 DEF ListInv
  <2> QED BY <1>2, <2>1, <2>2
<1> QED BY <1>1, <1>2, PTL DEF Spec

(***************************************************************************)
(* What the function returns for such a list, by the positions in it.      *)
(***************************************************************************)
Returns(c, h) ==
  /\ c \in Seq(1 .. Len(sa)) /\ h \in Seq(1 .. Len(sa))
  /\ DOMAIN cold = 1 .. Len(c) /\ Len(cold) = Len(c)
  /\ DOMAIN hot = 1 .. Len(h) /\ Len(hot) = Len(h)
  /\ \A k \in 1 .. Len(c) : cold[k] = sa[c[k]] /\ c[k] \in 1 .. Len(sa)
  /\ \A k \in 1 .. Len(h) : hot[k] = sa[h[k]] /\ h[k] \in 1 .. Len(sa)

LEMMA ReturnsAt ==
  ASSUME ListInv
  PROVE  \E c, h : /\ Returns(c, h) /\ Paired(sa, c, h) /\ EachOnce(c, h)
                   /\ \E s \in Int : LeftAt(sa, threshold, c, h, s)
<1> DEFINE c == ColdAt(sa)
           h == HotAt(sa, threshold)
<1>1. Counted(Entries) /\ sa \in Seq(Entries) /\ Sorted(sa) /\ threshold \in Int
  BY DEF ListInv, Counted, Entries
<1>2. /\ Positions(sa, c, h) /\ Paired(sa, c, h) /\ EachOnce(c, h)
      /\ \E s \in Int : LeftAt(sa, threshold, c, h, s)
  BY <1>1, PickFacts
<1>3. cold = EntriesAt(sa, c) /\ hot = EntriesAt(sa, h)
  BY HandleIs DEF cold, hot
<1> HIDE DEF c, h
<1>4. c \in Seq(1 .. Len(sa)) /\ h \in Seq(1 .. Len(sa))
  BY <1>2 DEF Positions
<1>5. Returns(c, h)
  <2>1. /\ DOMAIN cold = 1 .. Len(c) /\ Len(cold) = Len(c)
        /\ \A k \in 1 .. Len(c) : cold[k] = sa[c[k]] /\ c[k] \in 1 .. Len(sa)
    BY <1>1, <1>3, <1>4, EntriesAtIs
  <2>2. /\ DOMAIN hot = 1 .. Len(h) /\ Len(hot) = Len(h)
        /\ \A k \in 1 .. Len(h) : hot[k] = sa[h[k]] /\ h[k] \in 1 .. Len(sa)
    BY <1>1, <1>3, <1>4, EntriesAtIs
  <2> QED BY <1>4, <2>1, <2>2 DEF Returns
<1> QED BY <1>2, <1>5

\* Whatever is copied was touched often enough, no object is named twice,
\* and an object that makes room was touched no more often than the one it
\* makes room for: dhmp_handle_cache_model.
THEOREM CacheSwapsGain == Spec => []SwapsGain
<1>1. ListInv => SwapsGain
  <2> SUFFICES ASSUME ListInv PROVE SwapsGain
    OBVIOUS
  <2>1. PICK c, h : Returns(c, h) /\ Paired(sa, c, h) /\ EachOnce(c, h)
    BY ReturnsAt
  <2>2. /\ \A p \in 1 .. Len(sa) : sa[p].rw \in Int /\ sa[p].obj = p
        /\ \A p, q \in 1 .. Len(sa) : p < q => sa[p].rw <= sa[q].rw
    <3>1. \A p \in 1 .. Len(sa) : sa[p] \in Entries
      BY ElementOfSeq DEF ListInv
    <3>2. DOMAIN sa = 1 .. Len(sa)
      BY LenProperties DEF ListInv
    <3> QED BY <3>1, <3>2 DEF ListInv, Entries, Sorted
  <2>3. Len(c) \in Nat /\ Len(h) \in Nat
    BY <2>1, LenProperties DEF Returns
  <2>4. \A k \in DOMAIN cold : cold[k].inDram
    BY <2>1 DEF Returns, Paired
  <2>5. \A k \in DOMAIN hot : ~ hot[k].inDram /\ hot[k].rw >= threshold
    BY <2>1 DEF Returns, Paired, ListInv
  <2>6. \A j, k \in DOMAIN cold : j # k => cold[j] # cold[k]
    <3> SUFFICES ASSUME NEW j \in DOMAIN cold, NEW k \in DOMAIN cold, j # k
                 PROVE  cold[j] # cold[k]
      OBVIOUS
    <3>1. /\ c[j] \in 1 .. Len(sa) /\ c[k] \in 1 .. Len(sa) /\ c[j] # c[k]
          /\ cold[j] = sa[c[j]] /\ cold[k] = sa[c[k]]
      BY <2>1 DEF Returns, EachOnce
    <3> QED BY <2>2, <3>1
  <2>7. \A j, k \in DOMAIN hot : j # k => hot[j] # hot[k]
    <3> SUFFICES ASSUME NEW j \in DOMAIN hot, NEW k \in DOMAIN hot, j # k
                 PROVE  hot[j] # hot[k]
      OBVIOUS
    <3>1. /\ h[j] \in 1 .. Len(sa) /\ h[k] \in 1 .. Len(sa) /\ h[j] # h[k]
          /\ hot[j] = sa[h[j]] /\ hot[k] = sa[h[k]]
      BY <2>1 DEF Returns, EachOnce
    <3> QED BY <2>2, <3>1
  <2>8. Len(cold) <= Len(hot)
    BY <2>1 DEF Returns, Paired
  <2>9. \A k \in DOMAIN cold : cold[k].rw <= hot[k].rw
    <3> SUFFICES ASSUME NEW k \in 1 .. Len(c) PROVE cold[k].rw <= hot[k].rw
      BY <2>1 DEF Returns
    <3>1. k \in 1 .. Len(h)
      BY <2>1, <2>3 DEF Paired
    <3>2. /\ c[k] \in 1 .. Len(sa) /\ h[k] \in 1 .. Len(sa) /\ c[k] < h[k]
          /\ cold[k] = sa[c[k]] /\ hot[k] = sa[h[k]]
      BY <2>1, <3>1 DEF Returns, Paired
    <3> QED BY <2>2, <3>2
  <2> QED BY <2>4, <2>5, <2>6, <2>7, <2>8, <2>9 DEF SwapsGain
<1> QED BY <1>1, ListInvAlways, PTL

\* A candidate that the function leaves as it is: a cached one is not below
\* the meeting point of the scans, an uncached one is there.
LEMMA LeftEntry ==
  ASSUME ListInv
  PROVE  \E s \in Int : \A p \in ToSet(sa) :
           /\ p.inDram /\ p \notin ToSet(cold) => p.obj >= s
           /\ ~ p.inDram /\ p \notin ToSet(hot) => p.obj = s
<1>1. PICK c, h : /\ Returns(c, h)
                  /\ \E s \in Int : LeftAt(sa, threshold, c, h, s)
  BY ReturnsAt
<1>2. PICK s \in Int : LeftAt(sa, threshold, c, h, s)
  BY <1>1
<1>3. DOMAIN sa = 1 .. Len(sa)
  BY LenProperties DEF ListInv
<1>4. ASSUME NEW p \in ToSet(sa)
      PROVE  /\ p.inDram /\ p \notin ToSet(cold) => p.obj >= s
             /\ ~ p.inDram /\ p \notin ToSet(hot) => p.obj = s
  <2>1. PICK n \in 1 .. Len(sa) : p = sa[n]
    BY <1>3 DEF ToSet
  <2>2. p.obj = n /\ (p.inDram \/ p.rw >= threshold)
    BY <2>1 DEF ListInv
  <2>3. ASSUME p.inDram, p \notin ToSet(cold) PROVE p.obj >= s
    <3>1. \A k \in 1 .. Len(c) : c[k] # n
      BY <1>1, <2>1, <2>3 DEF Returns, ToSet
    <3> QED BY <1>2, <2>1, <2>2, <2>3, <3>1 DEF LeftAt
  <2>4. ASSUME ~ p.inDram, p \notin ToSet(hot) PROVE p.obj = s
    <3>1. \A k \in 1 .. Len(h) : h[k] # n
      BY <1>1, <2>1, <2>4 DEF Returns, ToSet
    <3> QED BY <1>2, <2>1, <2>2, <2>4, <3>1 DEF LeftAt
  <2> QED BY <2>3, <2>4
<1> QED BY <1>4

\* No cached object stays in DRAM that was touched less than an object that
\* stays out of it: dhmp_handle_cache_model.
THEOREM CacheNoSwapLeft == Spec => []NoSwapLeft
<1>1. ListInv => NoSwapLeft
  <2> SUFFICES ASSUME ListInv, NEW p \in ToSet(sa), NEW q \in ToSet(sa),
                      p.inDram, p \notin ToSet(cold),
                      ~ q.inDram, q \notin ToSet(hot)
               PROVE  q.rw <= p.rw
    BY DEF NoSwapLeft
  <2>1. PICK s \in Int : p.obj >= s /\ q.obj = s
    BY LeftEntry
  <2>2. DOMAIN sa = 1 .. Len(sa)
    BY LenProperties DEF ListInv
  <2>3. PICK m \in 1 .. Len(sa) : p = sa[m]
    BY <2>2 DEF ToSet
  <2>4. PICK n \in 1 .. Len(sa) : q = sa[n]
    BY <2>2 DEF ToSet
  <2>5. n <= m
    BY <2>1, <2>3, <2>4 DEF ListInv
  <2>6. CASE n < m
    BY <2>2, <2>3, <2>4, <2>6 DEF ListInv, Sorted
  <2>7. CASE n = m
    BY <2>3, <2>4, <2>7
  <2> QED BY <2>5, <2>6, <2>7
<1> QED BY <1>1, ListInvAlways, PTL

\* At most one object that has earned a copy is left out:
\* dhmp_handle_cache_model.
THEOREM CacheOneLeftOut == Spec => []OneLeftOut
<1>1. ListInv => OneLeftOut
  <2> SUFFICES ASSUME ListInv, NEW p \in ToSet(sa), NEW q \in ToSet(sa),
                      p \notin ToSet(hot), q \notin ToSet(hot),
                      ~ p.inDram, ~ q.inDram
               PROVE  p = q
    BY DEF OneLeftOut
  <2>1. p.obj = q.obj
    BY LeftEntry
  <2>2. DOMAIN sa = 1 .. Len(sa)
    BY LenProperties DEF ListInv
  <2>3. PICK m \in 1 .. Len(sa) : p = sa[m]
    BY <2>2 DEF ToSet
  <2>4. PICK n \in 1 .. Len(sa) : q = sa[n]
    BY <2>2 DEF ToSet
  <2> QED BY <2>1, <2>3, <2>4 DEF ListInv
<1> QED BY <1>1, ListInvAlways, PTL
=============================================================================
