--------------------------- MODULE MonitorProofs ---------------------------
(***************************************************************************)
(* For any number of servers, pages and reports, and whatever the watcher, *)
(* the web server and the network do:                                      *)
(*                                                                         *)
(*   - an open card shows what the row of its server shows;                *)
(*   - each variable has its type, and with one server every figure on a   *)
(*     page is one that the server has reported for this app;              *)
(*   - a figure on a page goes back to an older report only by what open() *)
(*     sends.                                                              *)
(*                                                                         *)
(* The second needs what a text is made of and where it is: a text begins  *)
(* with a token that is nowhere else in it, so that of what is cut off at  *)
(* a newline only a whole text parses, and parsing gives back what the     *)
(* watcher made it of.  The third needs that what is on its way is in the  *)
(* order in which it was made.                                             *)
(***************************************************************************)
EXTENDS Monitor, CountingTheorems, SequenceTheorems, TLAPS

(***************************************************************************)
(* Cards and rows.                                                         *)
(***************************************************************************)

\* Every page has a table and a set of cards.
PagesShown == DOMAIN rows = Pages /\ DOMAIN cards = Pages

CardInv == PagesShown /\ CardFollowsRow

LEMMA CardInit == Init => CardInv
BY DEF Init, CardInv, PagesShown, CardFollowsRow, Nothing

\* A message reaches the row and the card of a server in one handler.
LEMMA CardOnMessage ==
  ASSUME CardInv, NEW b \in Pages, OnMessage(b)
  PROVE  CardInv'
<1>1. PICK data :
        /\ rows' = [rows EXCEPT ![b] = TableAfter(b, data)]
        /\ cards' = [cards EXCEPT ![b] = CardsAfter(b, data)]
  BY DEF OnMessage
<1>2. PagesShown'
  BY <1>1 DEF CardInv, PagesShown
<1>3. ASSUME NEW p \in Pages, NEW i \in DOMAIN cards'[p]
      PROVE  i \in DOMAIN rows'[p] /\ cards'[p][i] = rows'[p][i]
  <2>1. CASE p = b
    <3>1. cards'[p] = CardsAfter(b, data) /\ rows'[p] = TableAfter(b, data)
      BY <1>1, <2>1 DEF CardInv, PagesShown
    <3>2. i \in DOMAIN cards[b]
      BY <1>3, <3>1 DEF CardsAfter
    <3>3. i \in DOMAIN rows[b] /\ cards[b][i] = rows[b][i]
      BY <3>2 DEF CardInv, CardFollowsRow
    <3>4. i \in DOMAIN rows'[p]
      BY <3>1, <3>3 DEF TableAfter
    <3>5. /\ CardsAfter(b, data)[i] =
               IF i \in DOMAIN data THEN data[i] ELSE cards[b][i]
          /\ TableAfter(b, data)[i] =
               IF i \in DOMAIN data THEN data[i] ELSE rows[b][i]
      BY <3>2, <3>3 DEF CardsAfter, TableAfter
    <3> QED BY <3>1, <3>3, <3>4, <3>5
  <2>2. CASE p # b
    <3>1. cards'[p] = cards[p] /\ rows'[p] = rows[p]
      BY <1>1, <2>2 DEF CardInv, PagesShown
    <3> QED BY <1>3, <3>1 DEF CardInv, CardFollowsRow
  <2> QED BY <2>1, <2>2
<1> QED BY <1>2, <1>3 DEF CardInv, CardFollowsRow

\* A new card is filled from the row.
LEMMA CardShowApps ==
  ASSUME CardInv, NEW b \in Pages, NEW s \in Servers, ShowApps(b, s)
  PROVE  CardInv'
<1>1. /\ s \in DOMAIN rows[b]
      /\ rows' = rows
      /\ cards' = [cards EXCEPT ![b] =
                     [k \in DOMAIN cards[b] \cup {s} |->
                        IF k = s THEN rows[b][s] ELSE cards[b][k]]]
  BY DEF ShowApps, CardInv, PagesShown
<1>2. PagesShown'
  BY <1>1 DEF CardInv, PagesShown
<1>3. ASSUME NEW p \in Pages, NEW i \in DOMAIN cards'[p]
      PROVE  i \in DOMAIN rows'[p] /\ cards'[p][i] = rows'[p][i]
  <2>1. CASE p = b
    <3>1. cards'[p] = [k \in DOMAIN cards[b] \cup {s} |->
                         IF k = s THEN rows[b][s] ELSE cards[b][k]]
      BY <1>1, <2>1 DEF CardInv, PagesShown
    <3> QED BY <1>1, <1>3, <2>1, <3>1 DEF CardInv, CardFollowsRow
  <2>2. CASE p # b
    <3>1. cards'[p] = cards[p]
      BY <1>1, <2>2 DEF CardInv, PagesShown
    <3> QED BY <1>1, <1>3, <3>1 DEF CardInv, CardFollowsRow
  <2> QED BY <2>1, <2>2
<1> QED BY <1>2, <1>3 DEF CardInv, CardFollowsRow

\* The other cards stay as they are.
LEMMA CardRemoveCard ==
  ASSUME CardInv, NEW b \in Pages, NEW s \in Servers, RemoveCard(b, s)
  PROVE  CardInv'
<1>1. /\ rows' = rows
      /\ cards' = [cards EXCEPT ![b] =
                     [k \in DOMAIN cards[b] \ {s} |-> cards[b][k]]]
  BY DEF RemoveCard, CardInv, PagesShown
<1>2. PagesShown'
  BY <1>1 DEF CardInv, PagesShown
<1>3. ASSUME NEW p \in Pages, NEW i \in DOMAIN cards'[p]
      PROVE  i \in DOMAIN rows'[p] /\ cards'[p][i] = rows'[p][i]
  <2>1. CASE p = b
    <3>1. cards'[p] = [k \in DOMAIN cards[b] \ {s} |-> cards[b][k]]
      BY <1>1, <2>1 DEF CardInv, PagesShown
    <3> QED BY <1>1, <1>3, <2>1, <3>1 DEF CardInv, CardFollowsRow
  <2>2. CASE p # b
    <3>1. cards'[p] = cards[p]
      BY <1>1, <2>2 DEF CardInv, PagesShown
    <3> QED BY <1>1, <1>3, <3>1 DEF CardInv, CardFollowsRow
  <2> QED BY <2>1, <2>2
<1> QED BY <1>2, <1>3 DEF CardInv, CardFollowsRow

\* A page that is left takes its table and its cards along.
LEMMA CardClose ==
  ASSUME CardInv, NEW b \in Pages, Close(b)
  PROVE  CardInv'
<1>1. /\ rows' = [rows EXCEPT ![b] = Nothing]
      /\ cards' = [cards EXCEPT ![b] = Nothing]
  BY DEF Close
<1>2. DOMAIN Nothing = {}
  BY DEF Nothing
<1> QED BY <1>1, <1>2 DEF CardInv, PagesShown, CardFollowsRow

LEMMA CardUnchanged ==
  ASSUME CardInv, UNCHANGED shown
  PROVE  CardInv'
BY DEF CardInv, PagesShown, CardFollowsRow, shown

\* Everything but the page itself leaves it alone.
LEMMA CardNext ==
  ASSUME CardInv, [Next]_vars
  PROVE  CardInv'
<1>1. CASE UNCHANGED vars
  BY <1>1, CardUnchanged DEF vars
<1>2. ASSUME NEW i \in Servers, Report(i)
      PROVE  CardInv'
  BY <1>2, CardUnchanged DEF Report
<1>3. CASE EpollSteps
  BY <1>3, CardUnchanged DEF EpollSteps, StoreEntry, StoreNum, Take
<1>4. CASE InformSteps
  BY <1>4, CardUnchanged DEF InformSteps, ReadInfo, Write, ReadReply
<1>5. CASE NettySteps
  <2>1. UNCHANGED shown
    BY <1>5 DEF NettySteps, ChannelRead, Skip, BeginPush, EndPush, Collide,
                Success
  <2> QED BY <2>1, CardUnchanged
<1>6. ASSUME NEW b \in Pages, Open(b) \/ OpenSteps(b)
      PROVE  CardInv'
  <2>1. UNCHANGED shown
    BY <1>6 DEF Open, OpenSteps, Wrap, BeginHello, EndHello
  <2> QED BY <2>1, CardUnchanged
<1>7. ASSUME NEW b \in Pages, Close(b)
      PROVE  CardInv'
  BY <1>7, CardClose
<1>8. ASSUME NEW b \in Pages, OnMessage(b)
      PROVE  CardInv'
  BY <1>8, CardOnMessage
<1>9. ASSUME NEW b \in Pages, NEW i \in Servers,
             ShowApps(b, i) \/ RemoveCard(b, i)
      PROVE  CardInv'
  BY <1>9, CardShowApps, CardRemoveCard
<1> QED BY <1>1, <1>2, <1>3, <1>4, <1>5, <1>6, <1>7, <1>8, <1>9 DEF Next

\* An open card shows what the row of its server shows
\* (memory-usage-table.js:309): the two are filled by different code, from
\* messages that may come in any order and repeat what is old.
THEOREM MonitorCardFollowsRow == Spec => []CardFollowsRow
<1>1. CardInv /\ [Next]_vars => CardInv'
  BY CardNext
<1>2. CardInv => CardFollowsRow
  BY DEF CardInv
<1> QED BY CardInit, <1>1, <1>2, PTL DEF Spec

(***************************************************************************)
(* Sequences.                                                              *)
(***************************************************************************)
Joined(s, t) == s \o t
Has(s, x) == \E k \in 1 .. Len(s) : s[k] = x

\* f is the function that FlattenSeq defines, on the first n sequences.
IsFlat(f, ss, n) ==
  f = [i \in 1 .. n |-> IF i = 1 THEN ss[i] ELSE Joined(f[i - 1], ss[i])]
\* What f has of the first k sequences, which are not longer than l.
FlatHas(f, S, ss, l, k) ==
  /\ f[k] \in Seq(S) /\ Len(f[k]) <= k * l
  /\ \A x : Has(f[k], x) <=> \E i \in 1 .. k : Has(ss[i], x)

LEMMA FlatExists ==
  ASSUME NEW ss, NEW n \in Nat
  PROVE  \E f : IsFlat(f, ss, n)
<1> DEFINE G == {m \in Nat : \E f : IsFlat(f, ss, m)}
<1>1. 0 \in G
  <2> DEFINE f == [i \in 1 .. 0 |-> ss[i]]
  <2>1. f = [i \in 1 .. 0 |-> IF i = 1 THEN ss[i] ELSE Joined(f[i - 1], ss[i])]
    OBVIOUS
  <2> QED BY <2>1 DEF IsFlat
<1>2. ASSUME NEW m \in Nat, m \in G
      PROVE  m + 1 \in G
  <2>1. PICK f : IsFlat(f, ss, m)
    BY <1>2
  <2> DEFINE g == [i \in 1 .. m + 1 |-> IF i = 1 THEN ss[i] ELSE Joined(f[i - 1], ss[i])]
  <2>2. ASSUME NEW i \in 1 .. m
        PROVE  g[i] = f[i]
    BY <2>1 DEF IsFlat
  <2>3. \A i \in 1 .. m + 1 : i # 1 => i - 1 \in 1 .. m
    OBVIOUS
  <2>4. ASSUME NEW i \in 1 .. m + 1
        PROVE  g[i] = IF i = 1 THEN ss[i] ELSE Joined(g[i - 1], ss[i])
    BY <2>2, <2>3
  <2>5. g = [i \in 1 .. m + 1 |-> IF i = 1 THEN ss[i] ELSE Joined(g[i - 1], ss[i])]
    BY <2>4
  <2>6. IsFlat(g, ss, m + 1)
    BY <2>5 DEF IsFlat
  <2> QED BY <2>6
<1>3. \A m \in Nat : m \in G
  <2> HIDE DEF G
  <2> QED BY <1>1, <1>2, CountUp
<1> QED BY <1>3

\* What FlattenSeq makes of sequences that are not longer than l.
LEMMA JoinedHas ==
  ASSUME NEW S, NEW a \in Seq(S), NEW b \in Seq(S)
  PROVE  /\ Joined(a, b) \in Seq(S) /\ Len(Joined(a, b)) = Len(a) + Len(b)
         /\ \A x : Has(Joined(a, b), x) <=> Has(a, x) \/ Has(b, x)
<1> DEFINE c == Joined(a, b)
<1>1. Len(a) \in Nat /\ Len(b) \in Nat
  BY LenProperties
<1>2. /\ c \in Seq(S) /\ Len(c) = Len(a) + Len(b)
      /\ \A i \in 1 .. Len(a) + Len(b) :
           c[i] = IF i <= Len(a) THEN a[i] ELSE b[i - Len(a)]
  BY ConcatProperties DEF Joined
<1> HIDE DEF c
<1>3. ASSUME NEW x
      PROVE  Has(c, x) <=> Has(a, x) \/ Has(b, x)
  <2>1. ASSUME NEW i \in 1 .. Len(c), c[i] = x
        PROVE  Has(a, x) \/ Has(b, x)
    <3>1. CASE i <= Len(a)
      <4>1. i \in 1 .. Len(a)
        BY <1>1, <1>2, <3>1
      <4>2. a[i] = x
        BY <1>2, <2>1, <3>1
      <4> QED BY <4>1, <4>2 DEF Has
    <3>2. CASE ~(i <= Len(a))
      <4>1. i - Len(a) \in 1 .. Len(b)
        BY <1>1, <1>2, <3>2
      <4>2. b[i - Len(a)] = x
        BY <1>2, <2>1, <3>2
      <4> QED BY <4>1, <4>2 DEF Has
    <3> QED BY <3>1, <3>2
  <2>2. ASSUME NEW i \in 1 .. Len(a), a[i] = x
        PROVE  Has(c, x)
    <3>1. i \in 1 .. Len(c) /\ i <= Len(a)
      BY <1>1, <1>2
    <3>2. c[i] = x
      BY <1>2, <2>2, <3>1
    <3> QED BY <3>1, <3>2 DEF Has
  <2>3. ASSUME NEW i \in 1 .. Len(b), b[i] = x
        PROVE  Has(c, x)
    <3>1. i + Len(a) \in 1 .. Len(c) /\ (i + Len(a)) - Len(a) = i /\ ~(i + Len(a) <= Len(a))
      BY <1>1, <1>2
    <3>2. c[i + Len(a)] = x
      BY <1>2, <2>3, <3>1
    <3> QED BY <3>1, <3>2 DEF Has
  <2> QED BY <2>1, <2>2, <2>3 DEF Has
<1> QED BY <1>2, <1>3 DEF c

\* What FlattenSeq makes of sequences that are not longer than l.
LEMMA FlattenFacts ==
  ASSUME NEW S, NEW ss \in Seq(Seq(S)), NEW l \in Nat,
         \A i \in 1 .. Len(ss) : Len(ss[i]) <= l
  PROVE  /\ FlattenSeq(ss) \in Seq(S)
         /\ Len(FlattenSeq(ss)) <= Len(ss) * l
         /\ \A x : Has(FlattenSeq(ss), x) <=> \E i \in 1 .. Len(ss) : Has(ss[i], x)
<1> DEFINE n == Len(ss)
<1>1. n \in Nat
  BY LenProperties
<1>2. CASE n = 0
  <2>1. FlattenSeq(ss) = ss /\ ss = <<>>
    BY <1>2, EmptySeq DEF FlattenSeq
  <2>2. Len(ss) * l = 0
    BY <1>2
  <2>3. <<>> \in Seq(S) /\ Len(<<>>) = 0
    BY EmptySeq
  <2>4. \A x : ~Has(ss, x)
    BY <1>2 DEF Has
  <2> QED BY <1>2, <2>1, <2>2, <2>3, <2>4
<1>3. CASE n # 0
  <2> DEFINE flat == CHOOSE f : IsFlat(f, ss, n)
             G == {k \in Nat : k \in 1 .. n => FlatHas(flat, S, ss, l, k)}
  <2>1. FlattenSeq(ss) = flat[n]
    BY <1>3 DEF FlattenSeq, IsFlat, Joined
  <2>2. IsFlat(flat, ss, n)
    BY <1>1, FlatExists
  <2> HIDE DEF flat
  <2>3. \A k \in 1 .. n : flat[k] = IF k = 1 THEN ss[k] ELSE Joined(flat[k - 1], ss[k])
    BY <2>2 DEF IsFlat
  <2>4. 0 \in G
    OBVIOUS
  <2>5. ASSUME NEW k \in Nat, k \in G
        PROVE  k + 1 \in G
    <3> SUFFICES ASSUME k + 1 \in 1 .. n
                 PROVE  FlatHas(flat, S, ss, l, k + 1)
      OBVIOUS
    <3>1. ss[k + 1] \in Seq(S) /\ Len(ss[k + 1]) <= l
      BY ElementOfSeq
    <3>2. CASE k = 0
      <4>1. flat[1] = ss[1] /\ 1 \in 1 .. n
        BY <2>3, <3>2
      <4>2. \A x : Has(flat[1], x) <=> \E i \in 1 .. 1 : Has(ss[i], x)
        BY <4>1
      <4>3. 1 * l = l
        OBVIOUS
      <4> QED BY <3>1, <3>2, <4>1, <4>2, <4>3 DEF FlatHas
    <3>3. CASE k # 0
      <4>1. k \in 1 .. n /\ k + 1 # 1 /\ (k + 1) - 1 = k
        BY <1>1, <3>3
      <4>2. FlatHas(flat, S, ss, l, k)
        BY <2>5, <4>1
      <4>3. flat[k + 1] = Joined(flat[k], ss[k + 1])
        BY <2>3, <4>1
      <4>4. flat[k] \in Seq(S)
        BY <4>2 DEF FlatHas
      <4>5. /\ flat[k + 1] \in Seq(S)
            /\ Len(flat[k + 1]) = Len(flat[k]) + Len(ss[k + 1])
            /\ \A x : Has(flat[k + 1], x) <=> Has(flat[k], x) \/ Has(ss[k + 1], x)
        <5> DEFINE a == flat[k]
                   b == ss[k + 1]
        <5>1. a \in Seq(S) /\ b \in Seq(S)
          BY <3>1, <4>4
        <5> HIDE DEF a, b
        <5>2. /\ Joined(a, b) \in Seq(S) /\ Len(Joined(a, b)) = Len(a) + Len(b)
              /\ \A x : Has(Joined(a, b), x) <=> Has(a, x) \/ Has(b, x)
          BY <5>1, JoinedHas
        <5> QED BY <4>3, <5>2 DEF a, b
      <4>6. Len(flat[k + 1]) <= (k + 1) * l
        <5>1. (k + 1) * l = k * l + l /\ k * l \in Nat
          OBVIOUS
        <5>2. Len(flat[k]) \in Nat /\ Len(ss[k + 1]) \in Nat /\ Len(flat[k]) <= k * l
          BY <3>1, <4>2, <4>4, LenProperties DEF FlatHas
        <5> DEFINE a == Len(flat[k])
                   b == Len(ss[k + 1])
                   m == k * l
        <5>3. a \in Nat /\ b \in Nat /\ m \in Nat /\ a <= m /\ b <= l
          BY <3>1, <5>1, <5>2
        <5>4. Len(flat[k + 1]) = a + b /\ (k + 1) * l = m + l
          BY <4>5, <5>1
        <5> HIDE DEF a, b, m
        <5> QED BY <5>3, <5>4
      <4>7. \A i : i \in 1 .. k + 1 <=> i \in 1 .. k \/ i = k + 1
        OBVIOUS
      <4>8. \A x : Has(flat[k], x) <=> \E i \in 1 .. k : Has(ss[i], x)
        BY <4>2 DEF FlatHas
      <4>9. \A x : Has(flat[k + 1], x) <=> \E i \in 1 .. k + 1 : Has(ss[i], x)
        BY <4>5, <4>7, <4>8
      <4> QED BY <4>5, <4>6, <4>9 DEF FlatHas
    <3> QED BY <3>2, <3>3
  <2>6. \A k \in Nat : k \in G
    <3> HIDE DEF G
    <3> QED BY <2>4, <2>5, CountUp
  <2>7. FlatHas(flat, S, ss, l, n)
    BY <1>1, <1>3, <2>6
  <2> QED BY <2>1, <2>7 DEF FlatHas
<1> QED BY <1>2, <1>3

(***************************************************************************)
(* What a text is made of.                                                 *)
(***************************************************************************)
Kinds == {"dram", "nvm", "begin", "end", "nl", "nul"}
Tokens == [kind : Kinds, server : 0 .. Nets, app : 0 .. MaxApps,
           used : 0 .. MaxReports]
AppLists == UNION {[1 .. n -> 0 .. MaxReports] : n \in 0 .. MaxApps}
Texts == [Servers -> AppLists]

LEMMA TokenIs ==
  /\ \A k, i, j, u : /\ Token(k, i, j, u).kind = k /\ Token(k, i, j, u).server = i
                     /\ Token(k, i, j, u).app = j /\ Token(k, i, j, u).used = u
  /\ \A k : Mark(k).kind = k
  /\ \A k \in Kinds : Mark(k) \in Tokens
  /\ \A k \in Kinds, i \in 0 .. Nets, j \in 0 .. MaxApps, u \in 0 .. MaxReports :
       Token(k, i, j, u) \in Tokens
<1>1. \A k \in Kinds, i \in 0 .. Nets, j \in 0 .. MaxApps, u \in 0 .. MaxReports :
        Token(k, i, j, u) \in Tokens
  BY DEF Token, Tokens
<1>2. 0 \in 0 .. Nets /\ 0 \in 0 .. MaxApps /\ 0 \in 0 .. MaxReports
  BY NetsAssumption, AppsAssumption, BoundAssumption
<1>3. \A k \in Kinds : Mark(k) \in Tokens
  BY <1>1, <1>2 DEF Mark
<1> QED BY <1>1, <1>3 DEF Token, Mark

LEMMA FcnIsSeq ==
  ASSUME NEW S, NEW n \in Nat, NEW f \in [1 .. n -> S]
  PROVE  f \in Seq(S) /\ Len(f) = n
OBVIOUS

LEMMA AppListIs ==
  ASSUME NEW apps \in AppLists
  PROVE  \E n \in 0 .. MaxApps :
           /\ n \in Nat /\ DOMAIN apps = 1 .. n /\ Len(apps) = n
           /\ apps \in Seq(0 .. MaxReports) /\ apps \in [1 .. n -> 0 .. MaxReports]
<1>1. PICK n \in 0 .. MaxApps : apps \in [1 .. n -> 0 .. MaxReports]
  BY DEF AppLists
<1>2. n \in Nat
  BY AppsAssumption
<1>3. apps \in Seq(0 .. MaxReports) /\ Len(apps) = n
  BY <1>1, <1>2, FcnIsSeq
<1>4. DOMAIN apps = 1 .. n
  BY <1>1
<1> QED BY <1>1, <1>2, <1>3, <1>4

LEMMA AppListMake ==
  ASSUME NEW n \in 0 .. MaxApps, NEW apps \in [1 .. n -> 0 .. MaxReports]
  PROVE  apps \in AppLists
BY DEF AppLists

LEMMA PairHas ==
  ASSUME NEW S, NEW a \in S, NEW b \in S
  PROVE  /\ <<a, b>> \in Seq(S) /\ Len(<<a, b>>) = 2
         /\ \A x : Has(<<a, b>>, x) <=> x = a \/ x = b
<1>1. <<a, b>> \in Seq(S) /\ Len(<<a, b>>) = 2 /\ <<a, b>>[1] = a /\ <<a, b>>[2] = b
  OBVIOUS
<1>2. \A k : k \in 1 .. 2 <=> k = 1 \/ k = 2
  OBVIOUS
<1> QED BY <1>1, <1>2 DEF Has

LEMMA AppTokensFacts ==
  ASSUME NEW i \in Servers, NEW apps \in AppLists
  PROVE  /\ AppTokens(i, apps) \in Seq(Tokens)
         /\ Len(AppTokens(i, apps)) <= 2 * MaxApps
         /\ \A x : Has(AppTokens(i, apps), x) <=>
                     \E j \in DOMAIN apps : \/ x = Token("dram", i, j, apps[j])
                                            \/ x = Token("nvm", i, j, apps[j])
<1>1. PICK n \in 0 .. MaxApps :
        n \in Nat /\ DOMAIN apps = 1 .. n /\ apps \in [1 .. n -> 0 .. MaxReports]
  BY AppListIs
<1> DEFINE d(j) == Token("dram", i, j, apps[j])
           v(j) == Token("nvm", i, j, apps[j])
           ss == [j \in DOMAIN apps |-> <<d(j), v(j)>>]
<1>2. ASSUME NEW j \in 1 .. n
      PROVE  d(j) \in Tokens /\ v(j) \in Tokens
  <2>1. i \in 0 .. Nets /\ j \in 0 .. MaxApps /\ apps[j] \in 0 .. MaxReports
    BY <1>1, NetsAssumption, AppsAssumption DEF Servers
  <2>2. "dram" \in Kinds /\ "nvm" \in Kinds
    BY DEF Kinds
  <2> QED BY <2>1, <2>2, TokenIs
<1>3. AppTokens(i, apps) = FlattenSeq(ss)
  BY DEF AppTokens
<1> HIDE DEF d, v
<1>4. ASSUME NEW j \in 1 .. n
      PROVE  /\ ss[j] = <<d(j), v(j)>> /\ ss[j] \in Seq(Tokens) /\ Len(ss[j]) = 2
             /\ \A x : Has(ss[j], x) <=> x = d(j) \/ x = v(j)
  <2>1. ss[j] = <<d(j), v(j)>>
    BY <1>1
  <2>2. /\ <<d(j), v(j)>> \in Seq(Tokens) /\ Len(<<d(j), v(j)>>) = 2
        /\ \A x : Has(<<d(j), v(j)>>, x) <=> x = d(j) \/ x = v(j)
    BY <1>2, PairHas
  <2> QED BY <2>1, <2>2
<1>5. ss \in [1 .. n -> Seq(Tokens)]
  BY <1>1, <1>2
<1> HIDE DEF ss
<1>6. ss \in Seq(Seq(Tokens))
  BY <1>1, <1>5, FcnIsSeq
<1>7. Len(ss) = n
  BY <1>1, <1>5, FcnIsSeq
<1>8. \A j \in 1 .. Len(ss) : Len(ss[j]) <= 2
  <2>1. \A j \in 1 .. n : Len(ss[j]) = 2
    BY <1>4
  <2> QED BY <1>7, <2>1
<1>9. /\ FlattenSeq(ss) \in Seq(Tokens)
      /\ Len(FlattenSeq(ss)) <= Len(ss) * 2
      /\ \A x : Has(FlattenSeq(ss), x) <=> \E j \in 1 .. Len(ss) : Has(ss[j], x)
  BY <1>6, <1>8, FlattenFacts
<1>10. Len(FlattenSeq(ss)) <= 2 * MaxApps
  <2>1. Len(FlattenSeq(ss)) \in Nat
    BY <1>9, LenProperties
  <2>2. n \in Nat /\ n <= MaxApps /\ MaxApps \in Nat
    BY <1>1, AppsAssumption
  <2> QED BY <1>7, <1>9, <2>1, <2>2
<1>11. \A x : Has(FlattenSeq(ss), x) <=> \E j \in DOMAIN apps : x = d(j) \/ x = v(j)
  BY <1>1, <1>4, <1>7, <1>9
<1> QED BY <1>3, <1>9, <1>10, <1>11 DEF d, v

\* What is between the braces of a text.
Body(t) == FlattenSeq([i \in Servers |-> AppTokens(i, t[i])])

LEMMA BodyFacts ==
  ASSUME NEW t \in Texts
  PROVE  /\ Body(t) \in Seq(Tokens) /\ Len(Body(t)) + 4 <= Buf
         /\ \A x : Has(Body(t), x) <=>
              \E i \in Servers : \E j \in DOMAIN t[i] :
                \/ x = Token("dram", i, j, t[i][j])
                \/ x = Token("nvm", i, j, t[i][j])
<1> DEFINE ss == [i \in Servers |-> AppTokens(i, t[i])]
<1>1. \A i \in Servers : t[i] \in AppLists
  BY DEF Texts
<1>2. /\ \A i \in Servers : ss[i] = AppTokens(i, t[i]) /\ ss[i] \in Seq(Tokens)
      /\ \A i \in Servers : Len(ss[i]) <= 2 * MaxApps
  BY <1>1, AppTokensFacts
<1>3. ss \in [1 .. Nets -> Seq(Tokens)]
  BY <1>1, AppTokensFacts DEF Servers
<1>4. Body(t) = FlattenSeq(ss)
  BY DEF Body
<1> HIDE DEF ss
<1>5. ss \in Seq(Seq(Tokens))
  BY <1>3, NetsAssumption, FcnIsSeq
<1>6. Len(ss) = Nets
  BY <1>3, NetsAssumption, FcnIsSeq
<1>7. 2 * MaxApps \in Nat /\ \A i \in 1 .. Len(ss) : Len(ss[i]) <= 2 * MaxApps
  BY <1>2, <1>6, AppsAssumption DEF Servers
<1>8. /\ FlattenSeq(ss) \in Seq(Tokens)
      /\ Len(FlattenSeq(ss)) <= Len(ss) * (2 * MaxApps)
      /\ \A x : Has(FlattenSeq(ss), x) <=> \E i \in 1 .. Len(ss) : Has(ss[i], x)
  BY <1>5, <1>7, FlattenFacts
<1>9. Len(FlattenSeq(ss)) + 4 <= Buf
  <2>1. Len(FlattenSeq(ss)) \in Nat
    BY <1>8, LenProperties
  <2>2. Nets * (2 * MaxApps) = 2 * Nets * MaxApps
    BY NetsAssumption, AppsAssumption
  <2>3. 2 * Nets * MaxApps \in Nat
    BY NetsAssumption, AppsAssumption
  <2> DEFINE all == 2 * Nets * MaxApps
  <2>4. Len(FlattenSeq(ss)) <= all /\ all + 4 <= Buf /\ all \in Nat
    BY <1>6, <1>8, <2>2, <2>3, FitAssumption
  <2> HIDE DEF all
  <2> QED BY <2>1, <2>4, BufAssumption
<1>10. \A x : Has(FlattenSeq(ss), x) <=> \E i \in Servers : Has(AppTokens(i, t[i]), x)
  BY <1>2, <1>6, <1>8 DEF Servers
<1> QED BY <1>1, <1>4, <1>8, <1>9, <1>10, AppTokensFacts

LEMMA JsonFacts ==
  ASSUME NEW t \in Texts, NEW L, L = Len(Json(t))
  PROVE  /\ Json(t) \in Seq(Tokens) /\ L \in Nat /\ L >= 2 /\ L + 2 <= Buf
         /\ Json(t)[1] = Mark("begin") /\ Json(t)[L] = Mark("end")
         /\ \A k \in 1 .. L : 1 < k /\ k < L => Json(t)[k].kind \in {"dram", "nvm"}
         /\ \A x : x.kind = "nvm" =>
              (Has(Json(t), x) <=> \E i \in Servers : \E j \in DOMAIN t[i] :
                                     x = Token("nvm", i, j, t[i][j]))
<1> DEFINE b == Mark("begin")
           e == Mark("end")
           F == Body(t)
           f == Len(F)
           J == Json(t)
<1>1. J = (<<b>> \o F) \o <<e>>
  BY DEF Json, Body
<1>2. b \in Tokens /\ e \in Tokens /\ b.kind = "begin" /\ e.kind = "end"
  <2>1. "begin" \in Kinds /\ "end" \in Kinds
    BY DEF Kinds
  <2> QED BY <2>1, TokenIs
<1>3. F \in Seq(Tokens) /\ f \in Nat /\ f + 4 <= Buf
  BY BodyFacts, LenProperties
<1>4. \A x : Has(F, x) => x.kind \in {"dram", "nvm"}
  BY BodyFacts, TokenIs
<1>5. \A x : x.kind = "nvm" =>
        (Has(F, x) <=> \E i \in Servers : \E j \in DOMAIN t[i] :
                         x = Token("nvm", i, j, t[i][j]))
  BY BodyFacts, TokenIs
<1> HIDE DEF F, J, b, e
<1> DEFINE p == <<b>>
           q == p \o F
           r == <<e>>
<1>6. p \in Seq(Tokens) /\ Len(p) = 1 /\ p[1] = b /\ r \in Seq(Tokens) /\ Len(r) = 1 /\ r[1] = e
  BY <1>2
<1>7. J = q \o r
  BY <1>1
<1> HIDE DEF p, r
<1>8. /\ q \in Seq(Tokens) /\ Len(q) = 1 + f
      /\ \A k \in 1 .. 1 + f : q[k] = IF k <= 1 THEN p[k] ELSE F[k - 1]
  <2>1. /\ p \o F \in Seq(Tokens) /\ Len(p \o F) = Len(p) + Len(F)
        /\ \A k \in 1 .. Len(p) + Len(F) :
             (p \o F)[k] = IF k <= Len(p) THEN p[k] ELSE F[k - Len(p)]
    BY <1>3, <1>6, ConcatProperties
  <2> QED BY <1>6, <2>1
<1> HIDE DEF q
<1>9. /\ J \in Seq(Tokens) /\ Len(J) = f + 2
      /\ \A k \in 1 .. (1 + f) + 1 : J[k] = IF k <= 1 + f THEN q[k] ELSE r[k - (1 + f)]
  <2>1. /\ q \o r \in Seq(Tokens) /\ Len(q \o r) = Len(q) + Len(r)
        /\ \A k \in 1 .. Len(q) + Len(r) :
             (q \o r)[k] = IF k <= Len(q) THEN q[k] ELSE r[k - Len(q)]
    BY <1>6, <1>8, ConcatProperties
  <2>2. Len(q) = 1 + f /\ Len(r) = 1 /\ f \in Nat
    BY <1>3, <1>6, <1>8
  <2>3. (1 + f) + 1 = f + 2
    BY <1>3
  <2> QED BY <1>7, <2>1, <2>2, <2>3
<1>10. L = f + 2
  BY <1>9 DEF J
<1>11. J[1] = b
  BY <1>3, <1>6, <1>8, <1>9
<1>12. J[L] = e
  <2>1. f + 2 \in 1 .. (1 + f) + 1 /\ ~(f + 2 <= 1 + f) /\ (f + 2) - (1 + f) = 1
    BY <1>3
  <2> QED BY <1>6, <1>9, <1>10, <2>1
<1>13. \A k \in 1 .. L : 1 < k /\ k < L => k - 1 \in 1 .. f /\ J[k] = F[k - 1]
  <2> SUFFICES ASSUME NEW k \in 1 .. L, 1 < k, k < L
               PROVE  k - 1 \in 1 .. f /\ J[k] = F[k - 1]
    OBVIOUS
  <2>1. k \in 1 .. 1 + f /\ k \in 1 .. (1 + f) + 1 /\ k <= 1 + f /\ ~(k <= 1) /\ k - 1 \in 1 .. f
    BY <1>3, <1>10
  <2> QED BY <1>8, <1>9, <2>1
<1>14. \A k \in 1 .. f : Has(F, F[k])
  BY DEF Has
<1>15. \A k \in 1 .. L : 1 < k /\ k < L => J[k].kind \in {"dram", "nvm"}
  BY <1>4, <1>13, <1>14
<1>16. ASSUME NEW x, x.kind = "nvm"
       PROVE  Has(J, x) <=> Has(F, x)
  <2>1. ASSUME NEW k \in 1 .. Len(J), J[k] = x
        PROVE  Has(F, x)
    <3>1. k # 1 /\ k # L
      BY <1>2, <1>11, <1>12, <1>16, <2>1
    <3>2. k \in 1 .. L /\ 1 < k /\ k < L
      BY <1>3, <1>9, <1>10, <3>1
    <3> QED BY <1>13, <1>14, <2>1, <3>2
  <2>2. ASSUME NEW k \in 1 .. f, F[k] = x
        PROVE  Has(J, x)
    <3>1. k + 1 \in 1 .. L /\ 1 < k + 1 /\ k + 1 < L /\ (k + 1) - 1 = k
      BY <1>3, <1>10
    <3>2. J[k + 1] = x
      BY <1>13, <2>2, <3>1
    <3>3. k + 1 \in 1 .. Len(J)
      BY <1>9, <1>10, <3>1
    <3> QED BY <3>2, <3>3 DEF Has
  <2> QED BY <2>1, <2>2 DEF Has
<1>17. L \in Nat /\ L >= 2 /\ L + 2 <= Buf
  BY <1>3, <1>10, BufAssumption
<1> QED BY <1>5, <1>9, <1>11, <1>12, <1>15, <1>16, <1>17 DEF J, b, e

LEMMA TextIs ==
  ASSUME NEW t \in Texts, NEW i \in Servers
  PROVE  \E n \in 0 .. MaxApps :
           /\ n \in Nat /\ DOMAIN t[i] = 1 .. n /\ Len(t[i]) = n
           /\ t[i] \in Seq(0 .. MaxReports) /\ t[i] \in [1 .. n -> 0 .. MaxReports]
<1>1. t[i] \in AppLists
  BY DEF Texts
<1> QED BY <1>1, AppListIs

\* What the web server makes of a text is what the watcher made it of.
LEMMA FormatJson ==
  ASSUME NEW t \in Texts
  PROVE  FormatMsg(Json(t)) = t
<1> DEFINE J == Json(t)
<1>1. J \in Seq(Tokens) /\ DOMAIN J = 1 .. Len(J)
  BY JsonFacts, LenProperties
<1>2. \A x : x.kind = "nvm" =>
        (Has(J, x) <=> \E i \in Servers : \E j \in DOMAIN t[i] :
                         x = Token("nvm", i, j, t[i][j]))
  BY JsonFacts
<1> HIDE DEF J
<1>3. \A x : x \in ToSet(J) <=> Has(J, x)
  BY <1>1 DEF ToSet, Has
<1>4. ASSUME NEW i \in Servers
      PROVE  AppsOf(J, i) = t[i]
  <2> DEFINE mine == {x \in ToSet(J) : x.kind = "nvm" /\ x.server = i}
             tok(j) == Token("nvm", i, j, t[i][j])
             apps == {x.app : x \in mine}
  <2>1. PICK n \in 0 .. MaxApps :
          n \in Nat /\ DOMAIN t[i] = 1 .. n /\ t[i] \in [1 .. n -> 0 .. MaxReports]
    BY TextIs
  <2>2. \A j : tok(j).kind = "nvm" /\ tok(j).server = i /\ tok(j).app = j /\ tok(j).used = t[i][j]
    BY TokenIs
  <2>3. ASSUME NEW x
        PROVE  x \in mine <=> \E j \in DOMAIN t[i] : x = tok(j)
    <3>1. ASSUME x \in mine
          PROVE  \E j \in DOMAIN t[i] : x = tok(j)
      <4>1. PICK s \in Servers : \E j \in DOMAIN t[s] : x = Token("nvm", s, j, t[s][j])
        BY <1>2, <1>3, <3>1
      <4>2. s = i
        BY <3>1, <4>1, TokenIs
      <4> QED BY <4>1, <4>2
    <3>2. ASSUME NEW j \in DOMAIN t[i], x = tok(j)
          PROVE  x \in mine
      <4>1. x.kind = "nvm" /\ x.server = i
        BY <2>2, <3>2
      <4>2. Has(J, x)
        BY <1>2, <3>2, <4>1
      <4> QED BY <1>3, <4>1, <4>2
    <3> QED BY <3>1, <3>2
  <2>4. AppsOf(J, i) = [j \in apps |-> (CHOOSE x \in mine : x.app = j).used]
    BY DEF AppsOf
  <2> HIDE DEF mine, tok
  <2>5. apps = DOMAIN t[i]
    BY <2>2, <2>3
  <2>6. ASSUME NEW j \in DOMAIN t[i]
        PROVE  (CHOOSE x \in mine : x.app = j).used = t[i][j]
    <3>1. tok(j) \in mine /\ tok(j).app = j
      BY <2>2, <2>3
    <3>2. \A x \in mine : x.app = j => x = tok(j)
      BY <2>2, <2>3
    <3>3. (CHOOSE x \in mine : x.app = j) = tok(j)
      BY <3>1, <3>2
    <3> QED BY <2>2, <3>3
  <2> HIDE DEF apps
  <2> QED BY <2>1, <2>4, <2>5, <2>6
<1>5. t = [i \in Servers |-> t[i]]
  BY DEF Texts
<1> QED BY <1>4, <1>5 DEF FormatMsg, J

LEMMA JsonPlain ==
  ASSUME NEW t \in Texts, NEW m \in 1 .. Len(Json(t))
  PROVE  /\ Json(t)[m] \in Tokens
         /\ Json(t)[m] # Mark("nl") /\ Json(t)[m] # Mark("nul")
         /\ Json(t)[m] = Mark("begin") => m = 1
<1> DEFINE J == Json(t)
           L == Len(J)
<1>1. /\ J \in Seq(Tokens) /\ L \in Nat /\ J[1] = Mark("begin") /\ J[L] = Mark("end")
      /\ \A k \in 1 .. L : 1 < k /\ k < L => J[k].kind \in {"dram", "nvm"}
  BY JsonFacts
<1> HIDE DEF J
<1>2. J[m] \in Tokens
  BY <1>1, ElementOfSeq DEF J
<1>3. m = 1 \/ m = L \/ (m # 1 /\ 1 < m /\ m < L)
  BY <1>1 DEF J
<1>4. \/ m = 1 /\ J[m].kind = "begin"
      \/ J[m].kind \in {"end", "dram", "nvm"}
  BY <1>1, <1>3, TokenIs DEF J
<1> QED BY <1>2, <1>4, TokenIs DEF J

(***************************************************************************)
(* Text t begins at position k of s, and a newline follows it.             *)
(***************************************************************************)
TextAt(s, k, t) ==
  /\ k \in 1 .. Len(s) /\ k + Len(Json(t)) \in 1 .. Len(s)
  /\ \A m \in 1 .. Len(Json(t)) : s[k + m - 1] = Json(t)[m]
  /\ s[k + Len(Json(t))] = Mark("nl")

\* Wherever a text begins in s, it is one of T, and complete.
Framed(s, T) ==
  \A k \in 1 .. Len(s) : s[k] = Mark("begin") => \E t \in T : TextAt(s, k, t)

LEMMA TextBegins ==
  ASSUME NEW s \in Seq(Tokens), NEW k, NEW t \in Texts, TextAt(s, k, t)
  PROVE  k \in 1 .. Len(s) /\ s[k] = Mark("begin")
<1>1. Len(Json(t)) \in Nat /\ Len(Json(t)) >= 2 /\ Json(t)[1] = Mark("begin")
  BY JsonFacts
<1>2. 1 \in 1 .. Len(Json(t))
  BY <1>1
<1>3. k \in Int /\ k + 1 - 1 = k
  BY LenProperties DEF TextAt
<1> QED BY <1>1, <1>2, <1>3 DEF TextAt

LEMMA TextNotShorter ==
  ASSUME NEW s \in Seq(Tokens), NEW k, NEW t \in Texts, NEW u \in Texts,
         TextAt(s, k, t), TextAt(s, k, u)
  PROVE  ~(Len(Json(t)) < Len(Json(u)))
<1> DEFINE L == Len(Json(t))
           M == Len(Json(u))
<1> SUFFICES ASSUME L < M PROVE FALSE
  OBVIOUS
<1>1. L \in Nat /\ M \in Nat
  BY JsonFacts
<1>2. k \in Int
  BY LenProperties DEF TextAt
<1>3. L + 1 \in 1 .. M /\ k + (L + 1) - 1 = k + L
  BY <1>1, <1>2
<1>4. s[k + (L + 1) - 1] = Json(u)[L + 1]
  BY <1>3 DEF TextAt
<1>5. s[k + L] = Mark("nl")
  BY DEF TextAt
<1>6. Json(u)[L + 1] # Mark("nl")
  BY <1>3, JsonPlain
<1> HIDE DEF L, M
<1> QED BY <1>3, <1>4, <1>5, <1>6

LEMMA TextOnce ==
  ASSUME NEW s \in Seq(Tokens), NEW k, NEW t \in Texts, NEW u \in Texts,
         TextAt(s, k, t), TextAt(s, k, u)
  PROVE  t = u
<1>1. Json(t) \in Seq(Tokens) /\ Json(u) \in Seq(Tokens)
      /\ Len(Json(t)) \in Nat /\ Len(Json(u)) \in Nat
  BY JsonFacts
<1>2. Len(Json(t)) = Len(Json(u))
  BY <1>1, TextNotShorter
<1>3. \A m \in 1 .. Len(Json(t)) : Json(t)[m] = Json(u)[m]
  BY <1>2 DEF TextAt
<1>4. Json(t) = Json(u)
  BY <1>1, <1>2, <1>3, SeqEqual
<1> QED BY <1>4, FormatJson

\* The decoder cuts something off.
Suffix(s, n) == SubSeq(s, n + 1, Len(s))

LEMMA SuffixTexts ==
  ASSUME NEW s \in Seq(Tokens), NEW n \in 0 .. Len(s), NEW r, r = Suffix(s, n)
  PROVE  /\ r \in Seq(Tokens) /\ Len(r) = Len(s) - n
         /\ \A k \in 1 .. Len(r) : k + n \in 1 .. Len(s) /\ r[k] = s[k + n]
         /\ \A k \in 1 .. Len(r), t \in Texts : TextAt(r, k, t) <=> TextAt(s, k + n, t)
<1>1. Len(s) \in Nat /\ n \in Nat /\ n <= Len(s)
  BY LenProperties
<1>2. \A i \in n + 1 .. Len(s) : s[i] \in Tokens
  BY <1>1, ElementOfSeq
<1>3. /\ SubSeq(s, n + 1, Len(s)) \in Seq(Tokens)
      /\ Len(SubSeq(s, n + 1, Len(s))) =
           IF n + 1 <= Len(s) THEN Len(s) - (n + 1) + 1 ELSE 0
      /\ \A i \in 1 .. Len(s) - (n + 1) + 1 : SubSeq(s, n + 1, Len(s))[i] = s[(n + 1) + i - 1]
  BY <1>1, <1>2, SubSeqProperties
<1>4. r \in Seq(Tokens) /\ Len(r) = Len(s) - n
  BY <1>1, <1>3 DEF Suffix
<1>5. ASSUME NEW k \in 1 .. Len(r)
      PROVE  k + n \in 1 .. Len(s) /\ r[k] = s[k + n]
  <2>1. k + n \in 1 .. Len(s) /\ k \in 1 .. Len(s) - (n + 1) + 1 /\ (n + 1) + k - 1 = k + n
    BY <1>1, <1>4
  <2> QED BY <1>3, <2>1 DEF Suffix
<1>6. ASSUME NEW k \in 1 .. Len(r), NEW t \in Texts
      PROVE  TextAt(r, k, t) <=> TextAt(s, k + n, t)
  <2> DEFINE L == Len(Json(t))
             J == Json(t)
  <2>1. L \in Nat /\ k \in Nat
    BY JsonFacts
  <2>2. (k + L \in 1 .. Len(r)) <=> ((k + n) + L \in 1 .. Len(s))
    BY <1>1, <1>4, <2>1
  <2>3. ASSUME k + L \in 1 .. Len(r)
        PROVE  /\ r[k + L] = s[(k + n) + L]
               /\ \A m \in 1 .. L : r[k + m - 1] = s[(k + n) + m - 1]
    <3>1. (k + L) + n = (k + n) + L
      BY <1>1, <2>1
    <3>2. \A m \in 1 .. L : k + m - 1 \in 1 .. Len(r) /\ (k + m - 1) + n = (k + n) + m - 1
      BY <1>1, <1>4, <2>1, <2>3
    <3> QED BY <1>5, <2>3, <3>1, <3>2
  <2> HIDE DEF L, J
  <2>4. TextAt(r, k, t) <=>
          /\ k + L \in 1 .. Len(r)
          /\ \A m \in 1 .. L : r[k + m - 1] = J[m]
          /\ r[k + L] = Mark("nl")
    BY DEF TextAt, L, J
  <2>5. TextAt(s, k + n, t) <=>
          /\ (k + n) + L \in 1 .. Len(s)
          /\ \A m \in 1 .. L : s[(k + n) + m - 1] = J[m]
          /\ s[(k + n) + L] = Mark("nl")
    BY <1>5 DEF TextAt, L, J
  <2> QED BY <2>2, <2>3, <2>4, <2>5
<1> QED BY <1>4, <1>5, <1>6

(***************************************************************************)
(* What is written and what is cut off.                                    *)
(***************************************************************************)
\* Texts stay where they are when something is written behind them ...
LEMMA TextStays ==
  ASSUME NEW s \in Seq(Tokens), NEW b \in Seq(Tokens),
         NEW k, NEW t \in Texts, TextAt(s, k, t)
  PROVE  TextAt(s \o b, k, t)
<1> DEFINE r == s \o b
           L == Len(Json(t))
<1>1. Len(s) \in Nat /\ Len(b) \in Nat /\ L \in Nat
  BY LenProperties, JsonFacts
<1>2. /\ Len(r) = Len(s) + Len(b)
      /\ \A i \in 1 .. Len(s) + Len(b) : r[i] = IF i <= Len(s) THEN s[i] ELSE b[i - Len(s)]
  BY ConcatProperties
<1> HIDE DEF r
<1>3. \A i \in 1 .. Len(s) : i \in 1 .. Len(r) /\ r[i] = s[i]
  BY <1>1, <1>2
<1>4. k \in 1 .. Len(s) /\ k + L \in 1 .. Len(s)
  BY DEF TextAt
<1>5. \A m \in 1 .. L : k + m - 1 \in 1 .. Len(s)
  BY <1>1, <1>4
<1> QED BY <1>3, <1>4, <1>5 DEF TextAt, r

\* ... and what is written behind them is there as well.
LEMMA TextAdded ==
  ASSUME NEW s \in Seq(Tokens), NEW b \in Seq(Tokens), NEW k \in 1 .. Len(b)
  PROVE  /\ Len(s) + k \in 1 .. Len(s \o b) /\ (s \o b)[Len(s) + k] = b[k]
         /\ \A t \in Texts : TextAt(s \o b, Len(s) + k, t) <=> TextAt(b, k, t)
<1> DEFINE r == s \o b
           n == Len(s)
<1>1. r \in Seq(Tokens) /\ n \in Nat /\ Len(b) \in Nat /\ Len(r) = n + Len(b)
  BY ConcatProperties, LenProperties
<1>2. n \in 0 .. Len(r) /\ n + 1 \in n + 1 .. Len(r) /\ Len(r) \in n + 1 .. Len(r)
  BY <1>1
<1>3. SubSeq(r, n + 1, Len(r)) = b
  <2>1. SubSeq(s \o b, n + 1, n + Len(b)) = SubSeq(b, (n + 1) - n, (n + Len(b)) - n)
    BY <1>1, <1>2, SubSeqOfConcat2
  <2>2. (n + 1) - n = 1 /\ (n + Len(b)) - n = Len(b)
    BY <1>1
  <2>3. SubSeq(b, 1, Len(b)) = b
    BY SubSeqFull
  <2> QED BY <1>1, <2>1, <2>2, <2>3
<1> HIDE DEF r
<1>4. /\ \A i \in 1 .. Len(b) : i + n \in 1 .. Len(r) /\ b[i] = r[i + n]
      /\ \A i \in 1 .. Len(b), t \in Texts : TextAt(b, i, t) <=> TextAt(r, i + n, t)
  <2>1. r \in Seq(Tokens) /\ n \in 0 .. Len(r) /\ b = Suffix(r, n)
    BY <1>1, <1>2, <1>3 DEF Suffix
  <2> HIDE DEF n
  <2>2. ASSUME NEW i \in 1 .. Len(b)
        PROVE  i + n \in 1 .. Len(r) /\ b[i] = r[i + n]
    BY <2>1, SuffixTexts
  <2>3. ASSUME NEW i \in 1 .. Len(b), NEW t \in Texts
        PROVE  TextAt(b, i, t) <=> TextAt(r, i + n, t)
    BY <2>1, SuffixTexts
  <2> QED BY <2>2, <2>3
<1>5. k + n = n + k
  BY <1>1
<1> QED BY <1>4, <1>5 DEF r

\* A position of two sequences joined is in the one or in the other.
LEMMA JoinedPosition ==
  ASSUME NEW s \in Seq(Tokens), NEW b \in Seq(Tokens), NEW k \in 1 .. Len(s \o b)
  PROVE  \/ k \in 1 .. Len(s) /\ (s \o b)[k] = s[k]
         \/ \E j \in 1 .. Len(b) : k = Len(s) + j
<1>1. Len(s) \in Nat /\ Len(b) \in Nat
  BY LenProperties
<1>2. /\ Len(s \o b) = Len(s) + Len(b)
      /\ \A i \in 1 .. Len(s) + Len(b) :
           (s \o b)[i] = IF i <= Len(s) THEN s[i] ELSE b[i - Len(s)]
  BY ConcatProperties
<1>3. CASE k <= Len(s)
  BY <1>1, <1>2, <1>3
<1>4. CASE ~(k <= Len(s))
  <2>1. k - Len(s) \in 1 .. Len(b) /\ k = Len(s) + (k - Len(s))
    BY <1>1, <1>2, <1>4
  <2> QED BY <2>1
<1> QED BY <1>3, <1>4

LEMMA JoinedFramed ==
  ASSUME NEW s \in Seq(Tokens), NEW b \in Seq(Tokens), NEW T \in SUBSET Texts,
         Framed(s, T), Framed(b, T)
  PROVE  Framed(s \o b, T)
<1> SUFFICES ASSUME NEW k \in 1 .. Len(s \o b), (s \o b)[k] = Mark("begin")
             PROVE  \E t \in T : TextAt(s \o b, k, t)
  BY DEF Framed
<1>1. CASE k \in 1 .. Len(s) /\ (s \o b)[k] = s[k]
  <2>1. PICK t \in T : TextAt(s, k, t)
    BY <1>1 DEF Framed
  <2>2. t \in Texts
    OBVIOUS
  <2> QED BY <2>1, <2>2, TextStays
<1>2. CASE \E j \in 1 .. Len(b) : k = Len(s) + j
  <2>1. PICK j \in 1 .. Len(b) : k = Len(s) + j
    BY <1>2
  <2>2. b[j] = Mark("begin")
    BY <2>1, TextAdded
  <2>3. PICK t \in T : TextAt(b, j, t)
    BY <2>2 DEF Framed
  <2> QED BY <2>1, <2>3, TextAdded
<1> QED BY <1>1, <1>2, JoinedPosition

\* A text that is there after something was written was there, or is new.
LEMMA JoinedTexts ==
  ASSUME NEW s \in Seq(Tokens), NEW b \in Seq(Tokens), NEW T \in SUBSET Texts,
         Framed(s, T), NEW k, NEW t \in Texts, TextAt(s \o b, k, t)
  PROVE  \/ TextAt(s, k, t)
         \/ \E j \in 1 .. Len(b) : k = Len(s) + j /\ TextAt(b, j, t)
<1>1. s \o b \in Seq(Tokens)
  BY ConcatProperties
<1>2. k \in 1 .. Len(s \o b) /\ (s \o b)[k] = Mark("begin")
  BY <1>1, TextBegins
<1>3. CASE k \in 1 .. Len(s) /\ (s \o b)[k] = s[k]
  <2>1. PICK u \in T : TextAt(s, k, u)
    BY <1>2, <1>3 DEF Framed
  <2>2. u \in Texts /\ TextAt(s \o b, k, u)
    BY <2>1, TextStays
  <2>3. u = t
    BY <1>1, <2>2, TextOnce
  <2> QED BY <2>1, <2>3
<1>4. CASE \E j \in 1 .. Len(b) : k = Len(s) + j
  BY <1>4, TextAdded
<1> QED BY <1>2, <1>3, <1>4, JoinedPosition

LEMMA SuffixFramed ==
  ASSUME NEW s \in Seq(Tokens), NEW n \in 0 .. Len(s), NEW T \in SUBSET Texts,
         Framed(s, T)
  PROVE  Framed(Suffix(s, n), T)
<1> DEFINE r == Suffix(s, n)
<1> HIDE DEF r
<1>1. /\ \A k \in 1 .. Len(r) : k + n \in 1 .. Len(s) /\ r[k] = s[k + n]
      /\ \A k \in 1 .. Len(r), t \in Texts : TextAt(r, k, t) <=> TextAt(s, k + n, t)
  BY SuffixTexts DEF r
<1>2. ASSUME NEW k \in 1 .. Len(r), r[k] = Mark("begin")
      PROVE  \E t \in T : TextAt(r, k, t)
  <2>1. PICK t \in T : TextAt(s, k + n, t)
    BY <1>1, <1>2 DEF Framed
  <2> QED BY <1>1, <2>1
<1> QED BY <1>2 DEF Framed, r

\* sendBuff: no text begins in what earlier ones have left behind.
IsBuffer(b) ==
  /\ b \in Seq(Tokens) /\ Len(b) = Buf
  /\ \A k \in 1 .. Buf : b[k] = Mark("begin") => k = 1

LEMMA FillFacts ==
  ASSUME NEW b, IsBuffer(b), NEW t \in Texts, NEW f, f = Fill(b, Json(t))
  PROVE  /\ IsBuffer(f) /\ f \in Seq(Tokens) /\ TextAt(f, 1, t)
         /\ \A k : \A u \in Texts : TextAt(f, k, u) => k = 1 /\ u = t
         /\ \A T \in SUBSET Texts : t \in T => Framed(f, T)
<1> DEFINE J == Json(t)
           L == Len(J)
<1>1. J \in Seq(Tokens) /\ L \in Nat /\ L >= 2 /\ L + 2 <= Buf /\ Buf \in Nat
  BY JsonFacts, BufAssumption
<1>2. \A m \in 1 .. L : J[m] \in Tokens /\ (J[m] = Mark("begin") => m = 1)
  BY JsonPlain
<1> HIDE DEF J
<1>3. b \in Seq(Tokens) /\ DOMAIN b = 1 .. Buf
  BY LenProperties DEF IsBuffer
<1>4. /\ f = [k \in 1 .. Buf |->
               IF k <= L THEN J[k]
               ELSE IF k = L + 1 THEN Mark("nl")
               ELSE IF k = L + 2 THEN Mark("nul")
               ELSE b[k]]
  BY <1>3 DEF Fill, J
<1>5. Mark("nl") \in Tokens /\ Mark("nul") \in Tokens
      /\ Mark("nl") # Mark("begin") /\ Mark("nul") # Mark("begin")
  <2>1. "nl" \in Kinds /\ "nul" \in Kinds
    BY DEF Kinds
  <2>2. Mark("nl").kind = "nl" /\ Mark("nul").kind = "nul" /\ Mark("begin").kind = "begin"
    BY TokenIs
  <2> QED BY <2>1, <2>2, TokenIs
<1>6. \A k \in 1 .. Buf : b[k] \in Tokens /\ (b[k] = Mark("begin") => k = 1)
  BY ElementOfSeq DEF IsBuffer
<1>7. \A k \in 1 .. Buf : k <= L => k \in 1 .. L
  BY <1>1
<1>8. ASSUME NEW k \in 1 .. Buf
      PROVE  f[k] \in Tokens /\ (f[k] = Mark("begin") => k = 1)
  BY <1>2, <1>4, <1>5, <1>6, <1>7
<1>9. f \in [1 .. Buf -> Tokens]
  BY <1>4, <1>8
<1>10. f \in Seq(Tokens) /\ Len(f) = Buf
  BY <1>1, <1>9, FcnIsSeq
<1>11. IsBuffer(f)
  BY <1>8, <1>10 DEF IsBuffer
<1>12. TextAt(f, 1, t)
  <2>1. 1 \in 1 .. Buf /\ 1 + L \in 1 .. Buf /\ ~(1 + L <= L) /\ 1 + L = L + 1
    BY <1>1
  <2>2. f[1 + L] = Mark("nl")
    BY <1>4, <2>1
  <2>3. \A m \in 1 .. L : m \in 1 .. Buf /\ m <= L /\ 1 + m - 1 = m
    BY <1>1
  <2>4. \A m \in 1 .. L : f[1 + m - 1] = J[m]
    BY <1>4, <2>3
  <2> QED BY <1>10, <2>1, <2>2, <2>4 DEF TextAt, J
<1>13. ASSUME NEW k, NEW u \in Texts, TextAt(f, k, u)
       PROVE  k = 1 /\ u = t
  <2>1. k \in 1 .. Len(f) /\ f[k] = Mark("begin")
    BY <1>10, <1>13, TextBegins
  <2>2. k = 1
    BY <1>8, <1>10, <2>1
  <2> QED BY <1>10, <1>12, <1>13, <2>2, TextOnce
<1>14. \A T \in SUBSET Texts : t \in T => Framed(f, T)
  BY <1>8, <1>10, <1>12 DEF Framed
<1> QED BY <1>10, <1>11, <1>12, <1>13, <1>14

\* What is cut off at a newline and parses is the text that ends there.
LEMMA FrameCut ==
  ASSUME NEW s \in Seq(Tokens), NEW T \in SUBSET Texts, Framed(s, T),
         NEW n \in 1 .. Len(s), s[n] = Mark("nl"),
         \A k \in 1 .. Len(s) : s[k] = Mark("nl") => n <= k,
         NEW msg, msg = Trimmed(SubSeq(s, 1, n - 1)), Parses(msg)
  PROVE  \E t \in T : \E a \in 1 .. n : msg = Json(t) /\ TextAt(s, a, t)
<1> DEFINE x == SubSeq(s, 1, n - 1)
           kept == {k \in DOMAIN x : x[k] # Mark("nul")}
           a == Min(kept)
           b == Max(kept)
<1>1. Len(s) \in Nat /\ n \in Nat /\ n >= 1 /\ n <= Len(s)
  BY LenProperties
<1>2. x \in Seq(Tokens) /\ Len(x) = n - 1 /\ DOMAIN x = 1 .. n - 1
      /\ \A k \in 1 .. n - 1 : k \in 1 .. Len(s) /\ x[k] = s[k]
  <2>1. \A i \in 1 .. n - 1 : i \in 1 .. Len(s) /\ s[i] \in Tokens
    BY <1>1, ElementOfSeq
  <2>2. /\ x \in Seq(Tokens) /\ Len(x) = IF 1 <= n - 1 THEN (n - 1) - 1 + 1 ELSE 0
        /\ \A i \in 1 .. (n - 1) - 1 + 1 : x[i] = s[1 + i - 1]
    BY <1>1, <2>1, SubSeqProperties
  <2> HIDE DEF x
  <2>3. Len(x) = n - 1 /\ (n - 1) - 1 + 1 = n - 1
    BY <1>1, <2>2
  <2>4. \A i \in 1 .. n - 1 : 1 + i - 1 = i
    BY <1>1
  <2> QED BY <2>1, <2>2, <2>3, <2>4, LenProperties
<1>3. msg = IF kept = {} THEN <<>> ELSE SubSeq(x, a, b)
  BY DEF Trimmed
<1>4. kept # {}
  <2> SUFFICES ASSUME kept = {} PROVE FALSE
    OBVIOUS
  <2>1. msg = <<>> /\ Len(msg) >= 2
    BY <1>3 DEF Parses
  <2> QED BY <2>1, EmptySeq
<1> HIDE DEF x
<1>5. /\ a \in 1 .. n - 1 /\ b \in 1 .. n - 1 /\ a <= b
      /\ \A k \in 1 .. n - 1 : x[k] # Mark("nul") => a <= k /\ k <= b
  <2>1. kept \in SUBSET (0 .. n) /\ kept \in SUBSET Nat /\ kept \in SUBSET (1 .. n - 1)
    BY <1>1, <1>2
  <2>2. a \in kept /\ b \in kept /\ \A k \in kept : a <= k /\ k <= b
    <3> HIDE DEF kept
    <3> QED BY <1>1, <1>4, <2>1, MinIs, MaxIs
  <2>3. \A k \in 1 .. n - 1 : x[k] # Mark("nul") => k \in kept
    BY <1>2
  <2> HIDE DEF kept, a, b
  <2> QED BY <2>1, <2>2, <2>3
<1> HIDE DEF kept, a, b
<1>6. msg = SubSeq(x, a, b)
  BY <1>3, <1>4
<1>7. /\ msg \in Seq(Tokens) /\ Len(msg) = b - a + 1
      /\ \A i \in 1 .. b - a + 1 : a + i - 1 \in 1 .. n - 1 /\ msg[i] = s[a + i - 1]
  <2>1. a \in Int /\ b \in Int
    BY <1>1, <1>5
  <2>2. \A i \in a .. b : x[i] \in Tokens
    BY <1>1, <1>2, <1>5, ElementOfSeq
  <2>3. /\ SubSeq(x, a, b) \in Seq(Tokens)
        /\ Len(SubSeq(x, a, b)) = IF a <= b THEN b - a + 1 ELSE 0
        /\ \A i \in 1 .. b - a + 1 : SubSeq(x, a, b)[i] = x[a + i - 1]
    BY <2>1, <2>2, SubSeqProperties
  <2>4. \A i \in 1 .. b - a + 1 : a + i - 1 \in 1 .. n - 1
    BY <1>1, <1>5
  <2> QED BY <1>2, <1>5, <1>6, <2>3, <2>4
<1>8. s[a] = Mark("begin")
  <2>1. 1 \in 1 .. b - a + 1 /\ a + 1 - 1 = a
    BY <1>5, <1>1
  <2>2. msg[1] = s[a]
    BY <1>7, <2>1
  <2>3. msg # <<>> /\ Head(msg) = Mark("begin")
    BY EmptySeq DEF Parses
  <2>4. Head(msg) = msg[1]
    BY <1>7, <2>3
  <2> QED BY <2>2, <2>3, <2>4
<1>9. PICK t \in T : TextAt(s, a, t)
  BY <1>2, <1>5, <1>8 DEF Framed
<1> DEFINE J == Json(t)
           L == Len(J)
<1>10. t \in Texts /\ J \in Seq(Tokens) /\ L \in Nat /\ L >= 2
  BY JsonFacts
<1>11. /\ a + L \in 1 .. Len(s) /\ s[a + L] = Mark("nl")
       /\ \A m \in 1 .. L : s[a + m - 1] = J[m]
  BY <1>9 DEF TextAt
<1>12. \A m \in 1 .. L : J[m] # Mark("nl") /\ J[m] # Mark("nul")
  BY <1>10, JsonPlain
<1> HIDE DEF J, L
<1>13. n = a + L
  <2>1. n <= a + L
    BY <1>11
  <2>2. ASSUME n < a + L
        PROVE  FALSE
    <3>1. n - a + 1 \in 1 .. L /\ a + (n - a + 1) - 1 = n
      BY <1>1, <1>5, <1>10, <2>2
    <3> QED BY <1>11, <1>12, <3>1
  <2> QED BY <1>1, <1>5, <1>10, <2>1, <2>2
<1>14. b = n - 1
  <2>1. L \in 1 .. L /\ a + L - 1 = n - 1 /\ n - 1 \in 1 .. n - 1
    BY <1>1, <1>5, <1>10, <1>13
  <2>2. x[n - 1] # Mark("nul")
    BY <1>2, <1>11, <1>12, <2>1
  <2> QED BY <1>1, <1>5, <2>1, <2>2
<1>15. b - a + 1 = L
  BY <1>1, <1>5, <1>10, <1>13, <1>14
<1>16. msg = J
  <2>1. Len(msg) = Len(J) /\ \A i \in 1 .. Len(msg) : msg[i] = J[i]
    BY <1>7, <1>11, <1>15 DEF L
  <2> QED BY <1>7, <1>10, <2>1, SeqEqual
<1>17. a \in 1 .. n
  BY <1>1, <1>5
<1> QED BY <1>9, <1>16, <1>17 DEF J

(***************************************************************************)
(* What has been reported.                                                 *)
(***************************************************************************)

\* v is the number of a report of server i that lists app j.
Said(i, j, v) == v \in 1 .. taken[i] /\ j <= reported[i][v]
\* With several servers an entry that was never set may be counted.
Good(i, j, v) == (v = 0 /\ Nets # 1) \/ Said(i, j, v)
GoodMemory(m) == \A i \in DOMAIN m : \A j \in DOMAIN m[i] : Good(i, j, m[i][j])

Memories == UNION {[S -> AppLists] : S \in SUBSET Servers}
GoodTexts == {t \in Texts : GoodMemory(t)}
GoodMemories == {m \in Memories : GoodMemory(m)}
GoodMessages == [kind : {"push", "hello"}, data : GoodMemories]

ReportInv ==
  /\ reported \in [Servers -> Seq(0 .. MaxApps)] /\ taken \in [Servers -> Nat]
  /\ \A i \in Servers : taken[i] <= Len(reported[i]) /\ Len(reported[i]) <= MaxReports

StoringInv ==
  \/ storing = Nobody
  \/ \E i \in Servers, j \in 1 .. MaxApps + 1 :
       /\ storing = [server |-> i, entry |-> j]
       /\ taken[i] >= 1 /\ j <= reported[i][taken[i]] + 1
       /\ \A k \in 1 .. j - 1 : info[i][k] # 0

InfoInv ==
  /\ info \in [Servers -> [1 .. MaxClients -> 0 .. MaxReports]]
  /\ \A i \in Servers, j \in 1 .. MaxClients : info[i][j] = 0 \/ Said(i, j, info[i][j])
  /\ num \in 0 .. MaxApps
  /\ Nets = 1 => \A j \in 1 .. num : info[1][j] # 0

DraftInv ==
  /\ informer \in {"json", "reading"}
  /\ draft \in [text : GoodTexts, at : 1 .. Nets + 1]

StreamInv ==
  /\ IsBuffer(sendBuff)
  /\ stream \in Seq(Tokens) /\ Framed(stream, GoodTexts)

WebInv ==
  /\ replied \in BOOLEAN
  /\ pre \in GoodMemories /\ casting \in {<<>>, <<pre>>}
  /\ todo \in Seq(Pages) /\ sessions \in Seq(Pages)
  /\ page \in [Pages -> {"none", "added", "wrapped", "open", "closed"}]
  /\ busy \in [Pages -> {"nobody", "hello", "push"}]
  /\ hello \in [Pages -> GoodMemories]

PageInv ==
  /\ inbox \in [Pages -> Seq(GoodMessages)]
  /\ \A b \in Pages : Len(inbox[b]) <= MaxInbox
  /\ rows \in [Pages -> GoodMemories] /\ cards \in [Pages -> GoodMemories]

FigureInv ==
  /\ ReportInv /\ StoringInv /\ InfoInv /\ DraftInv /\ StreamInv /\ WebInv /\ PageInv

LEMMA MemoryIs ==
  ASSUME NEW m \in Memories
  PROVE  /\ DOMAIN m \subseteq Servers
         /\ m \in [DOMAIN m -> AppLists]
         /\ \A i \in DOMAIN m : m[i] \in AppLists
         /\ \A i \in DOMAIN m : \A j \in DOMAIN m[i] :
              j \in 1 .. MaxApps /\ m[i][j] \in 0 .. MaxReports /\ m[i][j] \in Nat
<1>1. PICK S \in SUBSET Servers : m \in [S -> AppLists]
  BY DEF Memories
<1>2. ASSUME NEW i \in S, NEW j \in DOMAIN m[i]
      PROVE  j \in 1 .. MaxApps /\ m[i][j] \in 0 .. MaxReports /\ m[i][j] \in Nat
  <2>1. m[i] \in AppLists
    BY <1>1
  <2>2. PICK n \in 0 .. MaxApps :
          DOMAIN m[i] = 1 .. n /\ m[i] \in [1 .. n -> 0 .. MaxReports]
    BY <2>1, AppListIs
  <2>3. m[i][j] \in 0 .. MaxReports
    BY <2>2
  <2>4. j \in 1 .. MaxApps
    BY <2>2, AppsAssumption
  <2> QED BY <2>3, <2>4, BoundAssumption
<1> QED BY <1>1, <1>2

LEMMA MemoryMake ==
  ASSUME NEW S \in SUBSET Servers, NEW m \in [S -> AppLists]
  PROVE  m \in Memories
BY DEF Memories

LEMMA MemoryTyped ==
  ASSUME NEW m \in Memories
  PROVE  IsMemory(m)
<1>1. \A i \in DOMAIN m : m[i] \in AppLists
  BY MemoryIs
<1>2. 0 .. MaxReports = Reports \cup {0}
  BY BoundAssumption DEF Reports
<1>3. \A i \in DOMAIN m : m[i] \in Seq(0 .. MaxReports)
  BY <1>1, AppListIs
<1> QED BY <1>2, <1>3, MemoryIs DEF IsMemory, Lists

LEMMA TextsAreMemories ==
  /\ Texts \subseteq Memories /\ GoodTexts \subseteq GoodMemories
  /\ \A t \in Texts : DOMAIN t = Servers
  /\ \A m \in Memories : DOMAIN m = Servers => m \in Texts
<1>1. Texts \subseteq Memories
  BY MemoryMake DEF Texts
<1>2. \A m \in Memories : DOMAIN m = Servers => m \in Texts
  BY MemoryIs DEF Texts
<1> QED BY <1>1, <1>2 DEF GoodTexts, GoodMemories, Texts

LEMMA EmptyIs ==
  /\ DOMAIN Nothing = {} /\ Nothing \in GoodMemories
  /\ NoDraft.text \in GoodTexts
  /\ \A i \in Servers : DOMAIN NoDraft.text[i] = {}
<1>1. DOMAIN Nothing = {} /\ Nothing \in [{} -> AppLists]
  BY DEF Nothing
<1>2. Nothing \in Memories
  BY <1>1, MemoryMake
<1>3. <<>> \in AppLists
  <2>1. 0 \in 0 .. MaxApps
    BY AppsAssumption
  <2>2. <<>> \in [1 .. 0 -> 0 .. MaxReports]
    OBVIOUS
  <2> QED BY <2>1, <2>2, AppListMake
<1>4. NoDraft.text = [i \in Servers |-> <<>>]
  BY DEF NoDraft
<1>5. NoDraft.text \in Texts /\ \A i \in Servers : DOMAIN NoDraft.text[i] = {}
  BY <1>3, <1>4 DEF Texts
<1> QED BY <1>1, <1>2, <1>5, TextsAreMemories DEF GoodMemories, GoodTexts, GoodMemory

(***************************************************************************)
(* What was good stays good.                                               *)
(***************************************************************************)
ReportsGrow ==
  \A i \in Servers : /\ taken[i] <= taken'[i]
                     /\ \A v \in 1 .. taken[i] : reported'[i][v] = reported[i][v]

GoodGrows ==
  /\ GoodMemories \subseteq GoodMemories' /\ GoodTexts \subseteq GoodTexts'
  /\ GoodMessages \subseteq GoodMessages'
  /\ \A i \in Servers : \A j, v : Said(i, j, v) => Said(i, j, v)'

LEMMA GoodKept ==
  ASSUME ReportInv, ReportInv', ReportsGrow
  PROVE  GoodGrows
<1>1. ASSUME NEW i \in Servers, NEW j, NEW v, Said(i, j, v)
      PROVE  Said(i, j, v)'
  <2>1. taken[i] \in Nat /\ taken'[i] \in Nat /\ taken[i] <= taken'[i]
    BY DEF ReportInv, ReportsGrow
  <2>2. v \in 1 .. taken'[i]
    BY <1>1, <2>1 DEF Said
  <2> QED BY <1>1, <2>2 DEF Said, ReportsGrow
<1>2. ASSUME NEW m \in Memories, GoodMemory(m)
      PROVE  GoodMemory(m)'
  <2>1. DOMAIN m \subseteq Servers
    BY MemoryIs
  <2> QED BY <1>1, <1>2, <2>1 DEF GoodMemory, Good
<1>3. GoodMemories \subseteq GoodMemories'
  BY <1>2 DEF GoodMemories
<1>4. GoodTexts \subseteq GoodTexts'
  BY <1>2, TextsAreMemories DEF GoodTexts
<1> QED BY <1>1, <1>3, <1>4 DEF GoodGrows, GoodMessages

LEMMA GoodSame ==
  ASSUME ReportInv, reported' = reported, taken' = taken
  PROVE  ReportInv' /\ ReportsGrow /\ GoodGrows
<1>1. ReportInv' /\ ReportsGrow
  BY DEF ReportInv, ReportsGrow
<1> QED BY <1>1, GoodKept

LEMMA StoringKept ==
  ASSUME StoringInv, ReportInv, ReportsGrow, taken' = taken,
         storing' = storing, info' = info
  PROVE  StoringInv'
<1>1. CASE storing = Nobody
  BY <1>1 DEF StoringInv, Nobody
<1>2. CASE storing # Nobody
  <2>1. PICK i \in Servers, j \in 1 .. MaxApps + 1 :
          /\ storing = [server |-> i, entry |-> j]
          /\ taken[i] >= 1 /\ j <= reported[i][taken[i]] + 1
          /\ \A k \in 1 .. j - 1 : info[i][k] # 0
    BY <1>2 DEF StoringInv
  <2>2. taken[i] \in 1 .. taken[i]
    BY <2>1 DEF ReportInv
  <2>3. reported'[i][taken[i]] = reported[i][taken[i]]
    BY <2>2 DEF ReportsGrow
  <2> QED BY <2>1, <2>3 DEF StoringInv
<1> QED BY <1>1, <1>2

LEMMA InfoKept ==
  ASSUME InfoInv, GoodGrows, info' = info, num' = num
  PROVE  InfoInv'
<1>1. \A i \in Servers, j \in 1 .. MaxClients :
        info'[i][j] = 0 \/ Said(i, j, info[i][j])'
  BY DEF InfoInv, GoodGrows
<1> QED BY <1>1 DEF InfoInv, Said

LEMMA DraftKept ==
  ASSUME DraftInv, GoodGrows, informer' = informer, draft' = draft
  PROVE  DraftInv'
BY DEF DraftInv, GoodGrows

LEMMA FramedMore ==
  ASSUME NEW s, NEW T, NEW U, Framed(s, T), T \subseteq U
  PROVE  Framed(s, U)
BY DEF Framed

LEMMA StreamKept ==
  ASSUME StreamInv, GoodGrows, sendBuff' = sendBuff, stream' = stream
  PROVE  StreamInv'
<1>1. Framed(stream, GoodTexts')
  BY FramedMore DEF StreamInv, GoodGrows
<1> QED BY <1>1 DEF StreamInv

LEMMA WebKept ==
  ASSUME WebInv, GoodGrows, UNCHANGED <<replied, netty, web>>
  PROVE  WebInv'
<1>1. hello \in [Pages -> GoodMemories']
  BY DEF WebInv, GoodGrows
<1> QED BY <1>1 DEF WebInv, GoodGrows, netty, web

LEMMA PageKept ==
  ASSUME PageInv, GoodGrows, UNCHANGED <<inbox, shown>>
  PROVE  PageInv'
<1>1. \A s \in Seq(GoodMessages) : s \in Seq(GoodMessages')
  BY SeqMonotonic DEF GoodGrows
<1>2. inbox \in [Pages -> Seq(GoodMessages')]
  BY <1>1 DEF PageInv
<1>3. rows \in [Pages -> GoodMemories'] /\ cards \in [Pages -> GoodMemories']
  BY DEF PageInv, GoodGrows
<1> QED BY <1>2, <1>3 DEF PageInv, shown

LEMMA FigureInit == Init => FigureInv
<1> SUFFICES ASSUME Init PROVE FigureInv
  OBVIOUS
<1> USE DEF Init
<1>1. ReportInv
  <2>1. <<>> \in Seq(0 .. MaxApps) /\ Len(<<>>) = 0
    BY EmptySeq
  <2> QED BY <2>1, BoundAssumption DEF ReportInv
<1>2. StoringInv
  BY DEF StoringInv
<1>3. InfoInv
  BY AppsAssumption, BoundAssumption DEF InfoInv
<1>4. DraftInv
  <2>1. draft = [text |-> NoDraft.text, at |-> 1] /\ 1 \in 1 .. Nets + 1
    BY NetsAssumption DEF NoDraft
  <2> QED BY <2>1, EmptyIs DEF DraftInv
<1>5. StreamInv
  <2>1. Mark("nul") \in Tokens /\ Mark("nul") # Mark("begin")
    <3>1. "nul" \in Kinds /\ "nul" # "begin"
      BY DEF Kinds
    <3> QED BY <3>1, TokenIs
  <2>2. sendBuff \in [1 .. Buf -> Tokens] /\ \A k \in 1 .. Buf : sendBuff[k] = Mark("nul")
    BY <2>1
  <2>3. IsBuffer(sendBuff)
    BY <2>1, <2>2, FcnIsSeq, BufAssumption DEF IsBuffer
  <2>4. stream \in Seq(Tokens) /\ Len(stream) = 0
    BY EmptySeq
  <2>5. Framed(stream, GoodTexts)
    BY <2>4 DEF Framed
  <2> QED BY <2>3, <2>4, <2>5 DEF StreamInv
<1>6. WebInv
  <2>1. <<>> \in Seq(Pages)
    BY EmptySeq
  <2> QED BY <2>1, EmptyIs DEF WebInv
<1>7. PageInv
  <2>1. <<>> \in Seq(GoodMessages) /\ Len(<<>>) = 0
    BY EmptySeq
  <2> QED BY <2>1, EmptyIs, BoundAssumption DEF PageInv
<1> QED BY <1>1, <1>2, <1>3, <1>4, <1>5, <1>6, <1>7 DEF FigureInv

(***************************************************************************)
(* The watcher.                                                            *)
(***************************************************************************)
LEMMA ReportFigures ==
  ASSUME FigureInv, NEW i \in Servers, Report(i)
  PROVE  FigureInv'
<1>1. PICK n \in 0 .. MaxApps :
        /\ Len(reported[i]) < MaxReports
        /\ reported' = [reported EXCEPT ![i] = Append(@, n)]
        /\ UNCHANGED <<watch, inform, stream, replied, netty, web, inbox, shown>>
  BY DEF Report
<1>2. ReportInv /\ reported[i] \in Seq(0 .. MaxApps) /\ Len(reported[i]) \in Nat
  BY LenProperties DEF FigureInv, ReportInv
<1> DEFINE r == reported[i]
           s == Append(r, n)
<1>3. /\ s \in Seq(0 .. MaxApps) /\ Len(s) = Len(r) + 1
      /\ \A k \in 1 .. Len(r) : s[k] = r[k]
  BY <1>2, AppendProperties
<1>4. reported' \in [Servers -> Seq(0 .. MaxApps)] /\ reported'[i] = s
      /\ \A k \in Servers : k # i => reported'[k] = reported[k]
  BY <1>1, <1>2, <1>3 DEF ReportInv
<1>5. taken' = taken /\ taken \in [Servers -> Nat] /\ taken[i] <= Len(r) /\ taken[i] \in Nat
  BY <1>1, <1>2 DEF watch, ReportInv
<1> HIDE DEF s
<1>6. ReportInv'
  <2>1. Len(s) <= MaxReports /\ taken[i] <= Len(s)
    BY <1>1, <1>2, <1>3, <1>5, BoundAssumption
  <2> QED BY <1>2, <1>4, <1>5, <2>1 DEF ReportInv
<1>7. ReportsGrow
  <2>1. \A v \in 1 .. taken[i] : v \in 1 .. Len(r)
    BY <1>2, <1>5
  <2>2. \A k \in Servers : taken'[k] = taken[k] /\ taken[k] <= taken[k]
    BY <1>5
  <2> QED BY <1>3, <1>4, <2>1, <2>2 DEF ReportsGrow
<1>8. GoodGrows
  BY <1>2, <1>6, <1>7, GoodKept
<1> QED BY <1>1, <1>2, <1>5, <1>6, <1>7, <1>8, StoringKept, InfoKept, DraftKept, StreamKept,
           WebKept, PageKept DEF FigureInv, watch, inform

LEMMA TakeFigures ==
  ASSUME FigureInv, NEW i \in Servers, Take(i)
  PROVE  FigureInv'
<1>1. /\ taken[i] < Len(reported[i])
      /\ taken' = [taken EXCEPT ![i] = @ + 1]
      /\ storing' = [server |-> i, entry |-> 1]
      /\ UNCHANGED <<reported, info, num, inform, stream, replied, netty, web, inbox, shown>>
  BY DEF Take
<1>2. ReportInv /\ reported[i] \in Seq(0 .. MaxApps) /\ Len(reported[i]) \in Nat
      /\ taken[i] \in Nat
  BY LenProperties DEF FigureInv, ReportInv
<1>3. taken' \in [Servers -> Nat] /\ taken'[i] = taken[i] + 1
      /\ \A k \in Servers : k # i => taken'[k] = taken[k]
  BY <1>1, <1>2 DEF ReportInv
<1>4. ReportInv'
  <2>1. taken[i] + 1 <= Len(reported[i])
    BY <1>1, <1>2
  <2> QED BY <1>1, <1>2, <1>3, <2>1 DEF ReportInv
<1>5. ReportsGrow
  <2>1. \A k \in Servers : taken[k] \in Nat
    BY <1>2 DEF ReportInv
  <2>2. \A k \in Servers : taken[k] <= taken'[k]
    BY <1>3, <2>1
  <2> QED BY <1>1, <2>2 DEF ReportsGrow
<1>6. GoodGrows
  BY <1>2, <1>4, <1>5, GoodKept
<1>7. StoringInv'
  <2>1. reported[i][taken[i] + 1] \in 0 .. MaxApps
    <3>1. taken[i] + 1 \in 1 .. Len(reported[i])
      BY <1>1, <1>2
    <3> QED BY <1>2, <3>1, ElementOfSeq
  <2>2. 1 \in 1 .. MaxApps + 1 /\ 1 <= reported[i][taken[i] + 1] + 1
    BY <2>1, AppsAssumption
  <2>3. taken'[i] >= 1 /\ reported'[i][taken'[i]] = reported[i][taken[i] + 1]
    BY <1>1, <1>2, <1>3
  <2>4. \A k : ~(k \in 1 .. 1 - 1)
    OBVIOUS
  <2> QED BY <1>1, <2>2, <2>3, <2>4 DEF StoringInv
<1> QED BY <1>1, <1>4, <1>6, <1>7, InfoKept, DraftKept, StreamKept, WebKept, PageKept
        DEF FigureInv, inform

\* Where the epoll thread is in a report.
LEMMA StoringIs ==
  ASSUME FigureInv, storing # Nobody
  PROVE  \E i \in Servers, j \in 1 .. MaxApps + 1, v \in 1 .. MaxReports :
           /\ storing = [server |-> i, entry |-> j] /\ v = taken[i]
           /\ v \in 1 .. taken[i]
           /\ reported[i][v] \in 0 .. MaxApps /\ j <= reported[i][v] + 1
           /\ \A k \in 1 .. j - 1 : info[i][k] # 0
<1>1. PICK i \in Servers, j \in 1 .. MaxApps + 1 :
        /\ storing = [server |-> i, entry |-> j]
        /\ taken[i] >= 1 /\ j <= reported[i][taken[i]] + 1
        /\ \A k \in 1 .. j - 1 : info[i][k] # 0
  BY DEF FigureInv, StoringInv
<1>2. /\ reported[i] \in Seq(0 .. MaxApps) /\ Len(reported[i]) \in Nat
      /\ taken[i] \in Nat /\ taken[i] <= Len(reported[i]) /\ Len(reported[i]) <= MaxReports
  BY LenProperties DEF FigureInv, ReportInv
<1>3. taken[i] \in 1 .. Len(reported[i]) /\ taken[i] \in 1 .. taken[i] /\ taken[i] \in 1 .. MaxReports
  BY <1>1, <1>2, BoundAssumption
<1>4. reported[i][taken[i]] \in 0 .. MaxApps
  BY <1>2, <1>3, ElementOfSeq
<1> QED BY <1>1, <1>3, <1>4

LEMMA StoreEntryIs ==
  ASSUME FigureInv, StoreEntry
  PROVE  \E i \in Servers, j \in 1 .. MaxClients, v \in 1 .. MaxReports :
           /\ storing = [server |-> i, entry |-> j] /\ v = taken[i]
           /\ Said(i, j, v)
           /\ j \in 1 .. MaxApps /\ j + 1 \in 1 .. MaxApps + 1 /\ j + 1 <= reported[i][v] + 1
           /\ \A k \in 1 .. j - 1 : info[i][k] # 0
           /\ info' = [info EXCEPT ![i][j] = v]
           /\ storing' = [server |-> i, entry |-> j + 1]
           /\ v >= 1 /\ info[i][j] <= v
<1>1. storing # Nobody
  BY DEF StoreEntry
<1>2. PICK i \in Servers, j \in 1 .. MaxApps + 1, v \in 1 .. MaxReports :
        /\ storing = [server |-> i, entry |-> j] /\ v = taken[i]
        /\ v \in 1 .. taken[i]
        /\ reported[i][v] \in 0 .. MaxApps /\ j <= reported[i][v] + 1
        /\ \A k \in 1 .. j - 1 : info[i][k] # 0
  BY <1>1, StoringIs
<1>3. storing.server = i /\ storing.entry = j
  BY <1>2
<1>4. /\ j <= reported[i][v]
      /\ info' = [info EXCEPT ![i][j] = v]
      /\ storing' = [storing EXCEPT !.entry = j + 1]
  BY <1>2, <1>3 DEF StoreEntry
<1>5. storing' = [server |-> i, entry |-> j + 1]
  BY <1>2, <1>4
<1>6. /\ j \in 1 .. MaxApps /\ j + 1 \in 1 .. MaxApps + 1 /\ j + 1 <= reported[i][v] + 1
      /\ j \in 1 .. MaxClients
  BY <1>2, <1>4, AppsAssumption
<1>7. Said(i, j, v)
  BY <1>2, <1>4 DEF Said
<1>8. v >= 1 /\ info[i][j] <= v
  <2>1. info[i][j] = 0 \/ info[i][j] \in 1 .. taken[i]
    BY <1>6 DEF FigureInv, InfoInv, Said
  <2>2. v \in Nat /\ v >= 1
    BY <1>2, BoundAssumption
  <2>3. info[i][j] = 0 \/ info[i][j] \in 1 .. v
    BY <1>2, <2>1
  <2> QED BY <2>2, <2>3
<1> QED BY <1>2, <1>4, <1>5, <1>6, <1>7, <1>8

LEMMA StoreEntryFigures ==
  ASSUME FigureInv, StoreEntry
  PROVE  FigureInv'
<1>1. PICK i \in Servers, j \in 1 .. MaxClients, v \in 1 .. MaxReports :
        /\ storing = [server |-> i, entry |-> j] /\ v = taken[i]
        /\ Said(i, j, v)
        /\ j \in 1 .. MaxApps /\ j + 1 \in 1 .. MaxApps + 1 /\ j + 1 <= reported[i][v] + 1
        /\ \A k \in 1 .. j - 1 : info[i][k] # 0
        /\ info' = [info EXCEPT ![i][j] = v]
        /\ storing' = [server |-> i, entry |-> j + 1]
        /\ v >= 1 /\ info[i][j] <= v
  BY StoreEntryIs
<1>2. UNCHANGED <<reported, taken, num, inform, stream, replied, netty, web, inbox, shown>>
  BY DEF StoreEntry
<1>3. ReportInv' /\ ReportsGrow /\ GoodGrows
  BY <1>2, GoodSame DEF FigureInv
<1>4. /\ info \in [Servers -> [1 .. MaxClients -> 0 .. MaxReports]]
      /\ v \in 0 .. MaxReports /\ v # 0
  BY <1>1, BoundAssumption DEF FigureInv, InfoInv
<1>5. /\ info' \in [Servers -> [1 .. MaxClients -> 0 .. MaxReports]]
      /\ info'[i][j] = v
      /\ \A k \in Servers, l \in 1 .. MaxClients : k # i \/ l # j => info'[k][l] = info[k][l]
  BY <1>1, <1>4
<1>6. StoringInv'
  <2>1. ASSUME NEW k \in 1 .. (j + 1) - 1
        PROVE  info'[i][k] # 0
    <3>1. k \in 1 .. MaxClients /\ (k = j \/ k \in 1 .. j - 1)
      BY <1>1, AppsAssumption
    <3> QED BY <1>1, <1>4, <1>5, <3>1
  <2>2. taken'[i] >= 1 /\ j + 1 <= reported'[i][taken'[i]] + 1
    BY <1>1, <1>2
  <2> QED BY <1>1, <2>1, <2>2 DEF StoringInv
<1>7. InfoInv'
  <2>1. ASSUME NEW k \in Servers, NEW l \in 1 .. MaxClients
        PROVE  info'[k][l] = 0 \/ Said(k, l, info[k][l])'
    <3>1. CASE k = i /\ l = j
      <4>1. Said(i, j, v)'
        BY <1>1, <1>3 DEF GoodGrows
      <4> QED BY <1>5, <3>1, <4>1 DEF Said
    <3>2. CASE ~(k = i /\ l = j)
      <4>1. info'[k][l] = info[k][l]
        BY <1>5, <3>2
      <4>2. info[k][l] = 0 \/ Said(k, l, info[k][l])
        BY DEF FigureInv, InfoInv
      <4>3. \A x : x = info[k][l] => x = 0 \/ Said(k, l, x)'
        BY <1>3, <4>2 DEF GoodGrows
      <4> QED BY <4>1, <4>3 DEF Said
    <3> QED BY <3>1, <3>2
  <2>2. ASSUME Nets = 1, NEW l \in 1 .. num
        PROVE  info'[1][l] # 0
    <3>1. 1 \in Servers /\ l \in 1 .. MaxClients
      BY <2>2, AppsAssumption DEF Servers, FigureInv, InfoInv
    <3>2. info[1][l] # 0
      BY <2>2 DEF FigureInv, InfoInv
    <3> QED BY <1>4, <1>5, <3>1, <3>2
  <2>3. num' = num /\ num \in 0 .. MaxApps
    BY <1>2 DEF FigureInv, InfoInv
  <2> QED BY <1>5, <2>1, <2>2, <2>3 DEF InfoInv
<1> QED BY <1>2, <1>3, <1>6, <1>7, DraftKept, StreamKept, WebKept, PageKept
        DEF FigureInv, inform

LEMMA StoreNumFigures ==
  ASSUME FigureInv, StoreNum
  PROVE  FigureInv'
<1>1. storing # Nobody
  BY DEF StoreNum
<1>2. PICK i \in Servers, j \in 1 .. MaxApps + 1, v \in 1 .. MaxReports :
        /\ storing = [server |-> i, entry |-> j] /\ v = taken[i]
        /\ v \in 1 .. taken[i]
        /\ reported[i][v] \in 0 .. MaxApps /\ j <= reported[i][v] + 1
        /\ \A k \in 1 .. j - 1 : info[i][k] # 0
  BY <1>1, StoringIs
<1>3. storing.server = i /\ storing.entry = j
  BY <1>2
<1>4. /\ num' = reported[i][v] /\ j = reported[i][v] + 1 /\ storing' = Nobody
      /\ UNCHANGED <<reported, taken, info, inform, stream, replied, netty, web, inbox, shown>>
  BY <1>2, <1>3 DEF StoreNum
<1>5. ReportInv' /\ ReportsGrow /\ GoodGrows
  BY <1>4, GoodSame DEF FigureInv
<1>6. StoringInv'
  BY <1>4 DEF StoringInv, Nobody
<1>7. InfoInv'
  <2>1. num' \in 0 .. MaxApps
    BY <1>2, <1>4
  <2>2. ASSUME Nets = 1, NEW l \in 1 .. num'
        PROVE  info'[1][l] # 0
    <3>1. i = 1
      BY <2>2 DEF Servers
    <3>2. l \in 1 .. j - 1
      BY <1>2, <1>4
    <3> QED BY <1>2, <1>4, <3>1, <3>2
  <2>3. \A k \in Servers, l \in 1 .. MaxClients : info'[k][l] = 0 \/ Said(k, l, info[k][l])'
    BY <1>4, <1>5 DEF FigureInv, InfoInv, GoodGrows
  <2> QED BY <1>4, <2>1, <2>2, <2>3 DEF FigureInv, InfoInv, Said
<1> QED BY <1>4, <1>5, <1>6, <1>7, DraftKept, StreamKept, WebKept, PageKept
        DEF FigureInv, inform

\* The entry that the inform thread reads is a good one.
LEMMA InfoGood ==
  ASSUME FigureInv, NEW i \in Servers, NEW j \in 1 .. num
  PROVE  j \in 1 .. MaxClients /\ info[i][j] \in 0 .. MaxReports /\ Good(i, j, info[i][j])
<1>1. InfoInv
  BY DEF FigureInv
<1>2. j \in 1 .. MaxClients
  BY <1>1, AppsAssumption DEF InfoInv
<1>3. Nets = 1 => i = 1
  BY DEF Servers
<1>4. info[i][j] = 0 \/ Said(i, j, info[i][j])
  BY <1>1, <1>2 DEF InfoInv
<1>5. Nets = 1 => info[i][j] # 0
  BY <1>1, <1>3 DEF InfoInv
<1>6. info[i][j] \in 0 .. MaxReports
  BY <1>1, <1>2 DEF InfoInv
<1> QED BY <1>2, <1>4, <1>5, <1>6 DEF Good

\* A text with one more entry for a server.
Extended(t, i, v) == [t EXCEPT ![i] = Append(@, v)]

\* What ReadInfo makes of the draft.
LEMMA ReadInfoIs ==
  ASSUME FigureInv, ReadInfo
  PROVE  \E i \in Servers, j \in Nat :
           /\ draft.at = i /\ j = Len(draft.text[i]) + 1
           /\ DOMAIN draft.text[i] = 1 .. j - 1
           /\ \/ /\ j \in 1 .. num
                 /\ draft'.text = Extended(draft.text, i, info[i][j])
                 /\ draft'.at = i
              \/ draft'.text = draft.text /\ draft'.at = i + 1
           /\ draft' = [text |-> draft'.text, at |-> draft'.at]
<1> DEFINE i == draft.at
           j == Len(draft.text[i]) + 1
           t == draft.text
<1>1. i \in Servers /\ t \in Texts /\ draft = [text |-> t, at |-> i]
  BY DEF ReadInfo, FigureInv, DraftInv, GoodTexts
<1>2. PICK n \in 0 .. MaxApps : n \in Nat /\ DOMAIN t[i] = 1 .. n /\ Len(t[i]) = n
  BY <1>1, TextIs
<1>3. j \in Nat /\ j = n + 1 /\ DOMAIN t[i] = 1 .. j - 1 /\ j >= 1
  BY <1>2
<1>4. draft' = IF j <= num THEN [draft EXCEPT !.text[i] = Append(@, info[i][j])]
               ELSE [draft EXCEPT !.at = i + 1]
  BY DEF ReadInfo, Counted
<1>5. num \in Int
  BY DEF FigureInv, InfoInv
<1> HIDE DEF i, j, t
<1>6. CASE j <= num
  <2>1. draft' = [text |-> [t EXCEPT ![i] = Append(@, info[i][j])], at |-> i]
    BY <1>1, <1>4, <1>6
  <2>2. draft'.text = Extended(t, i, info[i][j]) /\ draft'.at = i
    BY <2>1 DEF Extended
  <2>3. j \in 1 .. num
    BY <1>3, <1>5, <1>6
  <2> QED BY <1>1, <1>3, <2>1, <2>2, <2>3 DEF t, i, j
<1>7. CASE ~(j <= num)
  <2>1. draft' = [text |-> t, at |-> i + 1]
    BY <1>1, <1>4, <1>7
  <2>2. draft'.text = t /\ draft'.at = i + 1
    BY <2>1
  <2> QED BY <1>1, <1>3, <2>1, <2>2 DEF t, i, j
<1> QED BY <1>6, <1>7

LEMMA WatchKept ==
  ASSUME FigureInv, UNCHANGED <<reported, watch>>
  PROVE  ReportInv' /\ ReportsGrow /\ GoodGrows /\ StoringInv' /\ InfoInv'
<1>1. ReportInv' /\ ReportsGrow /\ GoodGrows
  BY GoodSame DEF FigureInv, watch
<1> QED BY <1>1, StoringKept, InfoKept DEF FigureInv, watch

(***************************************************************************)
(* The inform thread.                                                      *)
(***************************************************************************)

\* A good entry is added to a good text.
LEMMA TextGrows ==
  ASSUME NEW t \in GoodTexts, NEW i \in Servers, NEW j \in 1 .. MaxApps,
         DOMAIN t[i] = 1 .. j - 1, NEW v \in 0 .. MaxReports, Good(i, j, v),
         NEW u, u = Extended(t, i, v)
  PROVE  /\ u \in GoodTexts /\ DOMAIN u[i] = 1 .. j /\ u[i][j] = v
         /\ \A k \in 1 .. j - 1 : u[i][k] = t[i][k]
         /\ \A k \in Servers : k # i => u[k] = t[k]
<1>1. t \in Texts /\ GoodMemory(t)
  BY DEF GoodTexts
<1>2. PICK n \in 0 .. MaxApps :
        n \in Nat /\ DOMAIN t[i] = 1 .. n /\ Len(t[i]) = n /\ t[i] \in Seq(0 .. MaxReports)
  BY <1>1, TextIs
<1>3. n = j - 1 /\ j \in Nat /\ j \in 0 .. MaxApps
  <2>1. MaxApps \in Nat /\ j \in Nat /\ j >= 1
    BY AppsAssumption
  <2>2. 1 .. n = 1 .. j - 1
    BY <1>2
  <2> QED BY <1>2, <2>1, <2>2
<1> DEFINE a == Append(t[i], v)
<1>4. /\ a \in Seq(0 .. MaxReports) /\ Len(a) = Len(t[i]) + 1
      /\ \A k \in 1 .. Len(t[i]) : a[k] = t[i][k]
      /\ a[Len(t[i]) + 1] = v
  BY <1>2, AppendProperties
<1> HIDE DEF a
<1>5. Len(a) = j /\ a[j] = v /\ \A k \in 1 .. j - 1 : a[k] = t[i][k]
  BY <1>2, <1>3, <1>4
<1>6. DOMAIN a = 1 .. j /\ a \in [1 .. j -> 0 .. MaxReports]
  <2>1. a \in [1 .. Len(a) -> 0 .. MaxReports]
    BY <1>4, LenProperties
  <2> QED BY <1>5, <2>1
<1>7. a \in AppLists
  BY <1>3, <1>6, AppListMake
<1>8. u = [t EXCEPT ![i] = a]
  BY DEF a, Extended
<1>9. u \in Texts /\ u[i] = a /\ \A k \in Servers : k # i => u[k] = t[k]
  BY <1>1, <1>7, <1>8 DEF Texts
<1>10. GoodMemory(u)
  <2>1. DOMAIN u = Servers /\ DOMAIN t = Servers
    BY <1>1, <1>9 DEF Texts
  <2>2. ASSUME NEW k \in 1 .. j
        PROVE  Good(i, k, a[k])
    <3>1. k = j \/ k \in 1 .. j - 1
      BY <1>3
    <3>2. \A m \in 1 .. j - 1 : Good(i, m, t[i][m])
      BY <1>1, <2>1 DEF GoodMemory
    <3> QED BY <1>5, <3>1, <3>2
  <2>3. \A k \in Servers : k # i => \A m \in DOMAIN u[k] : Good(k, m, u[k][m])
    BY <1>1, <1>9, <2>1 DEF GoodMemory
  <2> QED BY <1>6, <1>9, <2>1, <2>2, <2>3 DEF GoodMemory
<1> QED BY <1>5, <1>6, <1>9, <1>10 DEF GoodTexts

LEMMA ReadInfoFigures ==
  ASSUME FigureInv, ReadInfo
  PROVE  FigureInv'
<1>1. UNCHANGED <<reported, watch, informer, sendBuff, stream, replied, netty, web, inbox, shown>>
  BY DEF ReadInfo
<1>2. ReportInv' /\ GoodGrows /\ StoringInv' /\ InfoInv'
  BY <1>1, WatchKept
<1>3. DraftInv'
  <2>1. PICK i \in Servers, j \in Nat :
          /\ draft.at = i /\ j = Len(draft.text[i]) + 1
          /\ DOMAIN draft.text[i] = 1 .. j - 1
          /\ \/ /\ j \in 1 .. num
                /\ draft'.text = Extended(draft.text, i, info[i][j])
                /\ draft'.at = i
             \/ draft'.text = draft.text /\ draft'.at = i + 1
          /\ draft' = [text |-> draft'.text, at |-> draft'.at]
    BY ReadInfoIs
  <2>2. draft.text \in GoodTexts
    BY DEF FigureInv, DraftInv
  <2>3. draft'.at \in 1 .. Nets + 1
    BY <2>1, NetsAssumption DEF Servers
  <2>4. draft'.text \in GoodTexts
    <3>1. ASSUME j \in 1 .. num,
                 draft'.text = Extended(draft.text, i, info[i][j])
          PROVE  draft'.text \in GoodTexts
      <4>1. info[i][j] \in 0 .. MaxReports /\ Good(i, j, info[i][j])
        BY <3>1, InfoGood
      <4>2. j \in 1 .. MaxApps
        BY <3>1, AppsAssumption DEF FigureInv, InfoInv
      <4> QED BY <2>1, <2>2, <3>1, <4>1, <4>2, TextGrows
    <3> QED BY <2>1, <2>2, <3>1
  <2>5. draft'.text \in GoodTexts'
    BY <1>2, <2>4 DEF GoodGrows
  <2>6. informer' \in {"json", "reading"}
    BY <1>1 DEF FigureInv, DraftInv
  <2> QED BY <2>1, <2>3, <2>5, <2>6 DEF DraftInv
<1> QED BY <1>1, <1>2, <1>3, StreamKept, WebKept, PageKept DEF FigureInv

LEMMA WriteIs ==
  ASSUME FigureInv, Write
  PROVE  \E t \in GoodTexts, f \in Seq(Tokens) :
           /\ t = draft.text /\ f = Fill(sendBuff, Json(t))
           /\ IsBuffer(f) /\ TextAt(f, 1, t)
           /\ \A k : \A u \in Texts : TextAt(f, k, u) => k = 1 /\ u = t
           /\ sendBuff' = f /\ stream' = stream \o f
           /\ stream \in Seq(Tokens) /\ stream' \in Seq(Tokens)
           /\ Framed(stream, GoodTexts) /\ Framed(stream', GoodTexts)
<1> DEFINE t == draft.text
           f == Fill(sendBuff, Json(t))
<1>1. t \in GoodTexts /\ GoodTexts \subseteq Texts /\ t \in Texts
  BY DEF FigureInv, DraftInv, GoodTexts
<1>2. IsBuffer(sendBuff) /\ stream \in Seq(Tokens) /\ Framed(stream, GoodTexts)
  BY DEF FigureInv, StreamInv
<1>3. sendBuff' = f /\ stream' = stream \o f
  BY DEF Write
<1>4. /\ IsBuffer(f) /\ f \in Seq(Tokens) /\ TextAt(f, 1, t)
      /\ \A k : \A u \in Texts : TextAt(f, k, u) => k = 1 /\ u = t
      /\ \A T \in SUBSET Texts : t \in T => Framed(f, T)
  BY <1>1, <1>2, FillFacts
<1> HIDE DEF f
<1>5. stream \o f \in Seq(Tokens)
  BY <1>2, <1>4, ConcatProperties
<1>6. Framed(stream \o f, GoodTexts)
  BY <1>1, <1>2, <1>4, JoinedFramed
<1> HIDE DEF t
<1> QED BY <1>1, <1>2, <1>3, <1>4, <1>5, <1>6 DEF t, f

LEMMA WriteFigures ==
  ASSUME FigureInv, Write
  PROVE  FigureInv'
<1>1. /\ UNCHANGED <<reported, watch, replied, netty, web, inbox, shown>>
      /\ informer' = "reading" /\ draft' = NoDraft
  BY DEF Write
<1>2. ReportInv' /\ GoodGrows /\ StoringInv' /\ InfoInv'
  BY <1>1, WatchKept
<1>3. DraftInv'
  <2>1. NoDraft = [text |-> NoDraft.text, at |-> 1] /\ 1 \in 1 .. Nets + 1
    BY NetsAssumption DEF NoDraft
  <2>2. NoDraft.text \in GoodTexts'
    BY <1>2, EmptyIs DEF GoodGrows
  <2> QED BY <1>1, <2>1, <2>2 DEF DraftInv
<1>4. StreamInv'
  <2>1. PICK f : /\ IsBuffer(f) /\ sendBuff' = f /\ stream' \in Seq(Tokens)
                 /\ Framed(stream', GoodTexts)
    BY WriteIs
  <2>2. Framed(stream', GoodTexts')
    BY <1>2, <2>1, FramedMore DEF GoodGrows
  <2> QED BY <2>1, <2>2 DEF StreamInv
<1> QED BY <1>1, <1>2, <1>3, <1>4, WebKept, PageKept DEF FigureInv

LEMMA ReadReplyFigures ==
  ASSUME FigureInv, ReadReply
  PROVE  FigureInv'
<1>1. /\ UNCHANGED <<reported, watch, draft, sendBuff, stream, netty, web, inbox, shown>>
      /\ informer' = "json" /\ replied' = FALSE
  BY DEF ReadReply
<1>2. ReportInv' /\ GoodGrows /\ StoringInv' /\ InfoInv'
  BY <1>1, WatchKept
<1>3. DraftInv'
  BY <1>1, <1>2 DEF FigureInv, DraftInv, GoodGrows
<1>4. WebInv'
  <2>1. hello \in [Pages -> GoodMemories']
    BY <1>2 DEF FigureInv, WebInv, GoodGrows
  <2> QED BY <1>1, <1>2, <2>1 DEF FigureInv, WebInv, GoodGrows, netty, web
<1> QED BY <1>1, <1>2, <1>3, <1>4, StreamKept, PageKept DEF FigureInv

(***************************************************************************)
(* The Netty handler.                                                      *)
(***************************************************************************)

\* What it cuts off, and what it makes of it.
LEMMA ChannelReadIs ==
  ASSUME FigureInv, ChannelRead
  PROVE  \E n \in 1 .. Len(stream) :
           /\ stream' = Suffix(stream, n) /\ stream \in Seq(Tokens)
           /\ stream' \in Seq(Tokens) /\ Framed(stream', GoodTexts)
           /\ \/ /\ UNCHANGED netty /\ replied' = TRUE
              \/ \E t \in GoodTexts, a \in 1 .. n :
                   /\ TextAt(stream, a, t)
                   /\ pre' = t /\ casting' = <<t>> /\ todo' = sessions
                   /\ UNCHANGED replied
<1>1. stream \in Seq(Tokens) /\ Len(stream) \in Nat /\ DOMAIN stream = 1 .. Len(stream)
      /\ Framed(stream, GoodTexts) /\ GoodTexts \in SUBSET Texts
  BY LenProperties DEF FigureInv, StreamInv, GoodTexts
<1> DEFINE n == Min(Newlines)
<1>2. Newlines \in SUBSET Nat /\ Newlines # {} /\ Newlines \subseteq 1 .. Len(stream)
  BY <1>1 DEF ChannelRead, Newlines
<1>3. n \in Newlines /\ \A k \in Newlines : n <= k
  BY <1>2, MinIs
<1>4. PICK msg :
        /\ msg = Trimmed(SubSeq(stream, 1, n - 1))
        /\ stream' = SubSeq(stream, n + 1, Len(stream))
        /\ IF Parses(msg)
           THEN /\ pre' = FormatMsg(msg)
                /\ casting' = Broadcast(msg) /\ todo' = sessions
                /\ UNCHANGED replied
           ELSE Refuse /\ UNCHANGED netty
  BY DEF ChannelRead
<1> HIDE DEF n
<1>5. /\ n \in 1 .. Len(stream) /\ stream[n] = Mark("nl")
      /\ \A k \in 1 .. Len(stream) : stream[k] = Mark("nl") => n <= k
  BY <1>1, <1>2, <1>3 DEF Newlines
<1>6. stream' = Suffix(stream, n)
  BY <1>4 DEF Suffix
<1>7. n \in 0 .. Len(stream)
  BY <1>1, <1>5
<1>8. stream' \in Seq(Tokens) /\ Framed(stream', GoodTexts)
  BY <1>1, <1>6, <1>7, SuffixTexts, SuffixFramed
<1>9. CASE ~Parses(msg)
  BY <1>1, <1>4, <1>5, <1>6, <1>8, <1>9 DEF Refuse
<1>10. CASE Parses(msg)
  <2>1. PICK t \in GoodTexts, a \in 1 .. n : msg = Json(t) /\ TextAt(stream, a, t)
    BY <1>1, <1>4, <1>5, <1>10, FrameCut
  <2>2. FormatMsg(msg) = t
    BY <1>1, <2>1, FormatJson
  <2>3. pre' = t /\ casting' = <<t>> /\ todo' = sessions /\ UNCHANGED replied
    BY <1>4, <1>10, <2>2 DEF Broadcast
  <2> QED BY <1>1, <1>5, <1>6, <1>8, <2>1, <2>3
<1> QED BY <1>9, <1>10

LEMMA ChannelReadFigures ==
  ASSUME FigureInv, ChannelRead
  PROVE  FigureInv'
<1>1. UNCHANGED <<reported, watch, inform, web, inbox, shown>>
  BY DEF ChannelRead
<1>2. ReportInv' /\ GoodGrows /\ StoringInv' /\ InfoInv'
  BY <1>1, WatchKept
<1>3. PICK n \in 1 .. Len(stream) :
        /\ stream' = Suffix(stream, n) /\ stream \in Seq(Tokens)
        /\ stream' \in Seq(Tokens) /\ Framed(stream', GoodTexts)
        /\ \/ /\ UNCHANGED netty /\ replied' = TRUE
           \/ \E t \in GoodTexts, a \in 1 .. n :
                /\ TextAt(stream, a, t)
                /\ pre' = t /\ casting' = <<t>> /\ todo' = sessions
                /\ UNCHANGED replied
  BY ChannelReadIs
<1>4. StreamInv'
  <2>1. Framed(stream', GoodTexts')
    BY <1>2, <1>3, FramedMore DEF GoodGrows
  <2> QED BY <1>1, <1>3, <2>1 DEF FigureInv, StreamInv, inform
<1>5. WebInv'
  <2>1. /\ hello \in [Pages -> GoodMemories'] /\ pre \in GoodMemories'
        /\ casting \in {<<>>, <<pre>>}
    BY <1>2 DEF FigureInv, WebInv, GoodGrows
  <2>2. /\ pre' \in GoodMemories' /\ casting' \in {<<>>, <<pre'>>}
        /\ todo' \in Seq(Pages) /\ replied' \in BOOLEAN
    <3>1. CASE UNCHANGED netty /\ replied' = TRUE
      BY <2>1, <3>1 DEF FigureInv, WebInv, netty
    <3>2. CASE \E t \in GoodTexts, a \in 1 .. n :
                 /\ TextAt(stream, a, t)
                 /\ pre' = t /\ casting' = <<t>> /\ todo' = sessions
                 /\ UNCHANGED replied
      <4>1. PICK t \in GoodTexts : pre' = t /\ casting' = <<t>> /\ todo' = sessions
                                   /\ UNCHANGED replied
        BY <3>2
      <4>2. t \in GoodMemories'
        BY <1>2, TextsAreMemories DEF GoodGrows
      <4> QED BY <4>1, <4>2 DEF FigureInv, WebInv
    <3> QED BY <1>3, <3>1, <3>2
  <2> QED BY <1>1, <2>1, <2>2 DEF FigureInv, WebInv, web
<1> QED BY <1>1, <1>2, <1>4, <1>5, DraftKept, PageKept DEF FigureInv, inform

\* What comes after the stream leaves what comes before it alone.
LEMMA FrontKept ==
  ASSUME FigureInv, UNCHANGED <<reported, watch, inform, stream>>
  PROVE  /\ ReportInv' /\ StoringInv' /\ InfoInv' /\ DraftInv' /\ StreamInv'
         /\ GoodGrows
         /\ GoodMemories' = GoodMemories /\ GoodMessages' = GoodMessages
<1>1. ReportInv' /\ GoodGrows /\ StoringInv' /\ InfoInv'
  BY WatchKept
<1>2. reported' = reported /\ taken' = taken
  BY DEF watch
<1>3. GoodMemories' = GoodMemories
  BY <1>2 DEF GoodMemories, GoodMemory, Good, Said
<1> QED BY <1>1, <1>3, DraftKept, StreamKept DEF FigureInv, inform, GoodMessages

LEMMA FrontSame ==
  ASSUME FigureInv, UNCHANGED <<reported, watch, inform, stream>>, WebInv', PageInv'
  PROVE  FigureInv'
BY FrontKept DEF FigureInv

LEMMA SkipFigures ==
  ASSUME FigureInv, Skip
  PROVE  FigureInv'
<1>1. /\ UNCHANGED <<reported, watch, inform, stream, replied, pre, casting, web, inbox, shown>>
      /\ todo # <<>> /\ todo' = Tail(todo)
  BY DEF Skip
<1>2. Tail(todo) \in Seq(Pages)
  BY <1>1, HeadTailProperties DEF FigureInv, WebInv
<1>3. GoodMemories' = GoodMemories /\ GoodGrows
  BY <1>1, FrontKept
<1>4. WebInv'
  BY <1>1, <1>2, <1>3 DEF FigureInv, WebInv, web
<1> QED BY <1>1, <1>3, <1>4, FrontSame, PageKept DEF FigureInv

LEMMA BeginPushFigures ==
  ASSUME FigureInv, BeginPush
  PROVE  FigureInv'
<1>1. /\ UNCHANGED <<reported, watch, inform, stream, replied, netty, sessions, page, hello,
                     inbox, shown>>
      /\ todo # <<>> /\ busy' = [busy EXCEPT ![Head(todo)] = "push"]
  BY DEF BeginPush, Session
<1>2. GoodMemories' = GoodMemories /\ GoodGrows
  BY <1>1, FrontKept
<1>3. busy' \in [Pages -> {"nobody", "hello", "push"}]
  BY <1>1 DEF FigureInv, WebInv
<1>4. WebInv'
  BY <1>1, <1>2, <1>3 DEF FigureInv, WebInv, netty
<1> QED BY <1>1, <1>2, <1>4, FrontSame, PageKept DEF FigureInv

LEMMA CollideFigures ==
  ASSUME FigureInv, Collide
  PROVE  FigureInv'
<1>1. /\ UNCHANGED <<reported, watch, inform, stream, pre, web, inbox, shown>>
      /\ casting' = <<>> /\ todo' = <<>> /\ replied' = TRUE
  BY DEF Collide, Refuse
<1>2. GoodMemories' = GoodMemories /\ GoodGrows
  BY <1>1, FrontKept
<1>3. <<>> \in Seq(Pages)
  BY EmptySeq
<1>4. WebInv'
  BY <1>1, <1>2, <1>3 DEF FigureInv, WebInv, web
<1> QED BY <1>1, <1>2, <1>4, FrontSame, PageKept DEF FigureInv

LEMMA SuccessFigures ==
  ASSUME FigureInv, Success
  PROVE  FigureInv'
<1>1. /\ UNCHANGED <<reported, watch, inform, stream, pre, todo, web, inbox, shown>>
      /\ casting' = <<>> /\ replied' = TRUE
  BY DEF Success
<1>2. GoodMemories' = GoodMemories /\ GoodGrows
  BY <1>1, FrontKept
<1>3. WebInv'
  BY <1>1, <1>2 DEF FigureInv, WebInv, web
<1> QED BY <1>1, <1>2, <1>3, FrontSame, PageKept DEF FigureInv

\* A message with a good memory joins the ones under way to a page.
Message(kind, data) == [kind |-> kind, data |-> data]

LEMMA DeliverIs ==
  ASSUME PageInv, NEW b \in Pages, NEW kind \in {"push", "hello"}, NEW data \in GoodMemories,
         Deliver(b, kind, data), Room(b)
  PROVE  /\ inbox' \in [Pages -> Seq(GoodMessages)]
         /\ \A c \in Pages : Len(inbox'[c]) <= MaxInbox
         /\ \A c \in Pages : c # b => inbox'[c] = inbox[c]
         /\ Len(inbox[b]) \in Nat /\ Len(inbox'[b]) = Len(inbox[b]) + 1
         /\ \A k \in 1 .. Len(inbox[b]) : inbox'[b][k] = inbox[b][k]
         /\ inbox'[b][Len(inbox[b]) + 1] = Message(kind, data)
<1> DEFINE x == Message(kind, data)
           q == inbox[b]
           r == Append(q, x)
<1>1. x \in GoodMessages /\ q \in Seq(GoodMessages) /\ Len(q) \in Nat
  BY LenProperties DEF PageInv, GoodMessages, Message
<1>2. inbox' = [inbox EXCEPT ![b] = r]
  BY DEF Deliver, Message
<1> HIDE DEF x
<1>3. /\ r \in Seq(GoodMessages) /\ Len(r) = Len(q) + 1
      /\ \A k \in 1 .. Len(q) : r[k] = q[k]
      /\ r[Len(q) + 1] = x
  BY <1>1, AppendProperties
<1> HIDE DEF r
<1>4. inbox' \in [Pages -> Seq(GoodMessages)] /\ inbox'[b] = r
      /\ \A c \in Pages : c # b => inbox'[c] = inbox[c]
  BY <1>2, <1>3 DEF PageInv
<1>5. Len(r) <= MaxInbox
  BY <1>1, <1>3, BoundAssumption DEF Room
<1> QED BY <1>1, <1>3, <1>4, <1>5 DEF PageInv, x

\* The message of a broadcast, and the session it is for.
LEMMA EndPushIs ==
  ASSUME FigureInv, EndPush
  PROVE  \E b \in Pages :
           /\ b = Head(todo) /\ casting[1] = pre /\ pre \in GoodMemories
           /\ Tail(todo) \in Seq(Pages) /\ todo' = Tail(todo)
           /\ busy' = [busy EXCEPT ![b] = "nobody"]
           /\ \/ Deliver(b, "push", pre) /\ Room(b)
              \/ UNCHANGED inbox
<1>1. casting # <<>> /\ todo # <<>> /\ todo' = Tail(todo)
      /\ busy' = [busy EXCEPT ![Head(todo)] = "nobody"]
      /\ \/ Room(Head(todo)) /\ Deliver(Head(todo), "push", casting[1])
         \/ UNCHANGED inbox
  BY DEF EndPush, Session
<1>2. Head(todo) \in Pages /\ Tail(todo) \in Seq(Pages)
  BY <1>1, HeadTailProperties DEF FigureInv, WebInv
<1>3. casting = <<pre>> /\ pre \in GoodMemories
  BY <1>1 DEF FigureInv, WebInv
<1> QED BY <1>1, <1>2, <1>3

LEMMA EndPushFigures ==
  ASSUME FigureInv, EndPush
  PROVE  FigureInv'
<1>1. UNCHANGED <<reported, watch, inform, stream, replied, pre, casting, sessions, page, hello,
                  shown>>
  BY DEF EndPush
<1>2. PICK b \in Pages :
        /\ pre \in GoodMemories
        /\ Tail(todo) \in Seq(Pages) /\ todo' = Tail(todo)
        /\ busy' = [busy EXCEPT ![b] = "nobody"]
        /\ \/ Deliver(b, "push", pre) /\ Room(b)
           \/ UNCHANGED inbox
  BY EndPushIs
<1>3. GoodMemories' = GoodMemories /\ GoodMessages' = GoodMessages /\ GoodGrows
  BY <1>1, FrontKept
<1>4. WebInv'
  BY <1>1, <1>2, <1>3 DEF FigureInv, WebInv
<1>5. PageInv'
  <2>1. /\ inbox' \in [Pages -> Seq(GoodMessages)]
        /\ \A c \in Pages : Len(inbox'[c]) <= MaxInbox
    BY <1>2, DeliverIs DEF FigureInv, PageInv
  <2> QED BY <1>1, <1>3, <2>1 DEF FigureInv, PageInv, shown
<1> QED BY <1>1, <1>4, <1>5, FrontSame

(***************************************************************************)
(* The sessions.                                                           *)
(***************************************************************************)
LEMMA OpenFigures ==
  ASSUME FigureInv, NEW b \in Pages, Open(b)
  PROVE  FigureInv'
<1>1. /\ UNCHANGED <<reported, watch, inform, stream, replied, netty, hello, busy, inbox, shown>>
      /\ page' = [page EXCEPT ![b] = "added"] /\ sessions' = Append(sessions, b)
  BY DEF Open
<1>2. GoodMemories' = GoodMemories /\ GoodGrows
  BY <1>1, FrontKept
<1>3. Append(sessions, b) \in Seq(Pages)
  BY AppendProperties DEF FigureInv, WebInv
<1>4. WebInv'
  BY <1>1, <1>2, <1>3 DEF FigureInv, WebInv, netty
<1> QED BY <1>1, <1>2, <1>4, FrontSame, PageKept DEF FigureInv

LEMMA WrapFigures ==
  ASSUME FigureInv, NEW b \in Pages, Wrap(b)
  PROVE  FigureInv'
<1>1. /\ UNCHANGED <<reported, watch, inform, stream, replied, netty, sessions, busy, inbox, shown>>
      /\ page' = [page EXCEPT ![b] = "wrapped"] /\ hello' = [hello EXCEPT ![b] = pre]
  BY DEF Wrap
<1>2. GoodMemories' = GoodMemories /\ GoodGrows
  BY <1>1, FrontKept
<1>3. WebInv'
  BY <1>1, <1>2 DEF FigureInv, WebInv, netty
<1> QED BY <1>1, <1>2, <1>3, FrontSame, PageKept DEF FigureInv

LEMMA BeginHelloFigures ==
  ASSUME FigureInv, NEW b \in Pages, BeginHello(b)
  PROVE  FigureInv'
<1>1. UNCHANGED <<reported, watch, inform, stream, replied, netty, sessions, inbox, shown>>
  BY DEF BeginHello
<1>2. GoodMemories' = GoodMemories /\ GoodGrows
  BY <1>1, FrontKept
<1>3. WebInv'
  <2>1. CASE /\ busy' = [busy EXCEPT ![b] = "hello"]
             /\ UNCHANGED <<page, hello>>
    BY <1>1, <1>2, <2>1 DEF FigureInv, WebInv, netty
  <2>2. CASE /\ page' = [page EXCEPT ![b] = "closed"]
             /\ hello' = [hello EXCEPT ![b] = Nothing]
             /\ UNCHANGED busy
    BY <1>1, <1>2, <2>2, EmptyIs DEF FigureInv, WebInv, netty
  <2> QED BY <2>1, <2>2 DEF BeginHello
<1> QED BY <1>1, <1>2, <1>3, FrontSame, PageKept DEF FigureInv

LEMMA EndHelloFigures ==
  ASSUME FigureInv, NEW b \in Pages, EndHello(b)
  PROVE  FigureInv'
<1>1. /\ UNCHANGED <<reported, watch, inform, stream, replied, netty, sessions, shown>>
      /\ page' = [page EXCEPT ![b] = "open"]
      /\ busy' = [busy EXCEPT ![b] = "nobody"]
      /\ hello' = [hello EXCEPT ![b] = Nothing]
      /\ Deliver(b, "hello", hello[b]) /\ Room(b)
  BY DEF EndHello
<1>2. GoodMemories' = GoodMemories /\ GoodMessages' = GoodMessages /\ GoodGrows
  BY <1>1, FrontKept
<1>3. WebInv'
  BY <1>1, <1>2, EmptyIs DEF FigureInv, WebInv, netty
<1>4. hello[b] \in GoodMemories
  BY DEF FigureInv, WebInv
<1>5. /\ inbox' \in [Pages -> Seq(GoodMessages)]
      /\ \A c \in Pages : Len(inbox'[c]) <= MaxInbox
  BY <1>1, <1>4, DeliverIs DEF FigureInv
<1>6. PageInv'
  BY <1>1, <1>2, <1>5 DEF FigureInv, PageInv, shown
<1> QED BY <1>1, <1>3, <1>6, FrontSame

LEMMA CloseFigures ==
  ASSUME FigureInv, NEW b \in Pages, Close(b)
  PROVE  FigureInv'
<1>1. /\ UNCHANGED <<reported, watch, inform, stream, replied, netty, sessions, hello, busy>>
      /\ page' = [page EXCEPT ![b] = "closed"]
      /\ inbox' = [inbox EXCEPT ![b] = <<>>]
      /\ rows' = [rows EXCEPT ![b] = Nothing]
      /\ cards' = [cards EXCEPT ![b] = Nothing]
  BY DEF Close
<1>2. GoodMemories' = GoodMemories /\ GoodMessages' = GoodMessages /\ GoodGrows
  BY <1>1, FrontKept
<1>3. WebInv'
  BY <1>1, <1>2 DEF FigureInv, WebInv, netty
<1>4. PageInv'
  <2>1. <<>> \in Seq(GoodMessages) /\ Len(<<>>) = 0 /\ 0 <= MaxInbox
    BY EmptySeq, BoundAssumption
  <2>2. inbox' \in [Pages -> Seq(GoodMessages)] /\ inbox'[b] = <<>>
        /\ \A c \in Pages : c # b => inbox'[c] = inbox[c]
    BY <1>1, <2>1 DEF FigureInv, PageInv
  <2>3. \A c \in Pages : Len(inbox'[c]) <= MaxInbox
    BY <2>1, <2>2 DEF FigureInv, PageInv
  <2>4. rows' \in [Pages -> GoodMemories] /\ cards' \in [Pages -> GoodMemories]
    BY <1>1, EmptyIs DEF FigureInv, PageInv
  <2> QED BY <1>2, <2>2, <2>3, <2>4 DEF PageInv
<1> QED BY <1>1, <1>3, <1>4, FrontSame

(***************************************************************************)
(* The page.                                                               *)
(***************************************************************************)

\* A memory is good if each entry is that of a good one.
LEMMA GoodMake ==
  ASSUME NEW S \in SUBSET Servers, NEW m, m = [i \in S |-> m[i]],
         \A i \in S : \E g \in GoodMemories : i \in DOMAIN g /\ m[i] = g[i]
  PROVE  m \in GoodMemories
<1>1. ASSUME NEW i \in S
      PROVE  m[i] \in AppLists /\ \A j \in DOMAIN m[i] : Good(i, j, m[i][j])
  <2>1. PICK g \in GoodMemories : i \in DOMAIN g /\ m[i] = g[i]
    OBVIOUS
  <2>2. g \in Memories /\ GoodMemory(g)
    BY DEF GoodMemories
  <2> QED BY <2>1, <2>2, MemoryIs DEF GoodMemory
<1>2. m \in [S -> AppLists] /\ DOMAIN m = S
  BY <1>1
<1>3. m \in Memories
  BY <1>2, MemoryMake
<1> QED BY <1>1, <1>2, <1>3 DEF GoodMemories, GoodMemory

LEMMA GoodDomain ==
  ASSUME NEW m \in GoodMemories
  PROVE  DOMAIN m \subseteq Servers
BY MemoryIs DEF GoodMemories

LEMMA TableIs ==
  ASSUME NEW b \in Pages, NEW r \in GoodMemories, r = rows[b],
         NEW data \in GoodMemories, NEW m, m = TableAfter(b, data)
  PROVE  /\ m \in GoodMemories
         /\ \A i : i \in DOMAIN m <=> i \in DOMAIN r \/ i \in DOMAIN data
         /\ \A i \in DOMAIN data : m[i] = data[i]
         /\ \A i \in DOMAIN r : i \notin DOMAIN data => m[i] = r[i]
<1> DEFINE S == DOMAIN r \cup DOMAIN data
<1>1. m = [i \in S |-> IF i \in DOMAIN data THEN data[i] ELSE r[i]]
  BY DEF TableAfter
<1>2. S \in SUBSET Servers
  BY GoodDomain
<1> HIDE DEF S
<1>3. m = [i \in S |-> m[i]] /\ DOMAIN m = S
      /\ \A i \in S : m[i] = IF i \in DOMAIN data THEN data[i] ELSE r[i]
  BY <1>1
<1>4. \A i \in S : \E g \in GoodMemories : i \in DOMAIN g /\ m[i] = g[i]
  BY <1>3 DEF S
<1>5. m \in GoodMemories
  BY <1>2, <1>3, <1>4, GoodMake
<1> QED BY <1>3, <1>5 DEF S

LEMMA CardsIs ==
  ASSUME NEW b \in Pages, cards[b] \in GoodMemories, NEW data \in GoodMemories
  PROVE  CardsAfter(b, data) \in GoodMemories
<1> DEFINE S == DOMAIN cards[b]
           m == CardsAfter(b, data)
<1>1. m = [i \in S |-> IF i \in DOMAIN data THEN data[i] ELSE cards[b][i]]
  BY DEF CardsAfter
<1>2. S \in SUBSET Servers
  BY GoodDomain
<1> HIDE DEF S, m
<1>3. m = [i \in S |-> m[i]]
      /\ \A i \in S : m[i] = IF i \in DOMAIN data THEN data[i] ELSE cards[b][i]
  BY <1>1
<1>4. \A i \in S : \E g \in GoodMemories : i \in DOMAIN g /\ m[i] = g[i]
  BY <1>3 DEF S
<1>5. m \in GoodMemories
  BY <1>2, <1>3, <1>4, GoodMake
<1> QED BY <1>5 DEF m

\* The message that a page handles.
LEMMA OnMessageIs ==
  ASSUME FigureInv, NEW b \in Pages, OnMessage(b)
  PROVE  \E msg \in GoodMessages :
           /\ msg = Head(inbox[b]) /\ msg = inbox[b][1] /\ msg.data \in GoodMemories
           /\ Len(inbox[b]) \in Nat /\ Len(inbox[b]) >= 1
           /\ inbox' \in [Pages -> Seq(GoodMessages)]
           /\ inbox'[b] \in Seq(GoodMessages)
           /\ Len(inbox'[b]) = Len(inbox[b]) - 1
           /\ \A k \in 1 .. Len(inbox'[b]) :
                k + 1 \in 1 .. Len(inbox[b]) /\ inbox'[b][k] = inbox[b][k + 1]
           /\ \A c \in Pages : c # b => inbox'[c] = inbox[c]
           /\ rows' = [rows EXCEPT ![b] = TableAfter(b, msg.data)]
           /\ cards' = [cards EXCEPT ![b] = CardsAfter(b, msg.data)]
<1> DEFINE q == inbox[b]
           r == Tail(q)
           msg == Head(q)
<1>1. q \in Seq(GoodMessages) /\ q # <<>> /\ Len(q) \in Nat
  BY LenProperties DEF FigureInv, PageInv, OnMessage
<1>2. /\ msg \in GoodMessages /\ r \in Seq(GoodMessages) /\ Len(r) = Len(q) - 1
      /\ \A i \in 1 .. Len(r) : r[i] = q[i + 1]
      /\ msg = q[1]
  BY <1>1, HeadTailProperties
<1>3. /\ inbox' = [inbox EXCEPT ![b] = r]
      /\ rows' = [rows EXCEPT ![b] = TableAfter(b, msg.data)]
      /\ cards' = [cards EXCEPT ![b] = CardsAfter(b, msg.data)]
  BY DEF OnMessage
<1>4. Len(q) >= 1
  BY <1>1, EmptySeq
<1> HIDE DEF r, msg
<1>5. inbox' \in [Pages -> Seq(GoodMessages)] /\ inbox'[b] = r
      /\ \A c \in Pages : c # b => inbox'[c] = inbox[c]
  BY <1>2, <1>3 DEF FigureInv, PageInv
<1>6. msg.data \in GoodMemories
  BY <1>2 DEF GoodMessages
<1>7. \A k \in 1 .. Len(r) : k + 1 \in 1 .. Len(q)
  BY <1>1, <1>2
<1> QED BY <1>1, <1>2, <1>3, <1>4, <1>5, <1>6, <1>7 DEF msg

LEMMA OnMessageFigures ==
  ASSUME FigureInv, NEW b \in Pages, OnMessage(b)
  PROVE  FigureInv'
<1>1. UNCHANGED <<reported, watch, inform, stream, replied, netty, web>>
  BY DEF OnMessage
<1>2. PICK msg \in GoodMessages :
        /\ msg.data \in GoodMemories
        /\ Len(inbox[b]) \in Nat /\ Len(inbox[b]) >= 1
        /\ inbox' \in [Pages -> Seq(GoodMessages)]
        /\ Len(inbox'[b]) = Len(inbox[b]) - 1
        /\ \A c \in Pages : c # b => inbox'[c] = inbox[c]
        /\ rows' = [rows EXCEPT ![b] = TableAfter(b, msg.data)]
        /\ cards' = [cards EXCEPT ![b] = CardsAfter(b, msg.data)]
  BY OnMessageIs
<1>3. GoodMemories' = GoodMemories /\ GoodMessages' = GoodMessages /\ GoodGrows
  BY <1>1, FrontKept
<1>4. WebInv'
  BY <1>1, <1>3, WebKept DEF FigureInv
<1>5. PageInv'
  <2>1. rows[b] \in GoodMemories /\ cards[b] \in GoodMemories
    BY DEF FigureInv, PageInv
  <2>2. TableAfter(b, msg.data) \in GoodMemories /\ CardsAfter(b, msg.data) \in GoodMemories
    BY <1>2, <2>1, TableIs, CardsIs
  <2>3. rows' \in [Pages -> GoodMemories] /\ cards' \in [Pages -> GoodMemories]
    BY <1>2, <2>2 DEF FigureInv, PageInv
  <2>4. \A c \in Pages : Len(inbox'[c]) <= MaxInbox
    <3>1. Len(inbox'[b]) <= MaxInbox
      BY <1>2, BoundAssumption DEF FigureInv, PageInv
    <3> QED BY <1>2, <3>1 DEF FigureInv, PageInv
  <2> QED BY <1>2, <1>3, <2>3, <2>4 DEF PageInv
<1> QED BY <1>1, <1>4, <1>5, FrontSame

LEMMA ShowAppsFigures ==
  ASSUME FigureInv, NEW b \in Pages, NEW i \in Servers, ShowApps(b, i)
  PROVE  FigureInv'
<1> DEFINE S == DOMAIN cards[b] \cup {i}
           m == [k \in S |-> IF k = i THEN rows[b][i] ELSE cards[b][k]]
<1>1. /\ UNCHANGED <<reported, watch, inform, stream, replied, netty, web, inbox, rows>>
      /\ i \in DOMAIN rows[b]
      /\ cards' = [cards EXCEPT ![b] = [k \in DOMAIN @ \cup {i} |->
                                          IF k = i THEN rows[b][i] ELSE @[k]]]
  BY DEF ShowApps
<1>2. rows[b] \in GoodMemories /\ cards[b] \in GoodMemories
      /\ cards \in [Pages -> GoodMemories]
  BY DEF FigureInv, PageInv
<1>3. cards' = [cards EXCEPT ![b] = m]
  BY <1>1, <1>2
<1>4. S \in SUBSET Servers
  BY <1>2, GoodDomain
<1>5. \A k \in S : m[k] = IF k = i THEN rows[b][i] ELSE cards[b][k]
  OBVIOUS
<1>6. m = [k \in S |-> m[k]]
  OBVIOUS
<1> HIDE DEF m
<1>7. \A k \in S : \E g \in GoodMemories : k \in DOMAIN g /\ m[k] = g[k]
  BY <1>1, <1>2, <1>5
<1> HIDE DEF S
<1>8. m \in GoodMemories
  BY <1>4, <1>6, <1>7, GoodMake
<1>9. GoodMemories' = GoodMemories /\ GoodMessages' = GoodMessages /\ GoodGrows
  BY <1>1, FrontKept
<1>10. PageInv'
  BY <1>1, <1>2, <1>3, <1>8, <1>9 DEF FigureInv, PageInv
<1> QED BY <1>1, <1>9, <1>10, FrontSame, WebKept DEF FigureInv

LEMMA RemoveCardFigures ==
  ASSUME FigureInv, NEW b \in Pages, NEW i \in Servers, RemoveCard(b, i)
  PROVE  FigureInv'
<1> DEFINE S == DOMAIN cards[b] \ {i}
           m == [k \in S |-> cards[b][k]]
<1>1. /\ UNCHANGED <<reported, watch, inform, stream, replied, netty, web, inbox, rows>>
      /\ cards' = [cards EXCEPT ![b] = [k \in DOMAIN @ \ {i} |-> @[k]]]
  BY DEF RemoveCard
<1>2. cards[b] \in GoodMemories /\ cards \in [Pages -> GoodMemories]
      /\ rows \in [Pages -> GoodMemories]
  BY DEF FigureInv, PageInv
<1>3. cards' = [cards EXCEPT ![b] = m]
  BY <1>1, <1>2
<1>4. S \in SUBSET Servers
  BY <1>2, GoodDomain
<1>5. m = [k \in S |-> m[k]] /\ \A k \in S : k \in DOMAIN cards[b] /\ m[k] = cards[b][k]
  OBVIOUS
<1> HIDE DEF m, S
<1>6. m \in GoodMemories
  BY <1>2, <1>4, <1>5, GoodMake
<1>7. GoodMemories' = GoodMemories /\ GoodMessages' = GoodMessages /\ GoodGrows
  BY <1>1, FrontKept
<1>8. PageInv'
  BY <1>1, <1>2, <1>3, <1>6, <1>7 DEF FigureInv, PageInv
<1> QED BY <1>1, <1>7, <1>8, FrontSame, WebKept DEF FigureInv

LEMMA StutterFigures ==
  ASSUME FigureInv, UNCHANGED vars
  PROVE  FigureInv'
<1>1. UNCHANGED <<reported, watch, inform, stream, replied, netty, web, inbox, shown>>
  BY DEF vars
<1>2. GoodGrows
  BY <1>1, FrontKept
<1> QED BY <1>1, <1>2, FrontSame, WebKept, PageKept DEF FigureInv

LEMMA FigureNext == FigureInv /\ [Next]_vars => FigureInv'
<1> SUFFICES ASSUME FigureInv, [Next]_vars PROVE FigureInv'
  OBVIOUS
<1>1. ASSUME NEW i \in Servers, Report(i) PROVE FigureInv'
  BY <1>1, ReportFigures
<1>2. CASE EpollSteps
  BY <1>2, TakeFigures, StoreEntryFigures, StoreNumFigures DEF EpollSteps
<1>3. CASE InformSteps
  BY <1>3, ReadInfoFigures, WriteFigures, ReadReplyFigures DEF InformSteps
<1>4. CASE NettySteps
  BY <1>4, ChannelReadFigures, SkipFigures, BeginPushFigures, EndPushFigures,
     CollideFigures, SuccessFigures DEF NettySteps
<1>5. ASSUME NEW b \in Pages, Open(b) \/ OpenSteps(b) \/ Close(b) \/ OnMessage(b)
      PROVE  FigureInv'
  BY <1>5, OpenFigures, WrapFigures, BeginHelloFigures, EndHelloFigures, CloseFigures,
     OnMessageFigures DEF OpenSteps
<1>6. ASSUME NEW b \in Pages, NEW i \in Servers, ShowApps(b, i) \/ RemoveCard(b, i)
      PROVE  FigureInv'
  BY <1>6, ShowAppsFigures, RemoveCardFigures
<1>7. CASE UNCHANGED vars
  BY <1>7, StutterFigures
<1> QED BY <1>1, <1>2, <1>3, <1>4, <1>5, <1>6, <1>7 DEF Next

LEMMA MonitorFigures == Spec => []FigureInv
BY FigureInit, FigureNext, PTL DEF Spec

LEMMA FigureTypes == FigureInv => TypeOK
<1> SUFFICES ASSUME FigureInv PROVE TypeOK
  OBVIOUS
<1>1. 0 .. MaxReports = {0} \cup Reports
  BY BoundAssumption DEF Reports
<1>2. reported \in [Servers -> Seq(0 .. MaxApps)] /\ taken \in [Servers -> 0 .. MaxReports]
  <2>1. \A i \in Servers : taken[i] \in 0 .. MaxReports
    <3>1. ASSUME NEW i \in Servers PROVE taken[i] \in 0 .. MaxReports
      <4>1. reported[i] \in Seq(0 .. MaxApps) /\ Len(reported[i]) \in Nat
            /\ taken[i] \in Nat /\ taken[i] <= Len(reported[i]) /\ Len(reported[i]) <= MaxReports
        BY LenProperties DEF FigureInv, ReportInv
      <4> QED BY <4>1, BoundAssumption
    <3> QED BY <3>1
  <2> QED BY <2>1 DEF FigureInv, ReportInv
<1>3. storing \in [server : {0} \cup Servers, entry : 0 .. MaxApps + 1]
  <2>1. CASE storing = Nobody
    BY <2>1, AppsAssumption DEF Nobody
  <2>2. CASE storing # Nobody
    <3>1. PICK i \in Servers, j \in 1 .. MaxApps + 1 : storing = [server |-> i, entry |-> j]
      BY <2>2 DEF FigureInv, StoringInv
    <3>2. j \in 0 .. MaxApps + 1
      BY AppsAssumption
    <3> QED BY <3>1, <3>2
  <2> QED BY <2>1, <2>2
<1>4. /\ info \in [Servers -> [1 .. MaxClients -> {0} \cup Reports]]
      /\ num \in 0 .. MaxApps
  BY <1>1 DEF FigureInv, InfoInv
<1>5. /\ informer \in {"json", "reading"}
      /\ draft.text \in [Servers -> Lists] /\ draft.at \in 1 .. Nets + 1
  <2>1. draft.text \in Texts /\ draft.at \in 1 .. Nets + 1
    BY DEF FigureInv, DraftInv, GoodTexts
  <2>2. \A a \in AppLists : a \in Lists
    BY <1>1, AppListIs DEF Lists
  <2> QED BY <2>1, <2>2 DEF FigureInv, DraftInv, Texts
<1>6. DOMAIN sendBuff = 1 .. Buf /\ DOMAIN stream = 1 .. Len(stream)
  BY LenProperties DEF FigureInv, StreamInv, IsBuffer
<1>7. \A m \in GoodMemories : IsMemory(m)
  BY MemoryTyped DEF GoodMemories
<1>8. IsMemory(pre) /\ \A k \in DOMAIN casting : IsMemory(casting[k])
  <2>1. pre \in GoodMemories /\ casting \in {<<>>, <<pre>>}
    BY DEF FigureInv, WebInv
  <2>2. \A k \in DOMAIN casting : casting[k] = pre
    BY <2>1
  <2> QED BY <1>7, <2>1, <2>2
<1>9. ASSUME NEW b \in Pages
      PROVE  /\ IsMemory(hello[b]) /\ IsMemory(rows[b]) /\ IsMemory(cards[b])
             /\ Len(inbox[b]) <= MaxInbox
             /\ \A k \in DOMAIN inbox[b] : IsMemory(inbox[b][k].data)
  <2>1. hello[b] \in GoodMemories /\ rows[b] \in GoodMemories /\ cards[b] \in GoodMemories
        /\ Len(inbox[b]) <= MaxInbox /\ inbox[b] \in Seq(GoodMessages)
    BY DEF FigureInv, WebInv, PageInv
  <2>2. \A k \in DOMAIN inbox[b] : inbox[b][k] \in GoodMessages
    BY <2>1, LenProperties, ElementOfSeq
  <2>3. \A k \in DOMAIN inbox[b] : inbox[b][k].data \in GoodMemories
    BY <2>2 DEF GoodMessages
  <2> QED BY <1>7, <2>1, <2>3
<1>10. /\ replied \in BOOLEAN
       /\ todo \in Seq(Pages) /\ sessions \in Seq(Pages)
       /\ page \in [Pages -> {"none", "added", "wrapped", "open", "closed"}]
       /\ busy \in [Pages -> {"nobody", "hello", "push"}]
  BY DEF FigureInv, WebInv
<1> QED BY <1>2, <1>3, <1>4, <1>5, <1>6, <1>8, <1>9, <1>10 DEF TypeOK

\* Every variable has its type, of which little is by construction: whatever is
\* cut off and parsed (MemoryInfoReceiveServerHandler.java:55) is a map from
\* servers to lists of figures, and no text has more entries than apps_info.
THEOREM MonitorTypes == Spec => []TypeOK
BY MonitorFigures, FigureTypes, PTL

LEMMA FigureGood == Nets = 1 /\ FigureInv => NothingInvented
<1> SUFFICES ASSUME Nets = 1, FigureInv, NEW b \in Pages, NEW i \in DOMAIN rows[b],
                    NEW j \in DOMAIN rows[b][i]
             PROVE  /\ rows[b][i][j] \in DOMAIN reported[i]
                    /\ j <= reported[i][rows[b][i][j]]
  BY DEF NothingInvented
<1>1. rows[b] \in GoodMemories
  BY DEF FigureInv, PageInv
<1>2. i \in Servers
  BY <1>1, GoodDomain
<1>3. Said(i, j, rows[b][i][j])
  BY <1>1 DEF GoodMemories, GoodMemory, Good
<1>4. reported[i] \in Seq(0 .. MaxApps) /\ Len(reported[i]) \in Nat
      /\ DOMAIN reported[i] = 1 .. Len(reported[i])
      /\ taken[i] \in Nat /\ taken[i] <= Len(reported[i])
  BY <1>2, LenProperties DEF FigureInv, ReportInv
<1>5. 1 .. taken[i] \subseteq 1 .. Len(reported[i])
  BY <1>4
<1> QED BY <1>3, <1>4, <1>5 DEF Said

\* With one server every figure on a page is one that the server has reported
\* for this app, though the inform thread reads apps_info while the epoll thread
\* stores it (dhmp_watcher.c:63) and sends what older texts left in its buffer
\* (dhmp_watcher.c:94).  With more servers cur_app_num counts entries that were
\* never set.
THEOREM MonitorNothingInvented == Nets = 1 => (Spec => []NothingInvented)
<1> SUFFICES ASSUME Nets = 1 PROVE Spec => []NothingInvented
  OBVIOUS
<1>1. FigureInv => NothingInvented
  BY FigureGood
<1> QED BY <1>1, MonitorFigures, PTL

(***************************************************************************)
(* What is older and what is newer.                                        *)
(***************************************************************************)

\* No figure of m is of a later report than that of n for the same app.
NotAfter(m, n) ==
  \A i \in DOMAIN m \cap DOMAIN n : \A j \in DOMAIN m[i] \cap DOMAIN n[i] :
    m[i][j] <= n[i][j]

\* No text of s takes m back, and no text of s takes back an earlier one.
Before(m, s) ==
  \A k \in 1 .. Len(s), t \in Texts : TextAt(s, k, t) => NotAfter(m, t)
InOrder(s) ==
  \A k \in 1 .. Len(s), t \in Texts : TextAt(s, k, t) =>
    \A l \in 1 .. Len(s), u \in Texts : TextAt(s, l, u) /\ k < l => NotAfter(t, u)

\* Nothing that is still to come to the web server takes m back.
Past(m) == Before(m, stream) /\ NotAfter(m, draft.text) /\ NotAfter(m, info)
Shown(m) == Past(m) /\ NotAfter(m, pre)

TextsPast ==
  \A k \in 1 .. Len(stream), t \in Texts : TextAt(stream, k, t) =>
    NotAfter(t, draft.text) /\ NotAfter(t, info)

\* No push of q takes back what the page shows before it.
PushesInOrder(q, r) ==
  \A k \in 1 .. Len(q) : q[k].kind = "push" =>
    /\ NotAfter(r, q[k].data)
    /\ \A l \in 1 .. Len(q) : l < k => NotAfter(q[l].data, q[k].data)

PageInOrder(b) ==
  /\ Shown(hello[b]) /\ Shown(rows[b]) /\ PushesInOrder(inbox[b], rows[b])
  /\ \A k \in 1 .. Len(inbox[b]) : Shown(inbox[b][k].data)

OrderInv ==
  /\ NotAfter(draft.text, info) /\ InOrder(stream) /\ TextsPast /\ Past(pre)
  /\ \A b \in Pages : PageInOrder(b)

LEMMA OlderSame ==
  ASSUME NEW m \in Memories
  PROVE  NotAfter(m, m)
<1>1. \A i \in DOMAIN m : \A j \in DOMAIN m[i] : m[i][j] \in Nat
  BY MemoryIs
<1>2. ASSUME NEW i \in DOMAIN m, NEW j \in DOMAIN m[i]
      PROVE  m[i][j] <= m[i][j]
  BY <1>1
<1> QED BY <1>2 DEF NotAfter

LEMMA OlderNothing ==
  /\ \A n : NotAfter(Nothing, n) /\ \A m : NotAfter(m, NoDraft.text)
  /\ \A s : Before(Nothing, s)
<1>1. \A n : NotAfter(Nothing, n)
  BY EmptyIs DEF NotAfter
<1>2. DOMAIN NoDraft.text = Servers
  BY DEF NoDraft
<1>3. \A m : NotAfter(m, NoDraft.text)
  BY <1>2, EmptyIs DEF NotAfter
<1> QED BY <1>1, <1>3 DEF Before

\* What is in FigureInv as memories.
LEMMA AreMemories ==
  ASSUME FigureInv
  PROVE  /\ pre \in Memories /\ draft.text \in Memories /\ draft.text \in Texts
         /\ \A b \in Pages : /\ hello[b] \in Memories /\ rows[b] \in Memories
                             /\ \A k \in 1 .. Len(inbox[b]) : inbox[b][k].data \in Memories
         /\ \A t \in Texts : t \in Memories
<1>1. pre \in Memories /\ \A b \in Pages : hello[b] \in Memories /\ rows[b] \in Memories
  BY DEF FigureInv, WebInv, PageInv, GoodMemories
<1>2. draft.text \in Texts
  BY DEF FigureInv, DraftInv, GoodTexts
<1>3. ASSUME NEW b \in Pages, NEW k \in 1 .. Len(inbox[b])
      PROVE  inbox[b][k].data \in Memories
  <2>1. inbox[b] \in Seq(GoodMessages)
    BY DEF FigureInv, PageInv
  <2>2. inbox[b][k] \in GoodMessages
    BY <2>1, ElementOfSeq
  <2> QED BY <2>2 DEF GoodMessages, GoodMemories
<1> QED BY <1>1, <1>2, <1>3, TextsAreMemories

\* Pages that have not moved, when what was shown before stays so.
LEMMA PagesKept ==
  ASSUME FigureInv, OrderInv, UNCHANGED <<hello, rows, inbox>>,
         \A m \in Memories : Shown(m) =>
           /\ Before(m, stream') /\ NotAfter(m, draft'.text)
           /\ NotAfter(m, info') /\ NotAfter(m, pre')
  PROVE  \A b \in Pages : PageInOrder(b)'
<1> SUFFICES ASSUME NEW b \in Pages PROVE PageInOrder(b)'
  OBVIOUS
<1>1. PageInOrder(b)
  BY DEF OrderInv
<1>2. hello[b] \in Memories /\ rows[b] \in Memories
      /\ \A k \in 1 .. Len(inbox[b]) : inbox[b][k].data \in Memories
  BY AreMemories
<1>3. hello'[b] = hello[b] /\ rows'[b] = rows[b] /\ inbox'[b] = inbox[b]
  OBVIOUS
<1>4. Shown(hello[b])'
  BY <1>1, <1>2, <1>3 DEF PageInOrder, Shown, Past
<1>5. Shown(rows[b])'
  BY <1>1, <1>2, <1>3 DEF PageInOrder, Shown, Past
<1>6. ASSUME NEW k \in 1 .. Len(inbox[b])
      PROVE  /\ Before(inbox[b][k].data, stream') /\ NotAfter(inbox[b][k].data, draft'.text)
             /\ NotAfter(inbox[b][k].data, info') /\ NotAfter(inbox[b][k].data, pre')
  BY <1>1, <1>2 DEF PageInOrder
<1>7. \A k \in 1 .. Len(inbox'[b]) : Shown(inbox[b][k].data)'
  BY <1>3, <1>6 DEF Shown, Past
<1> QED BY <1>1, <1>3, <1>4, <1>5, <1>7 DEF PageInOrder

LEMMA OrderSame ==
  ASSUME FigureInv, OrderInv, UNCHANGED <<stream, draft, info, pre, hello, rows, inbox>>
  PROVE  OrderInv'
<1>1. \A b \in Pages : PageInOrder(b)'
  BY PagesKept DEF Shown, Past
<1> QED BY <1>1 DEF OrderInv, TextsPast, Past

LEMMA OrderInit == Init => OrderInv
<1> SUFFICES ASSUME Init PROVE OrderInv
  OBVIOUS
<1>1. /\ stream = <<>> /\ draft = NoDraft /\ pre = Nothing
      /\ \A b \in Pages : hello[b] = Nothing /\ rows[b] = Nothing /\ inbox[b] = <<>>
  BY DEF Init
<1>2. Len(<<>>) = 0 /\ \A k : ~(k \in 1 .. 0)
  BY EmptySeq
<1>3. DOMAIN NoDraft.text = Servers /\ \A i \in Servers : DOMAIN NoDraft.text[i] = {}
  BY EmptyIs DEF NoDraft
<1>4. NotAfter(draft.text, info)
  BY <1>1, <1>3 DEF NotAfter
<1>5. InOrder(stream) /\ TextsPast
  BY <1>1, <1>2 DEF InOrder, TextsPast
<1>6. Shown(Nothing) /\ Past(pre)
  BY <1>1, OlderNothing DEF Shown, Past
<1>7. ASSUME NEW b \in Pages PROVE PageInOrder(b)
  <2>1. PushesInOrder(inbox[b], rows[b]) /\ \A k \in 1 .. Len(inbox[b]) : Shown(inbox[b][k].data)
    BY <1>1, <1>2 DEF PushesInOrder
  <2> QED BY <1>1, <1>6, <2>1 DEF PageInOrder
<1> QED BY <1>4, <1>5, <1>6, <1>7 DEF OrderInv

(***************************************************************************)
(* No step takes anything back.                                            *)
(***************************************************************************)
LEMMA StoreEntryOrder ==
  ASSUME FigureInv, OrderInv, StoreEntry
  PROVE  OrderInv'
<1>1. PICK i \in Servers, j \in 1 .. MaxClients, v \in 1 .. MaxReports :
        /\ info' = [info EXCEPT ![i][j] = v] /\ info[i][j] <= v
  BY StoreEntryIs
<1>2. UNCHANGED <<stream, draft, pre, hello, rows, inbox>>
  BY DEF StoreEntry, inform, netty, web, shown
<1>3. info \in [Servers -> [1 .. MaxClients -> 0 .. MaxReports]] /\ v \in Nat
  BY <1>1, BoundAssumption DEF FigureInv, InfoInv
<1>4. /\ DOMAIN info' = Servers /\ DOMAIN info = Servers
      /\ \A k \in Servers : DOMAIN info'[k] = 1 .. MaxClients /\ DOMAIN info[k] = 1 .. MaxClients
      /\ info'[i][j] = v
      /\ \A k \in Servers, l \in 1 .. MaxClients : k # i \/ l # j => info'[k][l] = info[k][l]
      /\ \A k \in Servers, l \in 1 .. MaxClients : info[k][l] \in Nat
  <2>1. /\ info' \in [Servers -> [1 .. MaxClients -> 0 .. MaxReports]] /\ info'[i][j] = v
        /\ \A k \in Servers, l \in 1 .. MaxClients : k # i \/ l # j => info'[k][l] = info[k][l]
    <3>1. v \in 0 .. MaxReports
      BY BoundAssumption
    <3> QED BY <1>1, <1>3, <3>1
  <2>2. \A k \in Servers, l \in 1 .. MaxClients : info[k][l] \in 0 .. MaxReports
    BY <1>3
  <2>3. \A x \in 0 .. MaxReports : x \in Nat
    BY BoundAssumption
  <2> QED BY <1>3, <2>1, <2>2, <2>3
<1>5. ASSUME NEW m \in Memories, NotAfter(m, info)
      PROVE  NotAfter(m, info')
  <2> SUFFICES ASSUME NEW k \in DOMAIN m \cap Servers,
                      NEW l \in DOMAIN m[k] \cap (1 .. MaxClients)
               PROVE  m[k][l] <= info'[k][l]
    BY <1>4 DEF NotAfter
  <2>1. m[k][l] <= info[k][l]
    BY <1>4, <1>5 DEF NotAfter
  <2>2. m[k][l] \in Nat /\ info[k][l] \in Nat
    BY <1>4, MemoryIs
  <2>3. CASE k = i /\ l = j
    BY <1>1, <1>3, <1>4, <2>1, <2>2, <2>3
  <2>4. CASE ~(k = i /\ l = j)
    BY <1>4, <2>1, <2>4
  <2> QED BY <2>3, <2>4
<1>6. \A b \in Pages : PageInOrder(b)'
  <2>1. \A m \in Memories : Shown(m) =>
          /\ Before(m, stream') /\ NotAfter(m, draft'.text)
          /\ NotAfter(m, info') /\ NotAfter(m, pre')
    BY <1>2, <1>5 DEF Shown, Past
  <2> QED BY <1>2, <2>1, PagesKept
<1>7. NotAfter(draft'.text, info') /\ InOrder(stream')
  BY <1>2, <1>5, AreMemories DEF OrderInv
<1>8. TextsPast'
  BY <1>2, <1>5, AreMemories DEF OrderInv, TextsPast
<1>9. Past(pre)'
  BY <1>2, <1>5, AreMemories DEF OrderInv, Past
<1> QED BY <1>6, <1>7, <1>8, <1>9 DEF OrderInv

LEMMA ReadInfoOrder ==
  ASSUME FigureInv, OrderInv, ReadInfo
  PROVE  OrderInv'
<1> DEFINE t == draft.text
           u == draft'.text
<1>1. UNCHANGED <<stream, info, pre, hello, rows, inbox>>
  BY DEF ReadInfo, watch, netty, web, shown
<1>2. NotAfter(t, info) /\ t \in Texts /\ t \in GoodTexts
  BY DEF OrderInv, FigureInv, DraftInv, GoodTexts
<1>3. CASE u = t
  <2>1. \A m \in Memories : Shown(m) =>
          /\ Before(m, stream') /\ NotAfter(m, draft'.text)
          /\ NotAfter(m, info') /\ NotAfter(m, pre')
    BY <1>1, <1>3 DEF Shown, Past
  <2>2. \A b \in Pages : PageInOrder(b)'
    BY <1>1, <2>1, PagesKept
  <2>3. TextsPast'
    BY <1>1, <1>3 DEF OrderInv, TextsPast
  <2>4. Past(pre)'
    BY <1>1, <1>3 DEF OrderInv, Past
  <2> QED BY <1>1, <1>3, <2>2, <2>3, <2>4 DEF OrderInv
<1>4. CASE u # t
  <2>1. PICK i \in Servers, j \in Nat :
          /\ DOMAIN t[i] = 1 .. j - 1 /\ j \in 1 .. num
          /\ u = Extended(t, i, info[i][j])
    BY <1>4, ReadInfoIs
  <2>2. j \in 1 .. MaxClients /\ info[i][j] \in 0 .. MaxReports /\ Good(i, j, info[i][j])
    BY <2>1, InfoGood
  <2>3. j \in 1 .. MaxApps /\ info[i][j] \in Nat
    BY <2>1, <2>2, AppsAssumption, BoundAssumption DEF FigureInv, InfoInv
  <2> HIDE DEF t, u
  <2>4. /\ u \in GoodTexts /\ DOMAIN u[i] = 1 .. j /\ u[i][j] = info[i][j]
        /\ \A k \in 1 .. j - 1 : u[i][k] = t[i][k]
        /\ \A k \in Servers : k # i => u[k] = t[k]
    <3>1. PICK v \in 0 .. MaxReports : v = info[i][j]
      BY <2>2
    <3>2. Good(i, j, v) /\ u = Extended(t, i, v) /\ DOMAIN t[i] = 1 .. j - 1
      BY <2>1, <2>2, <3>1
    <3>3. t \in GoodTexts /\ j \in 1 .. MaxApps
      BY <1>2, <2>3
    <3> QED BY <3>1, <3>2, <3>3, TextGrows
  <2>5. DOMAIN u = Servers /\ DOMAIN t = Servers /\ DOMAIN info = Servers
        /\ DOMAIN info[i] = 1 .. MaxClients
    BY <1>2, <2>4 DEF GoodTexts, Texts, FigureInv, InfoInv
  <2>6. \A l \in 1 .. j : l = j \/ l \in 1 .. j - 1
    BY <2>3
  <2>7. ASSUME NEW m, NotAfter(m, t), NotAfter(m, info)
        PROVE  NotAfter(m, u)
    <3> SUFFICES ASSUME NEW k \in DOMAIN m \cap Servers, NEW l \in DOMAIN m[k] \cap DOMAIN u[k]
                 PROVE  m[k][l] <= u[k][l]
      BY <2>5 DEF NotAfter
    <3>1. CASE k = i /\ l = j
      <4>1. m[k][l] <= info[k][l]
        BY <2>2, <2>5, <2>7, <3>1 DEF NotAfter
      <4> QED BY <2>4, <3>1, <4>1
    <3>2. CASE k = i /\ l # j
      <4>1. l \in DOMAIN t[k] /\ u[k][l] = t[k][l]
        BY <2>1, <2>4, <2>6, <3>2
      <4> QED BY <2>5, <2>7, <4>1 DEF NotAfter
    <3>3. CASE k # i
      <4>1. u[k] = t[k]
        BY <2>4, <3>3
      <4> QED BY <2>5, <2>7, <4>1 DEF NotAfter
    <3> QED BY <3>1, <3>2, <3>3
  <2>8. NotAfter(u, info)
    <3> SUFFICES ASSUME NEW k \in Servers, NEW l \in DOMAIN u[k] \cap DOMAIN info[k]
                 PROVE  u[k][l] <= info[k][l]
      BY <2>5 DEF NotAfter
    <3>1. CASE k = i /\ l = j
      <4>1. info[i][j] <= info[i][j]
        BY <2>3
      <4> QED BY <2>4, <3>1, <4>1
    <3>2. CASE k = i /\ l # j
      <4>1. l \in DOMAIN t[k] /\ u[k][l] = t[k][l]
        BY <2>1, <2>4, <2>6, <3>2
      <4> QED BY <1>2, <2>5, <4>1 DEF NotAfter
    <3>3. CASE k # i
      <4>1. u[k] = t[k]
        BY <2>4, <3>3
      <4> QED BY <1>2, <2>5, <4>1 DEF NotAfter
    <3> QED BY <3>1, <3>2, <3>3
  <2>9. \A m : Past(m) => Before(m, stream') /\ NotAfter(m, draft'.text) /\ NotAfter(m, info')
    BY <1>1, <2>7 DEF Past, t, u
  <2>10. \A b \in Pages : PageInOrder(b)'
    <3>1. \A m \in Memories : Shown(m) =>
            /\ Before(m, stream') /\ NotAfter(m, draft'.text)
            /\ NotAfter(m, info') /\ NotAfter(m, pre')
      BY <1>1, <2>9 DEF Shown
    <3> QED BY <1>1, <3>1, PagesKept
  <2>11. TextsPast'
    BY <1>1, <2>7 DEF OrderInv, TextsPast, t, u
  <2>12. Past(pre)'
    BY <1>1, <2>9 DEF OrderInv, Past
  <2> QED BY <1>1, <2>8, <2>10, <2>11, <2>12 DEF OrderInv, u
<1> QED BY <1>3, <1>4

LEMMA WriteOrder ==
  ASSUME FigureInv, OrderInv, Write
  PROVE  OrderInv'
<1>1. UNCHANGED <<info, pre, hello, rows, inbox>> /\ draft' = NoDraft
  BY DEF Write, watch, netty, web, shown
<1>2. PICK t \in GoodTexts, f \in Seq(Tokens) :
        /\ t = draft.text
        /\ \A k : \A u \in Texts : TextAt(f, k, u) => k = 1 /\ u = t
        /\ stream' = stream \o f /\ stream \in Seq(Tokens) /\ Framed(stream, GoodTexts)
  BY WriteIs
<1>3. GoodTexts \in SUBSET Texts /\ t \in Texts /\ Len(stream) \in Nat
  BY <1>2, LenProperties DEF GoodTexts
<1> DEFINE n == Len(stream) + 1
\* A text of the stream was there, or is the draft.
<1>4. ASSUME NEW k, NEW u \in Texts, TextAt(stream', k, u)
      PROVE  \/ k \in 1 .. Len(stream) /\ TextAt(stream, k, u)
             \/ k = n /\ u = t
  <2>1. \/ TextAt(stream, k, u)
        \/ \E j \in 1 .. Len(f) : k = Len(stream) + j /\ TextAt(f, j, u)
    BY <1>2, <1>3, <1>4, JoinedTexts
  <2>2. CASE TextAt(stream, k, u)
    BY <1>2, <2>2, TextBegins
  <2>3. CASE \E j \in 1 .. Len(f) : k = Len(stream) + j /\ TextAt(f, j, u)
    BY <1>2, <2>3
  <2> QED BY <2>1, <2>2, <2>3
<1>5. \A k \in 1 .. Len(stream) : ~(n < k)
  BY <1>3
<1>6. ~(n < n)
  BY <1>3
<1> HIDE DEF n
<1>7. NotAfter(t, info) /\ InOrder(stream) /\ TextsPast
  BY <1>2 DEF OrderInv
<1>8. ASSUME NEW m, Past(m)
      PROVE  Before(m, stream') /\ NotAfter(m, draft'.text) /\ NotAfter(m, info')
  <2>1. Before(m, stream')
    BY <1>2, <1>4, <1>8 DEF Before, Past
  <2>2. NotAfter(m, draft'.text)
    BY <1>1, OlderNothing
  <2> QED BY <1>1, <1>8, <2>1, <2>2 DEF Past
<1>9. InOrder(stream')
  <2> SUFFICES ASSUME NEW k, NEW u \in Texts, TextAt(stream', k, u),
                      NEW l, NEW w \in Texts, TextAt(stream', l, w), k < l
               PROVE  NotAfter(u, w)
    BY DEF InOrder
  <2>1. CASE k \in 1 .. Len(stream) /\ TextAt(stream, k, u)
    <3>1. CASE l \in 1 .. Len(stream) /\ TextAt(stream, l, w)
      BY <1>7, <2>1, <3>1 DEF InOrder
    <3>2. CASE l = n /\ w = t
      BY <1>2, <1>7, <2>1, <3>2 DEF TextsPast
    <3> QED BY <1>4, <3>1, <3>2
  <2>2. CASE k = n /\ u = t
    BY <1>4, <1>5, <1>6, <2>2
  <2> QED BY <1>4, <2>1, <2>2
<1>10. TextsPast'
  <2> SUFFICES ASSUME NEW k, NEW u \in Texts, TextAt(stream', k, u)
               PROVE  NotAfter(u, draft'.text) /\ NotAfter(u, info')
    BY DEF TextsPast
  <2>1. NotAfter(u, draft'.text)
    BY <1>1, OlderNothing
  <2>2. NotAfter(u, info)
    BY <1>4, <1>7 DEF TextsPast
  <2> QED BY <1>1, <2>1, <2>2
<1>11. \A b \in Pages : PageInOrder(b)'
  <2>1. \A m \in Memories : Shown(m) =>
          /\ Before(m, stream') /\ NotAfter(m, draft'.text)
          /\ NotAfter(m, info') /\ NotAfter(m, pre')
    BY <1>1, <1>8 DEF Shown
  <2> QED BY <1>1, <2>1, PagesKept
<1>12. Past(pre)'
  BY <1>1, <1>8 DEF OrderInv, Past
<1>13. NotAfter(draft'.text, info')
  BY <1>1, EmptyIs DEF NotAfter, NoDraft
<1> QED BY <1>9, <1>10, <1>11, <1>12, <1>13 DEF OrderInv

LEMMA ChannelReadOrder ==
  ASSUME FigureInv, OrderInv, ChannelRead
  PROVE  OrderInv'
<1>1. UNCHANGED <<info, draft, hello, rows, inbox>>
  BY DEF ChannelRead, watch, inform, web, shown
<1>2. PICK n \in 1 .. Len(stream) :
        /\ stream' = Suffix(stream, n) /\ stream \in Seq(Tokens)
        /\ \/ UNCHANGED netty
           \/ \E t \in GoodTexts, a \in 1 .. n : TextAt(stream, a, t) /\ pre' = t
  BY ChannelReadIs
<1>3. Len(stream) \in Nat /\ n \in 0 .. Len(stream) /\ n \in Nat
  BY <1>2, LenProperties
\* A text that is left was there before.
<1>4. ASSUME NEW k \in 1 .. Len(stream'), NEW u \in Texts, TextAt(stream', k, u)
      PROVE  k + n \in 1 .. Len(stream) /\ TextAt(stream, k + n, u)
  BY <1>2, <1>3, <1>4, SuffixTexts
<1>5. ASSUME NEW k \in 1 .. Len(stream'), NEW l \in 1 .. Len(stream'), k < l
      PROVE  k + n < l + n
  BY <1>3, <1>5
<1>6. NotAfter(draft.text, info) /\ InOrder(stream) /\ TextsPast /\ Past(pre)
  BY DEF OrderInv
<1>7. InOrder(stream')
  BY <1>4, <1>5, <1>6 DEF InOrder
<1>8. TextsPast'
  BY <1>1, <1>4, <1>6 DEF TextsPast
<1>9. \A m : Before(m, stream) => Before(m, stream')
  BY <1>4 DEF Before
<1>10. CASE UNCHANGED netty
  <2>1. pre' = pre
    BY <1>10 DEF netty
  <2>2. Past(pre)'
    BY <1>1, <1>6, <1>9, <2>1 DEF Past
  <2>3. \A m \in Memories : Shown(m) =>
          /\ Before(m, stream') /\ NotAfter(m, draft'.text)
          /\ NotAfter(m, info') /\ NotAfter(m, pre')
    BY <1>1, <1>9, <2>1 DEF Shown, Past
  <2>4. \A b \in Pages : PageInOrder(b)'
    BY <1>1, <2>3, PagesKept
  <2> QED BY <1>1, <1>6, <1>7, <1>8, <2>2, <2>4 DEF OrderInv
<1>11. CASE \E t \in GoodTexts, a \in 1 .. n : TextAt(stream, a, t) /\ pre' = t
  <2>1. PICK t \in GoodTexts, a \in 1 .. n : TextAt(stream, a, t) /\ pre' = t
    BY <1>11
  <2>2. t \in Texts /\ a \in 1 .. Len(stream)
    BY <1>3, <2>1 DEF GoodTexts
  <2>3. \A k \in 1 .. Len(stream') : a < k + n
    <3>1. \A k \in 1 .. Len(stream') : k \in Nat /\ k >= 1
      BY <1>2, <1>3, SuffixTexts, LenProperties
    <3> QED BY <1>3, <2>1, <3>1
  <2>4. Before(t, stream')
    BY <1>4, <1>6, <2>1, <2>2, <2>3 DEF InOrder, Before
  <2>5. NotAfter(t, draft.text) /\ NotAfter(t, info)
    BY <1>6, <2>1, <2>2 DEF TextsPast
  <2>6. Past(pre)'
    BY <1>1, <2>1, <2>4, <2>5 DEF Past
  <2>7. \A m : Before(m, stream) => NotAfter(m, t)
    BY <2>1, <2>2 DEF Before
  <2>8. \A m \in Memories : Shown(m) =>
          /\ Before(m, stream') /\ NotAfter(m, draft'.text)
          /\ NotAfter(m, info') /\ NotAfter(m, pre')
    BY <1>1, <1>9, <2>1, <2>7 DEF Shown, Past
  <2>9. \A b \in Pages : PageInOrder(b)'
    BY <1>1, <2>8, PagesKept
  <2> QED BY <1>1, <1>6, <1>7, <1>8, <2>6, <2>9 DEF OrderInv
<1> QED BY <1>2, <1>10, <1>11

(***************************************************************************)
(* The pages.                                                              *)
(***************************************************************************)

\* Nothing but pages has moved, and those that have are in order.
LEMMA PagesMove ==
  ASSUME FigureInv, OrderInv, UNCHANGED <<stream, draft, info, pre>>,
         \A b \in Pages : PageInOrder(b)'
  PROVE  OrderInv'
BY DEF OrderInv, TextsPast, Past

LEMMA PageSame ==
  ASSUME FigureInv, OrderInv, NEW b \in Pages, UNCHANGED <<stream, draft, info, pre>>,
         hello'[b] = hello[b], rows'[b] = rows[b], inbox'[b] = inbox[b]
  PROVE  PageInOrder(b)'
BY DEF OrderInv, PageInOrder, Shown, Past

LEMMA PreShown ==
  ASSUME FigureInv, OrderInv
  PROVE  Shown(pre)
BY AreMemories, OlderSame DEF OrderInv, Shown

LEMMA NothingShown == Shown(Nothing)
BY OlderNothing DEF Shown, Past

\* A page opens: hello is read, or dropped.
LEMMA HelloOrder ==
  ASSUME FigureInv, OrderInv, NEW b \in Pages, NEW m, Shown(m),
         UNCHANGED <<stream, draft, info, pre, rows, inbox>>,
         hello' = [hello EXCEPT ![b] = m]
  PROVE  OrderInv'
<1>1. hello'[b] = m /\ \A c \in Pages : c # b => hello'[c] = hello[c]
  BY DEF FigureInv, WebInv
<1>2. PageInOrder(b)'
  BY <1>1 DEF OrderInv, PageInOrder, Shown, Past
<1>3. \A c \in Pages : c # b => PageInOrder(c)'
  BY <1>1, PageSame
<1> QED BY <1>2, <1>3, PagesMove

LEMMA WrapOrder ==
  ASSUME FigureInv, OrderInv, NEW b \in Pages, Wrap(b)
  PROVE  OrderInv'
BY HelloOrder, PreShown DEF Wrap, watch, inform, netty, shown

LEMMA BeginHelloOrder ==
  ASSUME FigureInv, OrderInv, NEW b \in Pages, BeginHello(b)
  PROVE  OrderInv'
<1>1. UNCHANGED <<stream, draft, info, pre, rows, inbox>>
  BY DEF BeginHello, watch, inform, netty, shown
<1>2. CASE UNCHANGED hello
  BY <1>1, <1>2, OrderSame
<1>3. CASE hello' = [hello EXCEPT ![b] = Nothing]
  BY <1>1, <1>3, HelloOrder, NothingShown
<1> QED BY <1>2, <1>3 DEF BeginHello

\* A message that is shown joins those under way to a page.
LEMMA DeliverOrder ==
  ASSUME FigureInv, OrderInv, NEW b \in Pages, NEW kind \in {"push", "hello"},
         NEW data \in GoodMemories, Shown(data), kind = "push" => data = pre,
         Deliver(b, kind, data), Room(b)
  PROVE  /\ PushesInOrder(inbox'[b], rows[b])
         /\ \A k \in 1 .. Len(inbox'[b]) : Shown(inbox'[b][k].data)
         /\ \A c \in Pages : c # b => inbox'[c] = inbox[c]
<1> DEFINE q == inbox[b]
           r == inbox'[b]
           n == Len(q) + 1
           x == Message(kind, data)
<1>1. /\ \A c \in Pages : c # b => inbox'[c] = inbox[c]
      /\ Len(q) \in Nat /\ Len(r) = n
      /\ \A k \in 1 .. Len(q) : r[k] = q[k]
      /\ r[n] = x
  BY DeliverIs DEF FigureInv
<1>2. x.kind = kind /\ x.data = data
  BY DEF Message
<1>3. PageInOrder(b)
  BY DEF OrderInv
<1>4. PushesInOrder(q, rows[b]) /\ Shown(rows[b]) /\ \A k \in 1 .. Len(q) : Shown(q[k].data)
  BY <1>3 DEF PageInOrder
<1>5. \A k \in 1 .. Len(r) : k \in 1 .. Len(q) \/ k = n
  BY <1>1
<1>6. \A k \in 1 .. Len(q), l \in 1 .. Len(r) : l < k => l \in 1 .. Len(q)
  BY <1>1
<1>7. \A l \in 1 .. Len(r) : l < n => l \in 1 .. Len(q)
  BY <1>1
<1> HIDE DEF q, r, n, x
<1>8. \A k \in 1 .. Len(r) : Shown(r[k].data)
  BY <1>1, <1>2, <1>4, <1>5
<1>9. ASSUME NEW k \in 1 .. Len(r), r[k].kind = "push"
      PROVE  /\ NotAfter(rows[b], r[k].data)
             /\ \A l \in 1 .. Len(r) : l < k => NotAfter(r[l].data, r[k].data)
  <2>1. CASE k \in 1 .. Len(q)
    BY <1>1, <1>4, <1>6, <1>9, <2>1 DEF PushesInOrder
  <2>2. CASE k = n
    <3>1. r[k].data = pre
      BY <1>1, <1>2, <1>9, <2>2
    <3>2. \A m : Shown(m) => NotAfter(m, pre)
      BY DEF Shown
    <3> QED BY <1>1, <1>4, <1>7, <2>2, <3>1, <3>2
  <2> QED BY <1>5, <2>1, <2>2
<1> QED BY <1>1, <1>8, <1>9 DEF PushesInOrder, r

LEMMA EndPushOrder ==
  ASSUME FigureInv, OrderInv, EndPush
  PROVE  OrderInv'
<1>1. UNCHANGED <<stream, draft, info, pre, hello, rows>>
  BY DEF EndPush, watch, inform, shown
<1>2. PICK b \in Pages :
        /\ pre \in GoodMemories
        /\ \/ Deliver(b, "push", pre) /\ Room(b)
           \/ UNCHANGED inbox
  BY EndPushIs
<1>3. CASE UNCHANGED inbox
  BY <1>1, <1>3, OrderSame
<1>4. CASE Deliver(b, "push", pre) /\ Room(b)
  <2>1. /\ PushesInOrder(inbox'[b], rows[b])
        /\ \A k \in 1 .. Len(inbox'[b]) : Shown(inbox'[b][k].data)
        /\ \A c \in Pages : c # b => inbox'[c] = inbox[c]
    BY <1>2, <1>4, PreShown, DeliverOrder
  <2>2. PageInOrder(b)'
    BY <1>1, <2>1 DEF OrderInv, PageInOrder, Shown, Past
  <2>3. \A c \in Pages : c # b => PageInOrder(c)'
    BY <1>1, <2>1, PageSame
  <2> QED BY <1>1, <2>2, <2>3, PagesMove
<1> QED BY <1>2, <1>3, <1>4

LEMMA EndHelloOrder ==
  ASSUME FigureInv, OrderInv, NEW b \in Pages, EndHello(b)
  PROVE  OrderInv'
<1>1. /\ UNCHANGED <<stream, draft, info, pre, rows>>
      /\ hello' = [hello EXCEPT ![b] = Nothing]
      /\ Deliver(b, "hello", hello[b]) /\ Room(b)
  BY DEF EndHello, watch, inform, netty, shown
<1>2. hello[b] \in GoodMemories /\ Shown(hello[b])
  BY DEF FigureInv, WebInv, OrderInv, PageInOrder
<1>3. /\ PushesInOrder(inbox'[b], rows[b])
      /\ \A k \in 1 .. Len(inbox'[b]) : Shown(inbox'[b][k].data)
      /\ \A c \in Pages : c # b => inbox'[c] = inbox[c]
  BY <1>1, <1>2, DeliverOrder
<1>4. hello'[b] = Nothing /\ \A c \in Pages : c # b => hello'[c] = hello[c]
  BY <1>1 DEF FigureInv, WebInv
<1>5. PageInOrder(b)'
  BY <1>1, <1>3, <1>4, NothingShown DEF OrderInv, PageInOrder, Shown, Past
<1>6. \A c \in Pages : c # b => PageInOrder(c)'
  BY <1>1, <1>3, <1>4, PageSame
<1> QED BY <1>1, <1>5, <1>6, PagesMove

LEMMA CloseOrder ==
  ASSUME FigureInv, OrderInv, NEW b \in Pages, Close(b)
  PROVE  OrderInv'
<1>1. /\ UNCHANGED <<stream, draft, info, pre, hello>>
      /\ inbox' = [inbox EXCEPT ![b] = <<>>]
      /\ rows' = [rows EXCEPT ![b] = Nothing]
  BY DEF Close, watch, inform, netty
<1>2. /\ rows'[b] = Nothing /\ \A c \in Pages : c # b => rows'[c] = rows[c]
      /\ inbox'[b] = <<>> /\ \A c \in Pages : c # b => inbox'[c] = inbox[c]
  BY <1>1 DEF FigureInv, PageInv
<1>3. \A k : ~(k \in 1 .. Len(<<>>))
  BY EmptySeq
<1>4. PushesInOrder(inbox'[b], Nothing)
  BY <1>2, <1>3 DEF PushesInOrder
<1>5. PageInOrder(b)'
  BY <1>1, <1>2, <1>3, <1>4, NothingShown DEF OrderInv, PageInOrder, Shown, Past
<1>6. \A c \in Pages : c # b => PageInOrder(c)'
  BY <1>1, <1>2, PageSame
<1> QED BY <1>1, <1>5, <1>6, PagesMove

\* What is in a table is not after what neither its rows nor the message are.
LEMMA TableOlder ==
  ASSUME NEW b \in Pages, NEW r \in GoodMemories, r = rows[b],
         NEW data \in GoodMemories, NEW m, m = TableAfter(b, data)
  PROVE  /\ \A n : NotAfter(r, n) /\ NotAfter(data, n) => NotAfter(m, n)
         /\ NotAfter(r, data) => NotAfter(r, m)
<1>1. /\ m \in GoodMemories
      /\ \A i : i \in DOMAIN m <=> i \in DOMAIN r \/ i \in DOMAIN data
      /\ \A i \in DOMAIN data : m[i] = data[i]
      /\ \A i \in DOMAIN r : i \notin DOMAIN data => m[i] = r[i]
  BY TableIs
<1>2. ASSUME NEW n, NotAfter(r, n), NotAfter(data, n)
      PROVE  NotAfter(m, n)
  BY <1>1, <1>2 DEF NotAfter
<1>3. ASSUME NotAfter(r, data)
      PROVE  NotAfter(r, m)
  <2>1. NotAfter(r, r)
    BY OlderSame DEF GoodMemories
  <2> QED BY <1>1, <1>3, <2>1 DEF NotAfter
<1> QED BY <1>2, <1>3

LEMMA OnMessageOrder ==
  ASSUME FigureInv, OrderInv, NEW b \in Pages, OnMessage(b)
  PROVE  OrderInv'
<1>1. UNCHANGED <<stream, draft, info, pre, hello>>
  BY DEF OnMessage, watch, inform, netty, web
<1>2. PICK msg \in GoodMessages :
        /\ msg = inbox[b][1] /\ msg.data \in GoodMemories
        /\ Len(inbox[b]) \in Nat /\ Len(inbox[b]) >= 1
        /\ inbox'[b] \in Seq(GoodMessages)
        /\ \A k \in 1 .. Len(inbox'[b]) :
             k + 1 \in 1 .. Len(inbox[b]) /\ inbox'[b][k] = inbox[b][k + 1]
        /\ \A c \in Pages : c # b => inbox'[c] = inbox[c]
        /\ rows' = [rows EXCEPT ![b] = TableAfter(b, msg.data)]
  BY OnMessageIs
<1> DEFINE q == inbox[b]
           r == inbox'[b]
           d == msg.data
           m == TableAfter(b, d)
<1>3. rows[b] \in GoodMemories /\ PageInOrder(b)
  BY DEF FigureInv, PageInv, OrderInv
<1>4. rows'[b] = m /\ \A c \in Pages : c # b => rows'[c] = rows[c]
  BY <1>2 DEF FigureInv, PageInv
<1>5. 1 \in 1 .. Len(q)
  BY <1>2
<1>6. Shown(rows[b]) /\ Shown(d) /\ PushesInOrder(q, rows[b])
      /\ \A k \in 1 .. Len(q) : Shown(q[k].data)
  BY <1>2, <1>3, <1>5 DEF PageInOrder
<1> HIDE DEF m
<1>7. \A n : NotAfter(rows[b], n) /\ NotAfter(d, n) => NotAfter(m, n)
  BY <1>2, <1>3, TableOlder DEF m
<1>8. Shown(m)
  BY <1>6, <1>7 DEF Shown, Past, Before
<1>9. Len(r) \in Nat
  BY <1>2, LenProperties
<1>10. \A k, l \in 1 .. Len(r) : l < k => l + 1 < k + 1
  BY <1>9
<1>11. \A k \in 1 .. Len(r) : 1 < k + 1
  BY <1>9
<1>12. PushesInOrder(r, m)
  <2> SUFFICES ASSUME NEW k \in 1 .. Len(r), r[k].kind = "push"
               PROVE  /\ NotAfter(m, r[k].data)
                      /\ \A l \in 1 .. Len(r) : l < k => NotAfter(r[l].data, r[k].data)
    BY DEF PushesInOrder
  <2>1. /\ k + 1 \in 1 .. Len(q) /\ r[k] = q[k + 1]
        /\ \A l \in 1 .. Len(r) : l + 1 \in 1 .. Len(q) /\ r[l] = q[l + 1]
    BY <1>2
  <2>2. /\ NotAfter(rows[b], q[k + 1].data)
        /\ \A l \in 1 .. Len(q) : l < k + 1 => NotAfter(q[l].data, q[k + 1].data)
    BY <1>6, <2>1 DEF PushesInOrder
  <2>3. NotAfter(d, q[k + 1].data)
    BY <1>2, <1>5, <1>11, <2>2
  <2> QED BY <1>7, <1>10, <2>1, <2>2, <2>3
<1>13. \A k \in 1 .. Len(r) : Shown(r[k].data)
  BY <1>2, <1>6
<1>14. PageInOrder(b)'
  BY <1>1, <1>3, <1>4, <1>8, <1>12, <1>13 DEF PageInOrder, Shown, Past
<1>15. \A c \in Pages : c # b => PageInOrder(c)'
  BY <1>1, <1>2, <1>4, PageSame
<1> QED BY <1>1, <1>14, <1>15, PagesMove

(***************************************************************************)
(* The pages never go back but by a greeting.                              *)
(***************************************************************************)
LEMMA OrderNext == FigureInv /\ OrderInv /\ [Next]_vars => OrderInv'
<1> SUFFICES ASSUME FigureInv, OrderInv, [Next]_vars PROVE OrderInv'
  OBVIOUS
<1> DEFINE still == UNCHANGED <<stream, draft, info, pre, hello, rows, inbox>>
<1>1. ASSUME still PROVE OrderInv'
  BY <1>1, OrderSame
<1>2. ASSUME NEW i \in Servers, Report(i) \/ Take(i) PROVE still
  BY <1>2 DEF Report, Take, watch, inform, netty, web, shown
<1>3. ASSUME StoreNum \/ ReadReply PROVE still
  BY <1>3 DEF StoreNum, ReadReply, watch, inform, netty, web, shown
<1>4. ASSUME Skip \/ BeginPush \/ Collide \/ Success PROVE still
  BY <1>4 DEF Skip, BeginPush, Collide, Success, watch, inform, netty, web, shown
<1>5. ASSUME NEW b \in Pages, Open(b) PROVE still
  BY <1>5 DEF Open, watch, inform, netty, web, shown
<1>6. ASSUME NEW b \in Pages, NEW i \in Servers, ShowApps(b, i) \/ RemoveCard(b, i) PROVE still
  BY <1>6 DEF ShowApps, RemoveCard, watch, inform, netty, web, shown
<1>7. ASSUME UNCHANGED vars PROVE still
  BY <1>7 DEF vars, watch, inform, netty, web, shown
<1> HIDE DEF still
<1>8. CASE EpollSteps
  BY <1>1, <1>2, <1>3, <1>8, StoreEntryOrder DEF EpollSteps
<1>9. CASE InformSteps
  BY <1>1, <1>3, <1>9, ReadInfoOrder, WriteOrder DEF InformSteps
<1>10. CASE NettySteps
  BY <1>1, <1>4, <1>10, ChannelReadOrder, EndPushOrder DEF NettySteps
<1>11. ASSUME NEW b \in Pages, Open(b) \/ OpenSteps(b) \/ Close(b) \/ OnMessage(b)
       PROVE  OrderInv'
  BY <1>1, <1>5, <1>11, WrapOrder, BeginHelloOrder, EndHelloOrder, CloseOrder,
     OnMessageOrder DEF OpenSteps
<1> QED BY <1>1, <1>2, <1>6, <1>7, <1>8, <1>9, <1>10, <1>11 DEF Next

LEMMA MonitorOrder == Spec => []OrderInv
<1>1. Init => OrderInv
  BY OrderInit
<1>2. FigureInv /\ OrderInv /\ [Next]_vars => OrderInv'
  BY OrderNext
<1> QED BY <1>1, <1>2, MonitorFigures, PTL DEF Spec

\* A figure of a table is not of an earlier report than before.
NoneBack(b) ==
  \A i \in DOMAIN rows[b] \cap DOMAIN rows'[b] :
    \A j \in DOMAIN rows[b][i] \cap DOMAIN rows'[b][i] :
      rows'[b][i][j] < rows[b][i][j] => Head(inbox[b]).kind = "hello"

LEMMA NoneBackSame ==
  ASSUME FigureInv, NEW b \in Pages, rows'[b] = rows[b]
  PROVE  NoneBack(b)
<1>1. \A i \in DOMAIN rows[b] : \A j \in DOMAIN rows[b][i] : rows[b][i][j] \in Nat
  BY AreMemories, MemoryIs
<1>2. \A i \in DOMAIN rows[b] : \A j \in DOMAIN rows[b][i] : ~(rows[b][i][j] < rows[b][i][j])
  BY <1>1
<1> QED BY <1>2 DEF NoneBack

LEMMA NoneBackPush ==
  ASSUME FigureInv, OrderInv, NEW b \in Pages, OnMessage(b)
  PROVE  NoneBack(b)
<1>1. PICK msg \in GoodMessages :
        /\ msg = Head(inbox[b]) /\ msg = inbox[b][1] /\ msg.data \in GoodMemories
        /\ Len(inbox[b]) \in Nat /\ Len(inbox[b]) >= 1
        /\ rows' = [rows EXCEPT ![b] = TableAfter(b, msg.data)]
  BY OnMessageIs
<1>2. CASE msg.kind = "hello"
  BY <1>1, <1>2 DEF NoneBack
<1>3. CASE msg.kind # "hello"
  <2>1. msg.kind = "push"
    BY <1>3 DEF GoodMessages
  <2>2. 1 \in 1 .. Len(inbox[b])
    BY <1>1
  <2>3. NotAfter(rows[b], msg.data)
    BY <1>1, <2>1, <2>2 DEF OrderInv, PageInOrder, PushesInOrder
  <2>4. rows[b] \in GoodMemories
    BY DEF FigureInv, PageInv
  <2> DEFINE m == TableAfter(b, msg.data)
  <2>5. rows'[b] = m
    BY <1>1 DEF FigureInv, PageInv
  <2>6. m \in GoodMemories
    BY <1>1, <2>4, TableIs
  <2>7. NotAfter(rows[b], m)
    BY <1>1, <2>3, <2>4, TableOlder
  <2> HIDE DEF m
  <2>8. ASSUME NEW i \in DOMAIN rows[b] \cap DOMAIN m,
               NEW j \in DOMAIN rows[b][i] \cap DOMAIN m[i]
        PROVE  ~(m[i][j] < rows[b][i][j])
    <3>1. rows[b] \in Memories /\ m \in Memories
      BY <2>4, <2>6 DEF GoodMemories
    <3>2. rows[b][i][j] \in Nat /\ m[i][j] \in Nat
      BY <3>1, MemoryIs
    <3>3. rows[b][i][j] <= m[i][j]
      BY <2>7 DEF NotAfter
    <3> QED BY <3>2, <3>3
  <2> QED BY <2>5, <2>8 DEF NoneBack
<1> QED BY <1>2, <1>3

LEMMA NoneBackClose ==
  ASSUME FigureInv, NEW b \in Pages, NEW c \in Pages, Close(c)
  PROVE  NoneBack(b)
<1>1. rows' = [rows EXCEPT ![c] = Nothing] /\ rows \in [Pages -> GoodMemories]
  BY DEF Close, FigureInv, PageInv
<1>2. CASE b = c
  <2>1. DOMAIN rows'[b] = {}
    BY <1>1, <1>2, EmptyIs
  <2> QED BY <2>1 DEF NoneBack
<1>3. CASE b # c
  <2>1. rows'[b] = rows[b]
    BY <1>1, <1>3
  <2> QED BY <2>1, NoneBackSame
<1> QED BY <1>2, <1>3

LEMMA NoneBackNext ==
  ASSUME FigureInv, OrderInv, [Next]_vars, NEW b \in Pages
  PROVE  NoneBack(b)
<1> DEFINE still == rows' = rows
<1>1. ASSUME still PROVE NoneBack(b)
  BY <1>1, NoneBackSame
<1>2. ASSUME NEW i \in Servers, Report(i) PROVE still
  BY <1>2 DEF Report, shown
<1>3. ASSUME EpollSteps PROVE still
  BY <1>3 DEF EpollSteps, StoreEntry, StoreNum, Take, shown
<1>4. ASSUME InformSteps PROVE still
  BY <1>4 DEF InformSteps, ReadInfo, Write, ReadReply, shown
<1>5. ASSUME NettySteps PROVE still
  BY <1>5 DEF NettySteps, ChannelRead, Skip, BeginPush, EndPush, Collide, Success, shown
<1>6. ASSUME NEW c \in Pages, Open(c) \/ OpenSteps(c) PROVE still
  BY <1>6 DEF OpenSteps, Open, Wrap, BeginHello, EndHello, shown
<1>7. ASSUME NEW c \in Pages, NEW i \in Servers, ShowApps(c, i) \/ RemoveCard(c, i) PROVE still
  BY <1>7 DEF ShowApps, RemoveCard
<1>8. ASSUME UNCHANGED vars PROVE still
  BY <1>8 DEF vars, shown
<1> HIDE DEF still
<1>9. ASSUME NEW c \in Pages, OnMessage(c) PROVE NoneBack(b)
  <2>1. CASE b = c
    BY <1>9, <2>1, NoneBackPush
  <2>2. CASE b # c
    <3>1. rows'[b] = rows[b]
      BY <1>9, <2>2 DEF OnMessage, FigureInv, PageInv
    <3> QED BY <3>1, NoneBackSame
  <2> QED BY <2>1, <2>2
<1>10. ASSUME NEW c \in Pages, Close(c) PROVE NoneBack(b)
  BY <1>10, NoneBackClose
<1> QED BY <1>1, <1>2, <1>3, <1>4, <1>5, <1>6, <1>7, <1>8, <1>9, <1>10 DEF Next

\* A figure on a page goes back to an older report only by what open() sends
\* (WebSocketServer.java:33): a broadcast is never older than what the page
\* shows, though it passes the watcher's buffer, the stream, preMemoryInfos and
\* the session.
THEOREM MonitorBackOnlyByHello == Spec => BackOnlyByHello
<1>1. FigureInv /\ OrderInv /\ [Next]_vars =>
        [\A b \in Pages : \A i \in DOMAIN rows[b] \cap DOMAIN rows'[b] :
           \A j \in DOMAIN rows[b][i] \cap DOMAIN rows'[b][i] :
             rows'[b][i][j] < rows[b][i][j] => Head(inbox[b]).kind = "hello"]_vars
  BY NoneBackNext DEF NoneBack
<1> QED BY <1>1, MonitorFigures, MonitorOrder, PTL DEF Spec, BackOnlyByHello
=============================================================================
