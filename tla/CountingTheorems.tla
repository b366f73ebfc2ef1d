------------------------- MODULE CountingTheorems -------------------------
(***************************************************************************)
(* What the proofs of several modules count with: smallest and largest     *)
(* numbers of a set, induction on a set of numbers, sums over finite sets. *)
(***************************************************************************)
EXTENDS Integers, FiniteSets, FiniteSetsExt, FiniteSetTheorems,
        WellFoundedInduction, TLAPS

\* The library's order on Nat, as a set.
LessThan == {p \in Nat \X Nat : p[1] < p[2]}

\* A set of numbers that is not empty has a smallest one.
LEMMA SmallestElement ==
  ASSUME NEW S \in SUBSET Nat, S # {}
  PROVE  \E k \in S : \A i \in S : ~(i < k)
<1>1. IsWellFoundedOn(LessThan, Nat)
  BY NatLessThanWellFounded, Zenon DEF LessThan, OpToRel
<1>2. PICK k \in S : \A i \in S : <<i, k>> \notin LessThan
  BY <1>1, WFMin
<1> QED
  BY <1>2 DEF LessThan

\* Induction, for a set of numbers: the library's theorems have a predicate
\* as parameter, which a proof cannot give them.
LEMMA CountUp ==
  ASSUME NEW S, 0 \in S, \A n \in Nat : n \in S => n + 1 \in S
  PROVE  \A n \in Nat : n \in S
<1> DEFINE Missing == {n \in Nat : n \notin S}
<1> SUFFICES ASSUME Missing # {} PROVE FALSE
  OBVIOUS
<1>1. PICK k \in Missing : \A i \in Missing : ~(i < k)
  BY SmallestElement
<1>2. k # 0 /\ k - 1 \in Nat /\ k - 1 < k /\ (k - 1) + 1 = k
  BY <1>1
<1>3. k - 1 \in S
  BY <1>1, <1>2
<1> QED BY <1>1, <1>2, <1>3

LEMMA MinIs ==
  ASSUME NEW S \in SUBSET Nat, S # {}
  PROVE  Min(S) \in S /\ \A x \in S : Min(S) <= x
<1>1. PICK k \in S : \A i \in S : ~(i < k)
  BY SmallestElement
<1>2. \A x \in S : k <= x
  BY <1>1
<1> QED BY <1>2 DEF Min

LEMMA MaxIs ==
  ASSUME NEW n \in Nat, NEW S \in SUBSET (0 .. n), S # {}
  PROVE  Max(S) \in S /\ \A x \in S : x <= Max(S)
<1> DEFINE Down == {d \in 0 .. n : n - d \in S}
<1>1. \A x \in S : x \in 0 .. n /\ n - (n - x) = x /\ n - x \in 0 .. n
  OBVIOUS
<1>2. \A x \in S : n - x \in Down
  BY <1>1
<1>3. Down \in SUBSET Nat /\ Down # {}
  <2>1. PICK x \in S : TRUE
    OBVIOUS
  <2>2. n - x \in Down
    BY <1>2
  <2>3. Down # {}
    <3> HIDE DEF Down
    <3> QED BY <2>2
  <2>4. Down \in SUBSET Nat
    OBVIOUS
  <2> QED BY <2>3, <2>4
<1>4. PICK k \in Down : \A i \in Down : ~(i < k)
  BY <1>3, SmallestElement
<1>5. n - k \in S /\ k \in 0 .. n
  BY <1>4
<1>6. \A x \in S : n - k >= x
  <2> SUFFICES ASSUME NEW x \in S PROVE n - k >= x
    OBVIOUS
  <2>1. ~(n - x < k)
    BY <1>2, <1>4
  <2> QED BY <1>1, <1>5, <2>1
<1> HIDE DEF Down
<1> QED BY <1>5, <1>6 DEF Max

(***************************************************************************)
(* MapThenSumSet is a recursive function over the subsets of its argument  *)
(* that takes out an element of its own choice; here it is shown that the  *)
(* choice does not matter: a sum is any element plus the sum of the rest.  *)
(* A theorem cannot be cited with an operator for the summand, so these    *)
(* are about a function w; what a module sums is related to SumOf there.   *)
(***************************************************************************)
\* The element a sum takes out of s, and the tables of partial sums.
Some(s) == CHOOSE x \in s : TRUE
PartialSums(g, w, D) ==
  g = [s \in D |-> IF s = {} THEN 0 ELSE w[Some(s)] + g[s \ {Some(s)}]]
IsTable(g, w, S) == PartialSums(g, w, SUBSET S)
SumOf(w, S) == (CHOOSE g : IsTable(g, w, S))[S]

LEMMA SomeIn == \A s : s # {} => Some(s) \in s
BY DEF Some

SameOn(S, w, v) == \A x \in S : w[x] = v[x]

\* The subsets with at most n elements.
UpTo(n, S) == {s \in SUBSET S : Cardinality(s) <= n}

LEMMA UpToSteps ==
  ASSUME NEW S, IsFiniteSet(S)
  PROVE  /\ UpTo(0, S) = {{}}
         /\ UpTo(Cardinality(S), S) = SUBSET S
         /\ \A n \in Nat : \A s \in UpTo(n + 1, S) :
              s # {} => s \ {Some(s)} \in UpTo(n, S)
         /\ \A n \in Nat : UpTo(n, S) \subseteq UpTo(n + 1, S)
         /\ \A n \in Nat : \A s \in UpTo(n, S) :
              s # {} => s \ {Some(s)} \in UpTo(n, S)
<1>1. \A s \in SUBSET S : IsFiniteSet(s) /\ Cardinality(s) <= Cardinality(S)
  BY FS_Subset
<1>2. \A s \in SUBSET S : Cardinality(s) \in Nat
  BY <1>1, FS_CardinalityType
<1>3. \A s \in SUBSET S : Cardinality(s) = 0 <=> s = {}
  BY <1>1, FS_EmptySet
<1>4. \A s \in SUBSET S : \A x \in s : Cardinality(s \ {x}) = Cardinality(s) - 1
  BY <1>1, FS_RemoveElement
<1>5. UpTo(0, S) = {{}}
  <2>1. \A s \in SUBSET S : Cardinality(s) <= 0 <=> s = {}
    BY <1>2, <1>3
  <2> QED BY <2>1 DEF UpTo
<1>6. UpTo(Cardinality(S), S) = SUBSET S
  BY <1>1 DEF UpTo
<1>7. ASSUME NEW n \in Nat, NEW s \in SUBSET S, s # {}
      PROVE  /\ Cardinality(s) <= n + 1 => s \ {Some(s)} \in UpTo(n, S)
             /\ Cardinality(s) <= n => s \ {Some(s)} \in UpTo(n, S)
  <2>1. Cardinality(s \ {Some(s)}) = Cardinality(s) - 1 /\ Cardinality(s) \in Nat
    BY <1>2, <1>4, <1>7, SomeIn
  <2> QED BY <2>1 DEF UpTo
<1>8. \A n \in Nat : UpTo(n, S) \subseteq UpTo(n + 1, S)
  BY <1>2 DEF UpTo
<1> QED BY <1>5, <1>6, <1>7, <1>8 DEF UpTo

LEMMA PartialSumsExist ==
  ASSUME NEW S, IsFiniteSet(S), NEW w
  PROVE  \E g : IsTable(g, w, S)
<1> DEFINE Good(n) == \E g : PartialSums(g, w, UpTo(n, S))
           Bad == {n \in Nat : ~ Good(n)}
<1>1. Good(0)
  <2> DEFINE g == [s \in {{}} |-> 0]
  <2>1. PartialSums(g, w, {{}})
    BY DEF IsTable, PartialSums
  <2>2. UpTo(0, S) = {{}}
    BY UpToSteps
  <2> HIDE DEF g
  <2> QED BY <2>1, <2>2
<1>2. ASSUME NEW n \in Nat, Good(n) PROVE Good(n + 1)
  <2>1. PICK g : PartialSums(g, w, UpTo(n, S))
    BY <1>2
  <2> DEFINE D == UpTo(n, S)
             E == UpTo(n + 1, S)
             h == [s \in E |-> IF s = {} THEN 0 ELSE w[Some(s)] + g[s \ {Some(s)}]]
  <2>2. D \subseteq E /\ \A s \in E : s # {} => s \ {Some(s)} \in D
    BY UpToSteps
  <2>3. \A s \in D : h[s] = g[s]
    BY <2>1, <2>2 DEF IsTable, PartialSums
  <2>4. h = [s \in E |-> IF s = {} THEN 0 ELSE w[Some(s)] + h[s \ {Some(s)}]]
    <3> HIDE DEF D, E
    <3>1. \A s \in E : h[s] = IF s = {} THEN 0 ELSE w[Some(s)] + h[s \ {Some(s)}]
      BY <2>2, <2>3
    <3> QED BY <3>1
  <2>5. PartialSums(h, w, UpTo(n + 1, S))
    BY <2>4 DEF IsTable, PartialSums
  <2> QED BY <2>5
<1> HIDE DEF Good
<1>3. Bad = {}
  <2> SUFFICES ASSUME Bad # {} PROVE FALSE
    OBVIOUS
  <2>1. PICK k \in Bad : \A i \in Bad : ~(i < k)
    BY SmallestElement
  <2>2. k # 0 /\ k - 1 \in Nat /\ k - 1 < k /\ (k - 1) + 1 = k
    BY <1>1, <2>1
  <2>3. Good(k - 1)
    BY <2>1, <2>2
  <2>4. Good((k - 1) + 1)
    BY <1>2, <2>2, <2>3
  <2> QED BY <2>1, <2>2, <2>4
<1>4. Cardinality(S) \in Nat
  BY FS_CardinalityType
<1>5. Good(Cardinality(S))
  BY <1>3, <1>4
<1>6. UpTo(Cardinality(S), S) = SUBSET S
  BY UpToSteps
<1>7. \E g : PartialSums(g, w, UpTo(Cardinality(S), S))
  BY <1>5 DEF Good
<1> QED BY <1>6, <1>7 DEF IsTable

\* Two tables agree on the sets both know.
LEMMA PartialSumsAgree ==
  ASSUME NEW S, IsFiniteSet(S), NEW T \in SUBSET S, NEW w, NEW v, NEW g, NEW h,
         IsTable(g, w, S), IsTable(h, v, T),
         SameOn(T, w, v)
  PROVE  g[T] = h[T]
<1> DEFINE Bad == {n \in Nat : \E s \in SUBSET T : Cardinality(s) = n /\ g[s] # h[s]}
<1>1. \A s \in SUBSET T : IsFiniteSet(s) /\ Cardinality(s) \in Nat /\ s \in SUBSET S
  BY FS_Subset, FS_CardinalityType
<1>2. Bad = {}
  <2> SUFFICES ASSUME Bad # {} PROVE FALSE
    OBVIOUS
  <2>1. PICK k \in Bad : \A i \in Bad : ~(i < k)
    BY SmallestElement
  <2>2. PICK s \in SUBSET T : Cardinality(s) = k /\ g[s] # h[s]
    BY <2>1
  <2>3. /\ g[s] = IF s = {} THEN 0 ELSE w[Some(s)] + g[s \ {Some(s)}]
        /\ h[s] = IF s = {} THEN 0 ELSE v[Some(s)] + h[s \ {Some(s)}]
    BY <1>1 DEF IsTable, PartialSums
  <2>4. s # {} /\ Some(s) \in s /\ Some(s) \in T
    BY <2>2, <2>3, SomeIn
  <2> DEFINE r == s \ {Some(s)}
  <2>5. r \in SUBSET T /\ Cardinality(r) = k - 1
    BY <1>1, <2>2, <2>4, FS_RemoveElement
  <2>6. Cardinality(r) \in Nat /\ k - 1 < k /\ k \in Nat
    BY <1>1, <2>1, <2>5
  <2>7. g[r] = h[r]
    BY <2>1, <2>5, <2>6
  <2> QED BY <2>2, <2>3, <2>4, <2>7 DEF SameOn
<1> QED BY <1>1, <1>2

LEMMA SumOfIs ==
  ASSUME NEW S, IsFiniteSet(S), NEW T \in SUBSET S, NEW w, NEW g,
         IsTable(g, w, S)
  PROVE  g[T] = SumOf(w, T)
<1>1. IsFiniteSet(T)
  BY FS_Subset
<1>2. \E h : IsTable(h, w, T)
  BY <1>1, PartialSumsExist
<1> DEFINE h == CHOOSE f : IsTable(f, w, T)
<1>3. IsTable(h, w, T)
  BY <1>2
<1>4. h[T] = SumOf(w, T)
  BY DEF SumOf
<1> HIDE DEF h
<1>5. g[T] = h[T]
  <2>1. SameOn(T, w, w)
    BY DEF SameOn
  <2> QED BY <1>3, <2>1, PartialSumsAgree
<1> QED BY <1>4, <1>5

\* The sum depends on the summands only.
LEMMA SumSame ==
  ASSUME NEW S, IsFiniteSet(S), NEW w, NEW v, \A x \in S : w[x] = v[x]
  PROVE  SumOf(w, S) = SumOf(v, S)
<1>1. PICK g : IsTable(g, w, S)
  BY PartialSumsExist
<1>2. PICK h : IsTable(h, v, S)
  BY PartialSumsExist
<1>3. g[S] = h[S]
  <2>1. S \in SUBSET S
    OBVIOUS
  <2>2. SameOn(S, w, v)
    BY DEF SameOn
  <2> QED BY <1>1, <1>2, <2>1, <2>2, PartialSumsAgree
<1>4. g[S] = SumOf(w, S)
  BY <1>1, SumOfIs
<1>5. h[S] = SumOf(v, S)
  BY <1>2, SumOfIs
<1> QED BY <1>3, <1>4, <1>5

\* Any element can be taken out first.
LEMMA SumAdds ==
  ASSUME NEW S, IsFiniteSet(S), NEW w, \A x \in S : w[x] \in Int
  PROVE  /\ SumOf(w, S) \in Int
         /\ \A r \in S : SumOf(w, S) = w[r] + SumOf(w, S \ {r})
<1>1. PICK g : IsTable(g, w, S)
  BY PartialSumsExist
<1>2. \A s \in SUBSET S : IsFiniteSet(s) /\ Cardinality(s) \in Nat
  BY FS_Subset, FS_CardinalityType
<1>3. \A s \in SUBSET S : g[s] = IF s = {} THEN 0 ELSE w[Some(s)] + g[s \ {Some(s)}]
  BY <1>1 DEF IsTable, PartialSums
<1> DEFINE Adds(s) == g[s] \in Int /\ \A r \in s : g[s] = w[r] + g[s \ {r}]
           Bad == {n \in Nat : \E s \in SUBSET S : Cardinality(s) = n /\ ~ Adds(s)}
<1>4. ASSUME NEW s \in SUBSET S,
             \A t \in SUBSET S : Cardinality(t) < Cardinality(s) => Adds(t)
      PROVE  Adds(s)
  <2>1. CASE s = {}
    <3>1. g[{}] = 0
      BY <1>3
    <3> QED BY <2>1, <3>1
  <2>2. CASE s # {}
    <3> DEFINE x == Some(s)
               t == s \ {x}
    <3>1. x \in s /\ g[s] = w[x] + g[t]
      BY <1>3, <2>2, SomeIn
    <3>2. t \in SUBSET S /\ Cardinality(t) < Cardinality(s)
      BY <1>2, <3>1, FS_RemoveElement
    <3>3. Adds(t)
      BY <1>4, <3>2
    <3>4. g[s] \in Int
      BY <3>1, <3>3
    <3>5. ASSUME NEW r \in s, r # x PROVE g[s] = w[r] + g[s \ {r}]
      <4> DEFINE u == s \ {r}
      <4>1. r \in t /\ g[t] = w[r] + g[t \ {r}]
        BY <3>3, <3>5
      <4>2. u \in SUBSET S /\ Cardinality(u) < Cardinality(s) /\ x \in u
        BY <1>2, <3>1, <3>5, FS_RemoveElement
      <4>3. Adds(u)
        BY <1>4, <4>2
      <4>4. g[u] = w[x] + g[u \ {x}] /\ g[u] \in Int
        BY <4>2, <4>3
      <4>5. u \ {x} = t \ {r}
        OBVIOUS
      <4>6. t \ {r} \in SUBSET S /\ Cardinality(t \ {r}) < Cardinality(s)
        <5>1. IsFiniteSet(t) /\ Cardinality(t) \in Nat /\ Cardinality(s) \in Nat
          BY <1>2, <3>2
        <5>2. Cardinality(t \ {r}) = Cardinality(t) - 1
          BY <4>1, <5>1, FS_RemoveElement
        <5> QED BY <3>2, <5>1, <5>2
      <4>7. g[t \ {r}] \in Int /\ w[x] \in Int /\ w[r] \in Int /\ g[t] \in Int
        <5>1. g[t \ {r}] \in Int
          BY <1>4, <4>6
        <5> QED BY <3>1, <3>3, <4>1, <5>1
      <4> HIDE DEF t, u, x
      <4>8. g[s] = w[r] + g[u]
        <5>1. g[s] = w[x] + (w[r] + g[t \ {r}])
          BY <3>1, <4>1
        <5>2. g[u] = w[x] + g[t \ {r}]
          BY <4>4, <4>5
        <5> QED BY <5>1, <5>2, <4>7
      <4> QED BY <4>8 DEF u
    <3> QED BY <3>1, <3>4, <3>5
  <2> QED BY <2>1, <2>2
<1> HIDE DEF Adds
<1>5. Bad = {}
  <2> SUFFICES ASSUME Bad # {} PROVE FALSE
    OBVIOUS
  <2>1. PICK k \in Bad : \A i \in Bad : ~(i < k)
    BY SmallestElement
  <2>2. PICK s \in SUBSET S : Cardinality(s) = k /\ ~ Adds(s)
    BY <2>1
  <2>3. \A t \in SUBSET S : Cardinality(t) < Cardinality(s) => Adds(t)
    BY <1>2, <2>1, <2>2
  <2> QED BY <1>4, <2>2, <2>3
<1>6. Adds(S)
  BY <1>2, <1>5
<1>7. ASSUME NEW T \in SUBSET S PROVE g[T] = SumOf(w, T)
  BY <1>1, SumOfIs
<1> QED BY <1>6, <1>7 DEF Adds

LEMMA SumEmpty == \A w : SumOf(w, {}) = 0
<1> SUFFICES ASSUME NEW w PROVE SumOf(w, {}) = 0
  OBVIOUS
<1>1. IsFiniteSet({})
  BY FS_EmptySet
<1>2. PICK g : IsTable(g, w, {})
  BY <1>1, PartialSumsExist
<1>3. g[{}] = SumOf(w, {})
  BY <1>1, <1>2, SumOfIs
<1> QED BY <1>2, <1>3 DEF IsTable, PartialSums

\* Induction on the subsets of a finite set.
LEMMA SubsetsUp ==
  ASSUME NEW S, IsFiniteSet(S), NEW G, {} \in G,
         \A T \in SUBSET S : \A r \in T : T \ {r} \in G => T \in G
  PROVE  S \in G
<1> DEFINE Good == {n \in Nat : \A T \in SUBSET S : Cardinality(T) = n => T \in G}
<1>1. \A T \in SUBSET S : IsFiniteSet(T) /\ Cardinality(T) \in Nat
  BY FS_Subset, FS_CardinalityType
<1>2. 0 \in Good
  <2>1. \A T \in SUBSET S : Cardinality(T) = 0 => T = {}
    BY <1>1, FS_EmptySet
  <2> QED BY <2>1
<1>3. ASSUME NEW n \in Nat, n \in Good PROVE n + 1 \in Good
  <2> SUFFICES ASSUME NEW T \in SUBSET S, Cardinality(T) = n + 1 PROVE T \in G
    OBVIOUS
  <2>1. T # {}
    <3>1. T = {} => Cardinality(T) = 0
      BY FS_EmptySet, Zenon
    <3> QED BY <3>1
  <2>2. PICK r \in T : TRUE
    BY <2>1
  <2>3. Cardinality(T \ {r}) = n
    BY <1>1, FS_RemoveElement
  <2>4. T \ {r} \in G
    BY <1>3, <2>3
  <2> QED BY <2>4
<1> HIDE DEF Good
<1>4. \A n \in Nat : n \in Good
  BY <1>2, <1>3, CountUp
<1>5. S \in SUBSET S /\ Cardinality(S) \in Nat
  BY <1>1
<1> QED BY <1>4, <1>5 DEF Good

\* A sum of sums.
Adds(S, v, w, u) ==
  \A x \in S : w[x] \in Int /\ u[x] \in Int /\ v[x] = w[x] + u[x]

LEMMA SumPlus ==
  ASSUME NEW S, IsFiniteSet(S), NEW v, NEW w, NEW u, Adds(S, v, w, u)
  PROVE  SumOf(v, S) = SumOf(w, S) + SumOf(u, S)
<1> DEFINE G == {T \in SUBSET S : SumOf(v, T) = SumOf(w, T) + SumOf(u, T)}
<1>1. {} \in G
  BY SumEmpty
<1>2. ASSUME NEW T \in SUBSET S, NEW r \in T, T \ {r} \in G
      PROVE  T \in G
  <2>1. IsFiniteSet(T) /\ IsFiniteSet(T \ {r})
    BY FS_Subset
  <2>2. \A x \in T : v[x] \in Int /\ w[x] \in Int /\ u[x] \in Int
    BY DEF Adds
  <2>3. /\ SumOf(v, T) = v[r] + SumOf(v, T \ {r})
        /\ SumOf(w, T) = w[r] + SumOf(w, T \ {r})
        /\ SumOf(u, T) = u[r] + SumOf(u, T \ {r})
    BY <2>1, <2>2, SumAdds
  <2>4. SumOf(w, T \ {r}) \in Int /\ SumOf(u, T \ {r}) \in Int
    <3>1. \A x \in T \ {r} : w[x] \in Int /\ u[x] \in Int
      BY <2>2
    <3> QED BY <2>1, <3>1, SumAdds
  <2>5. v[r] = w[r] + u[r] /\ w[r] \in Int /\ u[r] \in Int
    BY DEF Adds
  <2>6. SumOf(v, T \ {r}) = SumOf(w, T \ {r}) + SumOf(u, T \ {r})
    BY <1>2
  <2> QED BY <2>3, <2>4, <2>5, <2>6
<1> HIDE DEF G
<1>3. S \in G
  BY <1>1, <1>2, SubsetsUp
<1> QED BY <1>3 DEF G

\* Only what is not 0 counts.
ZeroOff(S, T, u) == \A x \in S : u[x] \in Int /\ (x \notin T => u[x] = 0)

LEMMA SumRest ==
  ASSUME NEW S, IsFiniteSet(S), NEW T \in SUBSET S, NEW u, ZeroOff(S, T, u)
  PROVE  SumOf(u, S) = SumOf(u, T)
<1> DEFINE G == {R \in SUBSET S : SumOf(u, R) = SumOf(u, R \cap T)}
<1>1. {} \in G
  <2>1. {} \cap T = {}
    OBVIOUS
  <2> QED BY <2>1
<1>2. ASSUME NEW R \in SUBSET S, NEW r \in R, R \ {r} \in G
      PROVE  R \in G
  <2>1. IsFiniteSet(R) /\ IsFiniteSet(R \cap T) /\ IsFiniteSet((R \cap T) \ {r})
    BY FS_Subset
  <2>2. \A x \in R : u[x] \in Int
    BY DEF ZeroOff
  <2>3. SumOf(u, R) = u[r] + SumOf(u, R \ {r})
    BY <2>1, <2>2, SumAdds
  <2>4. SumOf(u, R \ {r}) = SumOf(u, (R \ {r}) \cap T)
    BY <1>2
  <2>5. CASE r \in T
    <3>1. (R \ {r}) \cap T = (R \cap T) \ {r}
      OBVIOUS
    <3>2. SumOf(u, (R \ {r}) \cap T) = SumOf(u, (R \cap T) \ {r})
      BY <3>1, Zenon
    <3>3. SumOf(u, R \cap T) = u[r] + SumOf(u, (R \cap T) \ {r})
      <4>1. r \in R \cap T /\ \A x \in R \cap T : u[x] \in Int
        BY <2>2, <2>5
      <4> QED BY <2>1, <4>1, SumAdds
    <3> QED BY <2>3, <2>4, <3>2, <3>3
  <2>6. CASE r \notin T
    <3>1. (R \ {r}) \cap T = R \cap T
      BY <2>6
    <3>2. SumOf(u, (R \ {r}) \cap T) = SumOf(u, R \cap T)
      BY <3>1, Zenon
    <3>3. u[r] = 0
      BY <2>6 DEF ZeroOff
    <3>4. SumOf(u, R \cap T) \in Int
      <4>1. \A x \in R \cap T : u[x] \in Int
        BY <2>2
      <4> QED BY <2>1, <4>1, SumAdds
    <3> QED BY <2>3, <2>4, <3>2, <3>3, <3>4
  <2> QED BY <2>5, <2>6
<1> HIDE DEF G
<1>3. S \in G
  BY <1>1, <1>2, SubsetsUp
<1>4. S \cap T = T
  OBVIOUS
<1>5. SumOf(u, S \cap T) = SumOf(u, T)
  BY <1>4, Zenon
<1> QED BY <1>3, <1>5 DEF G

\* A sum of what is not negative is at least each summand, and is 0 only if
\* each is.
Positive(S, w) == \A x \in S : w[x] \in Nat

LEMMA SumPositive ==
  ASSUME NEW S, IsFiniteSet(S), NEW w, Positive(S, w)
  PROVE  SumOf(w, S) \in Nat /\ \A x \in S : w[x] <= SumOf(w, S)
<1> DEFINE G == {T \in SUBSET S : SumOf(w, T) \in Nat}
<1>1. {} \in G
  BY SumEmpty
<1>2. ASSUME NEW T \in SUBSET S, NEW r \in T, T \ {r} \in G
      PROVE  T \in G
  <2>1. IsFiniteSet(T) /\ \A x \in T : w[x] \in Nat /\ w[x] \in Int
    BY FS_Subset DEF Positive
  <2>2. SumOf(w, T) = w[r] + SumOf(w, T \ {r})
    BY <2>1, SumAdds
  <2> QED BY <1>2, <2>1, <2>2
<1> HIDE DEF G
<1>3. \A T \in SUBSET S : T \in G
  <2> SUFFICES ASSUME NEW T \in SUBSET S PROVE T \in G
    OBVIOUS
  <2>1. IsFiniteSet(T)
    BY FS_Subset
  <2>2. \A R \in SUBSET T : \A r \in R : R \ {r} \in G => R \in G
    BY <1>2
  <2> QED BY <1>1, <2>1, <2>2, SubsetsUp
<1>4. ASSUME NEW x \in S PROVE w[x] <= SumOf(w, S)
  <2>1. \A y \in S : w[y] \in Int
    BY DEF Positive
  <2>2. SumOf(w, S) = w[x] + SumOf(w, S \ {x})
    BY <2>1, SumAdds
  <2>3. SumOf(w, S \ {x}) \in Nat /\ w[x] \in Nat
    BY <1>3 DEF G, Positive
  <2> QED BY <2>2, <2>3
<1> QED BY <1>3, <1>4 DEF G
=============================================================================
