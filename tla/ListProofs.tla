----------------------------- MODULE ListProofs ------------------------------
(***************************************************************************)
(* What the functions over lists compute, for lists of any length: the     *)
(* order of the stages (StageOrder) and sorted lists (Sorting).  Induction *)
(* over data is done with sets in place of predicates: the set of the      *)
(* numbers for which a claim holds has all of them.                        *)
(***************************************************************************)
EXTENDS StageOrder, Sorting, Integers, FiniteSetTheorems, WellFoundedInduction, TLAPS

-----------------------------------------------------------------------------
(* Induction.                                                              *)

\* From the least number outside the set.
LEMMA NatInductive ==
  ASSUME NEW S, 0 \in S, \A n \in Nat : n \in S => n + 1 \in S
  PROVE  \A n \in Nat : n \in S
<1> DEFINE Below == {p \in Nat \X Nat : p[1] < p[2]}
           Outside == {n \in Nat : n \notin S}
<1>1. IsWellFoundedOn(Below, Nat)
  BY NatLessThanWellFounded DEF OpToRel
<1>2. SUFFICES ASSUME Outside # {} PROVE FALSE
  OBVIOUS
<1>3. PICK n \in Outside : \A m \in Outside : ~(<<m, n>> \in Below)
  <2> HIDE DEF Below, Outside
  <2>1. Outside \subseteq Nat
    BY DEF Outside
  <2> QED BY <1>1, <1>2, <2>1, WFMin
<1>4. n - 1 \in Nat /\ <<n - 1, n>> \in Below
  OBVIOUS
<1>5. n - 1 \in S
  BY <1>3, <1>4
<1> QED BY <1>4, <1>5

LEMMA IntervalInductive ==
  ASSUME NEW n \in Nat, NEW S, 0 \in S, \A i \in 0 .. n - 1 : i \in S => i + 1 \in S
  PROVE  \A i \in 0 .. n : i \in S
<1> DEFINE T == {i \in Nat : i <= n => i \in S}
<1>1. 0 \in T /\ \A i \in Nat : i \in T => i + 1 \in T
  OBVIOUS
<1>2. \A i \in Nat : i \in T
  <2> HIDE DEF T
  <2> QED BY <1>1, NatInductive
<1> QED BY <1>2

\* f is what a recursive function over 0 .. n is meant to be.
Steps(f, base, step, n) == f[0] = base /\ \A i \in 1 .. n : f[i] = step[<<f[i - 1], i>>]

\* There is one, whatever the step.
LEMMA StepsExist ==
  ASSUME NEW n \in Nat, NEW A, NEW base \in A, NEW step \in [A \X (1 .. n) -> A]
  PROVE  \E f \in [0 .. n -> A] : Steps(f, base, step, n)
<1> DEFINE S == {k \in Nat : k <= n => \E f \in [0 .. k -> A] : Steps(f, base, step, k)}
<1>1. 0 \in S
  <2> DEFINE f == [i \in 0 .. 0 |-> base]
  <2>1. f \in [0 .. 0 -> A] /\ Steps(f, base, step, 0)
    BY DEF Steps
  <2> QED BY <2>1
<1>2. ASSUME NEW k \in Nat, k \in S PROVE k + 1 \in S
  <2> SUFFICES ASSUME k + 1 <= n
               PROVE  \E g \in [0 .. k + 1 -> A] : Steps(g, base, step, k + 1)
    OBVIOUS
  <2>1. PICK f \in [0 .. k -> A] : Steps(f, base, step, k)
    BY <1>2
  <2> DEFINE g == [i \in 0 .. k + 1 |-> IF i = k + 1 THEN step[<<f[k], k + 1>>] ELSE f[i]]
  <2>2. g \in [0 .. k + 1 -> A]
    OBVIOUS
  <2>3. g[k + 1] = step[<<f[k], k + 1>>] /\ \A i \in 0 .. k : g[i] = f[i]
    OBVIOUS
  <2> HIDE DEF g, S
  <2>4. g[0] = base
    BY <2>1, <2>3 DEF Steps
  <2>5. ASSUME NEW i \in 1 .. k + 1 PROVE g[i] = step[<<g[i - 1], i>>]
    <3>1. CASE i = k + 1
      <4>1. i - 1 = k /\ g[k] = f[k]
        BY <2>3, <3>1
      <4> QED BY <2>3, <3>1, <4>1
    <3>2. CASE i \in 1 .. k
      <4>1. g[i] = f[i] /\ g[i - 1] = f[i - 1]
        BY <2>3, <3>2
      <4>2. f[i] = step[<<f[i - 1], i>>]
        BY <2>1, <3>2 DEF Steps
      <4> QED BY <4>1, <4>2
    <3> QED BY <3>1, <3>2
  <2> QED BY <2>2, <2>4, <2>5 DEF Steps
<1>3. n \in S
  <2> HIDE DEF S
  <2> QED BY <1>1, <1>2, NatInductive
<1> QED BY <1>3

\* Over the subsets of a finite set, one element at a time.
LEMMA FiniteInductive ==
  ASSUME NEW S, IsFiniteSet(S), NEW P, {} \in P,
         \A T \in SUBSET S, x \in S : T \in P /\ x \notin T => T \cup {x} \in P
  PROVE  S \in P
<1> DEFINE K == {k \in Nat : \A T \in SUBSET S : Cardinality(T) = k => T \in P}
<1>0. \A T \in SUBSET S : IsFiniteSet(T)
  BY FS_Subset
<1>1. 0 \in K
  BY <1>0, FS_EmptySet
<1>2. ASSUME NEW k \in Nat, k \in K PROVE k + 1 \in K
  <2> SUFFICES ASSUME NEW T \in SUBSET S, Cardinality(T) = k + 1 PROVE T \in P
    OBVIOUS
  <2>1. PICK x : x \in T
    <3>1. k + 1 # 0 /\ Cardinality({}) = 0
      BY FS_EmptySet
    <3> HIDE DEF K
    <3> QED BY <3>1
  <2>2. Cardinality(T \ {x}) = k
    <3>1. IsFiniteSet(T)
      BY <1>0
    <3>2. Cardinality(T \ {x}) = Cardinality(T) - 1
      BY <2>1, <3>1, FS_RemoveElement
    <3> HIDE DEF K
    <3> QED BY <3>2
  <2>3. T \ {x} \in P
    BY <1>2, <2>2
  <2>4. T = (T \ {x}) \cup {x}
    BY <2>1
  <2> QED BY <2>1, <2>3, <2>4
<1>3. \A k \in Nat : k \in K
  <2> HIDE DEF K
  <2> QED BY <1>1, <1>2, NatInductive
<1> QED BY <1>0, <1>3, FS_CardinalityType

\* Different values in different places are as many as the places.
LEMMA RangeCounts ==
  ASSUME NEW n \in Nat, NEW T, NEW f \in [1 .. n -> T], \A i, j \in 1 .. n : f[i] = f[j] => i = j
  PROVE  IsFiniteSet(Range(f)) /\ Cardinality(Range(f)) = n
<1>1. f \in Bijection(1 .. n, Range(f))
  <2>1. f \in [1 .. n -> Range(f)]
    BY DEF Range
  <2>2. IsInjective(f)
    BY DEF IsInjective
  <2>3. \A t \in Range(f) : \E i \in 1 .. n : f[i] = t
    BY DEF Range
  <2> QED BY <2>1, <2>2, <2>3 DEF Bijection, Injection, Surjection
<1>2. ExistsBijection(1 .. n, Range(f))
  BY <1>1 DEF ExistsBijection
<1>3. IsFiniteSet(1 .. n) /\ Cardinality(1 .. n) = n
  BY FS_Interval
<1> QED BY <1>2, <1>3, FS_Bijection

\* A set of numbers up to n has a greatest, unless it is empty.
LEMMA Greatest ==
  ASSUME NEW n \in Nat, NEW S, S \subseteq 1 .. n, S # {}
  PROVE  \E m \in S : \A k \in S : k <= m
<1> DEFINE Has(T) == \E m \in T : \A k \in T : k <= m
           All == {b \in Nat : \A T \in SUBSET (1 .. b) : T # {} => Has(T)}
<1>1. 0 \in All
  BY 1 .. 0 = {}
<1>2. ASSUME NEW b \in Nat, b \in All PROVE b + 1 \in All
  <2> SUFFICES ASSUME NEW T \in SUBSET (1 .. b + 1), T # {} PROVE Has(T)
    OBVIOUS
  <2>1. CASE b + 1 \in T
    BY <2>1
  <2>2. CASE b + 1 \notin T
    <3>1. T \in SUBSET (1 .. b)
      BY <2>2
    <3> QED BY <1>2, <3>1
  <2> QED BY <2>1, <2>2
<1>3. \A b \in Nat : b \in All
  <2> HIDE DEF All
  <2> QED BY <1>1, <1>2, NatInductive
<1> QED BY <1>3

\* The values of a function on a finite set.
LEMMA ImageFinite ==
  ASSUME NEW S, IsFiniteSet(S), NEW f, DOMAIN f = S, f = [x \in S |-> f[x]]
  PROVE  IsFiniteSet({f[x] : x \in S}) /\ Cardinality({f[x] : x \in S}) <= Cardinality(S)
<1> DEFINE T == {f[x] : x \in S}
<1>1. f \in Surjection(S, T)
  BY DEF Surjection
<1> HIDE DEF T
<1> QED BY <1>1, FS_Surjection DEF T

-----------------------------------------------------------------------------
(* Sorted lists.                                                           *)

\* Numbers its elements from 0, in order.
Numbers(place, S, less) ==
  /\ Cardinality(S) \in Nat
  /\ \A n \in S : place[n] \in 0 .. Cardinality(S) - 1
  /\ \A m, n \in S : <<m, n>> \in less => place[m] < place[n]
  /\ \A k \in 0 .. Cardinality(S) - 1 : \E n \in S : place[n] = k

\* In a finite set that is ordered every element has its place.
LEMMA OrderRanks ==
  ASSUME NEW S, IsFiniteSet(S), NEW less,
         \A m, n \in S : m # n => <<m, n>> \in less \/ <<n, m>> \in less,
         \A n \in S : <<n, n>> \notin less,
         \A l, m, n \in S : <<l, m>> \in less /\ <<m, n>> \in less => <<l, n>> \in less
  PROVE  Numbers([n \in S |-> Cardinality({m \in S : <<m, n>> \in less})], S, less)
<1> DEFINE Below(n) == {m \in S : <<m, n>> \in less}
           below == [n \in S |-> Cardinality(Below(n))]
           N == Cardinality(S)
<1>1. N \in Nat
  BY FS_CardinalityType
<1>2. ASSUME NEW n \in S PROVE IsFiniteSet(Below(n)) /\ Cardinality(Below(n)) \in 0 .. N - 1
  <2>1. Below(n) \in SUBSET (S \ {n})
    OBVIOUS
  <2>2. IsFiniteSet(S \ {n}) /\ Cardinality(S \ {n}) = N - 1
    BY FS_RemoveElement
  <2> HIDE DEF Below, N
  <2>3. IsFiniteSet(Below(n)) /\ Cardinality(Below(n)) <= N - 1
    BY <2>1, <2>2, FS_Subset
  <2>4. Cardinality(Below(n)) \in Nat
    BY <2>3, FS_CardinalityType
  <2> QED BY <1>1, <2>3, <2>4
<1>3. ASSUME NEW m \in S, NEW n \in S, <<m, n>> \in less
      PROVE  Cardinality(Below(m)) < Cardinality(Below(n))
  <2>1. Below(m) \cup {m} \in SUBSET Below(n) /\ m \notin Below(m)
    <3>1. \A x \in Below(m) : x \in S /\ <<x, n>> \in less
      BY <1>3
    <3>2. m \in Below(n) /\ m \notin Below(m)
      BY <1>3
    <3> QED BY <3>1, <3>2
  <2> HIDE DEF Below, N
  <2>2. Cardinality(Below(m) \cup {m}) = Cardinality(Below(m)) + 1
    BY <1>2, <2>1, FS_AddElement
  <2>3. Cardinality(Below(m) \cup {m}) <= Cardinality(Below(n))
    BY <1>2, <2>1, FS_Subset
  <2> QED BY <1>1, <1>2, <2>2, <2>3
<1>4. below \in Injection(S, 0 .. N - 1)
  <2> HIDE DEF Below, N
  <2>1. below \in [S -> 0 .. N - 1]
    BY <1>2
  <2>2. \A m, n \in S : m # n => below[m] # below[n]
    <3>1. ASSUME NEW m \in S, NEW n \in S, m # n PROVE below[m] # below[n]
      <4>1. <<m, n>> \in less \/ <<n, m>> \in less
        BY <3>1
      <4>2. below[m] \in Int /\ below[n] \in Int
        BY <1>1, <2>1
      <4> QED BY <1>2, <1>3, <4>1, <4>2
    <3> QED BY <3>1
  <2> QED BY <2>1, <2>2 DEF Injection, IsInjective
<1>5. IsFiniteSet(0 .. N - 1) /\ Cardinality(0 .. N - 1) = N
  <2> HIDE DEF N
  <2>1. 0 \in Int /\ N - 1 \in Int /\ N - 1 - 0 + 1 = N /\ (0 > N - 1 => N = 0)
    BY <1>1
  <2> QED BY <2>1, FS_Interval
<1>6. below \in Surjection(S, 0 .. N - 1)
  <2> HIDE DEF below
  <2> QED BY <1>4, <1>5, FS_Injection
<1>7. \A k \in 0 .. N - 1 : \E n \in S : below[n] = k
  <2> HIDE DEF below
  <2> QED BY <1>6 DEF Surjection
<1> QED BY <1>1, <1>2, <1>3, <1>7, ZenonT(30) DEF Numbers

\* A number has its place: no two have the same.
LEMMA Ranks ==
  ASSUME NEW S, S \subseteq Nat, IsFiniteSet(S)
  PROVE  LET below == [n \in S |-> Cardinality({m \in S : m < n})] IN
         /\ Cardinality(S) \in Nat
         /\ \A n \in S : below[n] \in 0 .. Cardinality(S) - 1
         /\ \A m, n \in S : m < n => below[m] < below[n]
         /\ \A k \in 0 .. Cardinality(S) - 1 : \E n \in S : below[n] = k
<1> DEFINE less == {p \in S \X S : p[1] < p[2]}
<1>1. /\ \A m, n \in S : <<m, n>> \in less <=> m < n
      /\ \A n \in S : n \in Nat
  OBVIOUS
<1> HIDE DEF less
<1>2. /\ \A m, n \in S : m # n => <<m, n>> \in less \/ <<n, m>> \in less
      /\ \A n \in S : <<n, n>> \notin less
      /\ \A l, m, n \in S : <<l, m>> \in less /\ <<m, n>> \in less => <<l, n>> \in less
  BY <1>1
<1>3. \A n \in S : {m \in S : <<m, n>> \in less} = {m \in S : m < n}
  BY <1>1
<1> DEFINE below == [n \in S |-> Cardinality({m \in S : <<m, n>> \in less})]
<1>4. Numbers(below, S, less)
  BY <1>2, OrderRanks
<1>5. below = [n \in S |-> Cardinality({m \in S : m < n})]
  BY <1>3
<1> HIDE DEF below
<1> QED BY <1>1, <1>4, <1>5 DEF Numbers

\* sorted() has every number once, in ascending order.
LEMMA SortedList ==
  ASSUME NEW S, S \subseteq Nat, IsFiniteSet(S)
  PROVE  /\ Cardinality(S) \in Nat /\ Sorted(S) \in [1 .. Cardinality(S) -> S]
         /\ \A i, j \in 1 .. Cardinality(S) : i < j => Sorted(S)[i] < Sorted(S)[j]
         /\ \A n \in S : \E i \in 1 .. Cardinality(S) : Sorted(S)[i] = n
<1> DEFINE below == [n \in S |-> Cardinality({m \in S : m < n})]
           N == Cardinality(S)
           list == Sorted(S)
<1>1. /\ N \in Nat
      /\ \A n \in S : below[n] \in 0 .. N - 1
      /\ \A m, n \in S : m < n => below[m] < below[n]
      /\ \A k \in 0 .. N - 1 : \E n \in S : below[n] = k
  BY Ranks
<1>2. list = [k \in 1 .. N |-> CHOOSE n \in S : Cardinality({m \in S : m < n}) = k - 1]
  BY DEF Sorted
<1>3. ASSUME NEW k \in 1 .. N PROVE list[k] \in S /\ below[list[k]] = k - 1
  <2>1. k - 1 \in 0 .. N - 1
    BY <1>1
  <2>2. \E n \in S : Cardinality({m \in S : m < n}) = k - 1
    BY <1>1, <2>1
  <2> HIDE DEF below, list
  <2>3. list[k] \in S /\ Cardinality({m \in S : m < list[k]}) = k - 1
    BY <1>2, <2>2
  <2> QED BY <2>3 DEF below
<1> HIDE DEF below, N, list
<1>4. list \in [1 .. N -> S]
  BY <1>2, <1>3
<1>5. ASSUME NEW i \in 1 .. N, NEW j \in 1 .. N, i < j PROVE list[i] < list[j]
  <2>1. list[i] \in S /\ list[j] \in S /\ below[list[i]] = i - 1 /\ below[list[j]] = j - 1
    BY <1>3
  <2>2. list[i] \in Nat /\ list[j] \in Nat
    BY <2>1
  <2>3. list[i] # list[j]
    BY <1>5, <2>1
  <2>4. ASSUME list[j] < list[i] PROVE FALSE
    <3>1. below[list[j]] < below[list[i]]
      BY <1>1, <2>1, <2>4
    <3>2. j - 1 < i - 1
      BY <2>1, <3>1
    <3> QED BY <1>5, <3>2
  <2> QED BY <2>2, <2>3, <2>4
<1>6. ASSUME NEW n \in S PROVE \E i \in 1 .. N : list[i] = n
  <2> DEFINE i == below[n] + 1
  <2>1. i \in 1 .. N /\ below[n] \in Nat
    BY <1>1
  <2>2. list[i] \in S /\ below[list[i]] = below[n]
    BY <1>1, <1>3, <2>1
  <2>3. list[i] \in Nat /\ n \in Nat
    BY <2>2
  <2> HIDE DEF i
  <2>4. ASSUME n < list[i] PROVE FALSE
    <3>1. below[n] < below[list[i]]
      BY <1>1, <2>2, <2>4
    <3> QED BY <2>1, <2>2, <3>1
  <2>5. ASSUME list[i] < n PROVE FALSE
    <3>1. below[list[i]] < below[n]
      BY <1>1, <2>2, <2>5
    <3> QED BY <2>1, <2>2, <3>1
  <2> QED BY <2>1, <2>3, <2>4, <2>5
<1> QED BY <1>1, <1>4, <1>5, <1>6 DEF N, list

-----------------------------------------------------------------------------
(* The order of the stages.                                                *)

\* What a list of plugins is made of.
IsList(list, E) ==
  /\ list \in Seq(E) /\ E = Range(list)
  /\ \A i, j \in DOMAIN list : list[i] = list[j] => i = j

\* Each once, and after all it depends on.
InOrder(q, deps) ==
  /\ \A i, j \in DOMAIN q : q[i] = q[j] => i = j
  /\ \A i \in DOMAIN q : deps[q[i]] \subseteq {q[j] : j \in 1 .. i - 1}

\* p can be taken, or could have been.
Free(done, p, deps) == p \notin Range(done) /\ deps[p] \subseteq Range(done)

LEMMA AppendReadyKeeps ==
  ASSUME NEW E, NEW deps, NEW done \in Seq(E), InOrder(done, deps), NEW p \in E
  PROVE  /\ AppendReady(done, p, deps) \in Seq(E)
         /\ InOrder(AppendReady(done, p, deps), deps)
         /\ AppendReady(done, p, deps) = IF Free(done, p, deps) THEN Append(done, p) ELSE done
<1> DEFINE next == AppendReady(done, p, deps)
<1>1. next = IF Free(done, p, deps) THEN Append(done, p) ELSE done
  BY DEF AppendReady, Free
<1>2. CASE Free(done, p, deps)
  <2> DEFINE q == Append(done, p)
  <2>1. /\ q \in Seq(E) /\ Len(q) = Len(done) + 1 /\ q[Len(done) + 1] = p
        /\ \A i \in 1 .. Len(done) : q[i] = done[i]
    OBVIOUS
  <2> HIDE DEF q
  <2>2. DOMAIN done = 1 .. Len(done) /\ DOMAIN q = 1 .. Len(done) + 1 /\ Len(done) \in Nat
    BY <2>1
  <2>3. ASSUME NEW i \in DOMAIN q, NEW j \in DOMAIN q, q[i] = q[j] PROVE i = j
    <3>1. \A k \in 1 .. Len(done) : done[k] # p
      BY <1>2, <2>2 DEF Free, Range
    <3> QED BY <2>1, <2>2, <2>3, <3>1 DEF InOrder
  <2>4. ASSUME NEW i \in DOMAIN q PROVE deps[q[i]] \subseteq {q[j] : j \in 1 .. i - 1}
    <3>1. CASE i = Len(done) + 1
      <4>1. deps[p] \subseteq {done[j] : j \in 1 .. Len(done)}
        BY <1>2, <2>2 DEF Free, Range
      <4>2. {done[j] : j \in 1 .. Len(done)} = {q[j] : j \in 1 .. i - 1}
        BY <2>1, <2>2, <3>1
      <4> QED BY <2>1, <3>1, <4>1, <4>2
    <3>2. CASE i \in 1 .. Len(done)
      <4>1. deps[done[i]] \subseteq {done[j] : j \in 1 .. i - 1}
        BY <2>2, <3>2 DEF InOrder
      <4>2. {done[j] : j \in 1 .. i - 1} = {q[j] : j \in 1 .. i - 1}
        BY <2>1, <2>2, <3>2
      <4> QED BY <2>1, <3>2, <4>1, <4>2
    <3> QED BY <2>2, <3>1, <3>2
  <2>5. InOrder(q, deps)
    BY <2>3, <2>4 DEF InOrder
  <2> QED BY <1>1, <1>2, <2>1, <2>5 DEF q
<1>3. CASE ~Free(done, p, deps)
  BY <1>1, <1>3
<1> QED BY <1>1, <1>2, <1>3

\* The recursion of OnePass.
LEMMA OnePassSteps ==
  ASSUME NEW E, NEW list \in Seq(E), NEW deps, NEW done \in Seq(E)
  PROVE  \E taken :
           /\ taken[0] = done
           /\ \A i \in 1 .. Len(list) : taken[i] = AppendReady(taken[i - 1], list[i], deps)
           /\ OnePass(done, list, deps) = taken[Len(list)]
<1> DEFINE n == Len(list)
           step == [p \in Seq(E) \X (1 .. n) |-> AppendReady(p[1], list[p[2]], deps)]
           Is(f) == f = [i \in 0 .. n |-> IF i = 0 THEN done ELSE AppendReady(f[i - 1], list[i], deps)]
           taken == CHOOSE f : Is(f)
<1>1. n \in Nat /\ step \in [Seq(E) \X (1 .. n) -> Seq(E)]
  BY DEF AppendReady
<1>2. PICK f \in [0 .. n -> Seq(E)] : Steps(f, done, step, n)
  <2> HIDE DEF n, step
  <2> QED BY <1>1, StepsExist
<1>3. Is(f)
  BY <1>1, <1>2, SMTT(30) DEF Steps
<1>4. Is(taken)
  <2> HIDE DEF Is
  <2> QED BY <1>3
<1>5. OnePass(done, list, deps) = taken[n]
  BY DEF OnePass
<1>6. taken[0] = done /\ \A i \in 1 .. n : taken[i] = AppendReady(taken[i - 1], list[i], deps)
  <2> HIDE DEF taken
  <2> QED BY <1>1, <1>4
<1> QED BY <1>5, <1>6

\* One pass only appends, and appends if something can be taken.
LEMMA OnePassTakes ==
  ASSUME NEW E, NEW list, IsList(list, E), NEW deps, NEW done \in Seq(E), InOrder(done, deps)
  PROVE  LET next == OnePass(done, list, deps) IN
         /\ next \in Seq(E) /\ InOrder(next, deps)
         /\ \/ next = done /\ \A p \in E : ~Free(done, p, deps)
            \/ Len(next) > Len(done) /\ \E p \in E : Free(done, p, deps)
<1> DEFINE n == Len(list)
<1>0. list \in Seq(E) /\ n \in Nat /\ \A i \in 1 .. n : list[i] \in E
  BY DEF IsList
<1>1. PICK taken :
        /\ taken[0] = done
        /\ \A i \in 1 .. n : taken[i] = AppendReady(taken[i - 1], list[i], deps)
        /\ OnePass(done, list, deps) = taken[n]
  BY <1>0, OnePassSteps
<1> DEFINE Some(i) == \E j \in 1 .. i : Free(done, list[j], deps)
           Holds(i) == /\ taken[i] \in Seq(E) /\ InOrder(taken[i], deps)
                       /\ Some(i) => Len(taken[i]) > Len(done)
                       /\ ~Some(i) => taken[i] = done
           S == {i \in 0 .. n : Holds(i)}
<1>2. Holds(0)
  BY <1>1
<1>3. ASSUME NEW i \in 0 .. n - 1, Holds(i) PROVE Holds(i + 1)
  <2>0. i + 1 \in 1 .. n /\ i + 1 - 1 = i
    BY <1>0
  <2>1. taken[i] \in Seq(E) /\ InOrder(taken[i], deps) /\ list[i + 1] \in E
    BY <1>0, <1>3, <2>0
  <2>2. taken[i + 1] = AppendReady(taken[i], list[i + 1], deps)
    BY <1>1, <2>0
  <2>3. Some(i + 1) <=> Some(i) \/ Free(done, list[i + 1], deps)
    BY <1>0
  <2>4. /\ Some(i) => Len(taken[i]) > Len(done)
        /\ ~Some(i) => taken[i] = done
    BY <1>3
  <2> HIDE DEF Some, n
  <2>5. /\ taken[i + 1] \in Seq(E) /\ InOrder(taken[i + 1], deps)
        /\ taken[i + 1] = IF Free(taken[i], list[i + 1], deps) THEN Append(taken[i], list[i + 1])
                                                                ELSE taken[i]
    <3> DEFINE next == AppendReady(taken[i], list[i + 1], deps)
    <3>1. /\ next \in Seq(E) /\ InOrder(next, deps)
          /\ next = IF Free(taken[i], list[i + 1], deps) THEN Append(taken[i], list[i + 1]) ELSE taken[i]
      <4> HIDE DEF Holds, S
      <4>1. \A q \in Seq(E), p \in E : InOrder(q, deps) =>
              /\ AppendReady(q, p, deps) \in Seq(E)
              /\ InOrder(AppendReady(q, p, deps), deps)
              /\ AppendReady(q, p, deps) = IF Free(q, p, deps) THEN Append(q, p) ELSE q
        BY AppendReadyKeeps
      <4> QED BY <2>1, <4>1
    <3> HIDE DEF next
    <3> QED BY <2>2, <3>1 DEF next
  <2>6. /\ Len(done) \in Nat /\ Len(taken[i]) \in Nat
        /\ Len(Append(taken[i], list[i + 1])) = Len(taken[i]) + 1
    BY <2>1
  <2> QED BY <2>3, <2>4, <2>5, <2>6
<1>4. Holds(n)
  <2> HIDE DEF Holds, n
  <2>1. 0 \in S /\ \A i \in 0 .. n - 1 : i \in S => i + 1 \in S
    BY <1>0, <1>2, <1>3
  <2>2. n \in Nat
    BY <1>0
  <2> HIDE DEF S
  <2>3. \A i \in 0 .. n : i \in S
    BY <2>1, <2>2, IntervalInductive
  <2> QED BY <2>2, <2>3 DEF S
<1>5. Some(n) <=> \E p \in E : Free(done, p, deps)
  <2>1. E = {list[i] : i \in 1 .. n}
    BY DEF IsList, Range
  <2> QED BY <2>1
<1> QED BY <1>1, <1>4, <1>5

\* The recursion of Ordered.
LEMMA OrderedSteps ==
  ASSUME NEW E, NEW list, IsList(list, E), NEW deps
  PROVE  \E after :
           /\ after[0] = <<>>
           /\ \A i \in 1 .. Len(list) :
                after[i] = IF Len(after[i - 1]) = Len(list) THEN after[i - 1]
                           ELSE OnePass(after[i - 1], list, deps)
           /\ Ordered(list, deps) = after[Len(list)]
<1> DEFINE n == Len(list)
           A == {q \in Seq(E) : InOrder(q, deps)}
           Next(q) == IF Len(q) = n THEN q ELSE OnePass(q, list, deps)
           step == [p \in A \X (1 .. n) |-> Next(p[1])]
           Is(f) == f = [i \in 0 .. n |-> IF i = 0 THEN <<>>
                           ELSE LET done == f[i - 1] IN
                                IF Len(done) = Len(list) THEN done ELSE OnePass(done, list, deps)]
           after == CHOOSE f : Is(f)
<1>1. n \in Nat
  BY DEF IsList
<1>2. <<>> \in A
  BY DEF InOrder
<1>3. step \in [A \X (1 .. n) -> A]
  <2>1. ASSUME NEW q \in A PROVE Next(q) \in A
    BY OnePassTakes
  <2> HIDE DEF A, Next
  <2> QED BY <2>1
<1>4. PICK f \in [0 .. n -> A] : Steps(f, <<>>, step, n)
  <2> HIDE DEF A, n, step
  <2> QED BY <1>1, <1>2, <1>3, StepsExist
<1>5. Is(f)
  <2>1. \A i \in 1 .. n : f[i] = Next(f[i - 1])
    <3> HIDE DEF A, Next
    <3>1. ASSUME NEW i \in 1 .. n PROVE f[i] = Next(f[i - 1])
      <4>1. f[i] = step[<<f[i - 1], i>>]
        BY <1>4 DEF Steps
      <4>2. f[i - 1] \in A
        BY <1>1, <1>4
      <4> QED BY <4>1, <4>2
    <3> QED BY <3>1
  <2>2. f[0] = <<>> /\ f = [i \in 0 .. n |-> f[i]]
    BY <1>4 DEF Steps
  <2>3. [i \in 0 .. n |-> f[i]] = [i \in 0 .. n |-> IF i = 0 THEN <<>> ELSE Next(f[i - 1])]
    <3> HIDE DEF Next, n, A, step, Is, after
    <3>1. \A i \in 0 .. n : f[i] = IF i = 0 THEN <<>> ELSE Next(f[i - 1])
      <4>1. \A i \in 0 .. n : i = 0 \/ i \in 1 .. n
        BY <1>1
      <4> QED BY <2>1, <2>2, <4>1
    <3> QED BY <3>1
  <2> QED BY <2>2, <2>3
<1>6. Is(after)
  <2> HIDE DEF Is
  <2> QED BY <1>5
<1>7. Ordered(list, deps) = after[n]
  BY DEF Ordered
<1>8. after[0] = <<>> /\ \A i \in 1 .. n : after[i] = Next(after[i - 1])
  <2> HIDE DEF after
  <2> QED BY <1>1, <1>6, SMTT(30)
<1> QED BY <1>7, <1>8

\* It is in order, and if anything is missing nothing of that can be taken.
LEMMA OrderedResult ==
  ASSUME NEW E, NEW list, IsList(list, E), NEW deps
  PROVE  /\ Ordered(list, deps) \in Seq(E) /\ InOrder(Ordered(list, deps), deps)
         /\ \/ Len(Ordered(list, deps)) >= Len(list)
            \/ \A p \in E : ~Free(Ordered(list, deps), p, deps)
<1> DEFINE n == Len(list)
<1>0. n \in Nat
  BY DEF IsList
<1>1. PICK after :
        /\ after[0] = <<>>
        /\ \A i \in 1 .. n : after[i] = IF Len(after[i - 1]) = n THEN after[i - 1]
                                        ELSE OnePass(after[i - 1], list, deps)
        /\ Ordered(list, deps) = after[n]
  BY OrderedSteps
<1> DEFINE Stuck(q) == \A p \in E : ~Free(q, p, deps)
           Holds(i) == /\ after[i] \in Seq(E) /\ InOrder(after[i], deps)
                       /\ Len(after[i]) >= i \/ Len(after[i]) = n \/ Stuck(after[i])
           S == {i \in 0 .. n : Holds(i)}
<1>2. Holds(0)
  BY <1>1 DEF InOrder
<1>3. ASSUME NEW i \in 0 .. n - 1, Holds(i) PROVE Holds(i + 1)
  <2> HIDE DEF n
  <2>1. i + 1 \in 1 .. n /\ i + 1 - 1 = i
    BY <1>0
  <2>2. after[i + 1] = IF Len(after[i]) = n THEN after[i] ELSE OnePass(after[i], list, deps)
    BY <1>1, <2>1
  <2>3. CASE Len(after[i]) = n
    BY <1>3, <2>2, <2>3
  <2>4. CASE Len(after[i]) # n
    <3> DEFINE done == after[i]
               next == OnePass(done, list, deps)
    <3>1. done \in Seq(E) /\ InOrder(done, deps) /\ (Len(done) >= i \/ Stuck(done))
      BY <1>3, <2>4
    <3>2. after[i + 1] = next
      BY <2>2, <2>4
    <3>3. \A q \in Seq(E) : InOrder(q, deps) =>
            /\ OnePass(q, list, deps) \in Seq(E) /\ InOrder(OnePass(q, list, deps), deps)
            /\ \/ OnePass(q, list, deps) = q /\ \A p \in E : ~Free(q, p, deps)
               \/ Len(OnePass(q, list, deps)) > Len(q) /\ \E p \in E : Free(q, p, deps)
      BY OnePassTakes
    <3> HIDE DEF done
    <3>4. next \in Seq(E) /\ InOrder(next, deps)
      BY <3>1, <3>3
    <3>5. \/ next = done /\ Stuck(done)
          \/ Len(next) > Len(done) /\ ~Stuck(done)
      BY <3>1, <3>3
    <3> HIDE DEF next, Stuck
    <3>6. CASE next = done /\ Stuck(done)
      BY <3>2, <3>4, <3>6
    <3>7. CASE Len(next) > Len(done) /\ ~Stuck(done)
      <4>1. Len(next) \in Nat /\ Len(done) \in Nat
        BY <3>1, <3>4
      <4>2. Len(next) >= i + 1
        BY <3>1, <3>7, <4>1
      <4> QED BY <3>2, <3>4, <4>2
    <3> QED BY <3>5, <3>6, <3>7
  <2> QED BY <2>3, <2>4
<1>4. Holds(n)
  <2> HIDE DEF Holds, n
  <2>1. 0 \in S /\ \A i \in 0 .. n - 1 : i \in S => i + 1 \in S
    BY <1>0, <1>2, <1>3
  <2> HIDE DEF S
  <2>2. \A i \in 0 .. n : i \in S
    BY <1>0, <2>1, IntervalInductive
  <2> QED BY <1>0, <2>2 DEF S
<1>5. Len(after[n]) \in Nat
  BY <1>4
<1> QED BY <1>0, <1>1, <1>4, <1>5

LEMMA ListCounts ==
  ASSUME NEW E, NEW list, IsList(list, E)
  PROVE  IsFiniteSet(E) /\ Cardinality(E) = Len(list)
<1>1. Len(list) \in Nat /\ list \in [1 .. Len(list) -> E] /\ E = Range(list)
  BY DEF IsList
<1>2. \A i, j \in 1 .. Len(list) : list[i] = list[j] => i = j
  BY DEF IsList
<1> QED BY <1>1, <1>2, RangeCounts

\* A sequence in order has every plugin exactly if it is as long as the list.
LEMMA OrderCounts ==
  ASSUME NEW E, NEW list, IsList(list, E), NEW deps, NEW q \in Seq(E), InOrder(q, deps)
  PROVE  /\ Len(q) <= Len(list)
         /\ Len(q) = Len(list) => q \in Orders(list)
         /\ Range(q) = E => Len(q) = Len(list)
<1>1. Len(q) \in Nat /\ q \in [1 .. Len(q) -> E] /\ DOMAIN q = 1 .. Len(q)
  OBVIOUS
<1>2. \A i, j \in 1 .. Len(q) : q[i] = q[j] => i = j
  BY DEF InOrder
<1>3. Cardinality(Range(q)) = Len(q)
  BY <1>1, <1>2, RangeCounts
<1>4. IsFiniteSet(E) /\ Cardinality(E) = Len(list) /\ Range(q) \in SUBSET E
  BY ListCounts DEF Range
<1>5. Cardinality(Range(q)) <= Cardinality(E) /\ (Cardinality(E) = Cardinality(Range(q)) => E = Range(q))
  BY <1>4, FS_Subset
<1>6. Len(q) = Len(list) => q \in Orders(list)
  <2> SUFFICES ASSUME Len(q) = Len(list) PROVE q \in Orders(list)
    OBVIOUS
  <2>1. E = Range(q) /\ E = Range(list) /\ DOMAIN list = 1 .. Len(list)
    BY <1>3, <1>4, <1>5 DEF IsList
  <2>2. q \in [1 .. Len(q) -> E]
    OBVIOUS
  <2> QED BY <2>1, <2>2 DEF Orders
<1> QED BY <1>3, <1>4, <1>5, <1>6

(***************************************************************************)
(* If the plugins can be ordered at all, the scheduler does: the result    *)
(* has every plugin once, after all it depends on; and it is given up only *)
(* if no order is possible (scheduler.py 71-100).                          *)
(***************************************************************************)
THEOREM PluginsAreOrdered ==
  ASSUME NEW E, NEW list, IsList(list, E), NEW deps
  PROVE  /\ ~Unorderable(list, deps) =>
              /\ Ordered(list, deps) \in Seq(E) /\ Len(Ordered(list, deps)) = Len(list)
              /\ InOrder(Ordered(list, deps), deps)
         /\ Unorderable(list, deps) =>
              ~\E q \in Orders(list) : \A i \in DOMAIN q : deps[q[i]] \subseteq {q[j] : j \in 1 .. i - 1}
<1> DEFINE d == Ordered(list, deps)
           n == Len(list)
<1>1. /\ d \in Seq(E) /\ InOrder(d, deps)
      /\ Len(d) >= n \/ \A p \in E : ~Free(d, p, deps)
  BY OrderedResult
<1>2. n \in Nat /\ DOMAIN list = 1 .. n /\ E = Range(list)
  BY DEF IsList
<1> HIDE DEF d
<1>3. /\ Len(d) <= n
      /\ Len(d) = n => d \in Orders(list)
      /\ Range(d) = E => Len(d) = n
  BY <1>1, OrderCounts
<1>4. ASSUME d \in Orders(list) PROVE Len(d) = n
  BY <1>2, <1>3, <1>4 DEF Orders
<1>5. ASSUME d \notin Orders(list),
             NEW q \in Orders(list), \A i \in DOMAIN q : deps[q[i]] \subseteq {q[j] : j \in 1 .. i - 1}
      PROVE  FALSE
  <2>1. Len(d) # n /\ Len(d) \in Nat
    BY <1>1, <1>3, <1>5
  <2>2. \A p \in E : ~Free(d, p, deps)
    BY <1>1, <1>2, <1>3, <2>1
  <2>3. q \in [1 .. n -> E] /\ Range(q) = E
    BY <1>2 DEF Orders
  <2> DEFINE S == {k \in 0 .. n : \A i \in 1 .. k : q[i] \in Range(d)}
  <2>4. 0 \in S
    BY <1>2
  <2>5. ASSUME NEW k \in 0 .. n - 1, k \in S PROVE k + 1 \in S
    <3>1. k + 1 \in 1 .. n
      BY <1>2
    <3>2. deps[q[k + 1]] \subseteq {q[j] : j \in 1 .. k}
      BY <1>2, <1>5, <2>3, <3>1
    <3>3. deps[q[k + 1]] \subseteq Range(d)
      BY <2>5, <3>2
    <3>4. q[k + 1] \in Range(d)
      BY <2>2, <2>3, <3>1, <3>3 DEF Free
    <3> QED BY <1>2, <2>5, <3>4
  <2>6. \A k \in 0 .. n : k \in S
    <3> HIDE DEF S, n
    <3> QED BY <1>2, <2>4, <2>5, IntervalInductive
  <2>7. \A i \in 1 .. n : q[i] \in Range(d)
    BY <1>2, <2>6
  <2>8. E \subseteq Range(d)
    BY <2>3, <2>7 DEF Range
  <2>9. Range(d) \subseteq E
    BY <1>1 DEF Range
  <2> QED BY <1>3, <2>1, <2>8, <2>9
<1> QED BY <1>1, <1>4, <1>5 DEF Unorderable, d

\* A pass over a list that is in order already takes all of it.
LEMMA OnePassTakesAll ==
  ASSUME NEW E, NEW list, IsList(list, E), NEW deps, InOrder(list, deps)
  PROVE  OnePass(<<>>, list, deps) = list
<1> DEFINE n == Len(list)
           First(i) == [j \in 1 .. i |-> list[j]]
<1>0. /\ list \in Seq(E) /\ n \in Nat /\ list \in [1 .. n -> E] /\ list = First(n)
      /\ \A i, j \in 1 .. n : list[i] = list[j] => i = j
      /\ \A i \in 1 .. n : deps[list[i]] \subseteq {list[j] : j \in 1 .. i - 1}
  BY DEF IsList, InOrder
<1>1. PICK taken :
        /\ taken[0] = <<>>
        /\ \A i \in 1 .. n : taken[i] = AppendReady(taken[i - 1], list[i], deps)
        /\ OnePass(<<>>, list, deps) = taken[n]
  <2> DEFINE none == <<>>
  <2>1. none \in Seq(E) /\ list \in Seq(E)
    BY <1>0
  <2> HIDE DEF none, First
  <2>2. \E taken :
           /\ taken[0] = none
           /\ \A i \in 1 .. Len(list) : taken[i] = AppendReady(taken[i - 1], list[i], deps)
           /\ OnePass(none, list, deps) = taken[Len(list)]
    BY <2>1, OnePassSteps
  <2> QED BY <2>2 DEF none
<1> DEFINE S == {i \in 0 .. n : taken[i] = First(i)}
<1>2. 0 \in S
  BY <1>0, <1>1
<1>3. ASSUME NEW i \in 0 .. n - 1, i \in S PROVE i + 1 \in S
  <2> DEFINE p == list[i + 1]
             done == First(i)
  <2>0. i \in Nat /\ i + 1 \in 1 .. n /\ i + 1 - 1 = i /\ 1 .. i \subseteq 1 .. n
    BY <1>0
  <2>1. taken[i + 1] = AppendReady(done, p, deps)
    BY <1>1, <1>3, <2>0
  <2>2. Range(done) = {list[j] : j \in 1 .. i}
    BY DEF Range
  <2>3. p \notin Range(done)
    <3>1. ASSUME NEW j \in 1 .. i, list[j] = p PROVE FALSE
      <4>1. j \in 1 .. n /\ j # i + 1
        BY <2>0
      <4> QED BY <1>0, <2>0, <3>1, <4>1
    <3> QED BY <2>2, <3>1
  <2>4. deps[p] \subseteq Range(done)
    BY <1>0, <2>0, <2>2
  <2>5. taken[i + 1] = Append(done, p)
    BY <2>1, <2>3, <2>4 DEF AppendReady
  <2>6. done \in Seq(E) /\ Len(done) = i
    BY <1>0, <2>0
  <2>7. Append(done, p) = First(i + 1)
    <3> DEFINE next == Append(done, p)
    <3>1. next = [j \in 1 .. i + 1 |-> IF j = i + 1 THEN p ELSE done[j]]
      BY <2>0, <2>6
    <3>2. \A j \in 1 .. i + 1 : (IF j = i + 1 THEN p ELSE done[j]) = list[j]
      BY <2>0
    <3>3. next = [j \in 1 .. i + 1 |-> list[j]]
      <4> HIDE DEF next, done, p
      <4> QED BY <3>1, <3>2
    <3> QED BY <3>3
  <2>8. i + 1 \in 0 .. n
    BY <1>0, <2>0
  <2> HIDE DEF n, First, p, done
  <2> QED BY <2>5, <2>7, <2>8
<1>4. taken[n] = First(n)
  <2> HIDE DEF n, First
  <2>1. \A i \in 0 .. n - 1 : i \in S => i + 1 \in S
    BY <1>3
  <2> HIDE DEF S
  <2>2. \A i \in 0 .. n : i \in S
    BY <1>0, <1>2, <2>1, IntervalInductive
  <2> QED BY <1>0, <2>2 DEF S
<1> QED BY <1>0, <1>1, <1>4

(***************************************************************************)
(* A list that is in order already is run as it is listed: dependencies    *)
(* alone decide, and what they leave open the list does (scheduler.py      *)
(* 71-100).                                                                *)
(***************************************************************************)
THEOREM ListedOrderStays ==
  ASSUME NEW E, NEW list, IsList(list, E), NEW deps, InOrder(list, deps)
  PROVE  Ordered(list, deps) = list /\ ~Unorderable(list, deps)
<1> DEFINE n == Len(list)
<1>0. list \in Seq(E) /\ n \in Nat /\ DOMAIN list = 1 .. n
  BY DEF IsList
<1>1. PICK after :
        /\ after[0] = <<>>
        /\ \A i \in 1 .. n : after[i] = IF Len(after[i - 1]) = n THEN after[i - 1]
                                        ELSE OnePass(after[i - 1], list, deps)
        /\ Ordered(list, deps) = after[n]
  BY OrderedSteps
<1>2. OnePass(<<>>, list, deps) = list
  BY OnePassTakesAll
<1> DEFINE S == {i \in 0 .. n : i = 0 \/ after[i] = list}
<1>3. ASSUME n = 0 PROVE after[n] = list
  <2>1. list = <<>>
    BY <1>0, <1>3
  <2> QED BY <1>1, <1>3, <2>1
<1>4. ASSUME n # 0 PROVE after[n] = list
  <2>1. 0 \in S
    BY <1>0
  <2>2. ASSUME NEW i \in 0 .. n - 1, i \in S PROVE i + 1 \in S
    <3>1. i + 1 \in 1 .. n /\ i + 1 - 1 = i
      BY <1>0
    <3>2. after[i + 1] = IF Len(after[i]) = n THEN after[i] ELSE OnePass(after[i], list, deps)
      BY <1>1, <3>1
    <3>3. CASE i = 0
      <4>1. Len(<<>>) = 0
        OBVIOUS
      <4>2. after[i] = <<>>
        BY <1>1, <3>3
      <4> QED BY <1>2, <1>4, <3>1, <3>2, <4>1, <4>2
    <3>4. CASE after[i] = list
      BY <3>1, <3>2, <3>4
    <3> QED BY <2>2, <3>3, <3>4
  <2>3. \A i \in 0 .. n : i \in S
    <3> HIDE DEF S, n
    <3> QED BY <1>0, <2>1, <2>2, IntervalInductive
  <2> QED BY <1>0, <1>4, <2>3
<1>5. Ordered(list, deps) = list
  BY <1>1, <1>3, <1>4
<1>6. list \in Orders(list)
  <2>1. list \in [1 .. n -> Range(list)]
    BY <1>0 DEF IsList
  <2> QED BY <1>0, <2>1 DEF Orders
<1> QED BY <1>5, <1>6 DEF Unorderable
=============================================================================
