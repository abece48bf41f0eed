---------------------------- MODULE BoundsProofs ----------------------------
(***************************************************************************)
(* What Bounds states of its operators, for inputs of any length and for   *)
(* every limit.                                                            *)
(***************************************************************************)
EXTENDS Bounds, ListProofs

LEMMA Inputs ==
  ASSUME BoundsAssumption, NEW S, NEW list \in UpTo(S)
  PROVE  Len(list) \in Nat /\ list \in [1 .. Len(list) -> S] /\ DOMAIN list = 1 .. Len(list)
<1>1. PICK n \in 0 .. MaxLength : list \in [1 .. n -> S]
  <2>1. list \in UNION {[1 .. n -> S] : n \in 0 .. MaxLength}
    BY Zenon DEF UpTo
  <2> QED BY <2>1
<1>2. n \in Nat
  BY DEF BoundsAssumption
<1>3. Len(list) = n
  BY <1>1, <1>2
<1> QED BY <1>1, <1>2, <1>3

-----------------------------------------------------------------------------
(* A body.                                                                 *)

Bodies == [bytes : Nat, truncated : BOOLEAN]

LEMMA TotalSteps ==
  ASSUME NEW n \in Nat, NEW chunks \in [1 .. n -> Nat], Len(chunks) = n
  PROVE  \E total \in [0 .. n -> Nat] :
           /\ total[0] = 0
           /\ \A i \in 1 .. n : total[i] = total[i - 1] + chunks[i]
           /\ Total(chunks) = total[n]
<1> DEFINE step == [p \in Nat \X (1 .. n) |-> p[1] + chunks[p[2]]]
           Is(f) == f = [i \in 0 .. n |-> IF i = 0 THEN 0 ELSE f[i - 1] + chunks[i]]
           total == CHOOSE f : Is(f)
<1>1. step \in [Nat \X (1 .. n) -> Nat]
  OBVIOUS
<1>2. PICK f \in [0 .. n -> Nat] : Steps(f, 0, step, n)
  <2> HIDE DEF step
  <2> QED BY <1>1, StepsExist
<1>3. Is(f)
  <2>1. ASSUME NEW i \in 1 .. n PROVE f[i] = f[i - 1] + chunks[i]
    <3>1. f[i - 1] \in Nat /\ f[i] = step[<<f[i - 1], i>>]
      <4> HIDE DEF step
      <4> QED BY <1>2 DEF Steps
    <3> QED BY <3>1
  <2>2. f[0] = 0
    <3> HIDE DEF step
    <3> QED BY <1>2 DEF Steps
  <2> HIDE DEF step
  <2> QED BY <1>2, <2>1, <2>2
<1>4. Is(total)
  <2> HIDE DEF Is
  <2> QED BY <1>3
<1>5. Total(chunks) = total[n]
  BY DEF Total
<1> HIDE DEF total
<1>6. total[0] = 0 /\ \A i \in 1 .. n : total[i] = total[i - 1] + chunks[i]
  BY <1>4
<1> DEFINE S == {j \in Nat : total[j] \in Nat}
<1>7. \A i \in 0 .. n : i \in S
  <2>1. 0 \in S
    BY <1>6
  <2>2. ASSUME NEW i \in 0 .. n - 1, i \in S PROVE i + 1 \in S
    <3>1. i + 1 \in 1 .. n /\ i + 1 - 1 = i
      OBVIOUS
    <3>2. total[i + 1] = total[i] + chunks[i + 1]
      BY <1>6, <3>1
    <3> QED BY <2>2, <3>1, <3>2
  <2> HIDE DEF S
  <2> QED BY <2>1, <2>2, IntervalInductive
<1>8. total \in [0 .. n -> Nat]
  BY <1>4, <1>7
<1> QED BY <1>5, <1>6, <1>8

RetainedBy(kept, n, chunks, declared, max) ==
  /\ kept[0] = [bytes |-> 0, truncated |-> FALSE]
  /\ \A i \in 1 .. n : kept[i] = Retain(kept[i - 1], chunks[i], max)
  /\ Retained(chunks, declared, max) = kept[n]

LEMMA RetainedSteps ==
  ASSUME NEW n \in Nat, NEW chunks \in [1 .. n -> Nat], Len(chunks) = n,
         NEW max \in Nat, NEW declared \in Nat, declared <= max
  PROVE  \E kept : RetainedBy(kept, n, chunks, declared, max)
<1> DEFINE A == [bytes : Int, truncated : BOOLEAN]
           none == [bytes |-> 0, truncated |-> FALSE]
           step == [p \in A \X (1 .. n) |-> Retain(p[1], chunks[p[2]], max)]
           Is(f) == f = [i \in 0 .. n |-> IF i = 0 THEN none ELSE Retain(f[i - 1], chunks[i], max)]
           kept == CHOOSE f : Is(f)
<1>1. step \in [A \X (1 .. n) -> A] /\ none \in A
  BY DEF Retain, Least
<1>2. PICK f \in [0 .. n -> A] : Steps(f, none, step, n)
  <2> HIDE DEF step, A, none
  <2> QED BY <1>1, StepsExist
<1>3. Is(f)
  <2>1. ASSUME NEW i \in 1 .. n PROVE f[i] = Retain(f[i - 1], chunks[i], max)
    <3>1. f[i - 1] \in A /\ f[i] = step[<<f[i - 1], i>>]
      <4> HIDE DEF step, A
      <4> QED BY <1>2 DEF Steps
    <3> HIDE DEF A
    <3> QED BY <3>1
  <2>2. f[0] = none
    <3> HIDE DEF step, none
    <3> QED BY <1>2 DEF Steps
  <2> HIDE DEF step, A, none
  <2> QED BY <1>2, <2>1, <2>2
<1>4. Is(kept)
  <2> HIDE DEF Is
  <2> QED BY <1>3
<1>5. Retained(chunks, declared, max) = kept[n]
  BY DEF Retained
<1> HIDE DEF kept
<1>6. kept[0] = none /\ \A i \in 1 .. n : kept[i] = Retain(kept[i - 1], chunks[i], max)
  <2> HIDE DEF step, A, none
  <2> QED BY <1>4
<1> QED BY <1>5, <1>6 DEF RetainedBy

\* Until it is truncated, a body is kept whole.
LEMMA BodyRetained ==
  ASSUME NEW n \in Nat, NEW chunks \in [1 .. n -> Nat], Len(chunks) = n,
         NEW max \in Nat, NEW declared \in Nat
  PROVE  LET body == Total(chunks)
             kept == Retained(chunks, declared, max)
         IN  /\ kept.bytes <= max
             /\ declared <= max => /\ kept.bytes = Least(body, max)
                                   /\ kept.truncated <=> body > max
<1>1. CASE declared > max
  <2>1. Retained(chunks, declared, max) = [bytes |-> 0, truncated |-> TRUE]
    BY <1>1 DEF Retained
  <2> QED BY <1>1, <2>1
<1>2. CASE declared <= max
  <2>1. PICK total \in [0 .. n -> Nat] :
          /\ total[0] = 0
          /\ \A i \in 1 .. n : total[i] = total[i - 1] + chunks[i]
          /\ Total(chunks) = total[n]
    BY TotalSteps
  <2>2. PICK kept : RetainedBy(kept, n, chunks, declared, max)
    BY <1>2, RetainedSteps
  <2> DEFINE Right(body, whole) ==
               /\ body \in Bodies /\ body.bytes = Least(whole, max)
               /\ body.truncated <=> whole > max
             S == {i \in Nat : Right(kept[i], total[i])}
  <2>3. 0 \in S
    <3>1. kept[0].bytes = 0 /\ kept[0].truncated = FALSE /\ kept[0] \in Bodies
      BY <2>2 DEF Bodies, RetainedBy
    <3>2. total[0] = 0 /\ Least(0, max) = 0 /\ ~(0 > max)
      BY <2>1 DEF Least
    <3>3. Right(kept[0], total[0])
      BY <3>1, <3>2
    <3> QED BY <3>3
  <2>4. ASSUME NEW i \in 0 .. n - 1, i \in S PROVE i + 1 \in S
    <3>1. i + 1 \in 1 .. n /\ i + 1 - 1 = i /\ i \in 0 .. n /\ i + 1 \in 0 .. n
      OBVIOUS
    <3>2. /\ total[i] \in Nat /\ chunks[i + 1] \in Nat
          /\ total[i + 1] = total[i] + chunks[i + 1]
          /\ kept[i + 1] = Retain(kept[i], chunks[i + 1], max)
      BY <2>1, <2>2, <3>1 DEF RetainedBy
    <3>3. Right(kept[i], total[i])
      BY <2>4
    <3>4. CASE kept[i].truncated
      <4>1. total[i] > max /\ kept[i + 1] = kept[i]
        BY <3>2, <3>3, <3>4 DEF Retain
      <4>2. total[i + 1] > max
        BY <3>2, <4>1
      <4> QED BY <3>2, <3>3, <4>1, <4>2, SMTT(30) DEF Least
    <3>5. CASE ~kept[i].truncated
      <4>1. total[i] <= max /\ kept[i].bytes = total[i]
        BY <3>2, <3>3, <3>5 DEF Least
      <4>2. kept[i + 1] = [bytes     |-> total[i] + Least(chunks[i + 1], max - total[i]),
                           truncated |-> chunks[i + 1] > max - total[i]]
        BY <3>2, <3>5, <4>1 DEF Retain
      <4>3. total[i] + Least(chunks[i + 1], max - total[i]) = Least(total[i + 1], max)
        BY <3>2, <4>1 DEF Least
      <4>4. (chunks[i + 1] > max - total[i]) <=> (total[i + 1] > max)
        BY <3>2, <4>1
      <4>5. Least(total[i + 1], max) \in Nat
        BY <3>2 DEF Least
      <4>6. kept[i + 1] \in Bodies /\ kept[i + 1].bytes = Least(total[i + 1], max)
        BY <4>2, <4>3, <4>5 DEF Bodies
      <4>7. kept[i + 1].truncated <=> total[i + 1] > max
        <5>1. kept[i + 1].truncated = (chunks[i + 1] > max - total[i])
          BY <4>2
        <5> QED BY <4>4, <5>1
      <4> QED BY <4>6, <4>7
    <3> QED BY <3>4, <3>5
  <2>5. n \in S
    <3> HIDE DEF S
    <3>1. \A i \in 0 .. n : i \in S
      BY <2>3, <2>4, IntervalInductive
    <3> QED BY <3>1
  <2>6. Right(Retained(chunks, declared, max), Total(chunks))
    BY <2>1, <2>2, <2>5 DEF RetainedBy
  <2>7. Total(chunks) \in Nat
    BY <2>1
  <2>8. Least(Total(chunks), max) <= max
    BY <2>7 DEF Least
  <2> QED BY <1>2, <2>6, <2>8
<1> QED BY <1>1, <1>2

LEMMA BodiesBounded == BoundsAssumption => BodiesRetained
<1> SUFFICES ASSUME BoundsAssumption, NEW chunks \in UpTo(1 .. 2),
                    NEW declared \in 0 .. MaxLimit + 1, NEW max \in 0 .. MaxLimit
             PROVE  LET body == Total(chunks)
                        kept == Retained(chunks, declared, max)
                    IN  /\ kept.bytes <= max
                        /\ declared <= max => /\ kept.bytes = Least(body, max)
                                              /\ kept.truncated <=> body > max
  BY DEF BodiesRetained
<1>1. Len(chunks) \in Nat /\ chunks \in [1 .. Len(chunks) -> Nat]
  <2>1. Len(chunks) \in Nat /\ chunks \in [1 .. Len(chunks) -> 1 .. 2]
    BY Inputs
  <2> QED BY <2>1
<1>2. declared \in Nat /\ max \in Nat
  BY DEF BoundsAssumption
<1> QED BY <1>1, <1>2, BodyRetained

-----------------------------------------------------------------------------
(* A list.                                                                 *)

LEMMA CountNext ==
  ASSUME NEW i \in Nat, NEW S
  PROVE  /\ IsFiniteSet(S \cap (1 .. i)) /\ Cardinality(S \cap (1 .. i)) \in Nat
         /\ Cardinality(S \cap (1 .. i + 1)) = Cardinality(S \cap (1 .. i)) + IF i + 1 \in S THEN 1 ELSE 0
<1>1. IsFiniteSet(S \cap (1 .. i))
  <2>1. IsFiniteSet(1 .. i)
    BY FS_Interval
  <2>2. S \cap (1 .. i) \in SUBSET (1 .. i)
    OBVIOUS
  <2> QED BY <2>1, <2>2, FS_Subset
<1>2. Cardinality(S \cap (1 .. i)) \in Nat
  BY <1>1, FS_CardinalityType
<1>3. CASE i + 1 \in S
  <2>1. S \cap (1 .. i + 1) = (S \cap (1 .. i)) \cup {i + 1} /\ i + 1 \notin S \cap (1 .. i)
    BY <1>3
  <2>2. Cardinality((S \cap (1 .. i)) \cup {i + 1}) = Cardinality(S \cap (1 .. i)) + 1
    BY <1>1, <2>1, FS_AddElement
  <2> QED BY <1>1, <1>2, <1>3, <2>1, <2>2
<1>4. CASE i + 1 \notin S
  <2>1. S \cap (1 .. i + 1) = S \cap (1 .. i)
    BY <1>4
  <2> QED BY <1>1, <1>2, <1>4, <2>1
<1> QED BY <1>3, <1>4

Loads(V) == [accepted : Seq(V), rejected : Nat, duplicates : Nat, refused : BOOLEAN]

LoadedBy(loaded, n, lines, max) ==
  /\ loaded[0] = NothingLoaded
  /\ \A i \in 1 .. n : loaded[i] = LoadLine(loaded[i - 1], lines[i], max)
  /\ LoadList(lines, max) = loaded[n]

LEMMA LoadLineType ==
  ASSUME NEW V, NEW max \in Nat
  PROVE  /\ NothingLoaded \in Loads(V)
         /\ \A loaded \in Loads(V), line \in V : LoadLine(loaded, line, max) \in Loads(V)
<1>1. NothingLoaded \in Loads(V)
  BY DEF NothingLoaded, Loads
<1>2. ASSUME NEW loaded \in Loads(V), NEW line \in V
      PROVE  LoadLine(loaded, line, max) \in Loads(V)
  <2>1. /\ loaded.accepted \in Seq(V) /\ loaded.rejected \in Nat
        /\ loaded.duplicates \in Nat /\ loaded.refused \in BOOLEAN
    BY DEF Loads
  <2>2. Append(loaded.accepted, line) \in Seq(V)
    BY <2>1
  <2>3. [loaded EXCEPT !.rejected = @ + 1] \in Loads(V)
    BY <2>1 DEF Loads
  <2>4. [loaded EXCEPT !.duplicates = @ + 1] \in Loads(V)
    BY <2>1 DEF Loads
  <2>5. [loaded EXCEPT !.refused = TRUE] \in Loads(V)
    BY <2>1 DEF Loads
  <2>6. [loaded EXCEPT !.accepted = Append(@, line)] \in Loads(V)
    BY <2>2 DEF Loads
  <2> QED BY <2>3, <2>4, <2>5, <2>6 DEF LoadLine
<1> QED BY <1>1, <1>2

LEMMA LoadSteps ==
  ASSUME NEW n \in Nat, NEW V, NEW lines \in [1 .. n -> V], Len(lines) = n, NEW max \in Nat
  PROVE  \E loaded : LoadedBy(loaded, n, lines, max)
<1> DEFINE A == Loads(V)
           step == [p \in A \X (1 .. n) |-> LoadLine(p[1], lines[p[2]], max)]
           Is(f) == f = [i \in 0 .. n |-> IF i = 0 THEN NothingLoaded ELSE LoadLine(f[i - 1], lines[i], max)]
           loaded == CHOOSE f : Is(f)
<1>1. step \in [A \X (1 .. n) -> A] /\ NothingLoaded \in A
  <2> HIDE DEF A
  <2>1. NothingLoaded \in A /\ \A a \in A, line \in V : LoadLine(a, line, max) \in A
    BY LoadLineType DEF A
  <2> QED BY <2>1
<1>2. PICK f \in [0 .. n -> A] : Steps(f, NothingLoaded, step, n)
  <2> HIDE DEF step, A
  <2> QED BY <1>1, StepsExist
<1>3. Is(f)
  <2>1. ASSUME NEW i \in 1 .. n PROVE f[i] = LoadLine(f[i - 1], lines[i], max)
    <3>1. f[i - 1] \in A /\ f[i] = step[<<f[i - 1], i>>]
      <4> HIDE DEF step, A
      <4> QED BY <1>2 DEF Steps
    <3> HIDE DEF A
    <3> QED BY <3>1
  <2>2. f[0] = NothingLoaded
    <3> HIDE DEF step
    <3> QED BY <1>2 DEF Steps
  <2> HIDE DEF step, A
  <2> QED BY <1>2, <2>1, <2>2
<1>4. Is(loaded)
  <2> HIDE DEF Is
  <2> QED BY <1>3
<1>5. LoadList(lines, max) = loaded[n]
  BY DEF LoadList
<1> HIDE DEF loaded
<1>6. /\ loaded[0] = NothingLoaded
      /\ \A i \in 1 .. n : loaded[i] = LoadLine(loaded[i - 1], lines[i], max)
  <2> HIDE DEF step, A
  <2> QED BY <1>4
<1> QED BY <1>5, <1>6 DEF LoadedBy

\* What a list of lines has been loaded into, of which these are the values
\* and so many are not blank.
Accounts(loaded, V, values, full, max) ==
  /\ loaded \in Loads(V)
  /\ \A j, k \in DOMAIN loaded.accepted : loaded.accepted[j] = loaded.accepted[k] => j = k
  /\ loaded.refused => Cardinality(values) > max
  /\ ~loaded.refused =>
       /\ Range(loaded.accepted) = values /\ Len(loaded.accepted) <= max
       /\ Len(loaded.accepted) + loaded.rejected + loaded.duplicates = full

LEMMA LoadLineAccounts ==
  ASSUME NEW V, NEW max \in Nat, NEW loaded, NEW values, IsFiniteSet(values), NEW full \in Nat,
         Accounts(loaded, V, values, full, max), NEW line \in V
  PROVE  Accounts(LoadLine(loaded, line, max), V, values \cup ({line} \ {Blank, Bad}),
                  IF line = Blank THEN full ELSE full + 1, max)
<1> DEFINE next == LoadLine(loaded, line, max)
           more == values \cup ({line} \ {Blank, Bad})
<1>0. loaded \in Loads(V) /\ next \in Loads(V)
  BY LoadLineType DEF Accounts
<1>1. CASE loaded.refused
  <2>1. next = loaded
    BY <1>1 DEF LoadLine
  <2>2. IsFiniteSet(more) /\ values \in SUBSET more
    <3>1. IsFiniteSet({line} \ {Blank, Bad})
      BY FS_Singleton, FS_Subset
    <3> QED BY <3>1, FS_Union
  <2>3. Cardinality(values) <= Cardinality(more)
    BY <2>2, FS_Subset
  <2>4. Cardinality(values) \in Nat /\ Cardinality(more) \in Nat
    BY <2>2, FS_CardinalityType
  <2> HIDE DEF more
  <2>5. Cardinality(values) > max
    BY <1>1 DEF Accounts
  <2>6. Cardinality(more) > max
    BY <2>3, <2>4, <2>5
  <2> QED BY <1>1, <2>1, <2>6 DEF Accounts, more
<1>2. CASE ~loaded.refused /\ line = Blank
  <2>1. next = loaded /\ more = values
    BY <1>2 DEF LoadLine
  <2> HIDE DEF next, more
  <2> QED BY <1>2, <2>1 DEF next, more
<1>3. CASE ~loaded.refused /\ line # Blank /\ line = Bad
  <2>1. next = [loaded EXCEPT !.rejected = @ + 1] /\ more = values
    BY <1>3 DEF LoadLine
  <2>2. /\ next.accepted = loaded.accepted /\ next.refused = loaded.refused
        /\ next.duplicates = loaded.duplicates /\ next.rejected = loaded.rejected + 1
    BY <1>0, <2>1 DEF Loads
  <2>3. Len(loaded.accepted) \in Nat /\ loaded.rejected \in Nat /\ loaded.duplicates \in Nat
    BY <1>0 DEF Loads
  <2>4. /\ \A j, k \in DOMAIN loaded.accepted : loaded.accepted[j] = loaded.accepted[k] => j = k
        /\ Range(loaded.accepted) = values /\ Len(loaded.accepted) <= max
        /\ Len(loaded.accepted) + loaded.rejected + loaded.duplicates = full
    BY <1>3 DEF Accounts
  <2> HIDE DEF next, more
  <2>5. Len(next.accepted) + next.rejected + next.duplicates = full + 1
    BY <2>2, <2>3, <2>4, SMTT(30)
  <2>6. ~next.refused /\ next \in Loads(V) /\ more = values
    BY <1>0, <1>3, <2>1, <2>2
  <2>7. Accounts(next, V, more, full + 1, max)
    BY <2>2, <2>4, <2>5, <2>6 DEF Accounts
  <2> QED BY <1>3, <2>7 DEF next, more
<1>4. CASE ~loaded.refused /\ line \notin {Blank, Bad} /\ line \in Range(loaded.accepted)
  <2>1. next = [loaded EXCEPT !.duplicates = @ + 1] /\ more = values
    BY <1>4 DEF LoadLine, Accounts
  <2>2. /\ next.accepted = loaded.accepted /\ next.refused = loaded.refused
        /\ next.duplicates = loaded.duplicates + 1 /\ next.rejected = loaded.rejected
    BY <1>0, <2>1 DEF Loads
  <2>3. Len(loaded.accepted) \in Nat /\ loaded.rejected \in Nat /\ loaded.duplicates \in Nat
    BY <1>0 DEF Loads
  <2>4. /\ \A j, k \in DOMAIN loaded.accepted : loaded.accepted[j] = loaded.accepted[k] => j = k
        /\ Range(loaded.accepted) = values /\ Len(loaded.accepted) <= max
        /\ Len(loaded.accepted) + loaded.rejected + loaded.duplicates = full
    BY <1>4 DEF Accounts
  <2> HIDE DEF next, more
  <2>5. Len(next.accepted) + next.rejected + next.duplicates = full + 1
    BY <2>2, <2>3, <2>4, SMTT(30)
  <2>6. ~next.refused /\ next \in Loads(V) /\ more = values
    BY <1>0, <1>4, <2>1, <2>2
  <2>7. Accounts(next, V, more, full + 1, max)
    BY <2>2, <2>4, <2>5, <2>6 DEF Accounts
  <2> QED BY <1>4, <2>7 DEF next, more
<1>5. CASE ~loaded.refused /\ line \notin {Blank, Bad} /\ line \notin Range(loaded.accepted)
  <2> DEFINE list == loaded.accepted
  <2>1. /\ list \in Seq(V) /\ Len(list) \in Nat /\ DOMAIN list = 1 .. Len(list)
        /\ list \in [1 .. Len(list) -> V]
        /\ loaded.rejected \in Nat /\ loaded.duplicates \in Nat
    BY <1>0 DEF Loads
  <2>2. /\ Range(list) = values /\ Len(list) <= max /\ more = values \cup {line}
        /\ \A j, k \in 1 .. Len(list) : list[j] = list[k] => j = k
        /\ Len(list) + loaded.rejected + loaded.duplicates = full
    BY <1>5, <2>1 DEF Accounts
  <2>3. Cardinality(values) = Len(list)
    <3> HIDE DEF list
    <3>1. IsFiniteSet(Range(list)) /\ Cardinality(Range(list)) = Len(list)
      BY <2>1, <2>2, RangeCounts
    <3> QED BY <2>2, <3>1
  <2>4. Cardinality(more) = Len(list) + 1
    <3> HIDE DEF list, more
    <3>1. line \notin values
      BY <1>5, <2>2 DEF list
    <3> QED BY <2>2, <2>3, <3>1, FS_AddElement
  <2>5. CASE Len(list) >= max
    <3>1. next = [loaded EXCEPT !.refused = TRUE]
      BY <1>5, <2>5 DEF LoadLine
    <3>2. next.accepted = list /\ next.refused = TRUE
      BY <1>0, <3>1 DEF Loads
    <3>3. Cardinality(more) > max
      BY <2>1, <2>4, <2>5
    <3> HIDE DEF next, more, list
    <3>4. Accounts(next, V, more, full + 1, max)
      BY <1>0, <2>1, <2>2, <3>2, <3>3 DEF Accounts
    <3> QED BY <1>5, <3>4 DEF next, more
  <2>6. CASE Len(list) < max
    <3>1. next = [loaded EXCEPT !.accepted = Append(@, line)]
      BY <1>5, <2>1, <2>6 DEF LoadLine
    <3>2. /\ next.accepted = Append(list, line) /\ next.refused = loaded.refused
          /\ next.rejected = loaded.rejected /\ next.duplicates = loaded.duplicates
      BY <1>0, <3>1 DEF Loads
    <3> HIDE DEF list
    <3>3. /\ DOMAIN Append(list, line) = 1 .. Len(list) + 1 /\ Len(Append(list, line)) = Len(list) + 1
          /\ Append(list, line)[Len(list) + 1] = line
          /\ \A k \in 1 .. Len(list) : Append(list, line)[k] = list[k]
      BY <2>1
    <3>4. Range(Append(list, line)) = Range(list) \cup {line}
      BY <2>1, <3>3 DEF Range
    <3>5. \A j, k \in 1 .. Len(list) + 1 : Append(list, line)[j] = Append(list, line)[k] => j = k
      <4>1. \A k \in 1 .. Len(list) : list[k] # line
        BY <1>5, <2>1 DEF Range, list
      <4>2. \A k \in 1 .. Len(list) + 1 : k = Len(list) + 1 \/ k \in 1 .. Len(list)
        BY <2>1
      <4> QED BY <2>2, <3>3, <4>1, <4>2
    <3> HIDE DEF next, more
    <3>6. Len(list) + 1 <= max /\ Len(list) + 1 + loaded.rejected + loaded.duplicates = full + 1
      BY <2>1, <2>2, <2>6
    <3>7. Accounts(next, V, more, full + 1, max)
      BY <1>0, <1>5, <2>2, <3>2, <3>3, <3>4, <3>5, <3>6 DEF Accounts
    <3> QED BY <1>5, <3>7 DEF next, more
  <2> QED BY <2>1, <2>5, <2>6
<1> QED BY <1>1, <1>2, <1>3, <1>4, <1>5

\* A list is refused if it has more values than allowed, and has them all
\* otherwise; every line that is not blank is counted once.
LEMMA ListLoaded ==
  ASSUME NEW n \in Nat, NEW V, NEW lines \in [1 .. n -> V], Len(lines) = n, NEW max \in Nat
  PROVE  LET loaded == LoadList(lines, max)
             values == Range(lines) \ {Blank, Bad}
             blanks == Cardinality({i \in DOMAIN lines : lines[i] = Blank})
         IN  /\ IsFiniteSet(values)
             /\ loaded \in Loads(V)
             /\ loaded.refused <=> Cardinality(values) > max
             /\ ~loaded.refused =>
                  /\ Range(loaded.accepted) = values /\ IsInjective(loaded.accepted)
                  /\ Len(loaded.accepted) + loaded.rejected + loaded.duplicates = Len(lines) - blanks
<1>1. PICK loaded : LoadedBy(loaded, n, lines, max)
  BY LoadSteps
<1> DEFINE Values(i) == {lines[j] : j \in 1 .. i} \ {Blank, Bad}
           B == {j \in 1 .. n : lines[j] = Blank}
           Full(i) == i - Cardinality(B \cap (1 .. i))
           Right(i) == /\ IsFiniteSet(Values(i)) /\ Full(i) \in Nat
                       /\ Accounts(loaded[i], V, Values(i), Full(i), max)
           S == {i \in Nat : Right(i)}
<1>2. 0 \in S
  <2>1. Values(0) = {} /\ B \cap (1 .. 0) = {}
    OBVIOUS
  <2>2. IsFiniteSet({}) /\ Cardinality({}) = 0
    BY FS_EmptySet
  <2>3. Full(0) = 0
    BY <2>1, <2>2
  <2>4. NothingLoaded \in Loads(V)
    BY LoadLineType
  <2>5. Accounts(NothingLoaded, V, {}, 0, max)
    BY <2>4 DEF Accounts, NothingLoaded, Range
  <2>6. loaded[0] = NothingLoaded
    BY <1>1 DEF LoadedBy
  <2>7. Values(0) = {} /\ IsFiniteSet(Values(0))
    BY <2>1, <2>2
  <2> HIDE DEF Values, Full
  <2>8. Right(0)
    BY <2>3, <2>5, <2>6, <2>7
  <2> QED BY <2>8
<1>3. ASSUME NEW i \in 0 .. n - 1, i \in S PROVE i + 1 \in S
  <2>1. i + 1 \in 1 .. n /\ i + 1 - 1 = i /\ i \in Nat /\ i + 1 \in Nat
    OBVIOUS
  <2>2. loaded[i + 1] = LoadLine(loaded[i], lines[i + 1], max) /\ lines[i + 1] \in V
    BY <1>1, <2>1 DEF LoadedBy
  <2>3. Values(i + 1) = Values(i) \cup ({lines[i + 1]} \ {Blank, Bad})
    <3>1. 1 .. i + 1 = (1 .. i) \cup {i + 1}
      BY <2>1
    <3> QED BY <3>1
  <2>4. Full(i + 1) = IF lines[i + 1] = Blank THEN Full(i) ELSE Full(i) + 1
    <3>1. i + 1 \in B <=> lines[i + 1] = Blank
      BY <2>1
    <3> HIDE DEF B
    <3>2. /\ Cardinality(B \cap (1 .. i)) \in Nat
          /\ Cardinality(B \cap (1 .. i + 1)) = Cardinality(B \cap (1 .. i)) + IF i + 1 \in B THEN 1 ELSE 0
      BY <2>1, CountNext
    <3> QED BY <2>1, <3>1, <3>2
  <2>5. IsFiniteSet(Values(i)) /\ Full(i) \in Nat /\ Accounts(loaded[i], V, Values(i), Full(i), max)
    BY <1>3
  <2> HIDE DEF Values, Full, B
  <2>6. Accounts(loaded[i + 1], V, Values(i + 1), Full(i + 1), max)
    <3>1. \A line \in V :
            Accounts(LoadLine(loaded[i], line, max), V, Values(i) \cup ({line} \ {Blank, Bad}),
                     IF line = Blank THEN Full(i) ELSE Full(i) + 1, max)
      BY <2>5, LoadLineAccounts
    <3> QED BY <2>2, <2>3, <2>4, <3>1
  <2>7. IsFiniteSet(Values(i + 1))
    <3> DEFINE line == lines[i + 1]
    <3>0. IsFiniteSet({line}) /\ {line} \ {Blank, Bad} \in SUBSET {line}
      BY FS_Singleton
    <3>1. IsFiniteSet({line} \ {Blank, Bad})
      BY <3>0, FS_Subset
    <3> QED BY <2>3, <2>5, <3>1, FS_Union
  <2>8. Full(i + 1) \in Nat
    BY <2>4, <2>5
  <2> QED BY <2>1, <2>6, <2>7, <2>8
<1>4. n \in S
  <2> HIDE DEF S
  <2>1. \A i \in 0 .. n : i \in S
    BY <1>2, <1>3, IntervalInductive
  <2> QED BY <2>1
<1>5. loaded[n] = LoadList(lines, max) /\ DOMAIN lines = 1 .. n
  BY <1>1 DEF LoadedBy
<1>6. Values(n) = Range(lines) \ {Blank, Bad}
  BY <1>5 DEF Range
<1>7. Full(n) = Len(lines) - Cardinality({i \in DOMAIN lines : lines[i] = Blank})
  <2>1. B \cap (1 .. n) = {i \in DOMAIN lines : lines[i] = Blank}
    BY <1>5
  <2> QED BY <2>1
<1> DEFINE list == LoadList(lines, max)
           values == Range(lines) \ {Blank, Bad}
<1>8. IsFiniteSet(values) /\ Accounts(list, V, values, Full(n), max)
  BY <1>4, <1>5, <1>6
<1> HIDE DEF list, values, Full
<1>9. ASSUME ~list.refused PROVE Cardinality(values) <= max
  <2>1. /\ list.accepted \in Seq(V) /\ Range(list.accepted) = values /\ Len(list.accepted) <= max
        /\ \A j, k \in DOMAIN list.accepted : list.accepted[j] = list.accepted[k] => j = k
    BY <1>8, <1>9 DEF Accounts, Loads
  <2>2. /\ Len(list.accepted) \in Nat /\ DOMAIN list.accepted = 1 .. Len(list.accepted)
        /\ list.accepted \in [1 .. Len(list.accepted) -> V]
    BY <2>1
  <2>3. Cardinality(Range(list.accepted)) = Len(list.accepted)
    BY <2>1, <2>2, RangeCounts
  <2> QED BY <2>1, <2>3
<1>10. Cardinality(values) \in Nat
  BY <1>8, FS_CardinalityType
<1>11. list.refused <=> Cardinality(values) > max
  BY <1>8, <1>9, <1>10 DEF Accounts
<1>12. list \in Loads(V)
  BY <1>8 DEF Accounts
<1>13. ASSUME ~list.refused
       PROVE  /\ Range(list.accepted) = values /\ IsInjective(list.accepted)
              /\ Len(list.accepted) + list.rejected + list.duplicates = Full(n)
  BY <1>8, <1>13 DEF Accounts, IsInjective
<1> QED BY <1>7, <1>8, <1>11, <1>12, <1>13 DEF list, values

LEMMA ListsBounded == BoundsAssumption => ListsLoaded
<1> SUFFICES ASSUME BoundsAssumption, NEW lines \in UpTo({Blank, Bad, "a", "b", "c"}), NEW max \in Limits
             PROVE  LET loaded == LoadList(lines, max)
                        values == Range(lines) \ {Blank, Bad}
                        Count(line) == Cardinality({i \in DOMAIN lines : lines[i] = line})
                    IN  /\ loaded.refused <=> Cardinality(values) > max
                        /\ ~loaded.refused =>
                             /\ Range(loaded.accepted) = values /\ IsInjective(loaded.accepted)
                             /\ Len(loaded.accepted) + loaded.rejected + loaded.duplicates
                                  = Len(lines) - Count(Blank)
  BY DEF ListsLoaded
<1>1. Len(lines) \in Nat /\ lines \in [1 .. Len(lines) -> {Blank, Bad, "a", "b", "c"}]
  BY Inputs
<1>2. max \in Nat
  BY DEF BoundsAssumption, Limits
<1> QED BY <1>1, <1>2, ListLoaded

-----------------------------------------------------------------------------
(* The first candidates of a list.                                         *)

CollectedBy(found, n, lines, max) ==
  /\ found[0] = <<>>
  /\ \A i \in 1 .. n : found[i] = Collect(found[i - 1], lines[i], max)
  /\ FirstCandidates(lines, max) = found[n]

LEMMA CollectSteps ==
  ASSUME NEW n \in Nat, NEW V, NEW lines \in [1 .. n -> V], Len(lines) = n, NEW max \in Nat
  PROVE  \E found : CollectedBy(found, n, lines, max)
<1> DEFINE A == Seq(V)
           step == [p \in A \X (1 .. n) |-> Collect(p[1], lines[p[2]], max)]
           Is(f) == f = [i \in 0 .. n |-> IF i = 0 THEN <<>> ELSE Collect(f[i - 1], lines[i], max)]
           found == CHOOSE f : Is(f)
<1>1. step \in [A \X (1 .. n) -> A] /\ <<>> \in A
  <2>1. \A a \in A, line \in V : Collect(a, line, max) \in A
    BY DEF Collect
  <2>2. <<>> \in A
    OBVIOUS
  <2> HIDE DEF A
  <2> QED BY <2>1, <2>2
<1>2. PICK f \in [0 .. n -> A] : Steps(f, <<>>, step, n)
  <2> HIDE DEF step, A
  <2> QED BY <1>1, StepsExist
<1>3. Is(f)
  <2>1. ASSUME NEW i \in 1 .. n PROVE f[i] = Collect(f[i - 1], lines[i], max)
    <3>1. f[i - 1] \in A /\ f[i] = step[<<f[i - 1], i>>]
      <4> HIDE DEF step, A
      <4> QED BY <1>2 DEF Steps
    <3> HIDE DEF A
    <3> QED BY <3>1
  <2>2. f[0] = <<>>
    <3> HIDE DEF step
    <3> QED BY <1>2 DEF Steps
  <2> HIDE DEF step, A
  <2> QED BY <1>2, <2>1, <2>2
<1>4. Is(found)
  <2> HIDE DEF Is
  <2> QED BY <1>3
<1>5. FirstCandidates(lines, max) = found[n]
  BY DEF FirstCandidates
<1> HIDE DEF found
<1>6. /\ found[0] = <<>>
      /\ \A i \in 1 .. n : found[i] = Collect(found[i - 1], lines[i], max)
  <2> HIDE DEF step, A
  <2> QED BY <1>4
<1> QED BY <1>5, <1>6 DEF CollectedBy

\* What has been collected of lines with these values.
Gathers(found, V, values, max) ==
  /\ found \in Seq(V) /\ Len(found) <= max
  /\ \A j, k \in DOMAIN found : found[j] = found[k] => j = k
  /\ Range(found) \subseteq values
  /\ Len(found) < max => Range(found) = values

LEMMA CollectGathers ==
  ASSUME NEW V, NEW max \in Nat, NEW found, NEW values, Gathers(found, V, values, max), NEW line \in V
  PROVE  Gathers(Collect(found, line, max), V, values \cup ({line} \ {Blank, Bad}), max)
<1> DEFINE more == values \cup ({line} \ {Blank, Bad})
<1>1. /\ found \in Seq(V) /\ Len(found) <= max /\ Len(found) \in Nat
      /\ \A j, k \in DOMAIN found : found[j] = found[k] => j = k
      /\ Range(found) \subseteq values
      /\ Len(found) < max => Range(found) = values
  BY DEF Gathers
<1>2. CASE line \in {Blank, Bad} \/ line \in Range(found) \/ Len(found) >= max
  <2>1. Collect(found, line, max) = found
    BY <1>2 DEF Collect
  <2>2. Range(found) \subseteq more /\ (Len(found) < max => Range(found) = more)
    BY <1>1, <1>2
  <2> HIDE DEF more
  <2>3. Gathers(found, V, more, max)
    BY <1>1, <2>2 DEF Gathers
  <2> QED BY <2>1, <2>3 DEF more
<1>3. CASE line \notin {Blank, Bad} /\ line \notin Range(found) /\ Len(found) < max
  <2> DEFINE next == Append(found, line)
  <2>1. Collect(found, line, max) = next
    BY <1>1, <1>3 DEF Collect
  <2>2. /\ next \in Seq(V) /\ Len(next) = Len(found) + 1 /\ DOMAIN next = 1 .. Len(found) + 1
        /\ DOMAIN found = 1 .. Len(found)
        /\ \A j \in 1 .. Len(found) : next[j] = found[j]
        /\ next[Len(found) + 1] = line
    BY <1>1
  <2>3. \A j \in DOMAIN found : found[j] # line
    BY <1>3 DEF Range
  <2> HIDE DEF next
  <2>4. Range(next) = Range(found) \cup {line}
    <3>1. ASSUME NEW v \in Range(next) PROVE v \in Range(found) \cup {line}
      <4>1. PICK j \in DOMAIN next : v = next[j]
        BY DEF Range
      <4> QED BY <1>1, <2>2, <4>1 DEF Range
    <3>2. ASSUME NEW v \in Range(found) PROVE v \in Range(next)
      <4>1. PICK j \in DOMAIN found : v = found[j]
        BY DEF Range
      <4>2. j \in DOMAIN next /\ next[j] = v
        BY <1>1, <2>2, <4>1
      <4> QED BY <4>2 DEF Range
    <3>3. line \in Range(next)
      <4>1. Len(found) + 1 \in DOMAIN next
        BY <1>1, <2>2
      <4> QED BY <2>2, <4>1 DEF Range
    <3> QED BY <3>1, <3>2, <3>3
  <2>5. more = values \cup {line}
    BY <1>3
  <2>6. ASSUME NEW j \in DOMAIN next, NEW k \in DOMAIN next, next[j] = next[k] PROVE j = k
    BY <1>1, <2>2, <2>3, <2>6
  <2> HIDE DEF more
  <2>7. Range(next) \subseteq more /\ Range(next) = more
    BY <1>1, <1>3, <2>4, <2>5
  <2>8. Gathers(next, V, more, max)
    BY <1>1, <1>3, <2>2, <2>6, <2>7 DEF Gathers
  <2> QED BY <2>1, <2>8 DEF more
<1> QED BY <1>1, <1>2, <1>3

\* All the values, or as many of them as the bound allows, each once.
CandidatesTaken(lines, max) ==
  LET found  == FirstCandidates(lines, max)
      values == Range(lines) \ {Blank, Bad}
  IN  /\ Range(found) \subseteq values /\ IsInjective(found)
      /\ Len(found) = Least(max, Cardinality(values))

LEMMA CandidatesTakenFrom ==
  ASSUME NEW n \in Nat, NEW V, NEW lines \in [1 .. n -> V], Len(lines) = n, NEW max \in Nat
  PROVE  FirstCandidates(lines, max) \in Seq(V) /\ CandidatesTaken(lines, max)
<1>1. PICK found : CollectedBy(found, n, lines, max)
  BY CollectSteps
<1> DEFINE Values(i) == {lines[j] : j \in 1 .. i} \ {Blank, Bad}
           Right(i) == IsFiniteSet(Values(i)) /\ Gathers(found[i], V, Values(i), max)
           S == {i \in Nat : Right(i)}
<1>2. 0 \in S
  <2>0. Values(0) = {}
    OBVIOUS
  <2>1. Values(0) = {} /\ IsFiniteSet(Values(0))
    BY <2>0, FS_EmptySet
  <2>2. found[0] = <<>>
    BY <1>1 DEF CollectedBy
  <2>3. Gathers(<<>>, V, {}, max)
    BY DEF Gathers, Range
  <2> HIDE DEF Values
  <2> QED BY <2>1, <2>2, <2>3
<1>3. ASSUME NEW i \in 0 .. n - 1, i \in S PROVE i + 1 \in S
  <2>1. i + 1 \in 1 .. n /\ i + 1 - 1 = i /\ i \in Nat /\ i + 1 \in Nat
    OBVIOUS
  <2>2. found[i + 1] = Collect(found[i], lines[i + 1], max) /\ lines[i + 1] \in V
    BY <1>1, <2>1 DEF CollectedBy
  <2>3. Values(i + 1) = Values(i) \cup ({lines[i + 1]} \ {Blank, Bad})
    <3>1. 1 .. i + 1 = (1 .. i) \cup {i + 1}
      BY <2>1
    <3> QED BY <3>1
  <2>4. IsFiniteSet(Values(i)) /\ Gathers(found[i], V, Values(i), max)
    BY <1>3
  <2> HIDE DEF Values
  <2>5. Gathers(found[i + 1], V, Values(i + 1), max)
    BY <2>2, <2>3, <2>4, CollectGathers
  <2>6. IsFiniteSet(Values(i + 1))
    <3>1. IsFiniteSet({lines[i + 1]}) /\ {lines[i + 1]} \ {Blank, Bad} \in SUBSET {lines[i + 1]}
      BY FS_Singleton
    <3>2. IsFiniteSet({lines[i + 1]} \ {Blank, Bad})
      BY <3>1, FS_Subset
    <3> QED BY <2>3, <2>4, <3>2, FS_Union, ZenonT(30)
  <2> QED BY <2>1, <2>5, <2>6
<1>4. n \in S
  <2> HIDE DEF S
  <2>1. \A i \in 0 .. n : i \in S
    BY <1>2, <1>3, IntervalInductive
  <2> QED BY <2>1
<1> DEFINE taken == FirstCandidates(lines, max)
           values == Range(lines) \ {Blank, Bad}
<1>5. IsFiniteSet(values) /\ Gathers(taken, V, values, max)
  <2>1. found[n] = taken /\ DOMAIN lines = 1 .. n
    BY <1>1 DEF CollectedBy
  <2>2. Values(n) = values
    BY <2>1 DEF Range
  <2> HIDE DEF Values, taken, values
  <2> QED BY <1>4, <2>1, <2>2
<1> HIDE DEF taken, values
<1>6. /\ taken \in Seq(V) /\ Len(taken) \in Nat /\ Len(taken) <= max
      /\ DOMAIN taken = 1 .. Len(taken) /\ taken \in [1 .. Len(taken) -> V]
      /\ \A j, k \in DOMAIN taken : taken[j] = taken[k] => j = k
      /\ Range(taken) \subseteq values
      /\ Len(taken) < max => Range(taken) = values
  BY <1>5 DEF Gathers
<1>7. Cardinality(Range(taken)) = Len(taken)
  BY <1>6, RangeCounts
<1>8. Cardinality(values) \in Nat /\ Cardinality(Range(taken)) <= Cardinality(values)
  BY <1>5, <1>6, FS_CardinalityType, FS_Subset
<1>9. Len(taken) = Least(max, Cardinality(values))
  <2> DEFINE size == Len(taken)
             all == Cardinality(values)
  <2>1. size \in Nat /\ size <= max /\ all \in Nat
    BY <1>6, <1>8
  <2>2. size <= all
    BY <1>7, <1>8
  <2>3. size < max => size = all
    BY <1>6, <1>7
  <2> HIDE DEF size, all
  <2>4. size = Least(max, all)
    BY <2>1, <2>2, <2>3 DEF Least
  <2> QED BY <2>4 DEF size, all
<1>10. IsInjective(taken)
  BY <1>6 DEF IsInjective
<1> QED BY <1>6, <1>9, <1>10 DEF taken, values, CandidatesTaken

LEMMA CandidatesBounded == BoundsAssumption => CandidatesCollected
<1> SUFFICES ASSUME BoundsAssumption, NEW lines \in UpTo({Blank, Bad, "a", "b", "c"}), NEW max \in Limits
             PROVE  CandidatesTaken(lines, max)
  BY DEF CandidatesCollected, CandidatesTaken
<1>1. Len(lines) \in Nat /\ lines \in [1 .. Len(lines) -> {Blank, Bad, "a", "b", "c"}]
  BY Inputs
<1>2. max \in Nat
  BY DEF BoundsAssumption, Limits
<1> QED BY <1>1, <1>2, CandidatesTakenFrom

-----------------------------------------------------------------------------
(* A path.                                                                 *)

Paths(N) == [path : Seq(N), escapes : BOOLEAN]

NormalizedBy(at, n, segments) ==
  /\ at[0] = TheRoot
  /\ \A i \in 1 .. n : at[i] = Descend(at[i - 1], segments[i])
  /\ NormalizePath(segments) = at[n]

LEMMA DescendCases ==
  ASSUME NEW N, Parent \notin N, Stay \notin N, NEW at \in Paths(N), NEW segment \in N \cup {Parent, Stay}
  PROVE  LET next == Descend(at, segment) IN
         /\ next \in Paths(N)
         /\ at.escapes => next.escapes
         /\ ~at.escapes =>
              /\ segment = Stay => next = at
              /\ segment = Parent /\ at.path = <<>> => next.escapes
              /\ segment = Parent /\ at.path # <<>> =>
                   ~next.escapes /\ Len(next.path) = Len(at.path) - 1
              /\ segment \in N => ~next.escapes /\ Len(next.path) = Len(at.path) + 1
<1> DEFINE next == Descend(at, segment)
<1>0. Parent # Stay
  BY DEF Parent, Stay
<1>1. at.path \in Seq(N) /\ at.escapes \in BOOLEAN /\ Len(at.path) \in Nat
  BY DEF Paths
<1>2. CASE at.escapes \/ segment = Stay
  <2>1. next = at
    BY <1>2 DEF Descend
  <2>2. segment = Stay => segment \notin N /\ segment # Parent
    BY <1>0
  <2> HIDE DEF next
  <2> QED BY <1>2, <2>1, <2>2 DEF next
<1>3. CASE ~at.escapes /\ segment \in N
  <2>1. segment # Stay /\ segment # Parent
    BY <1>3
  <2>2. next = [at EXCEPT !.path = Append(@, segment)]
    BY <1>3, <2>1 DEF Descend
  <2>3. Append(at.path, segment) \in Seq(N) /\ Len(Append(at.path, segment)) = Len(at.path) + 1
    BY <1>1, <1>3
  <2>4. next \in Paths(N) /\ next.escapes = at.escapes /\ next.path = Append(at.path, segment)
    BY <1>1, <2>2, <2>3 DEF Paths
  <2> HIDE DEF next
  <2> QED BY <1>3, <2>1, <2>3, <2>4 DEF next
<1>4. CASE ~at.escapes /\ segment = Parent /\ at.path = <<>>
  <2>1. next = [at EXCEPT !.escapes = TRUE]
    BY <1>0, <1>4 DEF Descend
  <2>2. next \in Paths(N) /\ next.escapes = TRUE
    BY <1>1, <2>1 DEF Paths
  <2>3. segment # Stay /\ segment \notin N
    BY <1>0, <1>4
  <2> HIDE DEF next
  <2> QED BY <1>4, <2>2, <2>3 DEF next
<1>5. CASE ~at.escapes /\ segment = Parent /\ at.path # <<>>
  <2>1. next = [at EXCEPT !.path = SubSeq(@, 1, Len(@) - 1)]
    BY <1>0, <1>5 DEF Descend
  <2>2. Len(at.path) >= 1
    BY <1>1, <1>5
  <2>3. /\ SubSeq(at.path, 1, Len(at.path) - 1) \in Seq(N)
        /\ Len(SubSeq(at.path, 1, Len(at.path) - 1)) = Len(at.path) - 1
    BY <1>1, <2>2
  <2>4. /\ next \in Paths(N) /\ next.escapes = at.escapes
        /\ next.path = SubSeq(at.path, 1, Len(at.path) - 1)
    BY <1>1, <2>1, <2>3 DEF Paths
  <2>5. segment # Stay /\ segment \notin N
    BY <1>0, <1>5
  <2> HIDE DEF next
  <2> QED BY <1>5, <2>3, <2>4, <2>5 DEF next
<1> QED BY <1>2, <1>3, <1>4, <1>5

LEMMA NormalizeSteps ==
  ASSUME NEW n \in Nat, NEW N, Parent \notin N, Stay \notin N,
         NEW segments \in [1 .. n -> N \cup {Parent, Stay}], Len(segments) = n
  PROVE  \E at : NormalizedBy(at, n, segments)
<1> DEFINE A == Paths(N)
           step == [p \in A \X (1 .. n) |-> Descend(p[1], segments[p[2]])]
           Is(f) == f = [i \in 0 .. n |->
                           IF i = 0 THEN TheRoot
                           ELSE Descend(f[i - 1], segments[i])]
           at == CHOOSE f : Is(f)
<1>1. step \in [A \X (1 .. n) -> A] /\ TheRoot \in A
  <2>1. TheRoot \in A
    BY DEF TheRoot, Paths
  <2> HIDE DEF A
  <2>2. \A a \in A, s \in N \cup {Parent, Stay} : Descend(a, s) \in A
    BY DescendCases DEF A
  <2> QED BY <2>1, <2>2
<1>2. PICK f \in [0 .. n -> A] : Steps(f, TheRoot, step, n)
  <2> HIDE DEF step, A
  <2> QED BY <1>1, StepsExist
<1>3. Is(f)
  <2>1. ASSUME NEW i \in 1 .. n PROVE f[i] = Descend(f[i - 1], segments[i])
    <3>1. f[i - 1] \in A /\ f[i] = step[<<f[i - 1], i>>]
      <4> HIDE DEF step, A
      <4> QED BY <1>2 DEF Steps
    <3> HIDE DEF A
    <3> QED BY <3>1
  <2>2. f[0] = TheRoot
    <3> HIDE DEF step
    <3> QED BY <1>2 DEF Steps
  <2> HIDE DEF step, A
  <2> QED BY <1>2, <2>1, <2>2
<1>4. Is(at)
  <2> HIDE DEF Is
  <2> QED BY <1>3
<1>5. NormalizePath(segments) = at[n]
  BY DEF NormalizePath
<1> HIDE DEF at
<1>6. at[0] = TheRoot /\ \A i \in 1 .. n : at[i] = Descend(at[i - 1], segments[i])
  <2> HIDE DEF step, A
  <2> QED BY <1>4
<1> QED BY <1>5, <1>6 DEF NormalizedBy

\* Where a path stands that has come down and gone up so often, and has
\* been above the root or not.
StandsAt(at, N, down, up, above) ==
  /\ at \in Paths(N)
  /\ at.escapes <=> above
  /\ ~above => Len(at.path) = down - up /\ up <= down

\* A path escapes if some beginning of it goes up more often than down, and
\* is as long as it goes down more often than up otherwise.
LEMMA PathNormalized ==
  ASSUME NEW n \in Nat, NEW N, Parent \notin N, Stay \notin N,
         NEW segments \in [1 .. n -> N \cup {Parent, Stay}], Len(segments) = n
  PROVE  LET Up(i)   == Cardinality({j \in 1 .. i : segments[j] = Parent})
             Down(i) == Cardinality({j \in 1 .. i : segments[j] \in N})
             result  == NormalizePath(segments)
         IN  /\ result.escapes <=> \E i \in 1 .. n : Up(i) > Down(i)
             /\ Range(result.path) \subseteq N
             /\ ~result.escapes => Len(result.path) = Down(n) - Up(n)
<1>1. PICK at : NormalizedBy(at, n, segments)
  BY NormalizeSteps
<1> DEFINE U == {j \in 1 .. n : segments[j] = Parent}
           D == {j \in 1 .. n : segments[j] \in N}
           Up(i)    == Cardinality(U \cap (1 .. i))
           Down(i)  == Cardinality(D \cap (1 .. i))
           Above(i) == \E k \in 1 .. i : Up(k) > Down(k)
           S == {i \in Nat : StandsAt(at[i], N, Down(i), Up(i), Above(i))}
<1>2. 0 \in S
  <2>1. U \cap (1 .. 0) = {} /\ D \cap (1 .. 0) = {}
    OBVIOUS
  <2> HIDE DEF U, D
  <2>2. Up(0) = 0 /\ Down(0) = 0
    BY <2>1, FS_EmptySet
  <2>3. ~Above(0)
    OBVIOUS
  <2>4. at[0] = TheRoot
    BY <1>1 DEF NormalizedBy
  <2> HIDE DEF Up, Down, Above
  <2>5. TheRoot \in Paths(N) /\ TheRoot.escapes = FALSE /\ TheRoot.path = <<>>
    BY DEF TheRoot, Paths
  <2>6. StandsAt(at[0], N, Down(0), Up(0), Above(0))
    BY <2>2, <2>3, <2>4, <2>5 DEF StandsAt
  <2> QED BY <2>6
<1>3. ASSUME NEW i \in 0 .. n - 1, i \in S PROVE i + 1 \in S
  <2>1. i + 1 \in 1 .. n /\ i + 1 - 1 = i /\ i \in Nat /\ i + 1 \in Nat
    OBVIOUS
  <2> DEFINE segment == segments[i + 1]
  <2>2. at[i + 1] = Descend(at[i], segment) /\ segment \in N \cup {Parent, Stay}
    BY <1>1, <2>1 DEF NormalizedBy
  <2>3. (i + 1 \in U <=> segment = Parent) /\ (i + 1 \in D <=> segment \in N)
    BY <2>1
  <2>4. segment = Parent => segment \notin N
    OBVIOUS
  <2>5. StandsAt(at[i], N, Down(i), Up(i), Above(i))
    BY <1>3
  <2> HIDE DEF U, D
  <2>6. /\ Up(i) \in Nat /\ Down(i) \in Nat
        /\ Up(i + 1) = Up(i) + IF i + 1 \in U THEN 1 ELSE 0
        /\ Down(i + 1) = Down(i) + IF i + 1 \in D THEN 1 ELSE 0
    BY <2>1, CountNext
  <2> HIDE DEF Up, Down
  <2>7. Above(i + 1) <=> Above(i) \/ Up(i + 1) > Down(i + 1)
    <3>1. \A k \in 1 .. i + 1 : k \in 1 .. i \/ k = i + 1
      BY <2>1
    <3>2. \A k \in 1 .. i : k \in 1 .. i + 1
      BY <2>1
    <3>3. i + 1 \in 1 .. i + 1
      BY <2>1
    <3> QED BY <3>1, <3>2, <3>3
  <2> HIDE DEF Above, segment
  <2>8. at[i] \in Paths(N) /\ (at[i].escapes <=> Above(i))
        /\ (~Above(i) => Len(at[i].path) = Down(i) - Up(i) /\ Up(i) <= Down(i))
    BY <2>5 DEF StandsAt
  <2> DEFINE next == Descend(at[i], segment)
  <2>9. /\ next \in Paths(N)
        /\ at[i].escapes => next.escapes
        /\ ~at[i].escapes =>
              /\ segment = Stay => next = at[i]
              /\ segment = Parent /\ at[i].path = <<>> => next.escapes
              /\ segment = Parent /\ at[i].path # <<>> =>
                   ~next.escapes /\ Len(next.path) = Len(at[i].path) - 1
              /\ segment \in N => ~next.escapes /\ Len(next.path) = Len(at[i].path) + 1
    BY <2>2, <2>8, DescendCases
  <2>10. at[i].path \in Seq(N) /\ (at[i].path = <<>> <=> Len(at[i].path) = 0)
    BY <2>8 DEF Paths
  <2> HIDE DEF next
  <2>11. StandsAt(next, N, Down(i + 1), Up(i + 1), Above(i + 1))
    <3>1. CASE Above(i)
      BY <2>7, <2>8, <2>9, <3>1 DEF StandsAt
    <3>2. CASE ~Above(i) /\ segment = Stay
      <4>1. segment # Parent /\ segment \notin N
        BY <3>2 DEF Parent, Stay
      <4>2. Up(i + 1) = Up(i) /\ Down(i + 1) = Down(i) /\ ~Above(i + 1)
        BY <2>3, <2>6, <2>7, <2>8, <3>2, <4>1
      <4> QED BY <2>8, <2>9, <3>2, <4>2 DEF StandsAt
    <3>3. CASE ~Above(i) /\ segment = Parent /\ at[i].path = <<>>
      <4>1. Up(i + 1) = Up(i) + 1 /\ Down(i + 1) = Down(i) /\ Down(i) = Up(i)
        BY <2>3, <2>4, <2>6, <2>8, <2>10, <3>3
      <4>2. Above(i + 1)
        BY <2>6, <2>7, <4>1
      <4> QED BY <2>8, <2>9, <3>3, <4>2 DEF StandsAt
    <3>4. CASE ~Above(i) /\ segment = Parent /\ at[i].path # <<>>
      <4>1. Up(i + 1) = Up(i) + 1 /\ Down(i + 1) = Down(i)
        BY <2>3, <2>4, <2>6, <3>4
      <4>2. Down(i) - Up(i) # 0 /\ Up(i) <= Down(i)
        BY <2>8, <2>10, <3>4
      <4>3. ~Above(i + 1) /\ Up(i + 1) <= Down(i + 1)
        BY <2>6, <2>7, <3>4, <4>1, <4>2
      <4>4. ~next.escapes /\ Len(next.path) = Down(i + 1) - Up(i + 1)
        BY <2>6, <2>8, <2>9, <3>4, <4>1, SMTT(30)
      <4> QED BY <2>9, <4>3, <4>4 DEF StandsAt
    <3>5. CASE ~Above(i) /\ segment \in N
      <4>1. Up(i + 1) = Up(i) /\ Down(i + 1) = Down(i) + 1
        BY <2>3, <2>4, <2>6, <3>5
      <4>2. ~Above(i + 1) /\ Up(i + 1) <= Down(i + 1)
        BY <2>6, <2>7, <2>8, <3>5, <4>1
      <4>3. ~next.escapes /\ Len(next.path) = Down(i + 1) - Up(i + 1)
        <5>1. ~next.escapes /\ Len(next.path) = Len(at[i].path) + 1
          BY <2>8, <2>9, <3>5
        <5>2. Len(at[i].path) = Down(i) - Up(i)
          BY <2>8, <3>5
        <5> QED BY <2>6, <4>1, <5>1, <5>2
      <4> QED BY <2>9, <4>2, <4>3 DEF StandsAt
    <3> QED BY <2>2, <3>1, <3>2, <3>3, <3>4, <3>5
  <2> QED BY <2>1, <2>2, <2>11 DEF next
<1>4. n \in S
  <2> HIDE DEF S
  <2>1. \A i \in 0 .. n : i \in S
    BY <1>2, <1>3, IntervalInductive
  <2> QED BY <2>1
<1>5. at[n] = NormalizePath(segments)
  BY <1>1 DEF NormalizedBy
<1>6. \A i \in 0 .. n : /\ U \cap (1 .. i) = {j \in 1 .. i : segments[j] = Parent}
                      /\ D \cap (1 .. i) = {j \in 1 .. i : segments[j] \in N}
  OBVIOUS
<1>7. \A i \in 0 .. n : /\ Up(i) = Cardinality({j \in 1 .. i : segments[j] = Parent})
                      /\ Down(i) = Cardinality({j \in 1 .. i : segments[j] \in N})
  BY <1>6
<1> DEFINE result == NormalizePath(segments)
<1>8. StandsAt(result, N, Down(n), Up(n), Above(n))
  BY <1>4, <1>5
<1> HIDE DEF Up, Down, result
<1>9. Range(result.path) \subseteq N
  <2>1. result.path \in Seq(N)
    BY <1>8 DEF StandsAt, Paths
  <2> QED BY <2>1 DEF Range
<1>10. /\ result.escapes <=> \E i \in 1 .. n : Up(i) > Down(i)
       /\ ~result.escapes => Len(result.path) = Down(n) - Up(n)
  BY <1>8 DEF StandsAt
<1> DEFINE Ups(i)   == Cardinality({j \in 1 .. i : segments[j] = Parent})
           Downs(i) == Cardinality({j \in 1 .. i : segments[j] \in N})
<1>11. \A i \in 1 .. n : Up(i) = Ups(i) /\ Down(i) = Downs(i)
  BY <1>7, SMTT(30)
<1>12. Up(n) = Ups(n) /\ Down(n) = Downs(n)
  BY <1>7
<1> HIDE DEF Ups, Downs
<1>13. /\ result.escapes <=> \E i \in 1 .. n : Ups(i) > Downs(i)
       /\ ~result.escapes => Len(result.path) = Downs(n) - Ups(n)
  BY <1>10, <1>11, <1>12
<1> QED BY <1>9, <1>13 DEF result, Ups, Downs

LEMMA PathsBounded == BoundsAssumption => PathsNormalized
<1> SUFFICES ASSUME BoundsAssumption, NEW segments \in UpTo({"a", "b", Parent, Stay})
             PROVE  LET Up(i)   == Cardinality({j \in 1 .. i : segments[j] = Parent})
                        Down(i) == Cardinality({j \in 1 .. i : segments[j] \in {"a", "b"}})
                        result  == NormalizePath(segments)
                    IN  /\ result.escapes <=> \E i \in DOMAIN segments : Up(i) > Down(i)
                        /\ Range(result.path) \subseteq {"a", "b"}
                        /\ ~result.escapes => Len(result.path) = Down(Len(segments)) - Up(Len(segments))
  BY DEF PathsNormalized
<1> DEFINE N == {"a", "b"}
<1>1. Parent \notin N /\ Stay \notin N
  BY DEF Parent, Stay
<1>2. /\ Len(segments) \in Nat /\ DOMAIN segments = 1 .. Len(segments)
      /\ segments \in [1 .. Len(segments) -> {"a", "b", Parent, Stay}]
  BY Inputs
<1>3. segments \in [1 .. Len(segments) -> N \cup {Parent, Stay}]
  BY <1>2
<1> HIDE DEF N
<1>4. LET Up(i)   == Cardinality({j \in 1 .. i : segments[j] = Parent})
          Down(i) == Cardinality({j \in 1 .. i : segments[j] \in N})
          result  == NormalizePath(segments)
      IN  /\ result.escapes <=> \E i \in 1 .. Len(segments) : Up(i) > Down(i)
          /\ Range(result.path) \subseteq N
          /\ ~result.escapes => Len(result.path) = Down(Len(segments)) - Up(Len(segments))
  BY <1>1, <1>2, <1>3, PathNormalized
<1> QED BY <1>2, <1>4 DEF N

-----------------------------------------------------------------------------
(* An even spread over a sorted list.                                      *)

LEMMA Division ==
  ASSUME NEW a \in Nat, NEW k \in Nat \ {0}
  PROVE  a \div k \in Nat /\ a % k \in 0 .. k - 1 /\ a = k * (a \div k) + (a % k)
OBVIOUS

LEMMA Multiply ==
  ASSUME NEW a \in Nat, NEW b \in Nat, NEW c \in Nat, a <= b
  PROVE  a * c \in Nat /\ b * c \in Nat /\ a * c <= b * c /\ c * a = a * c
OBVIOUS

\* The places the spread takes.
LEMMA Places ==
  ASSUME NEW L \in Nat, NEW k \in 1 .. L
  PROVE  /\ \A i \in 0 .. k - 1 : (i * L) \div k + 1 \in 1 .. L
         /\ \A i, j \in 0 .. k - 1 : i < j => (i * L) \div k < (j * L) \div k
<1> DEFINE place(i) == (i * L) \div k
<1>1. ASSUME NEW i \in 0 .. k - 1
      PROVE  /\ i * L \in Nat /\ place(i) \in Nat
             /\ k * place(i) <= i * L /\ i * L < k * place(i) + k
             /\ i * L + L = (i + 1) * L
  <2>1. i * L \in Nat /\ i * L + L = (i + 1) * L
    OBVIOUS
  <2> DEFINE a == i * L
  <2> HIDE DEF a
  <2>2. \A b \in Nat : b \div k \in Nat /\ b % k \in 0 .. k - 1 /\ b = k * (b \div k) + (b % k)
    BY Division
  <2>3. a \in Nat /\ a \div k \in Nat /\ a % k \in 0 .. k - 1 /\ a = k * (a \div k) + (a % k)
    BY <2>1, <2>2 DEF a
  <2> DEFINE q == a \div k
             r == a % k
  <2>4. k * q \in Nat
    <3> HIDE DEF q
    <3>1. q \in Nat
      BY <2>3 DEF q
    <3> QED BY <3>1
  <2> HIDE DEF q, r
  <2>5. a \in Nat /\ q \in Nat /\ r \in 0 .. k - 1 /\ a = k * q + r
    BY <2>3 DEF q, r
  <2> DEFINE kq == k * q
  <2> HIDE DEF kq
  <2>6. kq \in Nat /\ a = kq + r
    BY <2>4, <2>5 DEF kq
  <2>7. kq <= a /\ a < kq + k
    BY <2>5, <2>6
  <2> QED BY <2>1, <2>5, <2>7 DEF a, q, kq
<1> HIDE DEF place
<1>2. ASSUME NEW i \in 0 .. k - 1 PROVE place(i) + 1 \in 1 .. L
  <2>1. ASSUME L <= place(i) PROVE FALSE
    <3>1. L * k <= place(i) * k /\ k * place(i) = place(i) * k
      <4>1. place(i) \in Nat /\ k \in Nat
        BY <1>1
      <4> QED BY <2>1, <4>1, Multiply
    <3>2. (i + 1) * L <= k * L /\ k * L = L * k
      <4>1. i + 1 \in Nat /\ k \in Nat /\ i + 1 <= k
        OBVIOUS
      <4> QED BY <4>1, Multiply
    <3> DEFINE A == i * L
               B == k * place(i)
               C == k * L
    <3>3. A \in Nat /\ B \in Nat /\ C \in Nat
      BY <1>1
    <3>4. C <= B /\ B <= A /\ A + L <= C
      <4>1. L * k = k * L
        BY <3>2
      <4> QED BY <1>1, <3>1, <3>2, <4>1
    <3> HIDE DEF A, B, C
    <3>5. L = 0
      BY <3>3, <3>4
    <3> QED BY <3>5
  <2> QED BY <1>1, <2>1
<1>3. ASSUME NEW i \in 0 .. k - 1, NEW j \in 0 .. k - 1, i < j PROVE place(i) < place(j)
  <2>1. ASSUME place(j) <= place(i) PROVE FALSE
    <3>1. k * place(j) <= k * place(i)
      <4>1. place(j) * k <= place(i) * k /\ k * place(j) = place(j) * k
        <5>1. place(i) \in Nat /\ place(j) \in Nat /\ k \in Nat
          BY <1>1
        <5> QED BY <2>1, <5>1, Multiply
      <4>2. k * place(i) = place(i) * k
        BY <1>1
      <4> QED BY <4>1, <4>2
    <3>2. (i + 1) * L <= j * L
      <4>1. i + 1 \in Nat /\ j \in Nat /\ i + 1 <= j
        BY <1>3
      <4> QED BY <4>1, Multiply
    <3> DEFINE A == i * L
               B == j * L
               C == k * place(i)
               D == k * place(j)
    <3>3. A \in Nat /\ B \in Nat /\ C \in Nat /\ D \in Nat
      BY <1>1
    <3>4. D <= C /\ A + L <= B /\ C <= A /\ B < D + k
      BY <1>1, <3>1, <3>2
    <3> HIDE DEF A, B, C, D
    <3> QED BY <3>3, <3>4
  <2> QED BY <1>1, <2>1
<1> QED BY <1>2, <1>3 DEF place

\* As many as asked for.
LEMMA SpreadCounts ==
  ASSUME NEW L \in Nat, NEW T, NEW group \in [1 .. L -> T], Len(group) = L,
         \A i, j \in 1 .. L : group[i] = group[j] => i = j, NEW k \in 1 .. L
  PROVE  /\ Spread(group, k) \subseteq T /\ IsFiniteSet(Spread(group, k))
         /\ Cardinality(Spread(group, k)) = k
<1> DEFINE place(i) == (i * L) \div k
           g == [i \in 1 .. k |-> group[place(i - 1) + 1]]
<1>1. /\ \A i \in 0 .. k - 1 : place(i) + 1 \in 1 .. L
      /\ \A i, j \in 0 .. k - 1 : i < j => place(i) < place(j)
  BY Places
<1>2. Spread(group, k) = {group[place(i) + 1] : i \in 0 .. k - 1}
  BY DEF Spread
<1> HIDE DEF place
<1>3. /\ \A i \in 1 .. k : i - 1 \in 0 .. k - 1
      /\ \A i \in 0 .. k - 1 : i + 1 \in 1 .. k /\ i + 1 - 1 = i
  OBVIOUS
<1>4. g \in [1 .. k -> T]
  BY <1>1, <1>3
<1>5. ASSUME NEW i \in 1 .. k, NEW j \in 1 .. k, g[i] = g[j] PROVE i = j
  <2>1. place(i - 1) + 1 = place(j - 1) + 1
    BY <1>1, <1>3, <1>5
  <2>2. place(i - 1) + 1 \in 1 .. L /\ place(j - 1) + 1 \in 1 .. L
    BY <1>1, <1>3
  <2>3. ASSUME i < j PROVE FALSE
    <3>1. place(i - 1) < place(j - 1)
      BY <1>1, <1>3, <2>3
    <3>2. place(i - 1) + 1 < place(j - 1) + 1
      <4>1. place(i - 1) \in Int /\ place(j - 1) \in Int
        BY DEF place
      <4> QED BY <3>1, <4>1
    <3> QED BY <2>1, <2>2, <3>2
  <2>4. ASSUME j < i PROVE FALSE
    <3>1. place(j - 1) < place(i - 1)
      BY <1>1, <1>3, <2>4
    <3>2. place(j - 1) + 1 < place(i - 1) + 1
      <4>1. place(i - 1) \in Int /\ place(j - 1) \in Int
        BY DEF place
      <4> QED BY <3>1, <4>1
    <3> QED BY <2>1, <2>2, <3>2
  <2> QED BY <2>3, <2>4
<1>6. Range(g) = Spread(group, k)
  <2>1. Range(g) = {group[place(i - 1) + 1] : i \in 1 .. k}
    BY DEF Range
  <2>2. \A i \in 1 .. k : group[place(i - 1) + 1] \in Spread(group, k)
    BY <1>2, <1>3
  <2>3. ASSUME NEW i \in 0 .. k - 1 PROVE group[place(i) + 1] \in Range(g)
    <3>1. i + 1 \in 1 .. k /\ group[place(i + 1 - 1) + 1] = group[place(i) + 1]
      BY <1>3
    <3> QED BY <2>1, <3>1
  <2> QED BY <1>2, <2>1, <2>2, <2>3
<1> HIDE DEF g
<1>7. IsFiniteSet(Range(g)) /\ Cardinality(Range(g)) = k
  BY <1>4, <1>5, RangeCounts, SMTT(30)
<1>8. Range(g) \subseteq T
  BY <1>4 DEF Range
<1> QED BY <1>6, <1>7, <1>8

\* What one of two disjoint sets adds to the other.
LEMMA DisjointUnion ==
  ASSUME NEW S, NEW T, IsFiniteSet(S), IsFiniteSet(T), S \cap T = {}
  PROVE  /\ IsFiniteSet(S \cup T)
         /\ Cardinality(S) \in Nat /\ Cardinality(T) \in Nat
         /\ Cardinality(S \cup T) = Cardinality(S) + Cardinality(T)
<1>1. Cardinality(S) \in Nat /\ Cardinality(T) \in Nat
  BY FS_CardinalityType
<1>2. /\ IsFiniteSet(S \cup T)
      /\ Cardinality(S \cup T) = Cardinality(S) + Cardinality(T) - Cardinality(S \cap T)
  BY FS_Union
<1>3. Cardinality(S \cap T) = 0
  BY FS_EmptySet
<1> QED BY <1>1, <1>2, <1>3

\* All of a sorted list, or a spread of what remains of the limit.
LEMMA Filled ==
  ASSUME NEW T, T \subseteq Nat, IsFiniteSet(T), NEW limit \in Nat
  PROVE  LET group == Sorted(T)
             taken == IF Len(group) <= limit THEN Range(group) ELSE Spread(group, limit)
         IN  /\ taken \subseteq T /\ IsFiniteSet(taken)
             /\ Cardinality(taken) = Least(limit, Cardinality(T))
             /\ Cardinality(T) <= limit => taken = T
             /\ Range(group) = T /\ Len(group) = Cardinality(T)
<1> DEFINE N == Cardinality(T)
           group == Sorted(T)
           taken == IF Len(group) <= limit THEN Range(group) ELSE Spread(group, limit)
<1>1. /\ N \in Nat /\ group \in [1 .. N -> T]
      /\ \A i, j \in 1 .. N : i < j => group[i] < group[j]
      /\ \A n \in T : \E i \in 1 .. N : group[i] = n
  BY SortedList
<1> HIDE DEF N, group
<1>2. Len(group) = N /\ DOMAIN group = 1 .. N
  BY <1>1
<1>3. \A i, j \in 1 .. N : group[i] = group[j] => i = j
  <2>1. ASSUME NEW i \in 1 .. N, NEW j \in 1 .. N, group[i] = group[j] PROVE i = j
    <3>1. group[i] \in Nat /\ group[j] \in Nat
      BY <1>1
    <3>2. ~(i < j) /\ ~(j < i)
      BY <1>1, <2>1, <3>1
    <3> QED BY <3>2
  <2> QED BY <2>1
<1>4. Range(group) = T
  BY <1>1, <1>2 DEF Range
<1>5. CASE N <= limit
  <2>1. taken = T
    BY <1>2, <1>4, <1>5
  <2>2. Least(limit, N) = N
    BY <1>1, <1>5 DEF Least
  <2> HIDE DEF taken
  <2> QED BY <1>2, <1>4, <2>1, <2>2 DEF N, group, taken
<1>6. CASE limit < N /\ limit = 0
  <2>1. taken = {}
    <3>1. Spread(group, 0) = {}
      BY DEF Spread
    <3> QED BY <1>1, <1>2, <1>6, <3>1
  <2>2. Least(limit, N) = 0 /\ ~(N <= limit)
    BY <1>1, <1>6 DEF Least
  <2>3. IsFiniteSet({}) /\ Cardinality({}) = 0
    BY FS_EmptySet
  <2> HIDE DEF taken
  <2> QED BY <1>2, <1>4, <2>1, <2>2, <2>3 DEF N, group, taken
<1>7. CASE limit < N /\ limit # 0
  <2>1. limit \in 1 .. N /\ ~(N <= limit)
    BY <1>1, <1>7
  <2>2. taken = Spread(group, limit)
    BY <1>2, <2>1
  <2>3. Least(limit, N) = limit
    BY <1>1, <1>7 DEF Least
  <2>4. /\ Spread(group, limit) \subseteq T /\ IsFiniteSet(Spread(group, limit))
        /\ Cardinality(Spread(group, limit)) = limit
    BY <1>1, <1>2, <1>3, <2>1, SpreadCounts
  <2> HIDE DEF taken
  <2> QED BY <1>2, <1>4, <2>1, <2>2, <2>3, <2>4 DEF N, group, taken
<1> QED BY <1>1, <1>5, <1>6, <1>7

-----------------------------------------------------------------------------
(* Names.                                                                  *)

\* A group of names after those chosen before it.
Chosen(chosen, T, limit) ==
  LET group     == Sorted(T)
      remaining == limit - Cardinality(chosen)
  IN  chosen \cup IF Len(group) <= remaining THEN Range(group) ELSE Spread(group, remaining)

\* That it is as much of the group as the limit allows.
Fills(all, chosen, T, limit) ==
  /\ chosen \subseteq all /\ all \subseteq chosen \cup T /\ IsFiniteSet(all)
  /\ Cardinality(all) = Least(limit, Cardinality(chosen \cup T))
  /\ Cardinality(chosen \cup T) <= limit => all = chosen \cup T
  /\ Cardinality(chosen) = limit => all = chosen

LEMMA ChosenCounts ==
  ASSUME NEW T, T \subseteq Nat, IsFiniteSet(T), NEW limit \in Nat,
         NEW chosen, IsFiniteSet(chosen), Cardinality(chosen) <= limit, chosen \cap T = {}
  PROVE  Fills(Chosen(chosen, T, limit), chosen, T, limit)
<1> DEFINE remaining == limit - Cardinality(chosen)
           group == Sorted(T)
           taken == IF Len(group) <= remaining THEN Range(group) ELSE Spread(group, remaining)
           all == Chosen(chosen, T, limit)
<1>0. Cardinality(chosen) \in Nat /\ Cardinality(T) \in Nat
  BY FS_CardinalityType
<1>1. remaining \in Nat
  BY <1>0
<1>2. all = chosen \cup taken
  BY DEF Chosen
<1>3. /\ taken \subseteq T /\ IsFiniteSet(taken)
      /\ Cardinality(taken) = Least(remaining, Cardinality(T))
      /\ Cardinality(T) <= remaining => taken = T
  <2> HIDE DEF remaining
  <2> QED BY <1>1, Filled
<1> HIDE DEF taken, all
<1>4. IsFiniteSet(all) /\ Cardinality(all) = Cardinality(chosen) + Cardinality(taken)
  <2>1. chosen \cap taken = {}
    BY <1>3
  <2> QED BY <1>2, <1>3, <2>1, DisjointUnion
<1>5. Cardinality(chosen \cup T) = Cardinality(chosen) + Cardinality(T)
  BY DisjointUnion
<1>6. Cardinality(all) = Least(limit, Cardinality(chosen \cup T))
  BY <1>0, <1>3, <1>4, <1>5 DEF Least
<1>7. ASSUME Cardinality(chosen \cup T) <= limit PROVE all = chosen \cup T
  <2>1. Cardinality(T) <= remaining
    BY <1>0, <1>5, <1>7
  <2> QED BY <1>2, <1>3, <2>1
<1>8. ASSUME Cardinality(chosen) = limit PROVE all = chosen
  <2>1. Cardinality(taken) = 0
    BY <1>0, <1>3, <1>8 DEF Least
  <2>2. taken = {}
    BY <1>3, <2>1, FS_EmptySet
  <2> QED BY <1>2, <2>2
<1> QED BY <1>2, <1>3, <1>4, <1>6, <1>7, <1>8 DEF all, Fills

\* The first of the operator's names.
LEMMA FirstCounts ==
  ASSUME NEW T, T \subseteq Nat, IsFiniteSet(T), NEW limit \in Nat
  PROVE  LET list  == Sorted(T)
             first == {list[i] : i \in 1 .. Least(limit, Len(list))}
         IN  /\ first \subseteq T /\ IsFiniteSet(first)
             /\ Cardinality(first) = Least(limit, Cardinality(T))
             /\ Cardinality(T) <= limit => first = T
<1> DEFINE N == Cardinality(T)
           list == Sorted(T)
           m == Least(limit, Len(list))
           first == {list[i] : i \in 1 .. m}
           g == [i \in 1 .. m |-> list[i]]
<1>1. /\ N \in Nat /\ list \in [1 .. N -> T]
      /\ \A i, j \in 1 .. N : i < j => list[i] < list[j]
      /\ \A n \in T : \E i \in 1 .. N : list[i] = n
  BY SortedList
<1>2. Len(list) = N
  <2> HIDE DEF N, list
  <2> QED BY <1>1
<1> HIDE DEF N, list
<1>3. m = Least(limit, N) /\ m \in 0 .. N /\ (N <= limit => m = N)
  BY <1>1, <1>2 DEF Least
<1> HIDE DEF m
<1>4. g \in [1 .. m -> T] /\ m \in Nat
  BY <1>1, <1>3
<1>5. ASSUME NEW i \in 1 .. m, NEW j \in 1 .. m, g[i] = g[j] PROVE i = j
  <2>1. i \in 1 .. N /\ j \in 1 .. N /\ list[i] = list[j]
    BY <1>1, <1>3, <1>5
  <2>2. list[i] \in Nat /\ list[j] \in Nat
    BY <1>1, <2>1
  <2>3. ~(i < j) /\ ~(j < i)
    BY <1>1, <2>1, <2>2
  <2> QED BY <2>1, <2>3
<1>6. Range(g) = first
  BY DEF Range
<1>7. IsFiniteSet(Range(g)) /\ Cardinality(Range(g)) = m
  <2> HIDE DEF g
  <2> QED BY <1>4, <1>5, RangeCounts
<1>8. first \subseteq T
  BY <1>1, <1>3
<1>9. ASSUME N <= limit PROVE first = T
  BY <1>1, <1>3, <1>8, <1>9
<1> HIDE DEF first, g
<1> QED BY <1>3, <1>6, <1>7, <1>8, <1>9 DEF N, list, first, m

\* As many names as the limit allows, the operator's first, then those of
\* several sources.
LEMMA NamesCount ==
  ASSUME NEW sources, DOMAIN sources \subseteq Nat, IsFiniteSet(DOMAIN sources), NEW limit \in Nat,
         \A n \in DOMAIN sources : Cardinality(sources[n]) \in Nat \ {0}
  PROVE  LET names    == DOMAIN sources
             chosen   == SelectNames(sources, limit)
             Operator == {n \in names : "operator" \in sources[n]}
             Several  == {n \in names : "operator" \notin sources[n] /\ Cardinality(sources[n]) > 1}
         IN  /\ chosen \subseteq names /\ IsFiniteSet(chosen)
             /\ Cardinality(chosen) = Least(limit, Cardinality(names))
             /\ (names \ chosen) \cap Operator # {} => chosen \subseteq Operator
             /\ (names \ chosen) \cap Several # {} => chosen \subseteq Operator \cup Several
<1> DEFINE names    == DOMAIN sources
           Operator == {n \in names : "operator" \in sources[n]}
           Several  == {n \in names : "operator" \notin sources[n] /\ Cardinality(sources[n]) > 1}
           Single   == {n \in names : "operator" \notin sources[n] /\ Cardinality(sources[n]) = 1}
           first    == {Sorted(Operator)[i] : i \in 1 .. Least(limit, Len(Sorted(Operator)))}
           second   == Chosen(first, Several, limit)
           third    == Chosen(second, Single, limit)
<1>1. SelectNames(sources, limit) = third
  BY DEF SelectNames, Chosen
<1>2. /\ Operator \subseteq names /\ Several \subseteq names /\ Single \subseteq names
      /\ Operator \cap Several = {} /\ (Operator \cup Several) \cap Single = {}
  OBVIOUS
<1>3. names = Operator \cup Several \cup Single
  <2>1. \A n \in names : Cardinality(sources[n]) > 1 \/ Cardinality(sources[n]) = 1
    OBVIOUS
  <2> QED BY <2>1
<1> HIDE DEF Operator, Several, Single
<1>4. /\ names \subseteq Nat /\ IsFiniteSet(names)
      /\ IsFiniteSet(Operator) /\ IsFiniteSet(Several) /\ IsFiniteSet(Single)
  BY <1>2, FS_Subset
<1>5. Operator \subseteq Nat /\ Several \subseteq Nat /\ Single \subseteq Nat
  BY <1>2, <1>4
<1> HIDE DEF names
<1>6. /\ first \subseteq Operator /\ IsFiniteSet(first)
      /\ Cardinality(first) = Least(limit, Cardinality(Operator))
      /\ Cardinality(Operator) <= limit => first = Operator
  BY <1>4, <1>5, FirstCounts
<1> HIDE DEF first
<1>7. /\ Cardinality(Operator) \in Nat /\ Cardinality(first) \in Nat
      /\ Cardinality(first) <= limit
  BY <1>4, <1>6, FS_CardinalityType DEF Least
<1>8. /\ first \subseteq second /\ second \subseteq first \cup Several /\ IsFiniteSet(second)
      /\ Cardinality(second) = Least(limit, Cardinality(first \cup Several))
      /\ Cardinality(first \cup Several) <= limit => second = first \cup Several
      /\ Cardinality(first) = limit => second = first
  <2>1. first \cap Several = {}
    BY <1>2, <1>6
  <2>2. IsFiniteSet(first) /\ Cardinality(first) <= limit
    BY <1>6, <1>7
  <2>3. IsFiniteSet(Several) /\ Several \subseteq Nat
    BY <1>4, <1>5
  <2>4. Fills(second, first, Several, limit)
    BY <2>1, <2>2, <2>3, ChosenCounts
  <2> HIDE DEF second
  <2> QED BY <2>4 DEF Fills
<1> HIDE DEF second
<1>9. IsFiniteSet(first \cup Several) /\ Cardinality(first \cup Several) \in Nat
  BY <1>4, <1>6, FS_Union, FS_CardinalityType
<1>10. Cardinality(second) \in Nat /\ Cardinality(second) <= limit
  BY <1>8, <1>9 DEF Least
<1>11. /\ second \subseteq third /\ third \subseteq second \cup Single /\ IsFiniteSet(third)
       /\ Cardinality(third) = Least(limit, Cardinality(second \cup Single))
       /\ Cardinality(second \cup Single) <= limit => third = second \cup Single
       /\ Cardinality(second) = limit => third = second
  <2>1. second \cap Single = {}
    BY <1>2, <1>6, <1>8
  <2>2. Fills(third, second, Single, limit)
    BY <1>4, <1>5, <1>8, <1>10, <2>1, ChosenCounts
  <2> HIDE DEF third
  <2> QED BY <2>2 DEF Fills
<1> HIDE DEF third

\* The operator's names are too many.
<1>12. CASE Cardinality(Operator) > limit
  <2>1. Cardinality(first) = limit
    BY <1>6, <1>7, <1>12 DEF Least
  <2>2. second = first
    BY <1>8, <2>1
  <2>3. third = first
    BY <1>11, <2>1, <2>2
  <2>4. Cardinality(names) >= Cardinality(Operator) /\ Cardinality(names) \in Nat
    BY <1>2, <1>4, FS_Subset, FS_CardinalityType
  <2>5. Cardinality(third) = Least(limit, Cardinality(names))
    BY <1>7, <1>12, <2>1, <2>3, <2>4 DEF Least
  <2>6. third \subseteq Operator
    BY <1>6, <2>3
  <2> QED BY <1>1, <1>2, <1>11, <2>5, <2>6 DEF names, Operator, Several

\* They are not, but those of several sources are.
<1>13. CASE Cardinality(Operator) <= limit /\ Cardinality(first \cup Several) > limit
  <2>1. first = Operator
    BY <1>6, <1>13
  <2>2. Cardinality(second) = limit
    BY <1>8, <1>9, <1>13 DEF Least
  <2>3. third = second
    BY <1>11, <2>2
  <2>4. Cardinality(names) >= Cardinality(first \cup Several) /\ Cardinality(names) \in Nat
    <3>1. first \cup Several \in SUBSET names
      BY <1>2, <1>6
    <3> QED BY <1>4, <3>1, FS_Subset, FS_CardinalityType
  <2>5. Cardinality(third) = Least(limit, Cardinality(names))
    BY <1>9, <1>13, <2>2, <2>3, <2>4 DEF Least
  <2>6. third \subseteq Operator \cup Several /\ Operator \subseteq third
    BY <1>8, <2>1, <2>3
  <2>7. (names \ third) \cap Operator = {}
    BY <2>6
  <2> QED BY <1>1, <1>2, <1>11, <2>5, <2>6, <2>7 DEF names, Operator, Several

\* Neither are.
<1>14. CASE Cardinality(Operator) <= limit /\ Cardinality(first \cup Several) <= limit
  <2>1. first = Operator
    BY <1>6, <1>14
  <2>2. second = Operator \cup Several
    BY <1>8, <1>14, <2>1
  <2>3. second \cup Single = names
    BY <1>3, <2>2
  <2>4. Cardinality(third) = Least(limit, Cardinality(names))
    BY <1>11, <2>3
  <2>5. Operator \subseteq third /\ Several \subseteq third /\ third \subseteq names
    BY <1>11, <2>2, <2>3
  <2>6. (names \ third) \cap Operator = {} /\ (names \ third) \cap Several = {}
    BY <2>5
  <2> QED BY <1>1, <1>11, <2>4, <2>5, <2>6 DEF names, Operator, Several
<1> QED BY <1>7, <1>9, <1>12, <1>13, <1>14

LEMMA SetSizes ==
  /\ \A a : Cardinality({a}) = 1
  /\ \A a, b : a # b => Cardinality({a, b}) = 2
<1>1. \A a : IsFiniteSet({a}) /\ Cardinality({a}) = 1
  BY FS_Singleton
<1>2. ASSUME NEW a, NEW b, a # b PROVE Cardinality({a, b}) = 2
  <2>1. {a, b} = {a} \cup {b} /\ b \notin {a}
    BY <1>2
  <2>2. Cardinality({a} \cup {b}) = Cardinality({a}) + 1
    BY <1>1, <2>1, FS_AddElement
  <2> QED BY <1>1, <2>1, <2>2
<1> QED BY <1>1, <1>2

LEMMA NamesBounded == BoundsAssumption => NamesSelected
<1> SUFFICES ASSUME BoundsAssumption, NEW sources \in UpTo(SourceSets), NEW limit \in Limits
             PROVE  LET chosen   == SelectNames(sources, limit)
                        Operator == {n \in DOMAIN sources : "operator" \in sources[n]}
                        Several  == {n \in DOMAIN sources : sources[n] = {"ct", "subfinder"}}
                        dropped  == DOMAIN sources \ chosen
                    IN  /\ chosen \subseteq DOMAIN sources
                        /\ Cardinality(chosen) = Least(limit, Len(sources))
                        /\ dropped \cap Operator # {} => chosen \subseteq Operator
                        /\ dropped \cap Several # {} => chosen \subseteq Operator \cup Several
  BY DEF NamesSelected
<1>1. /\ Len(sources) \in Nat /\ DOMAIN sources = 1 .. Len(sources)
      /\ sources \in [1 .. Len(sources) -> SourceSets]
  BY Inputs
<1>2. DOMAIN sources \subseteq Nat /\ IsFiniteSet(DOMAIN sources) /\ Cardinality(DOMAIN sources) = Len(sources)
  <2> DEFINE n == Len(sources)
  <2> HIDE DEF n
  <2>1. n \in Nat /\ DOMAIN sources = 1 .. n
    BY <1>1 DEF n
  <2>2. IsFiniteSet(1 .. n) /\ Cardinality(1 .. n) = n
    BY <2>1, FS_Interval
  <2> QED BY <2>1, <2>2 DEF n
<1>3. limit \in Nat
  BY DEF Limits
<1>4. /\ Cardinality({"operator"}) = 1 /\ Cardinality({"ct"}) = 1
      /\ Cardinality({"ct", "subfinder"}) = 2
  BY SetSizes
<1>5. \A n \in DOMAIN sources : sources[n] \in {{"operator"}, {"ct"}, {"ct", "subfinder"}}
  BY <1>1 DEF SourceSets
<1>6. \A n \in DOMAIN sources :
        /\ Cardinality(sources[n]) \in Nat \ {0}
        /\ "operator" \notin sources[n] /\ Cardinality(sources[n]) > 1 <=> sources[n] = {"ct", "subfinder"}
  <2> SUFFICES ASSUME NEW n \in DOMAIN sources
               PROVE  /\ Cardinality(sources[n]) \in Nat \ {0}
                      /\ "operator" \notin sources[n] /\ Cardinality(sources[n]) > 1
                           <=> sources[n] = {"ct", "subfinder"}
    OBVIOUS
  <2>1. CASE sources[n] = {"operator"}
    BY <1>4, <2>1
  <2>2. CASE sources[n] = {"ct"}
    BY <1>4, <2>2
  <2>3. CASE sources[n] = {"ct", "subfinder"}
    BY <1>4, <2>3
  <2> QED BY <1>5, <2>1, <2>2, <2>3
<1> DEFINE names    == DOMAIN sources
           chosen   == SelectNames(sources, limit)
           Operator == {n \in names : "operator" \in sources[n]}
           Several  == {n \in names : "operator" \notin sources[n] /\ Cardinality(sources[n]) > 1}
<1>7. /\ chosen \subseteq names
      /\ Cardinality(chosen) = Least(limit, Cardinality(names))
      /\ (names \ chosen) \cap Operator # {} => chosen \subseteq Operator
      /\ (names \ chosen) \cap Several # {} => chosen \subseteq Operator \cup Several
  BY <1>2, <1>3, <1>6, NamesCount
<1>8. Several = {n \in names : sources[n] = {"ct", "subfinder"}}
  BY <1>6
<1> HIDE DEF chosen, Several
<1> QED BY <1>2, <1>7, <1>8 DEF chosen

-----------------------------------------------------------------------------
(* URLs.                                                                   *)

\* What _select is given: more than one value, each of some host.
URLLists(n, H) == {hosts \in [1 .. n -> H] : Len(hosts) = n /\ DOMAIN hosts = 1 .. n}

LEMMA HostGroups ==
  ASSUME NEW n \in Nat, NEW H, NEW hosts \in URLLists(n, H)
  PROVE  /\ IsFiniteSet(Range(hosts)) /\ Cardinality(Range(hosts)) \in Nat
         /\ \A h : LET group == URLsOf(hosts, h)
                       L == Len(group)
                   IN  /\ L \in Nat /\ group \in [1 .. L -> 1 .. n]
                       /\ \A i \in 1 .. L : hosts[group[i]] = h
                       /\ \A i, j \in 1 .. L : group[i] = group[j] => i = j
                       /\ h \in Range(hosts) => L # 0
<1>1. hosts \in [1 .. n -> H] /\ DOMAIN hosts = 1 .. n /\ IsFiniteSet(1 .. n)
  BY FS_Interval DEF URLLists
<1>2. IsFiniteSet(Range(hosts)) /\ Cardinality(Range(hosts)) \in Nat
  <2>1. hosts \in Surjection(1 .. n, Range(hosts))
    BY <1>1 DEF Surjection, Range
  <2> QED BY <1>1, <2>1, FS_Surjection, FS_CardinalityType
<1>3. ASSUME NEW h
      PROVE  LET group == URLsOf(hosts, h)
                 L == Len(group)
             IN  /\ L \in Nat /\ group \in [1 .. L -> 1 .. n]
                 /\ \A i \in 1 .. L : hosts[group[i]] = h
                 /\ \A i, j \in 1 .. L : group[i] = group[j] => i = j
                 /\ h \in Range(hosts) => L # 0
  <2> DEFINE S == {i \in DOMAIN hosts : hosts[i] = h}
             N == Cardinality(S)
             group == URLsOf(hosts, h)
  <2>1. S \in SUBSET (1 .. n) /\ S \subseteq Nat /\ \A i \in S : hosts[i] = h
    BY <1>1
  <2>2. h \in Range(hosts) => S # {}
    BY <1>1 DEF Range
  <2>3. group = Sorted(S)
    BY DEF URLsOf
  <2> HIDE DEF S
  <2>4. IsFiniteSet(S)
    BY <1>1, <2>1, FS_Subset
  <2>5. /\ N \in Nat /\ Sorted(S) \in [1 .. N -> S]
        /\ \A i, j \in 1 .. N : i < j => Sorted(S)[i] < Sorted(S)[j]
        /\ \A m \in S : \E i \in 1 .. N : Sorted(S)[i] = m
    BY <2>1, <2>4, SortedList
  <2> HIDE DEF group, N
  <2>6. Len(group) = N
    BY <2>3, <2>5
  <2>7. group \in [1 .. N -> 1 .. n] /\ \A i \in 1 .. N : hosts[group[i]] = h
    BY <2>1, <2>3, <2>5
  <2>8. ASSUME NEW i \in 1 .. N, NEW j \in 1 .. N, group[i] = group[j] PROVE i = j
    <3>1. group[i] \in Nat /\ group[j] \in Nat
      BY <2>7
    <3>2. ~(i < j) /\ ~(j < i)
      BY <2>3, <2>5, <2>8, <3>1
    <3> QED BY <2>5, <3>2
  <2>9. h \in Range(hosts) => N # 0
    BY <2>2, <2>4, FS_EmptySet DEF N
  <2> QED BY <2>5, <2>6, <2>7, <2>8, <2>9 DEF group
<1> QED BY <1>2, <1>3

Rank(hosts) ==
  [h \in Range(hosts) |-> Cardinality({g \in Range(hosts) \ {h} : Before(hosts, g, h)})]

\* The hosts are given their remainders one after the other.
LEMMA HostRanks ==
  ASSUME NEW n \in Nat, NEW H \in SUBSET Nat, NEW hosts \in URLLists(n, H)
  PROVE  /\ Cardinality(Range(hosts)) \in Nat
         /\ \A h \in Range(hosts) : Rank(hosts)[h] \in 0 .. Cardinality(Range(hosts)) - 1
         /\ \A g, h \in Range(hosts) : Rank(hosts)[g] = Rank(hosts)[h] => g = h
         /\ \A k \in 0 .. Cardinality(Range(hosts)) - 1 : \E h \in Range(hosts) : Rank(hosts)[h] = k
<1> DEFINE all  == Range(hosts)
           L(h) == Len(URLsOf(hosts, h))
           more == {p \in all \X all : Before(hosts, p[1], p[2])}
<1>1. IsFiniteSet(all) /\ \A h \in all : L(h) \in Nat
  BY HostGroups
<1>2. all \subseteq Nat
  BY DEF URLLists, Range
<1>3. \A g, h \in all : <<g, h>> \in more <=> L(g) > L(h) \/ (L(g) = L(h) /\ g < h)
  BY DEF Before
<1> HIDE DEF all, L, more
<1>4. /\ \A g, h \in all : g # h => <<g, h>> \in more \/ <<h, g>> \in more
      /\ \A h \in all : <<h, h>> \notin more
  BY <1>1, <1>2, <1>3
<1>5. \A f, g, h \in all : <<f, g>> \in more /\ <<g, h>> \in more => <<f, h>> \in more
  <2> SUFFICES ASSUME NEW f \in all, NEW g \in all, NEW h \in all,
                      <<f, g>> \in more, <<g, h>> \in more
               PROVE  <<f, h>> \in more
    OBVIOUS
  <2>1. L(f) > L(g) \/ (L(f) = L(g) /\ f < g)
    BY <1>3
  <2>2. L(g) > L(h) \/ (L(g) = L(h) /\ g < h)
    BY <1>3
  <2>3. L(f) \in Nat /\ L(g) \in Nat /\ L(h) \in Nat /\ f \in Nat /\ g \in Nat /\ h \in Nat
    BY <1>1, <1>2
  <2>4. L(f) > L(h) \/ (L(f) = L(h) /\ f < h)
    BY <2>1, <2>2, <2>3
  <2> QED BY <1>3, <2>4
<1> DEFINE place == [h \in all |-> Cardinality({g \in all : <<g, h>> \in more})]
<1>6. Numbers(place, all, more)
  BY <1>1, <1>4, <1>5, OrderRanks
<1>7. Rank(hosts) = place
  <2>1. ASSUME NEW h \in all
        PROVE  {g \in all \ {h} : Before(hosts, g, h)} = {g \in all : <<g, h>> \in more}
    <3>1. \A g \in all : <<g, h>> \in more <=> Before(hosts, g, h)
      BY <2>1 DEF more
    <3> QED BY <1>4, <2>1, <3>1
  <2> QED BY <2>1 DEF Rank, all
<1> HIDE DEF place
<1>8. ASSUME NEW g \in all, NEW h \in all, place[g] = place[h] PROVE g = h
  <2>1. place[g] \in Int
    BY <1>6 DEF Numbers
  <2>2. ASSUME <<g, h>> \in more \/ <<h, g>> \in more PROVE FALSE
    BY <1>6, <1>8, <2>1, <2>2 DEF Numbers
  <2> QED BY <1>4, <2>2
<1> QED BY <1>6, <1>7, <1>8 DEF Numbers, all

\* limit \div N and limit % N.
Quotient(limit, N, q, r) == q \in Nat /\ r \in 0 .. N - 1 /\ limit = N * q + r

LEMMA ShareOf ==
  ASSUME NEW n \in Nat, NEW H \in SUBSET Nat, NEW hosts \in URLLists(n, H), n # 0, NEW limit \in Nat
  PROVE  LET N == Cardinality(Range(hosts)) IN
         /\ N \in Nat \ {0}
         /\ \E q, r : /\ Quotient(limit, N, q, r)
                    /\ \A h \in Range(hosts) :
                         Share(hosts, h, limit) = q + IF Rank(hosts)[h] < r THEN 1 ELSE 0
<1> DEFINE N == Cardinality(Range(hosts))
           q == limit \div N
           r == limit % N
<1>1. N \in Nat /\ IsFiniteSet(Range(hosts))
  BY HostGroups
<1>2. N # 0
  <2>1. hosts[1] \in Range(hosts)
    BY DEF Range, URLLists
  <2> QED BY <1>1, <2>1, FS_EmptySet
<1>3. \A h \in Range(hosts) : Share(hosts, h, limit) = q + IF Rank(hosts)[h] < r THEN 1 ELSE 0
  BY DEF Share, Rank
<1> HIDE DEF N
<1>4. q \in Nat /\ r \in 0 .. N - 1 /\ limit = N * q + r
  BY <1>1, <1>2, Division
<1> HIDE DEF q, r
<1>5. Quotient(limit, N, q, r)
  BY <1>4 DEF Quotient
<1> QED BY <1>1, <1>2, <1>3, <1>5 DEF N

\* What is known of numbers that are written with a quotient and a rest.
LEMMA Rests ==
  ASSUME NEW N \in Nat \ {0}, NEW u \in Nat, NEW a \in 0 .. N - 1, NEW v \in Nat, NEW b \in 0 .. N - 1
  PROVE  /\ N * u + a \in Nat
         /\ u < v => N * u + a < N * v + b
         /\ N * u + a = N * v + b => u = v /\ a = b
         /\ N * u + a < N * v + b => u < v \/ (u = v /\ a < b)
<1>1. N * u \in Nat /\ N * v \in Nat
  OBVIOUS
<1>2. \A x, y \in Nat : x < y => N * x + N <= N * y
  <2>1. ASSUME NEW x \in Nat, NEW y \in Nat, x < y PROVE N * x + N <= N * y
    <3>1. N * (x + 1) = N * x + N /\ N * x \in Nat /\ N * y \in Nat
      OBVIOUS
    <3>2. (x + 1) * N <= y * N
      <4>1. x + 1 \in Nat /\ x + 1 <= y /\ N \in Nat
        BY <2>1
      <4> QED BY <4>1, Multiply
    <3>3. (x + 1) * N = N * (x + 1) /\ y * N = N * y
      OBVIOUS
    <3> QED BY <3>1, <3>2, <3>3
  <2> QED BY <2>1
<1> DEFINE U == N * u
           V == N * v
<1>3. U \in Nat /\ V \in Nat
  BY <1>1
<1>4. (u < v => U + N <= V) /\ (v < u => V + N <= U) /\ (u = v => U = V)
  BY <1>2
<1> HIDE DEF U, V
<1>5. U + a \in Nat /\ (u < v => U + a < V + b)
  BY <1>3, <1>4
<1>6. U + a = V + b => u = v /\ a = b
  BY <1>3, <1>4
<1>7. U + a < V + b => u < v \/ (u = v /\ a < b)
  BY <1>3, <1>4
<1> QED BY <1>5, <1>6, <1>7 DEF U, V

\* The places that the hosts have: as many as there are URLs to keep.
PlacesOf(hosts, limit) ==
  {place \in Range(hosts) \X (1 .. limit) : place[2] <= Share(hosts, place[1], limit)}

LEMMA SharesAddUp ==
  ASSUME NEW n \in Nat, NEW H \in SUBSET Nat, NEW hosts \in URLLists(n, H), n # 0, NEW limit \in Nat
  PROVE  /\ \A h \in Range(hosts) : Share(hosts, h, limit) \in 0 .. limit
         /\ IsFiniteSet(PlacesOf(hosts, limit))
         /\ Cardinality(PlacesOf(hosts, limit)) = limit
<1> DEFINE all == Range(hosts)
           N   == Cardinality(all)
           rank == Rank(hosts)
           P    == PlacesOf(hosts, limit)
<1>1. /\ N \in Nat \ {0}
      /\ \A h \in all : rank[h] \in 0 .. N - 1
      /\ \A g, h \in all : rank[g] = rank[h] => g = h
      /\ \A k \in 0 .. N - 1 : \E h \in all : rank[h] = k
  BY HostRanks, ShareOf
<1>2. PICK q, r : /\ Quotient(limit, N, q, r)
                  /\ \A h \in all : Share(hosts, h, limit) = q + IF rank[h] < r THEN 1 ELSE 0
  BY ShareOf
<1>3. q \in Nat /\ r \in 0 .. N - 1 /\ limit = N * q + r
  BY <1>2 DEF Quotient
<1>4. \A p : p \in P <=> p \in all \X (1 .. limit) /\ p[2] <= Share(hosts, p[1], limit)
  BY DEF PlacesOf
<1>5. P \subseteq all \X (1 .. limit)
  BY <1>4
<1> HIDE DEF all, N, rank, P
<1>6. \A h \in all : Share(hosts, h, limit) \in 0 .. limit
  <2>1. q <= N * q /\ N * q \in Nat
    <3>1. 1 * q <= N * q
      <4>1. 1 <= N /\ 1 \in Nat /\ N \in Nat
        BY <1>1
      <4> QED BY <1>3, <4>1, Multiply
    <3> QED BY <1>1, <1>3, <3>1
  <2> DEFINE m == N * q
  <2> HIDE DEF m
  <2>2. q <= m /\ m \in Nat /\ limit = m + r
    BY <1>3, <2>1 DEF m
  <2> SUFFICES ASSUME NEW h \in all PROVE Share(hosts, h, limit) \in 0 .. limit
    OBVIOUS
  <2>3. Share(hosts, h, limit) = q + IF rank[h] < r THEN 1 ELSE 0
    BY <1>2
  <2>4. rank[h] \in Nat /\ r \in Nat /\ q \in Nat
    BY <1>1, <1>3
  <2> QED BY <2>2, <2>3, <2>4
<1> DEFINE number == [p \in P |-> N * (p[2] - 1) + rank[p[1]]]
<1>7. ASSUME NEW p \in P
      PROVE  /\ p[1] \in all /\ p[2] - 1 \in Nat /\ rank[p[1]] \in 0 .. N - 1
             /\ number[p] \in 0 .. limit - 1
             /\ p = <<p[1], p[2]>> /\ p[2] \in Nat
  <2>1. p \in all \X (1 .. limit) /\ p[2] <= Share(hosts, p[1], limit)
    BY <1>4, <1>7
  <2>2. p[1] \in all /\ p[2] \in 1 .. limit /\ p = <<p[1], p[2]>>
    BY <2>1
  <2> DEFINE u == p[2] - 1
             a == rank[p[1]]
  <2>3. u \in Nat /\ a \in 0 .. N - 1 /\ p[2] \in Nat
    BY <1>1, <2>2
  <2>4. u < q \/ (u = q /\ a < r)
    <3>1. p[2] <= q + IF a < r THEN 1 ELSE 0
      BY <1>2, <2>1, <2>2
    <3> HIDE DEF a
    <3> QED BY <1>3, <2>3, <3>1
  <2> HIDE DEF u, a
  <2>5. N * u + a < N * q + r
    <3>1. CASE u < q
      BY <1>1, <1>3, <2>3, <3>1, Rests
    <3>2. CASE u = q /\ a < r
      <4>1. N * q \in Nat
        BY <1>1, <1>3
      <4> DEFINE m == N * q
      <4> HIDE DEF m
      <4>2. m + a < m + r
        BY <1>3, <2>3, <3>2, <4>1 DEF m
      <4> QED BY <3>2, <4>2 DEF m
    <3> QED BY <2>4, <3>1, <3>2
  <2>6. N * u + a \in Nat
    BY <1>1, <1>3, <2>3, Rests
  <2>7. number[p] = N * u + a
    BY <1>7 DEF u, a
  <2>8. number[p] \in 0 .. limit - 1
    BY <1>3, <2>5, <2>6, <2>7
  <2> QED BY <2>2, <2>3, <2>8 DEF u, a
<1>8. ASSUME NEW p \in P, NEW s \in P, number[p] = number[s] PROVE p = s
  <2>1. N * (p[2] - 1) + rank[p[1]] = N * (s[2] - 1) + rank[s[1]]
    BY <1>8
  <2>2. /\ p[1] \in all /\ p[2] - 1 \in Nat /\ rank[p[1]] \in 0 .. N - 1
        /\ s[1] \in all /\ s[2] - 1 \in Nat /\ rank[s[1]] \in 0 .. N - 1
        /\ p = <<p[1], p[2]>> /\ p[2] \in Nat /\ s = <<s[1], s[2]>> /\ s[2] \in Nat
    BY <1>7
  <2>3. p[2] - 1 = s[2] - 1 /\ rank[p[1]] = rank[s[1]]
    BY <1>1, <2>1, <2>2, Rests
  <2>4. p[1] = s[1] /\ p[2] = s[2]
    BY <1>1, <2>2, <2>3
  <2> QED BY <2>2, <2>4
<1>9. ASSUME NEW x \in 0 .. limit - 1 PROVE \E p \in P : number[p] = x
  <2> DEFINE u == x \div N
             a == x % N
  <2>1. u \in Nat /\ a \in 0 .. N - 1 /\ x = N * u + a /\ x \in Nat
    <3>1. \A b \in Nat : b \div N \in Nat /\ b % N \in 0 .. N - 1 /\ b = N * (b \div N) + (b % N)
      BY <1>1, Division
    <3> QED BY <3>1
  <2> HIDE DEF u, a
  <2>2. PICK h \in all : rank[h] = a
    BY <1>1, <2>1
  <2>3. x < limit
    BY <1>3
  <2>4. u < q \/ (u = q /\ a < r)
    <3>1. N * u + a < N * q + r
      BY <1>3, <2>1, <2>3
    <3> QED BY <1>1, <1>3, <2>1, <3>1, Rests
  <2>5. u + 1 <= Share(hosts, h, limit)
    <3>1. Share(hosts, h, limit) = q + IF a < r THEN 1 ELSE 0
      BY <1>2, <2>2
    <3> QED BY <1>3, <2>1, <2>4, <3>1
  <2>6. u + 1 \in 1 .. limit
    BY <1>6, <2>1, <2>5
  <2> DEFINE p == <<h, u + 1>>
  <2>7. p \in P
    BY <1>4, <2>5, <2>6
  <2>8. number[p] = x
    <3>1. p[1] = h /\ p[2] - 1 = u
      BY <2>1
    <3> HIDE DEF p
    <3> QED BY <2>1, <2>2, <2>7, <3>1
  <2> QED BY <2>7, <2>8
<1> HIDE DEF number
<1>10. number \in Bijection(P, 0 .. limit - 1)
  <2>1. number \in [P -> 0 .. limit - 1]
    BY <1>7 DEF number
  <2> QED BY <1>8, <1>9, <2>1 DEF Bijection, Injection, Surjection, IsInjective
<1>11. IsFiniteSet(0 .. limit - 1) /\ Cardinality(0 .. limit - 1) = limit
  <2>1. 0 \in Int /\ limit - 1 \in Int /\ limit - 1 - 0 + 1 = limit /\ (0 > limit - 1 => limit = 0)
    OBVIOUS
  <2> QED BY <2>1, FS_Interval
<1>12. IsFiniteSet(P)
  <2>1. IsFiniteSet(all)
    BY HostGroups DEF all
  <2>2. IsFiniteSet(1 .. limit)
    BY FS_Interval
  <2>3. IsFiniteSet(all \X (1 .. limit))
    BY <2>1, <2>2, FS_Product
  <2> QED BY <1>5, <2>3, FS_Subset
<1>13. Cardinality(P) = limit
  <2>1. ExistsBijection(P, 0 .. limit - 1)
    BY <1>10 DEF ExistsBijection
  <2> QED BY <1>11, <1>12, <2>1, FS_Bijection
<1> QED BY <1>6, <1>12, <1>13 DEF all, P

\* The places that a URL of the host is there for.
Filling(hosts, limit) ==
  {place \in PlacesOf(hosts, limit) : place[2] <= Len(URLsOf(hosts, place[1]))}

FirstURLs(hosts, limit) == UNION {FromHost(hosts, h, limit) : h \in Range(hosts)}

\* The URL that fills a place.
Pick(hosts, limit) ==
  [place \in Filling(hosts, limit) |->
     LET group == URLsOf(hosts, place[1])
         share == Share(hosts, place[1], limit)
     IN  IF Len(group) <= share THEN group[place[2]]
         ELSE group[((place[2] - 1) * Len(group)) \div share + 1]]

\* The URLs first taken fill the places, one each.
LEMMA PlacesFilled ==
  ASSUME NEW n \in Nat, NEW H \in SUBSET Nat, NEW hosts \in URLLists(n, H), n # 0, NEW limit \in Nat
  PROVE  Pick(hosts, limit) \in Bijection(Filling(hosts, limit), FirstURLs(hosts, limit))
<1> DEFINE all   == Range(hosts)
           F     == Filling(hosts, limit)
           first == FirstURLs(hosts, limit)
           pick  == Pick(hosts, limit)
           L(h)  == Len(URLsOf(hosts, h))
           share(h) == Share(hosts, h, limit)
           spot(h, k) == ((k - 1) * L(h)) \div share(h) + 1
<1>1. \A h \in all : /\ L(h) \in Nat /\ URLsOf(hosts, h) \in [1 .. L(h) -> 1 .. n]
                     /\ \A i \in 1 .. L(h) : hosts[URLsOf(hosts, h)[i]] = h
                     /\ \A i, j \in 1 .. L(h) : URLsOf(hosts, h)[i] = URLsOf(hosts, h)[j] => i = j
  BY HostGroups
<1>2. \A h \in all : share(h) \in 0 .. limit
  BY SharesAddUp
<1>3. ASSUME NEW p
      PROVE  p \in F <=> /\ p \in all \X (1 .. limit)
                         /\ p[2] <= share(p[1]) /\ p[2] <= L(p[1])
  BY DEF Filling, PlacesOf
<1>4. ASSUME NEW p \in F
      PROVE  pick[p] = IF L(p[1]) <= share(p[1]) THEN URLsOf(hosts, p[1])[p[2]]
                       ELSE URLsOf(hosts, p[1])[spot(p[1], p[2])]
  BY DEF Pick
<1>5. ASSUME NEW h \in all, share(h) \in 1 .. L(h)
      PROVE  /\ \A i \in 0 .. share(h) - 1 : (i * L(h)) \div share(h) + 1 \in 1 .. L(h)
             /\ \A i, j \in 0 .. share(h) - 1 :
                  i < j => (i * L(h)) \div share(h) < (j * L(h)) \div share(h)
  <2>1. L(h) \in Nat
    BY <1>1
  <2> HIDE DEF L, share
  <2> QED BY <1>5, <2>1, Places
<1>6. ASSUME NEW h \in all
      PROVE  FromHost(hosts, h, limit)
               = IF L(h) <= share(h) THEN Range(URLsOf(hosts, h)) ELSE Spread(URLsOf(hosts, h), share(h))
  BY DEF FromHost
<1>7. ASSUME NEW h \in all
      PROVE  Spread(URLsOf(hosts, h), share(h))
               = {URLsOf(hosts, h)[(i * L(h)) \div share(h) + 1] : i \in 0 .. share(h) - 1}
  BY DEF Spread
<1>8. first = UNION {FromHost(hosts, h, limit) : h \in all}
  BY DEF FirstURLs
<1>9. DOMAIN pick = F /\ pick = [p \in F |-> pick[p]]
  BY DEF Pick
<1> HIDE DEF all, F, first, pick, L, share
<1>10. ASSUME NEW p \in F
       PROVE  /\ p[1] \in all /\ p[2] \in 1 .. limit /\ p = <<p[1], p[2]>>
              /\ p[2] \in 1 .. L(p[1]) /\ p[2] \in 1 .. share(p[1])
              /\ L(p[1]) \in Nat /\ share(p[1]) \in Nat
              /\ ~(L(p[1]) <= share(p[1])) =>
                   /\ share(p[1]) \in 1 .. L(p[1]) /\ p[2] - 1 \in 0 .. share(p[1]) - 1
                   /\ spot(p[1], p[2]) \in 1 .. L(p[1])
  <2>1. p \in all \X (1 .. limit) /\ p[2] <= share(p[1]) /\ p[2] <= L(p[1])
    BY <1>3
  <2>2. p[1] \in all /\ p[2] \in 1 .. limit /\ p = <<p[1], p[2]>>
    BY <2>1
  <2>3. L(p[1]) \in Nat /\ share(p[1]) \in Nat
    BY <1>1, <1>2, <2>2
  <2>4. p[2] \in 1 .. L(p[1]) /\ p[2] \in 1 .. share(p[1])
    BY <2>1, <2>2, <2>3
  <2>5. ASSUME ~(L(p[1]) <= share(p[1]))
        PROVE  /\ share(p[1]) \in 1 .. L(p[1]) /\ p[2] - 1 \in 0 .. share(p[1]) - 1
               /\ spot(p[1], p[2]) \in 1 .. L(p[1])
    <3>1. share(p[1]) \in 1 .. L(p[1]) /\ p[2] - 1 \in 0 .. share(p[1]) - 1
      BY <2>3, <2>4, <2>5
    <3> QED BY <1>5, <2>2, <3>1
  <2> QED BY <2>2, <2>3, <2>4, <2>5
<1>11. ASSUME NEW p \in F PROVE pick[p] \in FromHost(hosts, p[1], limit) /\ hosts[pick[p]] = p[1]
  <2>1. /\ p[1] \in all /\ p[2] \in 1 .. L(p[1]) /\ L(p[1]) \in Nat
        /\ URLsOf(hosts, p[1]) \in [1 .. L(p[1]) -> 1 .. n]
        /\ \A i \in 1 .. L(p[1]) : hosts[URLsOf(hosts, p[1])[i]] = p[1]
    BY <1>1, <1>10
  <2>2. CASE L(p[1]) <= share(p[1])
    <3>1. pick[p] = URLsOf(hosts, p[1])[p[2]]
      BY <1>4, <2>2
    <3>2. FromHost(hosts, p[1], limit) = Range(URLsOf(hosts, p[1]))
      BY <1>6, <2>1, <2>2
    <3>3. URLsOf(hosts, p[1])[p[2]] \in Range(URLsOf(hosts, p[1]))
      BY <2>1 DEF Range
    <3> QED BY <2>1, <3>1, <3>2, <3>3
  <2>3. CASE ~(L(p[1]) <= share(p[1]))
    <3>1. pick[p] = URLsOf(hosts, p[1])[spot(p[1], p[2])]
      BY <1>4, <2>3
    <3>2. FromHost(hosts, p[1], limit)
            = {URLsOf(hosts, p[1])[(i * L(p[1])) \div share(p[1]) + 1] : i \in 0 .. share(p[1]) - 1}
      BY <1>6, <1>7, <2>1, <2>3
    <3>3. p[2] - 1 \in 0 .. share(p[1]) - 1 /\ spot(p[1], p[2]) \in 1 .. L(p[1])
      BY <1>10, <2>3
    <3> QED BY <2>1, <3>1, <3>2, <3>3
  <2> QED BY <2>2, <2>3
<1>12. pick \in [F -> first]
  BY <1>8, <1>9, <1>10, <1>11
<1>13. ASSUME NEW p \in F, NEW s \in F, pick[p] = pick[s] PROVE p = s
  <2> DEFINE h == p[1]
  <2>1. s[1] = h /\ h \in all
    BY <1>10, <1>11, <1>13
  <2>2. p = <<h, p[2]>> /\ s = <<h, s[2]>>
    BY <1>10, <2>1
  <2>3. /\ p[2] \in 1 .. L(h) /\ s[2] \in 1 .. L(h) /\ L(h) \in Nat
        /\ p[2] \in 1 .. share(h) /\ s[2] \in 1 .. share(h) /\ share(h) \in Nat
    BY <1>10, <2>1
  <2>4. \A i, j \in 1 .. L(h) : URLsOf(hosts, h)[i] = URLsOf(hosts, h)[j] => i = j
    BY <1>1, <2>1
  <2>5. CASE L(h) <= share(h)
    <3>1. pick[p] = URLsOf(hosts, h)[p[2]] /\ pick[s] = URLsOf(hosts, h)[s[2]]
      BY <1>4, <2>1, <2>5
    <3>2. p[2] = s[2]
      BY <1>13, <2>3, <2>4, <3>1
    <3> QED BY <2>2, <3>2
  <2>6. CASE ~(L(h) <= share(h))
    <3>1. /\ pick[p] = URLsOf(hosts, h)[spot(h, p[2])]
          /\ pick[s] = URLsOf(hosts, h)[spot(h, s[2])]
      BY <1>4, <2>1, <2>6
    <3>2. /\ spot(h, p[2]) \in 1 .. L(h) /\ spot(h, s[2]) \in 1 .. L(h)
          /\ share(h) \in 1 .. L(h)
          /\ p[2] - 1 \in 0 .. share(h) - 1 /\ s[2] - 1 \in 0 .. share(h) - 1
      BY <1>10, <2>1, <2>6
    <3>3. spot(h, p[2]) = spot(h, s[2])
      <4> HIDE DEF spot
      <4> QED BY <1>13, <2>4, <3>1, <3>2
    <3> DEFINE div(i) == (i * L(h)) \div share(h)
    <3>4. \A i, j \in 0 .. share(h) - 1 : i < j => div(i) < div(j)
      BY <1>5, <2>1, <3>2
    <3>5. div(p[2] - 1) + 1 = div(s[2] - 1) + 1
      BY <3>3
    <3>6. div(p[2] - 1) + 1 \in 1 .. L(h) /\ div(s[2] - 1) + 1 \in 1 .. L(h)
      BY <3>2
    <3>7. div(p[2] - 1) \in Int /\ div(s[2] - 1) \in Int
      <4>1. (p[2] - 1) * L(h) \in Int /\ (s[2] - 1) * L(h) \in Int
        BY <2>3
      <4> QED BY <3>2, <4>1
    <3> HIDE DEF div, h
    <3>8. div(p[2] - 1) = div(s[2] - 1)
      BY <3>5, <3>7
    <3>9. p[2] - 1 = s[2] - 1
      <4> DEFINE x == p[2] - 1
                 y == s[2] - 1
      <4>1. x \in 0 .. share(h) - 1 /\ y \in 0 .. share(h) - 1 /\ div(x) = div(y) /\ div(x) \in Int
        BY <3>2, <3>7, <3>8
      <4> HIDE DEF x, y
      <4>2. ~(x < y) /\ ~(y < x)
        BY <3>4, <4>1
      <4>3. x = y
        BY <4>1, <4>2
      <4> QED BY <4>3 DEF x, y
    <3> QED BY <2>2, <2>3, <3>9
  <2> QED BY <2>5, <2>6
<1>14. ASSUME NEW x \in first PROVE \E p \in F : pick[p] = x
  <2>1. PICK h \in all : x \in FromHost(hosts, h, limit)
    BY <1>8
  <2>2. /\ L(h) \in Nat /\ share(h) \in 0 .. limit
        /\ URLsOf(hosts, h) \in [1 .. L(h) -> 1 .. n]
    BY <1>1, <1>2
  <2>3. CASE L(h) <= share(h)
    <3>1. PICK k \in 1 .. L(h) : x = URLsOf(hosts, h)[k]
      <4>1. x \in Range(URLsOf(hosts, h))
        BY <1>6, <2>1, <2>3
      <4> QED BY <2>2, <4>1 DEF Range
    <3> DEFINE p == <<h, k>>
    <3>2. k \in 1 .. limit /\ k <= share(h) /\ k <= L(h)
      BY <2>2, <2>3
    <3>3. p[1] = h /\ p[2] = k /\ p \in all \X (1 .. limit)
      BY <3>2
    <3> HIDE DEF p
    <3>4. p \in F
      BY <1>3, <3>2, <3>3
    <3> QED BY <1>4, <2>3, <3>1, <3>3, <3>4
  <2>4. CASE ~(L(h) <= share(h))
    <3>1. PICK i \in 0 .. share(h) - 1 : x = URLsOf(hosts, h)[(i * L(h)) \div share(h) + 1]
      BY <1>6, <1>7, <2>1, <2>4
    <3> DEFINE p == <<h, i + 1>>
    <3>2. i + 1 \in 1 .. limit /\ i + 1 <= share(h) /\ i + 1 <= L(h) /\ i + 1 - 1 = i
      BY <2>2, <2>4
    <3>3. p[1] = h /\ p[2] = i + 1 /\ p \in all \X (1 .. limit)
      BY <3>2
    <3> HIDE DEF p
    <3>4. p \in F
      BY <1>3, <3>2, <3>3
    <3>5. spot(p[1], p[2]) = (i * L(h)) \div share(h) + 1
      BY <3>2, <3>3
    <3> HIDE DEF spot
    <3>6. pick[p] = URLsOf(hosts, h)[spot(p[1], p[2])]
      BY <1>4, <2>4, <3>3, <3>4
    <3> QED BY <3>1, <3>4, <3>5, <3>6
  <2> QED BY <2>3, <2>4
<1> QED BY <1>12, <1>13, <1>14 DEF Bijection, Injection, Surjection, IsInjective, F, first, pick

\* What URLsSelected asks of a selection.
Represents(chosen, hosts, limit) ==
  IF Len(hosts) > limit /\ Cardinality(Range(hosts)) > limit THEN chosen = NoSelection
  ELSE /\ chosen \subseteq DOMAIN hosts
       /\ Cardinality(chosen) = Least(limit, Len(hosts))
       /\ \A h \in Range(hosts) : \E i \in chosen : hosts[i] = h

\* With more hosts than URLs to keep, some share is zero; with no more, none.
LEMMA NoShare ==
  ASSUME NEW n \in Nat, NEW H \in SUBSET Nat, NEW hosts \in URLLists(n, H), n # 0, NEW limit \in Nat
  PROVE  (\E h \in Range(hosts) : Share(hosts, h, limit) = 0) <=> Cardinality(Range(hosts)) > limit
<1> DEFINE all == Range(hosts)
           N   == Cardinality(all)
           rank == Rank(hosts)
<1>1. /\ N \in Nat \ {0}
      /\ \A h \in all : rank[h] \in 0 .. N - 1
      /\ \A k \in 0 .. N - 1 : \E h \in all : rank[h] = k
  BY HostRanks, ShareOf
<1>2. PICK q, r : /\ Quotient(limit, N, q, r)
                  /\ \A h \in all : Share(hosts, h, limit) = q + IF rank[h] < r THEN 1 ELSE 0
  BY ShareOf
<1>3. q \in Nat /\ r \in 0 .. N - 1 /\ limit = N * q + r
  BY <1>2 DEF Quotient
<1> HIDE DEF all, N, rank
<1>4. CASE q = 0
  <2>1. limit = r
    <3>1. N * q = 0
      BY <1>1, <1>4
    <3> QED BY <1>3, <3>1
  <2>2. PICK h \in all : rank[h] = N - 1
    <3>1. N - 1 \in 0 .. N - 1
      BY <1>1
    <3> QED BY <1>1, <3>1
  <2>3. Share(hosts, h, limit) = 0
    <3>1. ~(N - 1 < r)
      BY <1>1, <1>3
    <3> QED BY <1>2, <1>4, <2>2, <3>1
  <2>4. N > limit
    BY <1>1, <1>3, <2>1
  <2> QED BY <2>3, <2>4 DEF all, N
<1>5. CASE q # 0
  <2>1. \A h \in all : Share(hosts, h, limit) # 0
    <3> SUFFICES ASSUME NEW h \in all PROVE Share(hosts, h, limit) # 0
      OBVIOUS
    <3>1. Share(hosts, h, limit) = q + IF rank[h] < r THEN 1 ELSE 0
      BY <1>2
    <3> QED BY <1>3, <1>5, <3>1
  <2>2. N * q >= N /\ N * q \in Nat
    <3>1. 1 * N <= q * N
      <4>1. 1 \in Nat /\ 1 <= q /\ N \in Nat
        BY <1>1, <1>3, <1>5
      <4> QED BY <1>3, <4>1, Multiply
    <3>2. 1 * N = N /\ q * N = N * q /\ N * q \in Nat
      BY <1>1, <1>3
    <3> QED BY <3>1, <3>2
  <2> DEFINE m == N * q
  <2> HIDE DEF m
  <2>3. ~(N > limit)
    <3>1. m >= N /\ m \in Nat /\ limit = m + r /\ r \in Nat /\ N \in Nat
      BY <1>1, <1>3, <2>2 DEF m
    <3> QED BY <3>1
  <2> QED BY <2>1, <2>3 DEF all, N
<1> QED BY <1>4, <1>5

LEMMA URLsCount ==
  ASSUME NEW n \in Nat, NEW H \in SUBSET Nat, NEW hosts \in URLLists(n, H), NEW limit \in Nat
  PROVE  Represents(SelectURLs(hosts, limit), hosts, limit)
<1> DEFINE all    == Range(hosts)
           chosen == SelectURLs(hosts, limit)
<1>1. Len(hosts) = n /\ DOMAIN hosts = 1 .. n /\ hosts \in [1 .. n -> H]
  BY DEF URLLists
<1>2. IsFiniteSet(1 .. n) /\ Cardinality(1 .. n) = n
  BY FS_Interval
<1>3. CASE n <= limit
  <2>1. chosen = 1 .. n
    BY <1>1, <1>3 DEF SelectURLs
  <2>2. Least(limit, n) = n
    BY <1>3 DEF Least
  <2>3. \A h \in all : \E i \in 1 .. n : hosts[i] = h
    BY <1>1 DEF Range
  <2> HIDE DEF chosen
  <2>4. ~(Len(hosts) > limit)
    BY <1>1, <1>3
  <2> QED BY <1>1, <1>2, <2>1, <2>2, <2>3, <2>4 DEF Represents, chosen
<1>4. CASE n > limit /\ Cardinality(all) > limit
  <2>1. n # 0 /\ ~(n <= limit)
    BY <1>4
  <2>2. \E h \in all : Share(hosts, h, limit) = 0
    BY <1>4, <2>1, NoShare
  <2>3. chosen = NoSelection
    BY <1>1, <2>1, <2>2 DEF SelectURLs
  <2> HIDE DEF chosen
  <2> QED BY <1>1, <1>4, <2>3 DEF Represents, chosen
<1>5. CASE n > limit /\ ~(Cardinality(all) > limit)
  <2> DEFINE P     == PlacesOf(hosts, limit)
             F     == Filling(hosts, limit)
             U     == P \ F
             first == FirstURLs(hosts, limit)
             rest  == (1 .. n) \ first
             more  == IF Cardinality(U) > 0
                      THEN Spread(Sorted(rest), Least(Cardinality(U), Len(Sorted(rest)))) ELSE {}
  <2>1. n # 0 /\ ~(n <= limit)
    BY <1>5
  <2>2. ~\E h \in all : Share(hosts, h, limit) = 0
    BY <1>5, <2>1, NoShare
  <2>3. /\ \A h \in all : Share(hosts, h, limit) \in 0 .. limit
        /\ IsFiniteSet(P) /\ Cardinality(P) = limit
    BY <2>1, SharesAddUp
  <2>4. \A h \in all : /\ Len(URLsOf(hosts, h)) \in Nat
                      /\ URLsOf(hosts, h) \in [1 .. Len(URLsOf(hosts, h)) -> 1 .. n]
                      /\ Len(URLsOf(hosts, h)) # 0
                      /\ \A i \in 1 .. Len(URLsOf(hosts, h)) : hosts[URLsOf(hosts, h)[i]] = h
    BY HostGroups
  <2>5. U = {place \in all \X (1 .. limit) : /\ Len(URLsOf(hosts, place[1])) < place[2]
                                             /\ place[2] <= Share(hosts, place[1], limit)}
    <3>1. ASSUME NEW p \in all \X (1 .. limit)
          PROVE  ~(p[2] <= Len(URLsOf(hosts, p[1]))) <=> Len(URLsOf(hosts, p[1])) < p[2]
      <4>1. p[1] \in all /\ p[2] \in Nat
        OBVIOUS
      <4>2. Len(URLsOf(hosts, p[1])) \in Nat
        BY <2>4, <4>1
      <4> QED BY <4>1, <4>2
    <3> QED BY <3>1 DEF PlacesOf, Filling
  <2>6. chosen = first \cup more
    <3>1. chosen = FirstURLs(hosts, limit) \cup
                     IF Cardinality(U) > 0
                     THEN Spread(Sorted(DOMAIN hosts \ FirstURLs(hosts, limit)),
                                 Least(Cardinality(U), Len(Sorted(DOMAIN hosts \ FirstURLs(hosts, limit)))))
                     ELSE {}
      <4> HIDE DEF U
      <4> QED BY <1>1, <2>1, <2>2, <2>5 DEF SelectURLs, FirstURLs
    <3> QED BY <1>1, <3>1
  <2>7. Pick(hosts, limit) \in Bijection(F, first)
    BY <2>1, PlacesFilled
  <2>8. F \subseteq P
    BY DEF Filling
  <2>9. \A p \in F : p[1] \in all
    BY DEF Filling, PlacesOf
  <2> HIDE DEF P, F, chosen
  <2>10. IsFiniteSet(F) /\ IsFiniteSet(U) /\ Cardinality(F) \in Nat /\ Cardinality(U) \in Nat
    BY <2>3, <2>8, FS_Subset, FS_Difference, FS_CardinalityType
  <2>11. Cardinality(F) + Cardinality(U) = limit
    <3>1. F \cup U = P /\ F \cap U = {}
      BY <2>8
    <3> QED BY <2>3, <2>10, <3>1, DisjointUnion
  <2>12. first \subseteq 1 .. n
    <3> SUFFICES ASSUME NEW h \in all, NEW x \in FromHost(hosts, h, limit) PROVE x \in 1 .. n
      BY DEF FirstURLs
    <3> DEFINE L == Len(URLsOf(hosts, h))
               share == Share(hosts, h, limit)
               group == URLsOf(hosts, h)
    <3>1. group \in [1 .. L -> 1 .. n] /\ L \in Nat /\ share \in 0 .. limit
      BY <2>3, <2>4
    <3>2. FromHost(hosts, h, limit) = IF L <= share THEN Range(group) ELSE Spread(group, share)
      BY DEF FromHost
    <3>3. Spread(group, share) = {group[(i * L) \div share + 1] : i \in 0 .. share - 1}
      BY DEF Spread
    <3> HIDE DEF L, share, group
    <3>4. CASE L <= share
      BY <3>1, <3>2, <3>4 DEF Range
    <3>5. CASE ~(L <= share)
      <4>1. PICK i \in 0 .. share - 1 : x = group[(i * L) \div share + 1]
        BY <3>2, <3>3, <3>5
      <4>2. share \in 1 .. L
        BY <3>1, <3>5, <4>1
      <4>3. (i * L) \div share + 1 \in 1 .. L
        BY <3>1, <4>2, Places
      <4> QED BY <3>1, <4>1, <4>3
    <3> QED BY <3>4, <3>5
  <2> HIDE DEF U, first
  <2>13. IsFiniteSet(first) /\ Cardinality(first) = Cardinality(F)
    <3>1. ExistsBijection(F, first)
      BY <2>7 DEF ExistsBijection
    <3>2. IsFiniteSet(first)
      BY <1>2, <2>12, FS_Subset
    <3> QED BY <2>10, <3>1, <3>2, FS_Bijection
  <2>14. IsFiniteSet(rest) /\ Cardinality(rest) = n - Cardinality(first) /\ rest \subseteq Nat
    <3>1. (1 .. n) \cap first = first
      BY <2>12
    <3>2. IsFiniteSet(rest) /\ Cardinality(rest) = Cardinality(1 .. n) - Cardinality((1 .. n) \cap first)
      BY <1>2, <2>13, FS_Difference
    <3>3. rest \subseteq Nat
      OBVIOUS
    <3> DEFINE common == (1 .. n) \cap first
    <3> HIDE DEF rest, common
    <3>4. IsFiniteSet(rest) /\ Cardinality(rest) = Cardinality(1 .. n) - Cardinality(common) /\ common = first
      BY <3>1, <3>2 DEF common
    <3> QED BY <1>2, <3>3, <3>4
  <2>15. rest \cap first = {} /\ rest \subseteq 1 .. n
    OBVIOUS
  <2> HIDE DEF rest
  <2>16. Cardinality(U) < Cardinality(rest) /\ Cardinality(rest) \in Nat
    BY <1>5, <2>10, <2>11, <2>13, <2>14
  <2>17. more \subseteq rest /\ IsFiniteSet(more) /\ Cardinality(more) = Cardinality(U)
    <3> DEFINE group == Sorted(rest)
               taken == IF Len(group) <= Cardinality(U) THEN Range(group) ELSE Spread(group, Cardinality(U))
    <3>1. /\ taken \subseteq rest /\ IsFiniteSet(taken)
          /\ Cardinality(taken) = Least(Cardinality(U), Cardinality(rest))
          /\ Len(group) = Cardinality(rest)
      BY <2>10, <2>14, Filled
    <3> HIDE DEF group
    <3>2. taken = Spread(group, Cardinality(U)) /\ Least(Cardinality(U), Len(group)) = Cardinality(U)
      BY <2>10, <2>16, <3>1 DEF Least
    <3>3. Least(Cardinality(U), Cardinality(rest)) = Cardinality(U)
      BY <2>10, <2>16 DEF Least
    <3>4. CASE Cardinality(U) > 0
      <4>1. more = Spread(group, Cardinality(U))
        BY <3>2, <3>4 DEF group
      <4> HIDE DEF more, taken
      <4> QED BY <3>1, <3>2, <3>3, <4>1
    <3>5. CASE Cardinality(U) = 0
      <4>1. more = {}
        BY <3>5
      <4> HIDE DEF more
      <4> QED BY <3>5, <4>1, FS_EmptySet
    <3> QED BY <2>10, <3>4, <3>5
  <2> HIDE DEF more
  <2>18. Cardinality(first \cup more) = limit
    <3>1. first \cap more = {}
      BY <2>15, <2>17
    <3> QED BY <2>10, <2>11, <2>13, <2>17, <3>1, DisjointUnion
  <2>19. ASSUME NEW h \in all PROVE \E i \in first : hosts[i] = h
    <3> DEFINE L == Len(URLsOf(hosts, h))
               share == Share(hosts, h, limit)
               group == URLsOf(hosts, h)
    <3>1. /\ group \in [1 .. L -> 1 .. n] /\ L \in Nat /\ L # 0 /\ share \in 0 .. limit
          /\ share # 0 /\ \A i \in 1 .. L : hosts[group[i]] = h
      BY <2>2, <2>3, <2>4
    <3>2. FromHost(hosts, h, limit) = IF L <= share THEN Range(group) ELSE Spread(group, share)
      BY DEF FromHost
    <3>3. Spread(group, share) = {group[(i * L) \div share + 1] : i \in 0 .. share - 1}
      BY DEF Spread
    <3>4. FromHost(hosts, h, limit) \subseteq first
      BY DEF FirstURLs, first
    <3> HIDE DEF L, share, group
    <3>5. CASE L <= share
      <4>1. group[1] \in Range(group) /\ hosts[group[1]] = h
        BY <3>1 DEF Range
      <4> QED BY <3>2, <3>4, <3>5, <4>1
    <3>6. CASE ~(L <= share)
      <4>1. share \in 1 .. L /\ 0 \in 0 .. share - 1
        BY <3>1, <3>6
      <4>2. (0 * L) \div share + 1 \in 1 .. L
        BY <3>1, <4>1, Places
      <4>3. group[(0 * L) \div share + 1] \in Spread(group, share)
        BY <3>3, <4>1
      <4>4. hosts[group[(0 * L) \div share + 1]] = h
        BY <3>1, <4>2
      <4> QED BY <3>2, <3>4, <3>6, <4>3, <4>4
    <3> QED BY <3>5, <3>6
  <2>20. Least(limit, n) = limit
    BY <1>5 DEF Least
  <2>21. chosen \subseteq 1 .. n
    BY <2>6, <2>12, <2>15, <2>17
  <2>22. \A h \in all : \E i \in chosen : hosts[i] = h
    BY <2>6, <2>19
  <2> QED BY <1>1, <1>5, <2>6, <2>18, <2>20, <2>21, <2>22 DEF Represents, chosen
<1>6. Cardinality(all) \in Nat
  BY HostGroups
<1> QED BY <1>3, <1>4, <1>5, <1>6

LEMMA URLsBounded == BoundsAssumption => URLsSelected
<1> SUFFICES ASSUME BoundsAssumption, NEW hosts \in UpTo(1 .. 3), NEW limit \in Limits
             PROVE  Represents(SelectURLs(hosts, limit), hosts, limit)
  BY DEF URLsSelected, Represents
<1>1. hosts \in URLLists(Len(hosts), 1 .. 3) /\ Len(hosts) \in Nat
  BY Inputs DEF URLLists
<1>2. limit \in Nat /\ 1 .. 3 \in SUBSET Nat
  BY DEF Limits
<1> QED BY <1>1, <1>2, URLsCount

-----------------------------------------------------------------------------
(***************************************************************************)
(* At every bound exactly as much is kept as the bound allows, whatever    *)
(* the length of the input (see BoundsKept in Stages).                     *)
(***************************************************************************)
THEOREM AllWithinBounds == BoundsAssumption => WithinBounds
BY NamesBounded, URLsBounded, ListsBounded, CandidatesBounded, PathsBounded, BodiesBounded
   DEF WithinBounds
=============================================================================
