------------------------ MODULE RequestLimiterProofs ------------------------
(***************************************************************************)
(* The limiter's safety properties for every number of tasks, every        *)
(* budget, rate and concurrency.  The inductive invariant adds to the      *)
(* properties themselves that the semaphore's units are conserved and that *)
(* its queue lists exactly the queued tasks, each once.                    *)
(***************************************************************************)
EXTENDS RequestLimiter, FiniteSetTheorems, TLAPS

\* The queue holds exactly the tasks that wait in it, each of them once.
QueueOK ==
  /\ \A i \in DOMAIN waiters : pc[waiters[i]] = "queued"
  /\ \A i, j \in DOMAIN waiters : waiters[i] = waiters[j] => i = j
  /\ \A t \in Tasks : pc[t] = "queued" => \E i \in DOMAIN waiters : waiters[i] = t

\* Every unit of the semaphore is free, reserved or held.
UnitsConserved == value + Cardinality(Reserved) + Cardinality(Holding) = MaxConcurrent

IInv ==
  /\ TypeOK
  /\ QueueOK
  /\ UnitsConserved
  /\ BudgetConserved
  /\ MetricsBalance
  /\ ConcurrencyBound
  /\ NoLostWakeup
-----------------------------------------------------------------------------
\* Every set of tasks is finite and has a natural number of members.
LEMMA TasksFinite ==
  ASSUME NEW S \in SUBSET Tasks
  PROVE  IsFiniteSet(S) /\ Cardinality(S) \in Nat
BY LimiterAssumption, FS_Subset, FS_CardinalityType

\* The first k members of a queue without repetition are k tasks.
LEMMA PrefixCardinality ==
  ASSUME NEW q \in Seq(Tasks), NEW k \in 0 .. Len(q),
         \A i, j \in DOMAIN q : q[i] = q[j] => i = j
  PROVE  /\ {q[i] : i \in 1 .. k} \in SUBSET Tasks
         /\ Cardinality({q[i] : i \in 1 .. k}) = k
<1> DEFINE T == {q[i] : i \in 1 .. k}
           f == [i \in 1 .. k |-> q[i]]
<1>1. f \in Bijection(1 .. k, T)
  <2>1. f \in [1 .. k -> T]
    OBVIOUS
  <2>2. \A i, j \in 1 .. k : f[i] = f[j] => i = j
    OBVIOUS
  <2>3. \A x \in T : \E i \in 1 .. k : f[i] = x
    OBVIOUS
  <2> QED
    BY <2>1, <2>2, <2>3 DEF Bijection, Injection, Surjection, IsInjective
<1>2. IsFiniteSet(1 .. k) /\ Cardinality(1 .. k) = k
  BY FS_Interval
<1>3. Cardinality(T) = k
  <2> HIDE DEF T, f
  <2> QED BY <1>1, <1>2, FS_Bijection DEF ExistsBijection
<1>4. T \in SUBSET Tasks
  OBVIOUS
<1> QED BY <1>3, <1>4

\* Taking a task out of the queue leaves the others, in a queue one shorter.
LEMMA WithoutEffect ==
  ASSUME NEW q \in Seq(Tasks), NEW t \in Tasks,
         \A i, j \in DOMAIN q : q[i] = q[j] => i = j,
         \E i \in DOMAIN q : q[i] = t
  PROVE  /\ Without(q, t) \in Seq(Tasks)
         /\ \A i \in DOMAIN Without(q, t) :
              /\ Without(q, t)[i] # t
              /\ \E j \in DOMAIN q : Without(q, t)[i] = q[j]
         /\ \A i, j \in DOMAIN Without(q, t) :
              Without(q, t)[i] = Without(q, t)[j] => i = j
         /\ \A j \in DOMAIN q : q[j] # t =>
              \E i \in DOMAIN Without(q, t) : Without(q, t)[i] = q[j]
<1> DEFINE k == CHOOSE i \in DOMAIN q : q[i] = t
           w == Without(q, t)
<1>1. k \in 1 .. Len(q) /\ q[k] = t
  OBVIOUS
<1>2. w = [i \in 1 .. Len(q) - 1 |-> IF i < k THEN q[i] ELSE q[i + 1]]
  BY DEF Without
<1> HIDE DEF k, w
<1>3. Len(q) \in Nat /\ Len(q) >= 1
  BY <1>1
<1>4. w \in Seq(Tasks)
  <2>1. \A i \in 1 .. Len(q) - 1 : (IF i < k THEN q[i] ELSE q[i + 1]) \in Tasks
    BY <1>3
  <2> QED BY <1>2, <1>3, <2>1
<1>5. DOMAIN w = 1 .. Len(q) - 1
  BY <1>2
<1>6. \A i \in DOMAIN w : w[i] # t /\ \E j \in DOMAIN q : w[i] = q[j]
  BY <1>1, <1>2, <1>3, <1>5
<1>7. \A i, j \in DOMAIN w : w[i] = w[j] => i = j
  BY <1>1, <1>2, <1>3, <1>5
<1>8. ASSUME NEW j \in DOMAIN q, q[j] # t
      PROVE  \E i \in DOMAIN w : w[i] = q[j]
  <2>1. CASE j < k
    BY <1>1, <1>2, <1>3, <1>5, <2>1
  <2>2. CASE j > k
    <3>1. j - 1 \in DOMAIN w /\ w[j - 1] = q[j]
      BY <1>1, <1>2, <1>3, <1>5, <2>2
    <3> QED BY <3>1
  <2> QED BY <1>1, <1>8, <2>1, <2>2
<1> QED BY <1>4, <1>6, <1>7, <1>8 DEF w

(* What waking the first k waiters does to the semaphore's account: k more *)
(* units reserved, the queue shorter by k, t gone where it was going.      *)
CanWake(t, to, v, k) ==
  /\ TypeOK /\ QueueOK
  /\ t \in Tasks /\ pc[t] \in PC \ {"queued", "pacing"}
  /\ to \in {"idle", "active"}
  /\ v \in Nat /\ k \in 0 .. Len(waiters) /\ k <= v
  /\ Wake(t, to, v, k)

Woken(t, to, v, k) ==
  /\ pc' \in [Tasks -> PC]
  /\ waiters' \in Seq(Tasks)
  /\ value' \in Nat
  /\ value' = v - k
  /\ Len(waiters') = Len(waiters) - k
  /\ QueueOK'
  /\ Cardinality(Reserved') = Cardinality(Reserved \ {t}) + k
  /\ Waiting' = Waiting \ {t}
  /\ to = "active" => Holding' = Holding \cup {t}
  /\ to = "idle" => Holding' = Holding \ {t}

LEMMA WakeEffect ==
  ASSUME NEW t, NEW to, NEW v, NEW k, CanWake(t, to, v, k)
  PROVE  Woken(t, to, v, k)
<1> USE DEF CanWake
<1> DEFINE woken == {waiters[i] : i \in 1 .. k}
<1>1. /\ waiters \in Seq(Tasks) /\ Len(waiters) \in Nat
      /\ DOMAIN waiters = 1 .. Len(waiters)
      /\ \A i \in 1 .. Len(waiters) : waiters[i] \in Tasks
  BY DEF TypeOK
<1>2. woken \in SUBSET Tasks /\ Cardinality(woken) = k
  BY <1>1, PrefixCardinality DEF QueueOK
<1>3. \A u \in woken : pc[u] = "queued" /\ u # t
  BY <1>1 DEF QueueOK
<1>4. /\ pc' = [u \in Tasks |-> IF u = t THEN to
                              ELSE IF u \in woken THEN "granted" ELSE pc[u]]
      /\ waiters' = SubSeq(waiters, k + 1, Len(waiters))
      /\ value' = v - k
  BY DEF Wake
<1> HIDE DEF woken
<1>5. pc' \in [Tasks -> PC]
  BY <1>4 DEF TypeOK, PC
<1>6. /\ waiters' \in Seq(Tasks)
      /\ Len(waiters') = Len(waiters) - k
      /\ \A i \in 1 .. Len(waiters) - k : waiters'[i] = waiters[i + k]
  <2>1. k \in 0 .. Len(waiters)
    OBVIOUS
  <2> HIDE DEF CanWake
  <2> QED BY <1>1, <1>4, <2>1
<1>7. QueueOK'
  <2>1. DOMAIN waiters' = 1 .. Len(waiters) - k
    BY <1>1, <1>6
  <2>2. \A i, j \in DOMAIN waiters' : waiters'[i] = waiters'[j] => i = j
    <3> SUFFICES ASSUME NEW i \in 1 .. Len(waiters) - k, NEW j \in 1 .. Len(waiters) - k,
                        waiters'[i] = waiters'[j]
                 PROVE  i = j
      BY <2>1
    <3>1. i + k \in DOMAIN waiters /\ j + k \in DOMAIN waiters
      BY <1>1
    <3>2. waiters[i + k] = waiters[j + k]
      BY <1>6
    <3>3. i + k = j + k
      BY <3>1, <3>2 DEF QueueOK
    <3> QED BY <3>3, <1>1
  <2>3. ASSUME NEW i \in DOMAIN waiters' PROVE pc'[waiters'[i]] = "queued"
    <3>1. i \in 1 .. Len(waiters) - k /\ i + k \in DOMAIN waiters
      BY <1>1, <2>1
    <3>2. waiters'[i] = waiters[i + k] /\ pc[waiters[i + k]] = "queued"
      BY <1>6, <3>1 DEF QueueOK
    <3>3. waiters[i + k] \notin woken
      <4> SUFFICES ASSUME NEW j \in 1 .. k, waiters[j] = waiters[i + k] PROVE FALSE
        BY DEF woken
      <4>1. j \in DOMAIN waiters
        BY <1>1
      <4>2. j = i + k
        BY <3>1, <4>1 DEF QueueOK
      <4> QED BY <4>2, <3>1
    <3>4. waiters[i + k] \in Tasks /\ waiters[i + k] # t
      BY <1>1, <3>1, <3>2
    <3> QED BY <1>4, <3>2, <3>3, <3>4
  <2>4. ASSUME NEW u \in Tasks, pc'[u] = "queued"
        PROVE  \E i \in DOMAIN waiters' : waiters'[i] = u
    <3>1. u # t /\ u \notin woken /\ pc[u] = "queued"
      BY <1>4, <2>4
    <3>2. PICK j \in DOMAIN waiters : waiters[j] = u
      BY <3>1 DEF QueueOK
    <3>3. j > k
      BY <1>1, <3>1, <3>2 DEF woken
    <3>4. j - k \in DOMAIN waiters' /\ waiters'[j - k] = u
      BY <1>1, <1>6, <2>1, <3>2, <3>3
    <3> QED BY <3>4
  <2> QED BY <2>2, <2>3, <2>4 DEF QueueOK
<1>8. Reserved' = (Reserved \ {t}) \cup woken
  BY <1>2, <1>3, <1>4 DEF Reserved, In
<1>9. Cardinality(Reserved') = Cardinality(Reserved \ {t}) + k
  <2>1. Reserved \ {t} \in SUBSET Tasks
    BY DEF Reserved, In
  <2>2. (Reserved \ {t}) \cap woken = {}
    BY <1>3 DEF Reserved, In
  <2>3. Cardinality({}) = 0
    BY FS_EmptySet
  <2>4. IsFiniteSet(Reserved \ {t}) /\ IsFiniteSet(woken) /\ Cardinality(Reserved \ {t}) \in Nat
    BY <1>2, <2>1, TasksFinite
  <2>5. Cardinality((Reserved \ {t}) \cup woken)
          = Cardinality(Reserved \ {t}) + Cardinality(woken) - Cardinality((Reserved \ {t}) \cap woken)
    BY <2>4, FS_Union
  <2>6. Cardinality(Reserved') = Cardinality((Reserved \ {t}) \cup woken)
    BY <1>8
  <2>7. k \in Nat
    BY <1>1
  <2>8. Cardinality((Reserved \ {t}) \cap woken) = 0
    BY <2>2, <2>3
  <2> QED BY <1>2, <2>4, <2>5, <2>6, <2>7, <2>8
<1>10. Waiting' = Waiting \ {t}
  BY <1>2, <1>3, <1>4 DEF Waiting, In, PC, TypeOK
<1>11. /\ to = "active" => Holding' = Holding \cup {t}
       /\ to = "idle" => Holding' = Holding \ {t}
  BY <1>2, <1>3, <1>4 DEF Holding, In, TypeOK
<1>12. value' \in Nat
  BY <1>1, <1>4
<1> QED BY <1>4, <1>5, <1>6, <1>7, <1>9, <1>10, <1>11, <1>12 DEF Woken
-----------------------------------------------------------------------------
(* t goes from one of the three sets to another, or to none.               *)
LEMMA CardinalityOfMove ==
  ASSUME NEW S \in SUBSET Tasks, NEW t \in Tasks
  PROVE  /\ Cardinality(S \cup {t}) = IF t \in S THEN Cardinality(S) ELSE Cardinality(S) + 1
         /\ Cardinality(S \ {t}) = IF t \in S THEN Cardinality(S) - 1 ELSE Cardinality(S)
         /\ Cardinality(S) \in Nat
         /\ t \in S => Cardinality(S) >= 1
<1>1. IsFiniteSet(S) /\ Cardinality(S) \in Nat
  BY TasksFinite
<1>2. t \in S => Cardinality(S) # 0
  BY <1>1, FS_EmptySet
<1>3. Cardinality(S \cup {t}) = IF t \in S THEN Cardinality(S) ELSE Cardinality(S) + 1
  BY <1>1, FS_AddElement
<1>4. Cardinality(S \ {t}) = IF t \in S THEN Cardinality(S) - 1 ELSE Cardinality(S)
  BY <1>1, FS_RemoveElement
<1> QED BY <1>1, <1>2, <1>3, <1>4

\* The three sets hold tasks, so their sizes are natural numbers.
LEMMA SetsOfTasks ==
  /\ Waiting \in SUBSET Tasks /\ Cardinality(Waiting) \in Nat
  /\ Reserved \in SUBSET Tasks /\ Cardinality(Reserved) \in Nat
  /\ Holding \in SUBSET Tasks /\ Cardinality(Holding) \in Nat
<1>1. Waiting \in SUBSET Tasks /\ Reserved \in SUBSET Tasks /\ Holding \in SUBSET Tasks
  BY DEF Waiting, Reserved, Holding, In
<1> QED BY <1>1, TasksFinite

LEMMA InitIInv == Init => IInv
<1> SUFFICES ASSUME Init PROVE IInv
  OBVIOUS
<1>1. TypeOK
  BY LimiterAssumption DEF Init, TypeOK, PC
<1>2. QueueOK
  BY DEF Init, QueueOK
<1>3. Waiting = {} /\ Reserved = {} /\ Holding = {}
  BY DEF Init, Waiting, Reserved, Holding, In, PC
<1>4. Cardinality({}) = 0
  BY FS_EmptySet
<1>5. UnitsConserved /\ BudgetConserved /\ MetricsBalance /\ ConcurrencyBound
  BY <1>3, <1>4, LimiterAssumption
     DEF Init, UnitsConserved, BudgetConserved, Paid, MetricsBalance, ConcurrencyBound
<1>6. NoLostWakeup
  BY DEF Init, NoLostWakeup
<1> QED BY <1>1, <1>2, <1>5, <1>6 DEF IInv

\* The same after a step.
LEMMA SetsOfTasksNext ==
  /\ Waiting' \in SUBSET Tasks /\ Cardinality(Waiting') \in Nat
  /\ Reserved' \in SUBSET Tasks /\ Cardinality(Reserved') \in Nat
  /\ Holding' \in SUBSET Tasks /\ Cardinality(Holding') \in Nat
<1>1. Waiting' \in SUBSET Tasks /\ Reserved' \in SUBSET Tasks /\ Holding' \in SUBSET Tasks
  BY DEF Waiting, Reserved, Holding, In
<1> QED BY <1>1, TasksFinite
-----------------------------------------------------------------------------
(* One lemma per action: it preserves the inductive invariant.             *)

LEMMA AdmitIInv == ASSUME NEW t \in Tasks, IInv, Admit(t) PROVE IInv'
<1> USE DEF IInv
<1>1. TypeOK'
  BY LimiterAssumption DEF TypeOK, Admit, PC, Larger, sem
<1>2. QueueOK'
  BY DEF QueueOK, Admit, TypeOK, sem
<1>3. /\ Waiting' = Waiting \cup {t} /\ t \notin Waiting
      /\ Reserved' = Reserved /\ Holding' = Holding
  BY DEF Waiting, Reserved, Holding, In, Admit, TypeOK, PC
<1>4. Cardinality(Waiting') = Cardinality(Waiting) + 1
  BY <1>3, SetsOfTasks, CardinalityOfMove
<1>5. /\ budget' = budget - 1 /\ admitted' = admitted + 1
      /\ UNCHANGED <<completed, failed, active, peak, value, waiters>>
  BY DEF Admit, sem
<1>6. UnitsConserved' /\ ConcurrencyBound' /\ NoLostWakeup'
  BY <1>3, <1>5 DEF UnitsConserved, ConcurrencyBound, NoLostWakeup
<1>7. Paid' = Paid + 1
  BY <1>4, <1>5, SetsOfTasks DEF Paid, TypeOK
<1>8. BudgetConserved' /\ MetricsBalance'
  BY <1>3, <1>5, <1>7, SetsOfTasks DEF BudgetConserved, MetricsBalance, Paid, TypeOK
<1> QED BY <1>1, <1>2, <1>6, <1>8

LEMMA StartUncontendedIInv ==
  ASSUME NEW t \in Tasks, IInv, StartUncontended(t) PROVE IInv'
<1> USE DEF IInv
<1>1. value # 0 /\ waiters = <<>>
  BY DEF StartUncontended, Locked
<1>2. TypeOK'
  BY <1>1 DEF TypeOK, StartUncontended, CountActive, PC, Larger
<1>3. QueueOK'
  BY <1>1 DEF QueueOK, StartUncontended, TypeOK
<1>4. /\ Waiting' = Waiting \ {t} /\ t \in Waiting
      /\ Reserved' = Reserved
      /\ Holding' = Holding \cup {t} /\ t \notin Holding
  BY DEF Waiting, Reserved, Holding, In, StartUncontended, TypeOK, PC
<1>5. /\ Cardinality(Waiting') = Cardinality(Waiting) - 1
      /\ Cardinality(Holding') = Cardinality(Holding) + 1
  BY <1>4, SetsOfTasks, CardinalityOfMove
<1>6. /\ active' = active + 1 /\ peak' = Larger(peak, active + 1)
      /\ value' = value - 1
      /\ UNCHANGED <<budget, admitted, completed, failed, waiters>>
  BY DEF StartUncontended, CountActive
<1>7. UnitsConserved'
  BY <1>4, <1>5, <1>6, SetsOfTasks, LimiterAssumption DEF UnitsConserved, TypeOK
<1>8. Paid' = Paid
  BY <1>5, <1>6, SetsOfTasks DEF Paid, TypeOK
<1>9. BudgetConserved' /\ MetricsBalance'
  BY <1>5, <1>6, <1>8, SetsOfTasks DEF BudgetConserved, MetricsBalance, TypeOK
<1>10. ConcurrencyBound'
  <2>1. Cardinality(Holding') <= MaxConcurrent
    <3>1. value' + Cardinality(Reserved') + Cardinality(Holding') = MaxConcurrent
      BY <1>7 DEF UnitsConserved
    <3>2. value' \in Nat
      BY <1>2 DEF TypeOK
    <3> QED BY <3>1, <3>2, SetsOfTasksNext, LimiterAssumption
  <2>2. active + 1 = Cardinality(Holding')
    BY <1>5 DEF MetricsBalance
  <2> QED BY <1>6, <2>1, <2>2 DEF ConcurrencyBound, Larger
<1>11. NoLostWakeup'
  BY <1>1, <1>6 DEF NoLostWakeup
<1> QED BY <1>2, <1>3, <1>7, <1>9, <1>10, <1>11

LEMMA EnqueueIInv == ASSUME NEW t \in Tasks, IInv, Enqueue(t) PROVE IInv'
<1> USE DEF IInv
<1>1. /\ waiters \in Seq(Tasks) /\ Len(waiters) \in Nat
      /\ DOMAIN waiters = 1 .. Len(waiters)
  BY DEF TypeOK
<1>2. /\ waiters' \in Seq(Tasks)
      /\ DOMAIN waiters' = 1 .. Len(waiters) + 1
      /\ \A i \in 1 .. Len(waiters) : waiters'[i] = waiters[i]
      /\ waiters'[Len(waiters) + 1] = t
  BY <1>1 DEF Enqueue
<1>3. TypeOK'
  BY <1>2 DEF TypeOK, Enqueue, PC, metrics
<1>4. \A i \in DOMAIN waiters : waiters[i] # t
  BY DEF QueueOK, Enqueue
<1>5. QueueOK'
  <2>1. \A i \in DOMAIN waiters' : pc'[waiters'[i]] = "queued"
    BY <1>1, <1>2, <1>4 DEF QueueOK, Enqueue, TypeOK
  <2>2. \A i, j \in DOMAIN waiters' : waiters'[i] = waiters'[j] => i = j
    BY <1>1, <1>2, <1>4 DEF QueueOK
  <2>3. ASSUME NEW u \in Tasks, pc'[u] = "queued"
        PROVE  \E i \in DOMAIN waiters' : waiters'[i] = u
    <3>1. CASE u = t
      BY <1>1, <1>2, <3>1
    <3>2. CASE u # t
      BY <1>1, <1>2, <2>3, <3>2 DEF QueueOK, Enqueue, TypeOK
    <3> QED BY <3>1, <3>2
  <2> QED BY <2>1, <2>2, <2>3 DEF QueueOK
<1>6. Waiting' = Waiting /\ Reserved' = Reserved /\ Holding' = Holding
  BY DEF Waiting, Reserved, Holding, In, Enqueue, TypeOK, PC
<1>7. UNCHANGED <<budget, admitted, completed, failed, active, peak, value>>
  BY DEF Enqueue, metrics
<1>8. UnitsConserved' /\ BudgetConserved' /\ MetricsBalance' /\ ConcurrencyBound'
  BY <1>6, <1>7 DEF UnitsConserved, BudgetConserved, Paid, MetricsBalance, ConcurrencyBound
<1>9. NoLostWakeup'
  BY <1>6, <1>7 DEF NoLostWakeup, Enqueue, Locked
<1> QED BY <1>3, <1>5, <1>8, <1>9

LEMMA StartGrantedIInv ==
  ASSUME NEW t \in Tasks, IInv, StartGranted(t) PROVE IInv'
<1> USE DEF IInv
<1> DEFINE k == Smaller(value, Len(waiters))
<1>1. k \in 0 .. Len(waiters) /\ k <= value /\ value \in Nat /\ Len(waiters) \in Nat
  BY DEF TypeOK, Smaller
<1>2. pc[t] \in PC \ {"queued", "pacing"} /\ Wake(t, "active", value, k)
  BY DEF StartGranted, OfferUnits, PC
<1> HIDE DEF k
<1>3. /\ pc' \in [Tasks -> PC] /\ waiters' \in Seq(Tasks) /\ value' \in Nat
      /\ value' = value - k
      /\ Len(waiters') = Len(waiters) - k
      /\ QueueOK'
      /\ Cardinality(Reserved') = Cardinality(Reserved \ {t}) + k
      /\ Waiting' = Waiting \ {t}
      /\ Holding' = Holding \cup {t}
  <2>1. CanWake(t, "active", value, k)
    BY <1>1, <1>2 DEF CanWake
  <2>2. Woken(t, "active", value, k)
    BY <2>1, WakeEffect
  <2> QED BY <2>2 DEF Woken
<1>4. t \in Waiting /\ t \in Reserved /\ t \notin Holding
  BY DEF Waiting, Reserved, Holding, In, StartGranted, PC
<1>5. /\ Cardinality(Waiting') = Cardinality(Waiting) - 1
      /\ Cardinality(Reserved') = Cardinality(Reserved) - 1 + k
      /\ Cardinality(Holding') = Cardinality(Holding) + 1
  BY <1>3, <1>4, SetsOfTasks, CardinalityOfMove
<1>6. /\ active' = active + 1 /\ peak' = Larger(peak, active + 1)
      /\ UNCHANGED <<slot, nextSlot, now, budget, admitted, denied, completed, failed>>
  BY DEF StartGranted, CountActive
<1>7. TypeOK'
  BY <1>3, <1>6 DEF TypeOK, Larger
<1>8. UnitsConserved'
  BY <1>1, <1>3, <1>5, SetsOfTasks, LimiterAssumption DEF UnitsConserved
<1>9. Paid' = Paid
  BY <1>5, <1>6, SetsOfTasks DEF Paid, TypeOK
<1>10. BudgetConserved' /\ MetricsBalance'
  BY <1>5, <1>6, <1>9, SetsOfTasks DEF BudgetConserved, MetricsBalance, TypeOK
<1>11. ConcurrencyBound'
  <2>1. Cardinality(Holding') <= MaxConcurrent
    <3>1. value' + Cardinality(Reserved') + Cardinality(Holding') = MaxConcurrent
      BY <1>8 DEF UnitsConserved
    <3>2. value' \in Nat
      BY <1>7 DEF TypeOK
    <3> QED BY <3>1, <3>2, SetsOfTasksNext, LimiterAssumption
  <2>2. active + 1 = Cardinality(Holding')
    BY <1>5 DEF MetricsBalance
  <2> QED BY <1>6, <2>1, <2>2 DEF ConcurrencyBound, Larger
<1>12. NoLostWakeup'
  <2>1. k = value \/ k = Len(waiters)
    BY DEF k, Smaller
  <2>2. value' = 0 \/ Len(waiters') = 0
    BY <1>1, <1>3, <2>1
  <2> QED BY <1>3, <2>2 DEF NoLostWakeup
<1> QED BY <1>3, <1>7, <1>8, <1>10, <1>11, <1>12

LEMMA CancelIInv == ASSUME NEW t \in Tasks, IInv, Cancel(t) PROVE IInv'
<1> USE DEF IInv
<1>1. UNCHANGED <<slot, nextSlot, now, budget, metrics, value>>
  BY DEF Cancel
<1>2. Waiting' = Waiting /\ Reserved' = Reserved /\ Holding' = Holding
  BY DEF Waiting, Reserved, Holding, In, Cancel, TypeOK, PC
<1>3. UnitsConserved' /\ BudgetConserved' /\ MetricsBalance' /\ ConcurrencyBound'
  BY <1>1, <1>2
     DEF metrics, UnitsConserved, BudgetConserved, Paid, MetricsBalance, ConcurrencyBound
<1>4. CASE pc[t] # "queued"
  <2>1. waiters' = waiters /\ pc' \in [Tasks -> PC]
        /\ \A u \in Tasks : pc'[u] = "queued" <=> pc[u] = "queued"
    BY <1>4 DEF Cancel, TypeOK, PC
  <2>2. TypeOK'
    BY <1>1, <2>1 DEF TypeOK, metrics
  <2>3. QueueOK'
    BY <2>1 DEF QueueOK, TypeOK
  <2>4. NoLostWakeup'
    BY <1>1, <1>2, <2>1 DEF NoLostWakeup
  <2> QED BY <1>3, <2>2, <2>3, <2>4
<1>5. CASE pc[t] = "queued"
  <2>1. waiters' = Without(waiters, t) /\ pc' = [pc EXCEPT ![t] = "dequeued"]
    BY <1>5 DEF Cancel
  <2>2. /\ waiters \in Seq(Tasks)
        /\ \A i, j \in DOMAIN waiters : waiters[i] = waiters[j] => i = j
        /\ \E i \in DOMAIN waiters : waiters[i] = t
    BY <1>5 DEF TypeOK, QueueOK
  <2>3. /\ waiters' \in Seq(Tasks)
        /\ \A i \in DOMAIN waiters' :
             waiters'[i] # t /\ \E j \in DOMAIN waiters : waiters'[i] = waiters[j]
        /\ \A i, j \in DOMAIN waiters' : waiters'[i] = waiters'[j] => i = j
        /\ \A j \in DOMAIN waiters : waiters[j] # t =>
             \E i \in DOMAIN waiters' : waiters'[i] = waiters[j]
    BY <2>1, <2>2, WithoutEffect
  <2>4. TypeOK'
    BY <1>1, <2>1, <2>3 DEF TypeOK, metrics, PC
  <2>5. QueueOK'
    <3>1. \A i \in DOMAIN waiters' : pc'[waiters'[i]] = "queued"
      BY <2>1, <2>2, <2>3 DEF QueueOK, TypeOK
    <3>2. \A u \in Tasks : pc'[u] = "queued" => \E i \in DOMAIN waiters' : waiters'[i] = u
      <4> SUFFICES ASSUME NEW u \in Tasks, pc'[u] = "queued"
                   PROVE  \E i \in DOMAIN waiters' : waiters'[i] = u
        OBVIOUS
      <4>1. u # t /\ pc[u] = "queued"
        BY <2>1 DEF TypeOK
      <4>2. PICK j \in DOMAIN waiters : waiters[j] = u
        BY <4>1 DEF QueueOK
      <4> QED BY <2>3, <4>1, <4>2
    <3> QED BY <2>3, <3>1, <3>2 DEF QueueOK
  <2>6. NoLostWakeup'
    <3>1. waiters # <<>>
      BY <2>2
    <3> QED BY <1>1, <1>2, <3>1 DEF NoLostWakeup
  <2> QED BY <1>3, <2>4, <2>5, <2>6
<1> QED BY <1>4, <1>5

(* Leaving the semaphore in any of the three ways keeps its account.       *)
LEMMA LeaveSemaphoreEffect ==
  ASSUME NEW t \in Tasks, IInv, LeaveSemaphore(t)
  PROVE  /\ pc' \in [Tasks -> PC] /\ waiters' \in Seq(Tasks) /\ value' \in Nat
         /\ QueueOK' /\ UnitsConserved' /\ NoLostWakeup'
         /\ t \in Waiting /\ Waiting' = Waiting \ {t}
         /\ Holding' = Holding
<1> USE DEF IInv
<1>1. t \in Waiting
  BY DEF LeaveSemaphore, Waiting, In, PC
<1>2. CASE pc[t] = "withdrawn"
  <2>1. pc' = [pc EXCEPT ![t] = "idle"] /\ UNCHANGED <<value, waiters>>
    BY <1>2 DEF LeaveSemaphore, sem
  <2>2. /\ Waiting' = Waiting \ {t} /\ Reserved' = Reserved /\ Holding' = Holding
    BY <1>2, <2>1 DEF Waiting, Reserved, Holding, In, TypeOK, PC
  <2>3. UnitsConserved' /\ NoLostWakeup'
    BY <2>1, <2>2 DEF UnitsConserved, NoLostWakeup
  <2>4. QueueOK'
    BY <1>2, <2>1 DEF QueueOK, TypeOK
  <2>5. pc' \in [Tasks -> PC] /\ waiters' \in Seq(Tasks) /\ value' \in Nat
    BY <2>1 DEF TypeOK, PC
  <2> QED BY <1>1, <2>2, <2>3, <2>4, <2>5
<1>3. CASE pc[t] \in {"dequeued", "revoked"}
  <2> DEFINE v == IF pc[t] = "dequeued" THEN value ELSE value + 1
             k == Smaller(v, Len(waiters))
  <2>1. /\ k \in 0 .. Len(waiters) /\ k <= v /\ v \in Nat /\ Len(waiters) \in Nat
        /\ value \in Nat
    BY DEF TypeOK, Smaller
  <2>2. pc[t] \in PC \ {"queued", "pacing"} /\ Wake(t, "idle", v, k)
    BY <1>3 DEF LeaveSemaphore, OfferUnits, PC
  <2>3. k = v \/ k = Len(waiters)
    BY DEF Smaller
  <2>4. IF pc[t] = "dequeued" THEN v = value /\ t \notin Reserved
                              ELSE v = value + 1 /\ t \in Reserved
    BY <1>3 DEF Reserved, In
  <2> HIDE DEF k, v
  <2>5. /\ pc' \in [Tasks -> PC] /\ waiters' \in Seq(Tasks) /\ value' \in Nat
        /\ value' = v - k
        /\ Len(waiters') = Len(waiters) - k
        /\ QueueOK'
        /\ Cardinality(Reserved') = Cardinality(Reserved \ {t}) + k
        /\ Waiting' = Waiting \ {t}
        /\ Holding' = Holding \ {t}
    <3>1. CanWake(t, "idle", v, k)
      BY <2>1, <2>2 DEF CanWake
    <3>2. Woken(t, "idle", v, k)
      BY <3>1, WakeEffect
    <3> QED BY <3>2 DEF Woken
  <2>6. t \notin Holding
    BY <1>3 DEF Holding, In
  <2>7. Holding' = Holding
    BY <2>5, <2>6
  <2>8. UnitsConserved'
    <3>1. Cardinality(Holding') = Cardinality(Holding)
      BY <2>7
    <3>2. Cardinality(Reserved \ {t})
            = IF t \in Reserved THEN Cardinality(Reserved) - 1 ELSE Cardinality(Reserved)
      BY SetsOfTasks, CardinalityOfMove
    <3> QED BY <2>1, <2>4, <2>5, <3>1, <3>2, SetsOfTasks, LimiterAssumption DEF UnitsConserved
  <2>9. NoLostWakeup'
    <3>1. value' = 0 \/ Len(waiters') = 0
      BY <2>1, <2>3, <2>5
    <3> QED BY <2>5, <3>1 DEF NoLostWakeup
  <2> QED BY <1>1, <2>5, <2>7, <2>8, <2>9
<1> QED BY <1>2, <1>3 DEF LeaveSemaphore

LEMMA UnwindIInv == ASSUME NEW t \in Tasks, IInv, Unwind(t) PROVE IInv'
<1> USE DEF IInv
<1>1. /\ pc' \in [Tasks -> PC] /\ waiters' \in Seq(Tasks) /\ value' \in Nat
      /\ QueueOK' /\ UnitsConserved' /\ NoLostWakeup'
      /\ t \in Waiting /\ Waiting' = Waiting \ {t}
      /\ Holding' = Holding
  BY LeaveSemaphoreEffect DEF Unwind
<1>2. /\ budget' = budget + 1 /\ admitted' = admitted - 1
      /\ UNCHANGED <<slot, nextSlot, now, denied, completed, failed, active, peak>>
  BY DEF Unwind
<1>3. /\ Cardinality(Waiting') = Cardinality(Waiting) - 1
      /\ Cardinality(Waiting) >= 1
  BY <1>1, SetsOfTasks, CardinalityOfMove
<1>4. Paid' = Paid - 1 /\ Paid \in Nat /\ Paid >= 1
  BY <1>2, <1>3, SetsOfTasks, SMTT(30) DEF Paid, TypeOK
<1>5. TypeOK'
  BY <1>1, <1>2, <1>4 DEF TypeOK, MetricsBalance
<1>6. BudgetConserved' /\ MetricsBalance' /\ ConcurrencyBound'
  BY <1>1, <1>2, <1>4, SetsOfTasks
     DEF BudgetConserved, MetricsBalance, ConcurrencyBound, TypeOK
<1> QED BY <1>1, <1>5, <1>6

LEMMA ReleaseIInv ==
  ASSUME NEW t \in Tasks, NEW success \in BOOLEAN, IInv, Release(t, success) PROVE IInv'
<1> USE DEF IInv
<1> DEFINE k == Smaller(1, Len(waiters))
           v == value + 1
<1>1. /\ k \in 0 .. Len(waiters) /\ k <= v /\ v \in Nat /\ v = value + 1
      /\ Len(waiters) \in Nat /\ value \in Nat /\ (Len(waiters) > 0 => k = 1)
  BY DEF TypeOK, Smaller
<1>2. pc[t] \in PC \ {"queued", "pacing"} /\ Wake(t, "idle", v, k)
  BY DEF Release, ReturnUnit, PC
<1> HIDE DEF k, v
<1>3. /\ pc' \in [Tasks -> PC] /\ waiters' \in Seq(Tasks) /\ value' \in Nat
      /\ value' = v - k
      /\ Len(waiters') = Len(waiters) - k
      /\ QueueOK'
      /\ Cardinality(Reserved') = Cardinality(Reserved \ {t}) + k
      /\ Waiting' = Waiting \ {t}
      /\ Holding' = Holding \ {t}
  <2>1. CanWake(t, "idle", v, k)
    BY <1>1, <1>2 DEF CanWake
  <2>2. Woken(t, "idle", v, k)
    BY <2>1, WakeEffect
  <2> QED BY <2>2 DEF Woken
<1>4. t \notin Waiting /\ t \notin Reserved /\ t \in Holding
  BY DEF Waiting, Reserved, Holding, In, Release, PC
<1>5. /\ Cardinality(Waiting') = Cardinality(Waiting)
      /\ Cardinality(Reserved') = Cardinality(Reserved) + k
      /\ Cardinality(Holding') = Cardinality(Holding) - 1
      /\ Cardinality(Holding) >= 1
  BY <1>3, <1>4, SetsOfTasks, CardinalityOfMove
<1>6. /\ active' = active - 1
      /\ completed' + failed' = completed + failed + 1
      /\ completed' \in Nat /\ failed' \in Nat
      /\ UNCHANGED <<slot, nextSlot, now, budget, admitted, denied, peak>>
  BY DEF Release, TypeOK
<1>7. active >= 1
  BY <1>5 DEF MetricsBalance
<1>8. TypeOK'
  BY <1>3, <1>6, <1>7 DEF TypeOK
<1>9. UnitsConserved'
  BY <1>1, <1>3, <1>5, SetsOfTasks, LimiterAssumption DEF UnitsConserved
<1>10. Paid' = Paid
  <2>1. /\ active \in Nat /\ completed \in Nat /\ failed \in Nat
        /\ Cardinality(Waiting) \in Nat
    BY SetsOfTasks DEF TypeOK
  <2>2. Paid' = Cardinality(Waiting) + (active - 1) + completed' + failed'
    BY <1>5, <1>6 DEF Paid
  <2>3. CASE success = TRUE
    <3>1. completed' = completed + 1 /\ failed' = failed + 0
      BY <2>3 DEF Release
    <3> QED BY <2>1, <2>2, <3>1 DEF Paid
  <2>4. CASE success = FALSE
    <3>1. completed' = completed + 0 /\ failed' = failed + 1
      BY <2>4 DEF Release
    <3> QED BY <2>1, <2>2, <3>1 DEF Paid
  <2> QED BY <2>3, <2>4
<1>11. BudgetConserved' /\ MetricsBalance' /\ ConcurrencyBound'
  BY <1>5, <1>6, <1>10, SetsOfTasks, LimiterAssumption
     DEF BudgetConserved, MetricsBalance, ConcurrencyBound, TypeOK
<1>12. NoLostWakeup'
  <2>1. CASE Len(waiters) = 0
    BY <1>1, <1>3, <2>1 DEF NoLostWakeup
  <2>2. CASE Len(waiters) > 0
    <3>1. Cardinality(Reserved') >= 1
      BY <1>1, <1>5, <2>2, SetsOfTasks
    <3> QED BY <3>1, FS_EmptySet DEF NoLostWakeup
  <2> QED BY <1>1, <2>1, <2>2
<1> QED BY <1>3, <1>8, <1>9, <1>11, <1>12

\* A refusal, a tick and a stuttering step touch none of the account.
LEMMA OtherIInv ==
  ASSUME IInv, (\E t \in Tasks : Deny(t)) \/ Tick \/ UNCHANGED vars PROVE IInv'
<1> USE DEF IInv
<1>1. /\ UNCHANGED <<pc, slot, nextSlot, budget, admitted, completed, failed, active, peak,
                     value, waiters>>
      /\ now' \in Nat /\ denied' \in Nat
  BY SMTT(30) DEF Deny, Tick, vars, metrics, sem, TypeOK
<1>2. Waiting' = Waiting /\ Reserved' = Reserved /\ Holding' = Holding
  BY <1>1 DEF Waiting, Reserved, Holding, In
<1>3. TypeOK' /\ QueueOK'
  BY <1>1 DEF TypeOK, QueueOK
<1>4. UnitsConserved' /\ BudgetConserved' /\ MetricsBalance' /\ ConcurrencyBound'
      /\ NoLostWakeup'
  BY <1>1, <1>2 DEF UnitsConserved, BudgetConserved, Paid, MetricsBalance,
                    ConcurrencyBound, NoLostWakeup
<1> QED BY <1>3, <1>4
-----------------------------------------------------------------------------
LEMMA NextIInv == IInv /\ [Next]_vars => IInv'
BY AdmitIInv, StartUncontendedIInv, EnqueueIInv, StartGrantedIInv, CancelIInv,
   UnwindIInv, ReleaseIInv, OtherIInv DEF Next

(* The inductive invariant holds in every reachable state of every         *)
(* instance of the limiter.                                                *)
THEOREM LimiterInvariant == Spec => []IInv
BY InitIInv, NextIInv, PTL DEF Spec

(* Every variable keeps its type; in particular neither the budget nor the *)
(* semaphore's value is ever negative.                                     *)
THEOREM LimiterTypeCorrect == Spec => []TypeOK
<1>1. IInv => TypeOK
  BY DEF IInv
<1> QED BY <1>1, LimiterInvariant, PTL

(* No interleaving of admissions, cancellations and releases creates or    *)
(* loses request budget, for any budget and any number of tasks.           *)
THEOREM BudgetIsConserved == Spec => []BudgetConserved
<1>1. IInv => BudgetConserved
  BY DEF IInv
<1> QED BY <1>1, LimiterInvariant, PTL

(* The metrics a scan persists add up, whatever was cancelled.             *)
THEOREM MetricsAlwaysBalance == Spec => []MetricsBalance
<1>1. IInv => MetricsBalance
  BY DEF IInv
<1> QED BY <1>1, LimiterInvariant, PTL

(* max_concurrent bounds the requests in flight and the reported peak.     *)
THEOREM ConcurrencyIsBounded == Spec => []ConcurrencyBound
<1>1. IInv => ConcurrencyBound
  BY DEF IInv
<1> QED BY <1>1, LimiterInvariant, PTL

(* No queued waiter is stranded beside a free unit.                        *)
THEOREM WakeupsAreNotLost == Spec => []NoLostWakeup
<1>1. IInv => NoLostWakeup
  BY DEF IInv
<1> QED BY <1>1, LimiterInvariant, PTL
-----------------------------------------------------------------------------
\* No step but Admit makes a task pace or touches a slot.
LEMMA PacingOnlyShrinks ==
  ASSUME TypeOK, NEW t \in Tasks,
         \/ StartUncontended(t) \/ Enqueue(t) \/ StartGranted(t) \/ Cancel(t) \/ Unwind(t)
         \/ \E success \in BOOLEAN : Release(t, success)
  PROVE  /\ slot' = slot /\ nextSlot' = nextSlot
         /\ In({"pacing"})' \subseteq In({"pacing"})
<1>1. slot' = slot /\ nextSlot' = nextSlot
  BY DEF StartUncontended, Enqueue, StartGranted, Cancel, Unwind, Release
<1>2. ASSUME NEW to \in PC \ {"pacing"}, NEW v, NEW k, Wake(t, to, v, k)
      PROVE  \A u \in Tasks : pc'[u] = "pacing" => pc[u] = "pacing"
  BY <1>2 DEF Wake
<1>3. "active" \in PC \ {"pacing"} /\ "idle" \in PC \ {"pacing"}
  BY DEF PC
<1>4. \A u \in Tasks : pc'[u] = "pacing" => pc[u] = "pacing"
  <2>1. CASE StartUncontended(t) \/ Enqueue(t) \/ Cancel(t)
    BY <2>1 DEF StartUncontended, Enqueue, Cancel, TypeOK
  <2>2. CASE StartGranted(t)
    BY <2>2, <1>2, <1>3 DEF StartGranted, OfferUnits
  <2>3. CASE Unwind(t)
    <3>1. CASE pc[t] = "withdrawn" /\ pc' = [pc EXCEPT ![t] = "idle"]
      BY <3>1 DEF TypeOK
    <3>2. CASE OfferUnits(t, "idle", value) \/ OfferUnits(t, "idle", value + 1)
      BY <3>2, <1>2, <1>3 DEF OfferUnits
    <3> QED BY <2>3, <3>1, <3>2 DEF Unwind, LeaveSemaphore
  <2>4. CASE \E success \in BOOLEAN : Release(t, success)
    BY <2>4, <1>2, <1>3 DEF Release, ReturnUnit
  <2> QED BY <2>1, <2>2, <2>3, <2>4
<1> QED BY <1>1, <1>4 DEF In

LEMMA SpacedNext == ASSUME TypeOK, SlotsSpaced, [Next]_vars PROVE SlotsSpaced'
<1>1. CASE slot' = slot /\ nextSlot' = nextSlot /\ In({"pacing"})' \subseteq In({"pacing"})
  BY <1>1 DEF SlotsSpaced
<1>2. ASSUME NEW t \in Tasks, Admit(t) PROVE SlotsSpaced'
  <2> DEFINE s == Larger(now, nextSlot)
  <2>1. s >= nextSlot /\ s \in Nat
    BY DEF Larger, TypeOK
  <2>2. slot' = [slot EXCEPT ![t] = s] /\ nextSlot' = s + Interval
        /\ pc' = [pc EXCEPT ![t] = "pacing"] /\ pc[t] = "idle"
    BY <1>2 DEF Admit
  <2> HIDE DEF s
  <2>3. \A u \in In({"pacing"})' : u = t \/ (u # t /\ u \in In({"pacing"}) /\ slot'[u] = slot[u])
    BY <2>2 DEF In, TypeOK
  <2>4. slot'[t] = s
    BY <2>2 DEF TypeOK
  <2>5. \A u \in In({"pacing"}) : slot[u] \in Nat /\ slot[u] + Interval <= nextSlot
    BY DEF SlotsSpaced, In, TypeOK
  <2>6. nextSlot \in Nat /\ Interval \in Nat
    BY LimiterAssumption DEF TypeOK
  <2>7. \A u \in In({"pacing"}) : slot[u] + Interval <= s /\ slot[u] + Interval <= nextSlot'
    BY <2>1, <2>2, <2>5, <2>6
  <2> SUFFICES ASSUME NEW u \in In({"pacing"})', NEW w \in In({"pacing"})' \ {u}
               PROVE  /\ slot'[u] + Interval <= nextSlot'
                      /\ slot'[u] + Interval <= slot'[w] \/ slot'[w] + Interval <= slot'[u]
    <3>1. \A u \in In({"pacing"})' : slot'[u] + Interval <= nextSlot'
      BY <2>1, <2>2, <2>3, <2>4, <2>6, <2>7
    <3> QED BY <3>1 DEF SlotsSpaced
  <2>8. slot'[u] + Interval <= nextSlot'
    BY <2>1, <2>2, <2>3, <2>4, <2>6, <2>7
  <2>9. CASE u # t /\ w # t
    <3>1. /\ u \in In({"pacing"}) /\ w \in In({"pacing"}) \ {u}
          /\ slot'[u] = slot[u] /\ slot'[w] = slot[w]
      BY <2>3, <2>9
    <3> QED BY <2>8, <3>1 DEF SlotsSpaced
  <2>10. CASE u = t
    <3>1. w \in In({"pacing"}) /\ slot'[w] = slot[w] /\ slot'[u] = s
      BY <2>3, <2>4, <2>10
    <3> QED BY <2>7, <2>8, <3>1
  <2>11. CASE w = t
    <3>1. u \in In({"pacing"}) /\ slot'[u] = slot[u] /\ slot'[w] = s
      BY <2>3, <2>4, <2>11
    <3> QED BY <2>7, <2>8, <3>1
  <2> QED BY <2>9, <2>10, <2>11
<1>3. CASE (\E t \in Tasks : Deny(t)) \/ Tick \/ UNCHANGED vars
  <2>1. slot' = slot /\ nextSlot' = nextSlot /\ pc' = pc
    BY <1>3 DEF Deny, Tick, vars
  <2> QED BY <1>1, <2>1 DEF In
<1> QED BY <1>1, <1>2, <1>3, PacingOnlyShrinks DEF Next

(* Requests still to be sent are one interval apart, whatever the pace and *)
(* however many tasks are admitted or cancelled in between: a slot is never *)
(* given back (lines 37-38 and 42-46).                                     *)
THEOREM SlotsAreSpaced == Spec => []SlotsSpaced
<1>1. Init => SlotsSpaced
  BY DEF Init, SlotsSpaced, In
<1> QED BY <1>1, SpacedNext, LimiterTypeCorrect, PTL DEF Spec
=============================================================================
