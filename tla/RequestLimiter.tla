--------------------------- MODULE RequestLimiter ---------------------------
(***************************************************************************)
(* sh4q/network/limits.py: the process-wide limiter every HTTP request of  *)
(* a scan passes through.  A coroutine ("task") acquires a permit -- it    *)
(* pays from the request budget, waits for its pacing slot and then for a  *)
(* unit of an asyncio semaphore -- and releases it when its request ends.  *)
(* A stage deadline or Ctrl+C may cancel it at every await in between.     *)
(*                                                                         *)
(* The limiter's asyncio.Lock is left out: no critical section awaits, so  *)
(* the lock is always free on arrival and each `async with self._lock`     *)
(* runs without a suspension.  What remains are the real suspension        *)
(* points: the sleep, the semaphore's future, and the request itself.      *)
(***************************************************************************)
EXTENDS Integers, FiniteSets, Sequences

CONSTANTS
  Tasks,          (* coroutines that make requests                         *)
  MaxConcurrent,  (* rate_limit.max_concurrent                             *)
  Budget,         (* rate_limit.budget                                     *)
  Interval,       (* 1 / rate_limit.requests_per_second, in clock ticks    *)
  MaxTime,        (* bound: the last slot handed out and the last tick     *)
  MaxDenied       (* bound: refusals counted                               *)

ASSUME LimiterAssumption ==
  /\ IsFiniteSet(Tasks)
  /\ MaxConcurrent \in Nat \ {0}
  /\ Budget \in Nat
  /\ Interval \in Nat
  /\ MaxTime \in Nat
  /\ MaxDenied \in Nat

VARIABLES
  pc,         (* where each task stands, see PC below                      *)
  slot,       (* the pacing slot a task was given                          *)
  nextSlot,   (* _next_slot                                                *)
  now,        (* time.monotonic()                                          *)
  budget,     (* _budget                                                   *)
  admitted, denied, completed, failed, active, peak,   (* the metrics      *)
  value,      (* the semaphore's free units                                *)
  waiters     (* the semaphore's queue of waiters not yet woken            *)

metrics == <<admitted, denied, completed, failed, active, peak>>
sem     == <<value, waiters>>
vars    == <<pc, slot, nextSlot, now, budget, metrics, sem>>

(***************************************************************************)
(* idle       outside the limiter                                          *)
(* pacing     admitted, asleep until its slot                              *)
(* queued     in the semaphore's queue                                     *)
(* granted    woken with a unit reserved for it, not yet resumed           *)
(* active     holds a permit: its request is in flight                     *)
(* withdrawn  cancelled while pacing, the exception not yet delivered      *)
(* dequeued   cancelled while queued                                       *)
(* revoked    cancelled while granted: the unit is still reserved          *)
(***************************************************************************)
PC == {"idle", "pacing", "queued", "granted", "active",
       "withdrawn", "dequeued", "revoked"}

In(S) == {t \in Tasks : pc[t] \in S}
Waiting  == In(PC \ {"idle", "active"})
Reserved == In({"granted", "revoked"})
Holding  == In({"active"})

Larger(a, b)  == IF a >= b THEN a ELSE b
Smaller(a, b) == IF a <= b THEN a ELSE b

Init ==
  /\ pc = [t \in Tasks |-> "idle"]
  /\ slot = [t \in Tasks |-> 0]
  /\ nextSlot = 0
  /\ now = 0
  /\ budget = Budget
  /\ admitted = 0 /\ denied = 0 /\ completed = 0 /\ failed = 0
  /\ active = 0 /\ peak = 0
  /\ value = MaxConcurrent
  /\ waiters = <<>>

-----------------------------------------------------------------------------
(* asyncio.Semaphore (CPython 3.14, the version the project is validated   *)
(* on) as acquire() and _release() use it.                                 *)

\* Semaphore.locked(): a newcomer may not overtake a waiter, woken or not.
Locked == value = 0 \/ waiters # <<>> \/ Reserved # {}

\* The queue after the task's future left it.
Without(q, t) ==
  LET k == CHOOSE i \in DOMAIN q : q[i] = t
  IN  [i \in 1 .. Len(q) - 1 |-> IF i < k THEN q[i] ELSE q[i + 1]]

\* t moves on and the first k waiters get a unit each, out of v free ones.
Wake(t, to, v, k) ==
  LET woken == {waiters[i] : i \in 1 .. k} IN
  /\ pc' = [u \in Tasks |-> IF u = t THEN to
                            ELSE IF u \in woken THEN "granted" ELSE pc[u]]
  /\ waiters' = SubSeq(waiters, k + 1, Len(waiters))
  /\ value' = v - k

\* Semaphore.release() wakes one waiter.
ReturnUnit(t, to) == Wake(t, to, value + 1, Smaller(1, Len(waiters)))

\* Semaphore.acquire() ends, normally or not, by waking whoever queued behind
\* an earlier waiter although units were free.
OfferUnits(t, to, v) == Wake(t, to, v, Smaller(v, Len(waiters)))
-----------------------------------------------------------------------------
(* acquire(), lines 30-50.                                                 *)

(* Plausible bugs of Admit, Unwind and Release, used as mutants.           *)
AdmitSlotFromNow(t) ==
  /\ pc[t] = "idle" /\ budget > 0
  /\ Larger(now, nextSlot) + Interval <= MaxTime
  /\ budget' = budget - 1 /\ admitted' = admitted + 1
  /\ slot' = [slot EXCEPT ![t] = Larger(now, nextSlot)]
  /\ nextSlot' = now + Interval
  /\ pc' = [pc EXCEPT ![t] = "pacing"]
  /\ UNCHANGED <<now, denied, completed, failed, active, peak, sem>>

\* Lines 31-38, the budget has something left.
Admit(t) ==
  LET s == Larger(now, nextSlot) IN
  /\ pc[t] = "idle"
  /\ budget > 0
  /\ s + Interval <= MaxTime
  /\ budget' = budget - 1
  /\ admitted' = admitted + 1
  /\ slot' = [slot EXCEPT ![t] = s]
  /\ nextSlot' = s + Interval
  /\ pc' = [pc EXCEPT ![t] = "pacing"]
  /\ UNCHANGED <<now, denied, completed, failed, active, peak, sem>>

\* Lines 32-34: the budget is spent and acquire() returns None.
Deny(t) ==
  /\ pc[t] = "idle"
  /\ budget <= 0
  /\ denied < MaxDenied
  /\ denied' = denied + 1
  /\ UNCHANGED <<pc, slot, nextSlot, now, budget,
                 admitted, completed, failed, active, peak, sem>>

\* The permit is handed over (lines 47-50).
CountActive ==
  /\ active' = active + 1
  /\ peak' = Larger(peak, active + 1)

\* The sleep is over: the semaphore is free and the task runs on ...
StartUncontended(t) ==
  /\ pc[t] = "pacing"
  /\ now >= slot[t]
  /\ ~Locked
  /\ value' = value - 1
  /\ pc' = [pc EXCEPT ![t] = "active"]
  /\ CountActive
  /\ UNCHANGED <<slot, nextSlot, now, budget,
                 admitted, denied, completed, failed, waiters>>

\* ... or it joins the queue.
Enqueue(t) ==
  /\ pc[t] = "pacing"
  /\ now >= slot[t]
  /\ Locked
  /\ pc' = [pc EXCEPT ![t] = "queued"]
  /\ waiters' = Append(waiters, t)
  /\ UNCHANGED <<slot, nextSlot, now, budget, metrics, value>>

StartGrantedAlone(t) ==
  /\ pc[t] = "granted"
  /\ pc' = [pc EXCEPT ![t] = "active"]
  /\ CountActive
  /\ UNCHANGED <<slot, nextSlot, now, budget,
                 admitted, denied, completed, failed, sem>>

\* A woken waiter resumes with the unit reserved for it.
StartGranted(t) ==
  /\ pc[t] = "granted"
  /\ OfferUnits(t, "active", value)
  /\ CountActive
  /\ UNCHANGED <<slot, nextSlot, now, budget,
                 admitted, denied, completed, failed>>

\* Task.cancel() reaches a task that waits inside acquire().
Cancel(t) ==
  /\ \/ /\ pc[t] = "pacing"
        /\ pc' = [pc EXCEPT ![t] = "withdrawn"]
        /\ UNCHANGED waiters
     \/ /\ pc[t] = "queued"
        /\ pc' = [pc EXCEPT ![t] = "dequeued"]
        /\ waiters' = Without(waiters, t)
     \/ /\ pc[t] = "granted"
        /\ pc' = [pc EXCEPT ![t] = "revoked"]
        /\ UNCHANGED waiters
  /\ UNCHANGED <<slot, nextSlot, now, budget, metrics, value>>

(* CancelledError arrives in the coroutine.  Leaving the semaphore puts a  *)
(* reserved unit back and offers what is free to the other waiters.        *)
LeaveSemaphore(t) ==
  \/ /\ pc[t] = "withdrawn"
     /\ pc' = [pc EXCEPT ![t] = "idle"]
     /\ UNCHANGED sem
  \/ /\ pc[t] = "dequeued"
     /\ OfferUnits(t, "idle", value)
  \/ /\ pc[t] = "revoked"
     /\ OfferUnits(t, "idle", value + 1)

UnwindKeepsBudget(t) ==
  /\ LeaveSemaphore(t)
  /\ admitted' = admitted - 1
  /\ UNCHANGED <<slot, nextSlot, now, budget, denied, completed, failed, active, peak>>

UnwindKeepsCount(t) ==
  /\ LeaveSemaphore(t)
  /\ budget' = budget + 1
  /\ UNCHANGED <<slot, nextSlot, now, metrics>>

\* As if the except clause released a permit it never had.
UnwindReleases(t) ==
  /\ \/ LeaveSemaphore(t) /\ pc[t] # "withdrawn"
     \/ pc[t] = "withdrawn" /\ ReturnUnit(t, "idle")
  /\ budget' = budget + 1 /\ admitted' = admitted - 1
  /\ UNCHANGED <<slot, nextSlot, now, denied, completed, failed, active, peak>>

\* Lines 42-46 undo the admission.  The pacing slot is not given back.
Unwind(t) ==
  /\ LeaveSemaphore(t)
  /\ budget' = budget + 1
  /\ admitted' = admitted - 1
  /\ UNCHANGED <<slot, nextSlot, now, denied, completed, failed, active, peak>>
-----------------------------------------------------------------------------
(* RequestPermit.__aexit__ and _release(), lines 52-57 and 71-72.          *)

ReleaseUnitOnSuccess(t, success) ==
  /\ pc[t] = "active"
  /\ IF success THEN ReturnUnit(t, "idle")
                ELSE pc' = [pc EXCEPT ![t] = "idle"] /\ UNCHANGED sem
  /\ active' = active - 1
  /\ completed' = completed + (IF success THEN 1 ELSE 0)
  /\ failed' = failed + (IF success THEN 0 ELSE 1)
  /\ UNCHANGED <<slot, nextSlot, now, budget, admitted, denied, peak>>

ReleaseTwice(t, success) ==
  /\ pc[t] = "active"
  /\ ReturnUnit(t, "idle")
  /\ active' = active - 2
  /\ completed' = completed + (IF success THEN 1 ELSE 0)
  /\ failed' = failed + (IF success THEN 0 ELSE 1)
  /\ UNCHANGED <<slot, nextSlot, now, budget, admitted, denied, peak>>

\* success is FALSE too when the request raised or was cancelled.
Release(t, success) ==
  /\ pc[t] = "active"
  /\ ReturnUnit(t, "idle")
  /\ active' = active - 1
  /\ completed' = completed + (IF success THEN 1 ELSE 0)
  /\ failed' = failed + (IF success THEN 0 ELSE 1)
  /\ UNCHANGED <<slot, nextSlot, now, budget, admitted, denied, peak>>

Tick ==
  /\ now < MaxTime
  /\ now' = now + 1
  /\ UNCHANGED <<pc, slot, nextSlot, budget, metrics, sem>>

Next ==
  \/ Tick
  \/ \E t \in Tasks :
       \/ Admit(t) \/ Deny(t) \/ StartUncontended(t) \/ Enqueue(t)
       \/ StartGranted(t) \/ Cancel(t) \/ Unwind(t)
       \/ \E success \in BOOLEAN : Release(t, success)

(***************************************************************************)
(* The clock advances; the event loop resumes a coroutine that is due or   *)
(* was woken; and every request ends, since the client sets a timeout on   *)
(* it.  Nothing makes a task ask for a permit or get cancelled.            *)
(***************************************************************************)
Fairness ==
  /\ WF_vars(Tick)
  /\ \A t \in Tasks :
       /\ WF_vars(StartUncontended(t) \/ Enqueue(t))
       /\ WF_vars(StartGranted(t))
       /\ WF_vars(Unwind(t))
       /\ WF_vars(\E success \in BOOLEAN : Release(t, success))

Spec == Init /\ [][Next]_vars
FairSpec == Spec /\ Fairness
-----------------------------------------------------------------------------
TypeOK ==
  /\ pc \in [Tasks -> PC]
  /\ slot \in [Tasks -> Nat]
  /\ nextSlot \in Nat
  /\ now \in Nat
  /\ budget \in Nat
  /\ admitted \in Nat /\ denied \in Nat /\ completed \in Nat /\ failed \in Nat
  /\ active \in Nat /\ peak \in Nat
  /\ value \in Nat
  /\ waiters \in Seq(Tasks)

\* What the budget has paid for: tasks on their way to a permit, tasks that
\* hold one, and requests that ended.
Paid == Cardinality(Waiting) + active + completed + failed

(***************************************************************************)
(* No cancellation, in whatever step of acquire() it lands, creates or     *)
(* loses budget: what is left plus what was paid for is the configured     *)
(* budget (line 44's refund, line 35's payment).                           *)
(***************************************************************************)
BudgetConserved == budget + Paid = Budget

(***************************************************************************)
(* The persisted request metrics add up: every admitted request is on its  *)
(* way, in flight, completed or failed, and the active gauge counts the    *)
(* permits really held (lines 36, 45, 48 and 55-57).                       *)
(***************************************************************************)
MetricsBalance ==
  /\ admitted = Paid
  /\ active = Cardinality(Holding)

(***************************************************************************)
(* rate_limit.max_concurrent bounds the requests in flight, also after     *)
(* permits were handed to waiters that were cancelled meanwhile, and so it *)
(* bounds the reported peak (lines 18, 41, 49 and 53).                     *)
(***************************************************************************)
ConcurrencyBound ==
  /\ Cardinality(Holding) <= MaxConcurrent
  /\ peak <= MaxConcurrent

(***************************************************************************)
(* No waiter is stranded beside a free semaphore unit: while one is queued *)
(* there is no free unit, or a woken waiter is still to resume and will    *)
(* offer it.  (A newcomer does queue beside a free unit, behind a waiter   *)
(* that was woken but has not run yet.)                                    *)
(***************************************************************************)
NoLostWakeup == waiters # <<>> => value = 0 \/ Reserved # {}

(***************************************************************************)
(* Requests still waiting for their slot are paced: their slots lie at     *)
(* least one interval apart and before the next slot to be given, however  *)
(* many were admitted at once or withdrawn (lines 37-38).                  *)
(***************************************************************************)
SlotsSpaced ==
  \A t \in In({"pacing"}) :
    /\ slot[t] + Interval <= nextSlot
    /\ \A u \in In({"pacing"}) \ {t} :
         \/ slot[t] + Interval <= slot[u]
         \/ slot[u] + Interval <= slot[t]

(***************************************************************************)
(* Every task inside acquire() leaves it -- with a permit, or cancelled:   *)
(* the queue is first-in first-out and no unit is lost.                    *)
(***************************************************************************)
AcquireReturns == \A t \in Tasks : t \in Waiting ~> t \notin Waiting
=============================================================================
