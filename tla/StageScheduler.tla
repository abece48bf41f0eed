--------------------------- MODULE StageScheduler ---------------------------
(***************************************************************************)
(* sh4q/scheduler.py: one scan executes its stages one after another, each *)
(* in up to MaxRetries + 1 attempts under a deadline, records how the      *)
(* stage ended, publishes what it found and drains the bus before the next *)
(* stage.  The runner around it is ScanRun; the bus is EventBus, of which  *)
(* this coroutine sees what RunBus says.                                   *)
(*                                                                         *)
(* Every plugin of the repository inherits the interface's cleanup(),      *)
(* which does nothing, and it is left out.  Durations, jitter, progress    *)
(* and printing are left out.                                              *)
(***************************************************************************)
EXTENDS Integers, Sequences, FiniteSets, StageOrder

CONSTANTS
  Listed,          (* the plugins' names, as the runner lists them         *)
  DepChoices,      (* the dependencies they may declare                    *)
  OnCancel,        (* what a plugin does when cancelled, see below         *)
  Bounded,         (* plugins that cut their own result at a bound and say *)
                   (* so with a *_truncated record (url-history)           *)
  Refusing,        (* plugins whose preflight() may refuse                 *)
  RetriesTimeout,  (* plugins with metadata.retry_on_timeout               *)
  MaxRetries,      (* Scheduler(max_retries = ...)                         *)
  MaxFound         (* bound: discoveries per attempt                       *)

Stages == {Listed[i] : i \in DOMAIN Listed}

(***************************************************************************)
(* raises  lets the cancellation through (dns, javascript-extraction, the  *)
(*         adapters)                                                       *)
(* silent  returns what it has, with no kind of _TRUNCATION_KINDS, unless  *)
(*         it has nothing yet (http, ct, javascript-bundles, vhost)        *)
(* told    returns what it has and a *_truncated record (discovered-dns,   *)
(*         discovered-http, directory-discovery)                           *)
(***************************************************************************)
ASSUME SchedulerAssumption ==
  /\ Listed \in Seq(Stages)
  /\ \A i, j \in DOMAIN Listed : Listed[i] = Listed[j] => i = j
  /\ \A deps \in DepChoices : DOMAIN deps = Stages
  /\ OnCancel \in [Stages -> {"raises", "silent", "told"}]
  /\ Bounded \subseteq Stages
  /\ Refusing \subseteq Stages /\ RetriesTimeout \subseteq Stages
  /\ MaxRetries \in Nat
  /\ MaxFound \in Nat \ {0}

VARIABLES
  at,          (* where the scan's coroutine stands                        *)
  error,       (* the exception on its way out                             *)
  deps,        (* the stages' dependencies                                 *)
  allowed,     (* Gate 1's decision, once taken                            *)
  todo,        (* stages not finished yet, the current one first           *)
  attempt,     (* number of the current attempt                            *)
  ran,         (* history: how the current stage's attempts ended          *)
  left,        (* discoveries still to be published                        *)
  outcomes,    (* stage_outcomes[..]["status"]                             *)
  timed,       (* stages with an entry in stage_durations                  *)
  backlog,     (* the bus's unfinished events                              *)
  disp         (* the dispatcher: off, running, dead or stopped            *)

Bus == INSTANCE RunBus

stage == <<todo, attempt, ran, left, outcomes, timed>>
bus   == <<backlog, disp>>

Outcome == {"completed", "truncated", "retry_exhausted", "timeout",
            "timeout_exhausted", "error", "skipped", "interrupted"}

\* How an attempt may end.
Ending == {"whole", "bounded", "transient", "cut", "cut, transient", "timeout", "raised"}

(***************************************************************************)
(* gate        before scheduler.run                                        *)
(* preflight   between two stages                                          *)
(* executing   in plugin.execute under wait_for                            *)
(* backoff     asleep before a retry                                       *)
(* publishing  draining   as named                                         *)
(* returned    threw      scheduler.run has ended                          *)
(***************************************************************************)
SchedulerAt == {"gate", "preflight", "executing", "backoff", "publishing",
                "draining", "returned", "threw"}

SchedulerInit ==
  /\ deps \in DepChoices
  /\ allowed = FALSE
  /\ todo = <<>> /\ attempt = 0 /\ ran = <<>> /\ left = 0
  /\ outcomes = [s \in Stages |-> "none"]
  /\ timed = {}

Current == Head(todo)

Throw(e) == at' = "threw" /\ error' = e

-----------------------------------------------------------------------------
\* Lines 310-330.
Gate1(ok) ==
  /\ at = "gate"
  /\ allowed' = ok
  /\ IF ~ok THEN at' = "returned" /\ UNCHANGED <<error, todo>>
     ELSE IF Unorderable(Listed, deps) THEN Throw("order") /\ UNCHANGED todo
     ELSE at' = "preflight" /\ todo' = Ordered(Listed, deps) /\ UNCHANGED error
  /\ UNCHANGED <<deps, attempt, ran, left, outcomes, timed, bus>>

\* Lines 337-353: the next stage may run.
StartStage ==
  /\ at = "preflight" /\ todo # <<>>
  /\ at' = "executing"
  /\ attempt' = 1 /\ ran' = <<>>
  /\ UNCHANGED <<error, deps, allowed, todo, left, outcomes, timed, bus>>

\* Lines 337-348: its preflight refuses.  No plugin of the repository has a
\* preflight of its own, but the interface lets one refuse.
Skip ==
  /\ at = "preflight" /\ todo # <<>> /\ Current \in Refusing
  /\ outcomes' = [outcomes EXCEPT ![Current] = "skipped"]
  /\ timed' = timed \cup {Current}
  /\ todo' = Tail(todo)
  /\ UNCHANGED <<at, error, deps, allowed, attempt, ran, left, bus>>

\* Line 422.
AllStagesDone ==
  /\ at = "preflight" /\ todo = <<>>
  /\ at' = "returned"
  /\ UNCHANGED <<error, deps, allowed, stage, bus>>

-----------------------------------------------------------------------------
(* _execute_plugin, lines 157-303.                                         *)

\* A plausible bug of LastAttempt, used as a mutant.
LastAttemptOneMore == attempt > MaxRetries + 1

\* Lines 215 and 280.
LastAttempt == attempt >= MaxRetries + 1

\* The stage is over; what it found is to be published.
Record(status, n) ==
  /\ outcomes' = [outcomes EXCEPT ![Current] = status]
  /\ left' = n
  /\ at' = "publishing"
  /\ UNCHANGED attempt

BackOff == at' = "backoff" /\ UNCHANGED <<attempt, left, outcomes>>

Ended(how) ==
  /\ ran' = Append(ran, how)
  /\ UNCHANGED <<error, deps, allowed, todo, timed, bus>>

\* execute() returns with nothing marked retryable (lines 266-278).
Returns(n) ==
  /\ at = "executing"
  /\ \/ Ended("whole") /\ Record("completed", n)
     \/ Current \in Bounded /\ Ended("bounded") /\ Record("truncated", n)

\* It returns with a retryable discovery (lines 102-122 and 280-303); the
\* discoveries of an attempt that is retried are dropped.
ReturnsTransient(n) ==
  /\ at = "executing"
  /\ Ended("transient")
  /\ IF LastAttempt THEN Record("retry_exhausted", n) ELSE BackOff

\* Cancelled at the deadline or by Ctrl+C, it returns what it has: wait_for
\* returns normally (lines 199 and 267-278).
ReturnsCut(n) ==
  /\ at = "executing" /\ OnCancel[Current] # "raises"
  /\ \/ /\ Ended("cut")
        /\ Record(IF OnCancel[Current] = "told" THEN "truncated" ELSE "completed", n)
     \/ /\ Ended("cut, transient")
        /\ IF LastAttempt THEN Record("retry_exhausted", n) ELSE BackOff

\* The deadline, in a plugin that lets the cancellation through (201-236).
TimesOut ==
  /\ at = "executing" /\ OnCancel[Current] # "told"
  /\ Ended("timeout")
  /\ IF Current \notin RetriesTimeout THEN Record("timeout", 0)
     ELSE IF LastAttempt THEN Record("timeout_exhausted", 0)
     ELSE BackOff

\* Lines 238-252.
Raises ==
  /\ at = "executing"
  /\ Ended("raised") /\ Record("error", 0)

\* Lines 236 and 303.
Retry ==
  /\ at = "backoff"
  /\ at' = "executing" /\ attempt' = attempt + 1
  /\ UNCHANGED <<error, deps, allowed, todo, ran, left, outcomes, timed, bus>>

\* Ctrl+C, not swallowed: lines 355-362.
StageInterrupted ==
  /\ at \in {"executing", "backoff"}
  /\ outcomes' = [outcomes EXCEPT ![Current] = "interrupted"]
  /\ timed' = timed \cup {Current}
  /\ Throw("ctrl_c")
  /\ UNCHANGED <<deps, allowed, todo, attempt, ran, left, bus>>

-----------------------------------------------------------------------------
(* Lines 386-406.                                                          *)

Publish ==
  /\ at = "publishing" /\ left > 0
  /\ left' = left - 1
  /\ Bus!Accept
  /\ UNCHANGED <<at, error, deps, allowed, todo, attempt, ran, outcomes, timed>>

PublishFails ==
  /\ at = "publishing" /\ left > 0
  /\ Throw("storage")
  /\ UNCHANGED <<deps, allowed, stage, bus>>

Drain ==
  /\ at = "publishing" /\ left = 0
  /\ at' = "draining"
  /\ UNCHANGED <<error, deps, allowed, stage, bus>>

StageEnds ==
  /\ at = "draining" /\ backlog = 0
  /\ timed' = timed \cup {Current}
  /\ todo' = Tail(todo)
  /\ at' = "preflight"
  /\ UNCHANGED <<error, deps, allowed, attempt, ran, left, outcomes, bus>>

\* Ctrl+C outside the try statement of line 350: the stage keeps its outcome
\* but gets no duration.
BusInterrupted ==
  /\ at \in {"publishing", "draining"}
  /\ Throw("ctrl_c")
  /\ UNCHANGED <<deps, allowed, stage, bus>>

-----------------------------------------------------------------------------
\* The dispatcher settles an event, and may end on it.
Dispatch ==
  /\ \E next \in {"running", "dead"} : Bus!Handle(next)
  /\ UNCHANGED <<at, error, deps, allowed, stage>>

Schedule ==
  \/ \E ok \in BOOLEAN : Gate1(ok)
  \/ StartStage \/ Skip \/ AllStagesDone
  \/ \E n \in 0 .. MaxFound : Returns(n)
  \/ \E n \in 1 .. MaxFound : ReturnsTransient(n) \/ ReturnsCut(n)
  \/ TimesOut \/ Raises \/ Retry
  \/ Publish \/ PublishFails \/ Drain \/ StageEnds

SchedulerTypeOK ==
  /\ deps \in DepChoices /\ allowed \in BOOLEAN
  /\ todo \in Seq(Stages) /\ attempt \in 0 .. MaxRetries + 1 /\ left \in Nat
  /\ ran \in Seq(Ending)
  /\ outcomes \in [Stages -> Outcome \cup {"none"}]
  /\ timed \subseteq Stages
  /\ backlog \in Nat /\ disp \in {"off", "running", "dead", "stopped"}
=============================================================================
