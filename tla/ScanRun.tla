------------------------------- MODULE ScanRun -------------------------------
(***************************************************************************)
(* sh4q/application/scan_runner.py, run_scan from the creation of the      *)
(* scan_runs row (line 286) to the summary, around the scheduler: the      *)
(* recovery of earlier events, the scan, and the finally clause that stops *)
(* the bus, stores the metrics and closes the row.  One Ctrl+C may arrive  *)
(* at any await (asyncio.run's handler cancels the coroutine), storage may *)
(* fail at every access, and a tool may turn out to be missing.            *)
(***************************************************************************)
EXTENDS StageScheduler

CONSTANT MaxRecovered   (* bound: events inherited from earlier runs       *)

ASSUME ScanRunAssumption == MaxRecovered \in Nat

VARIABLES
  row,          (* scan_runs.status; "none" before the row exists          *)
  outcome,      (* `outcome`                                               *)
  requests,     (* the outcome stored with the request metrics             *)
  stageRows,    (* the stored stage metrics; "absent" if not listed        *)
  scheduling,   (* scheduler is not None                                   *)
  pressed       (* where the coroutine stood when Ctrl+C was pressed       *)

records == <<row, outcome, requests, stageRows, scheduling>>
vars    == <<at, error, deps, allowed, stage, bus, records, pressed>>
inner   == <<deps, allowed, stage>>

(***************************************************************************)
(* new       before line 286           opened    row created, no try yet   *)
(* building  choosing the plugins      shutdown .. tools   in the finally  *)
(* summary   after the finally         done      returned a summary        *)
(* raised    run_scan has raised `error`                                   *)
(***************************************************************************)
RunnerAt == {"new", "opened", "building", "shutdown", "requests", "stages",
             "tools", "summary", "done", "raised"}

Init ==
  /\ SchedulerInit
  /\ at = "new" /\ error = "none"
  /\ Bus!BusInit
  /\ row = "none" /\ outcome = "completed"
  /\ requests = "none" /\ stageRows = [s \in Stages |-> "absent"]
  /\ scheduling = FALSE
  /\ pressed = "never"

Escape(e) == at' = "raised" /\ error' = e

-----------------------------------------------------------------------------
\* create_scan, lines 286-292.
Create ==
  /\ at = "new"
  /\ \/ row' = "RUNNING" /\ at' = "opened" /\ UNCHANGED error
     \/ Escape("storage") /\ UNCHANGED row
  /\ UNCHANGED <<inner, bus, outcome, requests, stageRows, scheduling, pressed>>

\* Lines 293-328, before the try: the events of earlier runs are queued and
\* the dispatcher starts.
Recover ==
  /\ at = "opened"
  /\ \/ /\ backlog' \in 0 .. MaxRecovered /\ Bus!Open
        /\ at' = "building" /\ UNCHANGED error
     \/ Escape("storage") /\ UNCHANGED bus
  /\ UNCHANGED <<inner, records, pressed>>

\* Lines 333-548: storage, or a tool that is missing, may end the run here.
Build ==
  /\ at = "building"
  /\ \/ at' = "gate" /\ scheduling' = TRUE /\ UNCHANGED error
     \/ (Throw("adapter") \/ Throw("storage")) /\ UNCHANGED scheduling
  /\ UNCHANGED <<inner, bus, row, outcome, requests, stageRows, pressed>>

\* A plausible bug of LastDrain, used as a mutant.
LastDrainSkipped ==
  /\ at = "returned"
  /\ at' = "shutdown"
  /\ UNCHANGED <<error, inner, bus, records, pressed>>

\* Line 583.
LastDrain ==
  /\ at = "returned" /\ backlog = 0
  /\ at' = "shutdown"
  /\ UNCHANGED <<error, inner, bus, records, pressed>>

\* Lines 584-586.
Caught ==
  /\ at = "threw"
  /\ outcome' = "interrupted"
  /\ at' = "shutdown"
  /\ UNCHANGED <<error, inner, bus, row, requests, stageRows, scheduling, pressed>>

\* A plausible bug of Shutdown, used as a mutant: it waits for a dispatcher
\* that has already died.
ShutdownWaits ==
  /\ at = "shutdown" /\ disp # "dead"
  /\ at' = "requests" /\ disp' = "stopped"
  /\ UNCHANGED <<error, inner, backlog, records, pressed>>

\* Line 590: shutdown() re-raises what the dispatcher died of.
Shutdown ==
  /\ at = "shutdown"
  /\ IF disp = "dead" THEN Escape("storage") /\ UNCHANGED disp
     ELSE at' = "requests" /\ disp' = "stopped" /\ UNCHANGED error
  /\ UNCHANGED <<inner, backlog, records, pressed>>

\* Lines 591-600.
StoreRequestMetrics ==
  /\ at = "requests"
  /\ \/ requests' = outcome /\ at' = "stages" /\ UNCHANGED error
     \/ Escape("storage") /\ UNCHANGED requests
  /\ UNCHANGED <<inner, bus, row, outcome, stageRows, scheduling, pressed>>

\* Lines 601-608 and stage_metrics.py 18-23: one entry per duration.
StoreStageMetrics ==
  /\ at = "stages"
  /\ \/ /\ stageRows' = IF ~scheduling THEN stageRows
                      ELSE [s \in Stages |-> IF s \in timed THEN outcomes[s] ELSE "absent"]
        /\ at' = "tools" /\ UNCHANGED error
     \/ scheduling /\ Escape("storage") /\ UNCHANGED stageRows
  /\ UNCHANGED <<inner, bus, row, outcome, requests, scheduling, pressed>>

\* A plausible bug of Finish, used as a mutant: the outcome is not asked.
FinishCompletes ==
  /\ at = "tools"
  /\ row' = "COMPLETED"
  /\ at' = IF error = "none" THEN "summary" ELSE "raised"
  /\ UNCHANGED <<error, inner, bus, outcome, requests, stageRows, scheduling, pressed>>

\* Lines 609-621: after the version probes the row is closed, and the
\* exception, if there is one, goes on its way.
Finish ==
  /\ at = "tools"
  /\ \/ /\ row' = IF outcome = "completed" THEN "COMPLETED" ELSE "INTERRUPTED"
        /\ at' = IF error = "none" THEN "summary" ELSE "raised"
        /\ UNCHANGED error
     \/ Escape("storage") /\ UNCHANGED row
  /\ UNCHANGED <<inner, bus, outcome, requests, stageRows, scheduling, pressed>>

\* Lines 625-628.
Summarise ==
  /\ at = "summary"
  /\ \/ at' = "done" /\ UNCHANGED error
     \/ Escape("storage")
  /\ UNCHANGED <<inner, bus, records, pressed>>

-----------------------------------------------------------------------------
\* CancelledError at an await of the runner itself.  shutdown() takes it for
\* the dispatcher's and goes on (bus.py 81-84).
RunnerInterrupted ==
  \/ /\ \/ at \in {"opened", "requests", "tools", "summary"}
        \/ at = "stages" /\ scheduling
     /\ Escape("ctrl_c")
     /\ UNCHANGED <<inner, bus, records>>
  \/ /\ at \in {"building", "returned"}
     /\ Throw("ctrl_c")
     /\ UNCHANGED <<inner, bus, records>>
  \/ /\ at = "shutdown" /\ disp # "dead"
     /\ at' = "requests" /\ disp' = "stopped"
     /\ UNCHANGED <<error, inner, backlog, records>>

CtrlC ==
  /\ pressed = "never"
  /\ pressed' = at
  /\ \/ RunnerInterrupted
     \/ StageInterrupted /\ UNCHANGED records
     \/ BusInterrupted /\ UNCHANGED records
     \/ \E n \in 1 .. MaxFound : ReturnsCut(n) /\ UNCHANGED records

Run ==
  \/ Create \/ Recover \/ Build \/ LastDrain \/ Caught \/ Shutdown
  \/ StoreRequestMetrics \/ StoreStageMetrics \/ Finish \/ Summarise
  \/ Schedule /\ UNCHANGED <<records, pressed>>

Next ==
  \/ Run
  \/ Dispatch /\ UNCHANGED <<records, pressed>>
  \/ CtrlC

(***************************************************************************)
(* The event loop resumes both coroutines whenever they can go on.  A      *)
(* stage ends, by its deadline at the latest; nothing makes the operator   *)
(* press Ctrl+C.                                                           *)
(***************************************************************************)
Fairness ==
  /\ WF_vars(Run)
  /\ WF_vars(Dispatch /\ UNCHANGED <<records, pressed>>)

Spec == Init /\ [][Next]_vars
FairSpec == Spec /\ Fairness
-----------------------------------------------------------------------------
TypeOK ==
  /\ SchedulerTypeOK
  /\ at \in SchedulerAt \cup RunnerAt
  /\ error \in {"none", "ctrl_c", "storage", "adapter", "order"}
  /\ row \in {"none", "RUNNING", "COMPLETED", "INTERRUPTED"}
  /\ outcome \in {"completed", "interrupted"}
  /\ requests \in {"none", "completed", "interrupted"}
  /\ stageRows \in [Stages -> Outcome \cup {"absent"}]
  /\ scheduling \in BOOLEAN
  /\ pressed \in {"never"} \cup SchedulerAt \cup RunnerAt

(***************************************************************************)
(* A COMPLETED row is earned: whatever failed or was interrupted on the    *)
(* way, the run's queue was emptied by a living dispatcher, everything the *)
(* last stage found was published, the metrics say the same, and unless    *)
(* Gate 1 refused the target every stage is listed and none as interrupted *)
(* (lines 582-621).                                                        *)
(***************************************************************************)
CompletedIsSettled ==
  row = "COMPLETED" =>
    /\ left = 0 /\ backlog = 0 /\ disp = "stopped"
    /\ requests = "completed"
    /\ allowed => \A s \in Stages : stageRows[s] \notin {"absent", "interrupted"}

(***************************************************************************)
(* A closed row can be believed: the stored metrics carry its outcome, the *)
(* stage list is the one the run ended with, and an INTERRUPTED run is one *)
(* whose caller gets an exception.                                         *)
(***************************************************************************)
ClosedIsReported ==
  row \in {"COMPLETED", "INTERRUPTED"} =>
    /\ requests = outcome /\ (row = "COMPLETED") = (outcome = "completed")
    /\ scheduling => \A s \in Stages :
         stageRows[s] = IF s \in timed THEN outcomes[s] ELSE "absent"
    /\ row = "INTERRUPTED" => at = "raised"

Satisfiable(ds) ==
  \E q \in Orders(Listed) :
    \A i \in DOMAIN q : ds[q[i]] \subseteq {q[j] : j \in 1 .. i - 1}

(***************************************************************************)
(* A stage executes after everything it depends on, and after every event  *)
(* of the stages that executed before it has been handled; a run is given  *)
(* up for its dependencies only if no order satisfies them (scheduler.py   *)
(* 71-100, 400-402).                                                       *)
(***************************************************************************)
StagesInOrder ==
  /\ at = "executing" =>
       /\ deps[Current] \subseteq timed
       /\ (\E s \in timed : outcomes[s] # "skipped") => backlog = 0
  /\ error = "order" => ~Satisfiable(deps)

InStage == at \in {"executing", "backoff", "publishing", "draining"}

\* What the scheduler may try again.
MayPass(how) ==
  \/ how \in {"transient", "cut, transient"}
  \/ how = "timeout" /\ Current \in RetriesTimeout

(***************************************************************************)
(* Only what may pass is tried again -- a retryable discovery, or a        *)
(* deadline of a stage that says so -- and a stage is called exhausted     *)
(* only after its last attempt (scheduler.py 215-236, 266-290).            *)
(***************************************************************************)
RetriesJustified ==
  InStage =>
    /\ \A i \in 1 .. Len(ran) - 1 : MayPass(ran[i])
    /\ Len(ran) <= MaxRetries + 1
    /\ at = "publishing" /\ outcomes[Current] \in {"retry_exhausted", "timeout_exhausted"}
         => Len(ran) = MaxRetries + 1

(***************************************************************************)
(* Every run ends, interrupted or not, unless the dispatcher has died and  *)
(* left events behind, for which drain() waits for ever.                   *)
(***************************************************************************)
ScanEnds == at # "new" ~> at \in {"done", "raised"} \/ (disp = "dead" /\ backlog > 0)

-----------------------------------------------------------------------------
(* What the documentation says of a run, and the code does not keep.       *)

\* docs/operator_reference.md 760: "`completed` | The stage ran to the end and
\* kept everything it found."  A stage that swallows its cancellation returns
\* to line 274 as if it had ended by itself.
CompletedRanToTheEnd ==
  at = "publishing" /\ outcomes[Current] = "completed" => ran[Len(ran)] = "whole"

\* docs/operator_reference.md 762-763: "on every attempt".  The status is that
\* of the last attempt.
ExhaustedOnEveryAttempt ==
  at = "publishing" => \A i \in DOMAIN ran :
    /\ outcomes[Current] = "timeout_exhausted" => ran[i] = "timeout"
    /\ outcomes[Current] = "retry_exhausted" => ran[i] # "timeout"

\* docs/troubleshooting.md 87: "Press it once and wait for the clean
\* interruption message. The scan is marked interrupted".
InterruptedStageIsMarked ==
  pressed = "executing" => row # "COMPLETED"

\* cli/main.py 1089-1090: "A storage or adapter failure can arrive after the
\* scan started; the runner has already marked the run INTERRUPTED in that case."
FailedRunIsMarked ==
  at = "raised" /\ error \in {"storage", "adapter"} /\ row # "none" => row = "INTERRUPTED"
=============================================================================
