----------------------------- MODULE ToolStage ------------------------------
(***************************************************************************)
(* sh4q/adapters: a stage that runs an external tool.  plugin.py asks it   *)
(* for its version first and parses what it printed even if it had to be   *)
(* stopped; httpx_plugin.py does neither.  A run (runner.py) starts a      *)
(* process group, reads both pipes up to a limit and stops the group at    *)
(* the tool's own deadline, at the limit or when the scheduler cancels:    *)
(* SIGTERM, one second, SIGKILL.                                           *)
(*                                                                         *)
(* The two pipe readers are alike; one is modelled.  No adapter of the     *)
(* repository feeds a tool's standard input, so lines 67-70 are left out.  *)
(* A process group that an attempt left behind is not followed further.    *)
(***************************************************************************)
EXTENDS Attempt, FiniteSets

CONSTANTS
  Tools,     (* plugins that run a tool                                    *)
  Probing    (* those of plugin.py, which ask for the version first        *)

ASSUME ToolAssumption == Probing \subseteq Tools

VARIABLES
  run,       (* version: probe_version; main: the run it is for            *)
  at,        (* where runner.run() stands                                  *)
  process,   (* the process group: none, alive, stubborn (alive after a    *)
             (* SIGTERM), killed (not reaped yet) or exited                *)
  reader,    (* off, reading, stopping (in _stop at the limit) or done     *)
  limited,   (* output_limited                                             *)
  timedOut,  (* timed_out                                                  *)
  report,    (* the discoveries: kind and what they say of the run         *)
  signalled, (* history: the group got a signal while it was alive         *)
  abandoned  (* history: a cancellation arrived in _stop                   *)

toolVars == <<run, at, process, reader, limited, timedOut, report, signalled, abandoned>>

(***************************************************************************)
(* starting   before the process exists                                    *)
(* waiting    in process.wait(), line 75                                   *)
(* stopping   in _stop() after the tool's own deadline, line 78            *)
(* killing    in _stop() for a cancellation, line 80                       *)
(* reading    in the gather of the readers, line 86                        *)
(* over       run() has ended                                              *)
(***************************************************************************)
RunAt == {"starting", "waiting", "stopping", "killing", "reading", "over"}

Processes == {"none", "alive", "stubborn", "killed", "exited"}

ToolInit ==
  /\ run = (IF plugin \in Probing THEN "version" ELSE "main")
  /\ at = "starting" /\ process = "none"
  /\ reader = "off" /\ limited = FALSE /\ timedOut = FALSE
  /\ report = {} /\ signalled = FALSE /\ abandoned = FALSE

IsTool == plugin \in Tools

Running == process \in {"alive", "stubborn"}

-----------------------------------------------------------------------------
\* Lines 54-72.  A tool that is not allowed or cannot be started raises.
Launch ==
  /\ IsTool /\ phase = "running" /\ at = "starting"
  /\ process' = "alive" /\ signalled' = FALSE
  /\ reader' = "reading" /\ limited' = FALSE /\ timedOut' = FALSE
  /\ at' = "waiting"
  /\ UNCHANGED <<attemptVars, run, report, abandoned>>

LaunchFails ==
  /\ IsTool /\ phase = "running" /\ at = "starting"
  /\ Goes("raised", FALSE)
  /\ at' = "over"
  /\ UNCHANGED <<run, process, reader, limited, timedOut, report, signalled, abandoned>>

\* The tool ends, by itself or for a signal.
ToolExits ==
  /\ IsTool /\ process \in {"alive", "stubborn", "killed"}
  /\ process' = "exited"
  /\ UNCHANGED <<attemptVars, run, at, reader, limited, timedOut, report, signalled, abandoned>>

\* SIGTERM, lines 162-165; an exited process is left alone.
Terminated ==
  /\ process' = IF process = "alive" THEN "stubborn" ELSE process
  /\ signalled' = (signalled \/ Running)

\* A plausible bug of Kill, used as a mutant: SIGTERM once more.
TerminateAgain ==
  /\ process = "stubborn"
  /\ UNCHANGED process

\* SIGKILL after one second, lines 166-172.
Kill ==
  /\ process = "stubborn"
  /\ process' = "killed"

\* Lines 105-113: the retained output passed the limit, and again with
\* every further chunk (of no effect once the group has ended).
OutputLimit ==
  /\ IsTool /\ reader = "reading"
  /\ process # "exited" \/ ~limited
  /\ limited' = TRUE
  /\ Terminated
  /\ reader' = "stopping"
  /\ UNCHANGED <<attemptVars, run, at, timedOut, report, abandoned>>

ReaderKills ==
  /\ IsTool /\ reader = "stopping"
  /\ Kill
  /\ UNCHANGED <<attemptVars, run, at, reader, limited, timedOut, report, signalled, abandoned>>

\* _stop returns, and the reader reads on.
ReaderGoesOn ==
  /\ IsTool /\ reader = "stopping" /\ process = "exited"
  /\ reader' = "reading"
  /\ UNCHANGED <<attemptVars, run, at, process, limited, timedOut, report, signalled, abandoned>>

\* End of file.
ReaderDone ==
  /\ IsTool /\ reader = "reading" /\ process = "exited"
  /\ reader' = "done"
  /\ UNCHANGED <<attemptVars, run, at, process, limited, timedOut, report, signalled, abandoned>>
-----------------------------------------------------------------------------
\* Line 75: the process has ended.
Waited ==
  /\ IsTool /\ phase = "running" /\ at = "waiting" /\ process = "exited"
  /\ at' = "reading"
  /\ UNCHANGED <<attemptVars, run, process, reader, limited, timedOut, report, signalled, abandoned>>

\* Lines 76-78.
ToolDeadline ==
  /\ IsTool /\ phase = "running" /\ at = "waiting" /\ process # "exited"
  /\ timedOut' = TRUE
  /\ Terminated
  /\ at' = "stopping"
  /\ UNCHANGED <<attemptVars, run, reader, limited, report, abandoned>>

StopKills ==
  /\ IsTool /\ at \in {"stopping", "killing"} /\ phase \in {"running", "unwinding"}
  /\ Kill
  /\ UNCHANGED <<attemptVars, run, at, reader, limited, timedOut, report, signalled, abandoned>>

Stopped ==
  /\ IsTool /\ phase = "running" /\ at = "stopping" /\ process = "exited"
  /\ at' = "reading"
  /\ UNCHANGED <<attemptVars, run, process, reader, limited, timedOut, report, signalled, abandoned>>

\* A plausible bug of Execution, used as a mutant: the limit is not reported.
ExecutionOfDeadline == [kind |-> "adapter_execution", timed_out |-> timedOut, output_limited |-> FALSE]

\* plugin.py 38-53 and 60-74, httpx_plugin.py 58.  The record of a version
\* probe that timed out says nothing of a limit.
Execution == [kind |-> "adapter_execution", timed_out |-> timedOut,
              output_limited |-> limited /\ run = "main"]

\* plugin.py 75-79: also what a stopped tool printed; httpx_plugin.py 59-61:
\* only if the tool was not stopped and did not fail.
Parsed(failed) ==
  IF run = "main" /\ (plugin \in Probing \/ ~(failed \/ timedOut \/ limited))
  THEN {[kind |-> "parsed"]} ELSE {}

\* Lines 86-99.  A version probe that timed out ends the stage; otherwise
\* the tool runs.
Read ==
  /\ IsTool /\ phase = "running" /\ at = "reading" /\ reader = "done"
  /\ \/ /\ run = "version" /\ ~timedOut
        /\ run' = "main" /\ at' = "starting"
        /\ UNCHANGED <<attemptVars, report>>
     \/ /\ run = "main" \/ timedOut
        /\ Goes("returned", FALSE)
        /\ \E failed \in BOOLEAN : report' = {Execution} \cup Parsed(failed)
        /\ at' = "over"
        /\ UNCHANGED run
  /\ UNCHANGED <<process, reader, limited, timedOut, signalled, abandoned>>
-----------------------------------------------------------------------------
\* CancelledError: only the wait of line 75 catches it (79-84).  In _stop,
\* after the tool's deadline or for an earlier cancellation, it ends run()
\* where it stands, with the readers left to themselves; in line 86 it
\* cancels them.
CancelTool ==
  /\ IsTool
  /\ \/ /\ phase = "running" /\ at = "waiting"
        /\ Cancelled("unwinding")
        /\ Terminated
        /\ at' = "killing"
        /\ UNCHANGED <<reader, abandoned>>
     \/ /\ phase = "running" /\ at \in {"starting", "stopping", "reading"}
        /\ Cancelled("unwinding")
        /\ at' = "over"
        /\ reader' = IF at = "reading" THEN "done" ELSE reader
        /\ abandoned' = (at = "stopping")
        /\ UNCHANGED <<process, signalled>>
     \/ /\ phase = "unwinding"
        /\ Cancelled("cancelled")
        /\ abandoned' = (abandoned \/ at = "killing")
        /\ at' = "over"
        /\ UNCHANGED <<process, signalled, reader>>
  /\ UNCHANGED <<run, limited, timedOut, report>>

\* Lines 80-84: the group has been stopped, the readers are cancelled.
UnwindTool ==
  /\ IsTool /\ phase = "unwinding"
  /\ \/ at = "killing" /\ process = "exited" /\ reader' = "done"
     \/ at = "over" /\ UNCHANGED reader
  /\ Goes("cancelled", FALSE)
  /\ at' = "over"
  /\ UNCHANGED <<run, process, limited, timedOut, report, signalled, abandoned>>

\* The scheduler tries again after a deadline (retry_on_timeout).
RetryTool ==
  /\ IsTool /\ phase = "cancelled"
  /\ NextAttempt
  /\ run' = (IF plugin \in Probing THEN "version" ELSE "main")
  /\ at' = "starting" /\ process' = "none"
  /\ reader' = "off" /\ limited' = FALSE /\ timedOut' = FALSE
  /\ signalled' = FALSE /\ abandoned' = FALSE
  /\ UNCHANGED report

ToolNext ==
  \/ Launch \/ LaunchFails \/ ToolExits
  \/ OutputLimit \/ ReaderKills \/ ReaderGoesOn \/ ReaderDone
  \/ Waited \/ ToolDeadline \/ StopKills \/ Stopped \/ Read
  \/ CancelTool \/ UnwindTool \/ RetryTool
-----------------------------------------------------------------------------
ToolTypeOK ==
  /\ run \in {"version", "main"} /\ at \in RunAt /\ process \in Processes
  /\ reader \in {"off", "reading", "stopping", "done"}
  /\ limited \in BOOLEAN /\ timedOut \in BOOLEAN
  /\ signalled \in BOOLEAN /\ abandoned \in BOOLEAN

(***************************************************************************)
(* Three parties may stop a tool: its own deadline, the output limit and   *)
(* the scheduler's cancellation, which may find the other two at work.     *)
(* When the stage has ended no tool runs on; only a cancellation that      *)
(* arrives while the tool is being stopped can leave one, and that one has *)
(* had its SIGTERM (runner.py 74-84, 101-114, 161-173).  And a tool that   *)
(* was stopped while it ran is reported so (plugin.py 60-74).              *)
(***************************************************************************)
ToolStopped ==
  IsTool /\ Ended =>
    /\ process # "alive"
    /\ ~abandoned => process \in {"none", "exited"}
    /\ \A r \in report : r.kind = "adapter_execution" /\ run = "main" /\ signalled =>
                         r.timed_out \/ r.output_limited
=============================================================================
