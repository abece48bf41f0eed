---------------------------- MODULE StageAttempt ----------------------------
(***************************************************************************)
(* What the scheduler counts on when it runs a plugin's execute() under    *)
(* asyncio.wait_for (scheduler.py 170-303): an attempt ends by itself or   *)
(* is cancelled, and what a cancelled one does is what StageScheduler's    *)
(* constant OnCancel says of its plugin.                                   *)
(***************************************************************************)
EXTENDS Naturals

CONSTANT OnCancel   (* by plugin: raises, silent or told                   *)

VARIABLES
  plugin,    (* the stage                                                  *)
  phase,     (* where execute() stands                                     *)
  cuts,      (* cancellations delivered to this attempt                    *)
  told       (* the result holds a kind of _TRUNCATION_KINDS               *)

vars == <<plugin, phase, cuts, told>>

Ended == phase \in {"returned", "raised", "cancelled"}

Init ==
  /\ plugin \in DOMAIN OnCancel
  /\ phase = "running" /\ cuts = 0 /\ told = FALSE

\* It returns or raises on its own; a result that says so was cut.
Finish ==
  /\ phase = "running"
  /\ phase' \in {"returned", "raised"}
  /\ UNCHANGED <<plugin, cuts, told>>

\* The deadline or Ctrl+C; a second one may end the attempt at once.
Cut ==
  /\ \/ phase = "running" /\ phase' = "unwinding"
     \/ phase = "unwinding" /\ phase' \in {"unwinding", "cancelled"}
  /\ cuts' = cuts + 1
  /\ UNCHANGED <<plugin, told>>

\* The first cancellation has been dealt with.
Unwind ==
  /\ phase = "unwinding"
  /\ \/ OnCancel[plugin] # "told" /\ phase' = "cancelled" /\ UNCHANGED told
     \/ OnCancel[plugin] # "raises" /\ phase' = "returned" /\ told' = (OnCancel[plugin] = "told")
  /\ UNCHANGED <<plugin, cuts>>

\* The scheduler's next attempt.
Again ==
  /\ Ended
  /\ phase' = "running" /\ cuts' = 0 /\ told' = FALSE
  /\ UNCHANGED plugin

Next == Finish \/ Cut \/ Unwind \/ Again

\* A cancelled attempt ends: the scheduler waits for it without a limit.
Spec == Init /\ [][Next]_vars /\ WF_vars(Unwind)
=============================================================================
