------------------------------ MODULE Attempt -------------------------------
(***************************************************************************)
(* What the modules of the built-in stages share: a stage's execute(), the *)
(* cancellations it is given and the attempts the scheduler makes.  Each   *)
(* module describes the body of one plugin or of plugins alike, and Stages *)
(* puts them together.                                                     *)
(***************************************************************************)
EXTENDS Naturals

CONSTANTS
  MaxCuts,      (* bound: cancellations per attempt                        *)
  MaxAttempts   (* Scheduler's max_retries + 1                             *)

ASSUME AttemptAssumption == MaxCuts \in Nat /\ MaxAttempts \in Nat \ {0}

VARIABLES
  plugin,    (* the stage that runs                                        *)
  phase,     (* where execute() stands, see StageAttempt                   *)
  cuts,      (* cancellations delivered to this attempt                    *)
  told,      (* the result holds a kind of _TRUNCATION_KINDS               *)
  attempt    (* number of the attempt                                      *)

attemptVars == <<plugin, phase, cuts, told, attempt>>

Phase == {"running", "unwinding", "returned", "raised", "cancelled"}

Ended == phase \in {"returned", "raised", "cancelled"}

AttemptInit(name) ==
  /\ plugin = name
  /\ phase = "running" /\ cuts = 0 /\ told = FALSE /\ attempt = 1

\* execute() ends, or goes on in another way.
Goes(to, truncated) ==
  /\ phase' = to
  /\ told' = truncated
  /\ UNCHANGED <<plugin, cuts, attempt>>

\* A CancelledError is thrown into execute().
Cancelled(to) ==
  /\ cuts < MaxCuts
  /\ cuts' = cuts + 1
  /\ phase' = to
  /\ UNCHANGED <<plugin, told, attempt>>

\* scheduler.py 179: the next attempt of the same plugin object.  Of two
\* cancellations one is Ctrl+C's, and wait_for lets it through.
NextAttempt ==
  /\ attempt < MaxAttempts /\ cuts < 2
  /\ attempt' = attempt + 1
  /\ phase' = "running" /\ cuts' = 0 /\ told' = FALSE
  /\ UNCHANGED plugin

AttemptTypeOK ==
  /\ phase \in Phase /\ told \in BOOLEAN
  /\ cuts \in 0 .. MaxCuts /\ attempt \in 1 .. MaxAttempts
=============================================================================
