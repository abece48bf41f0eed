----------------------------- MODULE LookupStage ----------------------------
(***************************************************************************)
(* sh4q/plugins/dns_plugin.py and javascript_extraction_plugin.py: stages  *)
(* with one await, that of a lookup (of the target's addresses, of this    *)
(* scan's evidence), which let a cancellation through.                     *)
(***************************************************************************)
EXTENDS Attempt

CONSTANTS DNS, Extraction   (* the stages' names                           *)

VARIABLE reply   (* none, found, empty or the error that was recorded      *)

lookupVars == <<reply>>

IsLookup == plugin \in {DNS, Extraction}

LookupInit == reply = "none"

\* dns_plugin.py 39-55; javascript_extraction_plugin.py 39-73.
LookupAnswers(how) ==
  /\ IsLookup /\ phase = "running"
  /\ reply' = how
  /\ Goes("returned", FALSE)

\* dns_plugin.py 22-37: an OSError is a record, retryable for EAI_AGAIN.
LookupFails(how) ==
  /\ plugin = DNS /\ phase = "running"
  /\ reply' = how
  /\ Goes("returned", FALSE)

\* Anything else, and every error of the evidence store, escapes.
LookupRaises ==
  /\ IsLookup /\ phase = "running"
  /\ Goes("raised", FALSE)
  /\ UNCHANGED reply

CancelLookup ==
  /\ IsLookup
  /\ \/ phase = "running" /\ Cancelled("unwinding")
     \/ phase = "unwinding" /\ Cancelled("cancelled")
  /\ UNCHANGED reply

UnwindLookup ==
  /\ IsLookup /\ phase = "unwinding"
  /\ Goes("cancelled", FALSE)
  /\ UNCHANGED reply

\* After a deadline or a retryable dns_error.
RetryLookup ==
  /\ IsLookup
  /\ phase = "cancelled" \/ (phase = "returned" /\ reply = "retryable error")
  /\ NextAttempt
  /\ reply' = "none"

LookupNext ==
  \/ \E how \in {"found", "empty"} : LookupAnswers(how)
  \/ \E how \in {"error", "retryable error"} : LookupFails(how)
  \/ LookupRaises \/ CancelLookup \/ UnwindLookup \/ RetryLookup
=============================================================================
