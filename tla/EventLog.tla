------------------------------ MODULE EventLog ------------------------------
(***************************************************************************)
(* sh4q/events/event_log.py: the durable log of discovery events, one row  *)
(* per event in SQLite.  Every operation opens its own connection and      *)
(* commits once, so each is one atomic step of the log.                    *)
(*                                                                         *)
(* Events are numbered in the order in which they are created; a row's     *)
(* created_at is its event's number.  The runner builds the bus with       *)
(* retry_delay = 0, so the next_attempt_at of a FAILED row has passed by   *)
(* the time another run recovers and the column is left out.               *)
(***************************************************************************)
EXTENDS Integers, FiniteSets, Sequences

CONSTANTS
  Events,        (* the discoveries that may ever be published             *)
  MaxAttempts    (* EventBus(max_event_attempts = ...)                     *)

ASSUME EventLogAssumption ==
  /\ Events \subseteq Nat /\ IsFiniteSet(Events)
  /\ MaxAttempts \in Nat \ {0}

VARIABLES
  status,        (* status column; ABSENT while there is no row            *)
  attempts       (* attempts column                                        *)

log == <<status, attempts>>

Unfinished == {"PENDING", "PROCESSING", "FAILED"}
Status     == Unfinished \cup {"ABSENT", "COMPLETED", "DEAD_LETTER"}

LogInit ==
  /\ status = [e \in Events |-> "ABSENT"]
  /\ attempts = [e \in Events |-> 0]

\* record_pending, lines 110-117.
RecordPending(e) ==
  /\ status[e] = "ABSENT"
  /\ status' = [status EXCEPT ![e] = "PENDING"]
  /\ UNCHANGED attempts

\* _set_status, lines 138-144: the attempts survive.
SetStatus(e, s) ==
  /\ status' = [status EXCEPT ![e] = s]
  /\ UNCHANGED attempts

MarkProcessing(e) == SetStatus(e, "PROCESSING")
MarkCompleted(e)  == SetStatus(e, "COMPLETED")

(* Plausible bugs of mark_failed and recover_unfinished, used as mutants.  *)
MarkFailedOneMore(e) ==
  /\ attempts' = [attempts EXCEPT ![e] = @ + 1]
  /\ status' = [status EXCEPT ![e] =
                  IF attempts[e] + 1 > MaxAttempts THEN "DEAD_LETTER" ELSE "FAILED"]

MarkFailedRestarts(e) ==
  /\ attempts' = [attempts EXCEPT ![e] = 1]
  /\ status' = [status EXCEPT ![e] =
                  IF attempts[e] + 1 >= MaxAttempts THEN "DEAD_LETTER" ELSE "FAILED"]

\* mark_failed, lines 125-136.
MarkFailed(e) ==
  /\ attempts' = [attempts EXCEPT ![e] = @ + 1]
  /\ status' = [status EXCEPT ![e] =
                  IF attempts[e] + 1 >= MaxAttempts THEN "DEAD_LETTER" ELSE "FAILED"]

RecoverableUntouched == {e \in Events : status[e] \in {"PENDING", "FAILED"}}
RecoverableDead == {e \in Events : status[e] \in Unfinished \cup {"DEAD_LETTER"}}

\* The SELECT of recover_unfinished, lines 153-158.  It names no target and
\* no run: any run inherits the unfinished rows of all earlier ones.
Recoverable == {e \in Events : status[e] \in Unfinished}

\* ... ORDER BY created_at ASC.
InOrder(S) ==
  {q \in [1 .. Cardinality(S) -> S] :
     /\ \A e \in S : \E i \in DOMAIN q : q[i] = e
     /\ \A i, j \in DOMAIN q : i < j => q[i] < q[j]}

\* Lines 159-178: rows whose payload does not decode are dead-lettered, all
\* in one commit, and the others are handed to the caller.
RecoverUnfinished(corrupt) ==
  /\ corrupt \subseteq Recoverable
  /\ status' = [e \in Events |-> IF e \in corrupt THEN "DEAD_LETTER" ELSE status[e]]
  /\ attempts' = [e \in Events |-> IF e \in corrupt THEN attempts[e] + 1 ELSE attempts[e]]

LogTypeOK ==
  /\ status \in [Events -> Status]
  /\ attempts \in [Events -> Nat]
=============================================================================
