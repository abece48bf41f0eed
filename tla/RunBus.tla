------------------------------- MODULE RunBus -------------------------------
(***************************************************************************)
(* What the coroutine of a scan sees of the event bus: how many events are *)
(* unfinished -- the counter drain() waits for -- and whether there is a   *)
(* dispatcher.  EventBus implements it; the scheduler is built on it.      *)
(***************************************************************************)
EXTENDS Naturals

VARIABLES
  backlog,   (* the queue's unfinished-task counter                        *)
  disp       (* the dispatcher: off, running or dead                       *)

BusInit == backlog = 0 /\ disp = "off"

\* recover() and start(), bus.py 30-36 and 63-65.
Open ==
  /\ disp = "off"
  /\ disp' = "running"
  /\ backlog' \in Nat

\* publish(), bus.py 25-28.
Accept ==
  /\ disp # "off"
  /\ backlog' = backlog + 1
  /\ UNCHANGED disp

\* A plausible bug of Handle, used as a mutant: an event is settled twice.
HandleTwice(next) ==
  /\ disp = "running" /\ backlog > 0
  /\ backlog' = backlog - 2
  /\ disp' = next

\* _dispatch_loop, bus.py 38-61: an event is settled, and an exception in
\* the except clause ends the task.
Handle(next) ==
  /\ disp = "running" /\ backlog > 0
  /\ backlog' = backlog - 1
  /\ disp' = next

\* shutdown(), bus.py 74-84, or the end of the process.
Close ==
  /\ disp' = "off"
  /\ backlog' = 0

BusNext == Open \/ Accept \/ Handle("running") \/ Handle("dead") \/ Close

BusSpec == BusInit /\ [][BusNext]_<<backlog, disp>>
=============================================================================
