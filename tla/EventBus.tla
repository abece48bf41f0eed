------------------------------ MODULE EventBus ------------------------------
(***************************************************************************)
(* sh4q/events/bus.py with the log and the handler it drives, and with the *)
(* scheduler that feeds it, over any number of runs on one database.       *)
(*                                                                         *)
(* Two coroutines interleave within a run: the scheduler, which executes a *)
(* stage, publishes its discoveries and drains the bus (scheduler.py       *)
(* 330-402), and the bus's dispatcher.  A run can stop in any state: by a  *)
(* crash, by Ctrl+C or an exception (shutdown then cancels the dispatcher, *)
(* whose commit in flight has landed or not), or at its end.  Only the     *)
(* database survives.  One process uses a database at a time.              *)
(***************************************************************************)
EXTENDS DiscoveryHandler, Functions

VARIABLES
  main,        (* where the run's scheduler stands, see Main               *)
  scope,       (* the scope the run was started with                       *)
  publisher,   (* events recorded as PENDING but not yet put in the queue  *)
  queue,       (* asyncio.Queue                                            *)
  open,        (* the queue's unfinished-task counter                      *)
  disp,        (* the dispatcher's next await, see Disp                    *)
  hand,        (* the event in the dispatcher's hands, in a set            *)
  step         (* the next of the handler's Writes                         *)

run   == <<main, scope, publisher, queue, open, disp, hand, step>>
store == <<log, evidence, inventory>>
vars  == <<run, store>>

(***************************************************************************)
(* down        no process                                                  *)
(* first       recovered events are in the queue and stage one executes    *)
(* publishing  a stage has ended and its discoveries are published         *)
(* draining    awaiting queue.join()                                       *)
(* later       a later stage executes                                      *)
(***************************************************************************)
Main == {"down", "first", "publishing", "draining", "later"}

(***************************************************************************)
(* idle: queue.get(); mark: mark_processing; evidence, write: the handler; *)
(* complete: mark_completed; fail: mark_failed; dead: the task has ended   *)
(* with an exception nobody awaits yet; off: no process.                   *)
(***************************************************************************)
Disp == {"off", "idle", "mark", "evidence", "write", "complete", "fail", "dead"}
Busy == disp \in {"mark", "evidence", "write", "complete", "fail"}

Init ==
  /\ LogInit /\ InventoryInit
  /\ main = "down" /\ scope \in Scopes
  /\ publisher = {} /\ queue = <<>> /\ open = 0
  /\ disp = "off" /\ hand = {} /\ step = 1

-----------------------------------------------------------------------------
(* The run.                                                                *)

\* recover() and start(), lines 30-36 and 63-65.
Start(s, corrupt) ==
  /\ main = "down"
  /\ RecoverUnfinished(corrupt)
  /\ queue' \in InOrder(Recoverable \ corrupt)
  /\ open' = Cardinality(Recoverable \ corrupt)
  /\ main' = "first" /\ disp' = "idle" /\ scope' = s
  /\ UNCHANGED <<publisher, hand, step, evidence, inventory>>

\* A stage has ended (or Gate 1 refused the target: nothing to publish).
StageEnds ==
  /\ main \in {"first", "later"}
  /\ main' = "publishing"
  /\ UNCHANGED <<scope, publisher, queue, open, disp, hand, step, store>>

\* publish(), lines 26-27.  Publication is sequential.
Record(e) ==
  /\ main = "publishing" /\ publisher = {}
  /\ \A f \in Events : f < e => status[f] # "ABSENT"
  /\ RecordPending(e)
  /\ publisher' = {e}
  /\ UNCHANGED <<main, scope, queue, open, disp, hand, step, evidence, inventory>>

\* publish(), line 28.
Put(e) ==
  /\ e \in publisher
  /\ queue' = Append(queue, e)
  /\ open' = open + 1
  /\ publisher' = {}
  /\ UNCHANGED <<main, scope, disp, hand, step, store>>

Drain ==
  /\ main = "publishing" /\ publisher = {}
  /\ main' = "draining"
  /\ UNCHANGED <<scope, publisher, queue, open, disp, hand, step, store>>

\* A plausible bug of DrainReturns, used as a mutant: waiting for an empty
\* queue.
DrainWhenEmpty ==
  /\ main = "draining"
  /\ queue = <<>>
  /\ main' = "later"
  /\ UNCHANGED <<scope, publisher, queue, open, disp, hand, step, store>>

\* queue.join() returns.
DrainReturns ==
  /\ main = "draining"
  /\ open = 0
  /\ main' = "later"
  /\ UNCHANGED <<scope, publisher, queue, open, disp, hand, step, store>>

\* The process ends, in whatever state.
Stop ==
  /\ main # "down"
  /\ main' = "down" /\ disp' = "off"
  /\ publisher' = {} /\ queue' = <<>> /\ open' = 0 /\ hand' = {} /\ step' = 1
  /\ UNCHANGED <<scope, store>>

-----------------------------------------------------------------------------
(* _dispatch_loop, lines 38-61.  An awaited operation succeeds, or raises: *)
(* before its commit, or after it (`landed`), when closing the connection  *)
(* or reading the node back fails (db.py 250-260, sqlite_storage.py 71).   *)

main_side == <<main, scope, publisher>>

\* Line 40.
Take(e) ==
  /\ disp = "idle" /\ queue # <<>> /\ e = Head(queue)
  /\ queue' = Tail(queue)
  /\ hand' = {e}
  /\ disp' = "mark"
  /\ UNCHANGED <<main_side, open, step, store>>

\* A plausible bug, used as a mutant: the evidence is not written first.
MarkThenWrite(e) ==
  /\ disp = "mark" /\ e \in hand
  /\ MarkProcessing(e)
  /\ disp' \in {"write", "fail"}
  /\ UNCHANGED <<main_side, queue, open, hand, step, evidence, inventory>>

\* Line 43.
Mark(e) ==
  /\ disp = "mark" /\ e \in hand
  /\ MarkProcessing(e)
  /\ disp' \in {"evidence", "fail"}
  /\ UNCHANGED <<main_side, queue, open, hand, step, evidence, inventory>>

\* Line 45: the handler's first await.
HandleEvidence(e) ==
  /\ disp = "evidence" /\ e \in hand
  /\ AppendEvidence(e)
  /\ disp' \in {"write", "fail"}
  /\ UNCHANGED <<main_side, queue, open, hand, step, log>>

\* Line 45: the handler's further awaits ...
HandleWrite(e) ==
  /\ disp = "write" /\ e \in hand
  /\ step <= Len(Writes(e, scope))
  /\ Save(e, Writes(e, scope)[step])
  /\ step' = step + 1
  /\ disp' \in {"write", "fail"}
  /\ UNCHANGED <<main_side, queue, open, hand, log>>

\* ... and its return.
HandleReturns(e) ==
  /\ disp = "write" /\ e \in hand
  /\ step > Len(Writes(e, scope))
  /\ disp' = "complete"
  /\ UNCHANGED <<main_side, queue, open, hand, step, store>>

\* The awaited operation raises and has changed nothing, or the handler
\* raises between two of its awaits.
Raise ==
  /\ disp \in {"mark", "evidence", "write", "complete"}
  /\ disp' = "fail"
  /\ UNCHANGED <<main_side, queue, open, hand, step, store>>

(* Plausible bugs of Settle, used as mutants: task_done() outside the      *)
(* finally clause, and twice on the way of an exception.                   *)
SettleOnSuccess(next) ==
  /\ hand' = {} /\ step' = 1
  /\ open' = IF disp = "fail" THEN open ELSE open - 1
  /\ disp' = next

SettleTwice(next) ==
  /\ hand' = {} /\ step' = 1
  /\ open' = IF disp = "fail" THEN open - 2 ELSE open - 1
  /\ disp' = next

\* Lines 60-61: task_done(), and the loop continues or the task ends.
Settle(next) ==
  /\ hand' = {} /\ step' = 1
  /\ open' = open - 1
  /\ disp' = next

\* Lines 46-47.
Complete(e) ==
  /\ disp = "complete" /\ e \in hand
  /\ MarkCompleted(e)
  /\ \/ Settle("idle")
     \/ disp' = "fail" /\ UNCHANGED <<open, hand, step>>
  /\ UNCHANGED <<main_side, queue, evidence, inventory>>

\* Lines 50-57.  An exception inside the except clause ends the task.
Fail(e) ==
  /\ disp = "fail" /\ e \in hand
  /\ \/ MarkFailed(e) /\ Settle("idle")
     \/ MarkFailed(e) /\ Settle("dead")
     \/ UNCHANGED log /\ Settle("dead")
  /\ UNCHANGED <<main_side, queue, evidence, inventory>>

-----------------------------------------------------------------------------
Handle(e) ==
  \/ Mark(e) \/ HandleEvidence(e) \/ HandleWrite(e) \/ HandleReturns(e)
  \/ Complete(e) \/ Fail(e)

Next ==
  \/ \E s \in Scopes, corrupt \in SUBSET Events : Start(s, corrupt)
  \/ StageEnds \/ Drain \/ DrainReturns \/ Stop \/ Raise
  \/ \E e \in Events : Record(e) \/ Put(e) \/ Take(e) \/ Handle(e)

(***************************************************************************)
(* The event loop resumes every coroutine whose await is over: the         *)
(* dispatcher, publish() once its record is stored, join() at zero.        *)
(* Stages need not end, and nothing makes the operator start a run.        *)
(***************************************************************************)
Fairness ==
  /\ WF_vars(DrainReturns)
  /\ WF_vars(\E e \in Events : Put(e))
  /\ WF_vars(Raise \/ \E e \in Events : Take(e) \/ Handle(e))

Spec == Init /\ [][Next]_vars
FairSpec == Spec /\ Fairness
-----------------------------------------------------------------------------
TypeOK ==
  /\ LogTypeOK /\ InventoryTypeOK
  /\ main \in Main /\ disp \in Disp /\ scope \in Scopes
  /\ publisher \subseteq Events /\ hand \subseteq Events
  /\ queue \in Seq(Events) /\ open \in Nat /\ step \in Nat \ {0}

(***************************************************************************)
(* No event is in two places at once, and join()'s counter is what is      *)
(* queued or in hand, also after handlers and log updates have raised: the *)
(* counter reaches zero when and only when the work is done (lines 28, 34, *)
(* 40 and 60-61).                                                          *)
(***************************************************************************)
Accounted ==
  /\ open = Len(queue) + Cardinality(hand)
  /\ Cardinality(hand) = (IF Busy THEN 1 ELSE 0)
  /\ \A i, j \in DOMAIN queue : queue[i] = queue[j] => i = j
  /\ Range(queue) \cap (hand \cup publisher) = {} /\ hand \cap publisher = {}

(***************************************************************************)
(* No event is forgotten: during a run every PENDING row is being          *)
(* published, queued or in hand, and a PROCESSING row is queued (recovered *)
(* from an earlier run) or in hand -- unless the dispatcher has died.      *)
(***************************************************************************)
NothingForgotten ==
  main # "down" /\ disp # "dead" => \A e \in Events :
    /\ status[e] = "PENDING" => e \in Range(queue) \cup hand \cup publisher
    /\ status[e] = "PROCESSING" => e \in Range(queue) \cup hand

(***************************************************************************)
(* A failing event is retried a bounded number of times, over however many *)
(* runs: FAILED rows have attempts left, and a row that has none left is   *)
(* a dead letter (event_log.py 129-130).                                   *)
(***************************************************************************)
RetriesBounded ==
  \A e \in Events :
    /\ attempts[e] <= MaxAttempts
    /\ status[e] = "FAILED" => attempts[e] \in 1 .. MaxAttempts - 1
    /\ attempts[e] = MaxAttempts => status[e] = "DEAD_LETTER"

(***************************************************************************)
(* Evidence first: whatever the order in which runs are cut short, every   *)
(* node, edge, refusal and ownership row is backed by the stored evidence  *)
(* of an event that reported it (handlers.py 709-718 before 724).          *)
(***************************************************************************)
EvidenceFirst ==
  /\ \A c \in edges : \E e \in evidence : c \in ClaimSet(e)
  /\ \A a \in nodes : \E e \in evidence : a \in Reported(e)
  /\ refusals \subseteq evidence
  /\ \A o \in owned : o[1] \in evidence

(***************************************************************************)
(* The tables declare no foreign keys; that no edge dangles and no run     *)
(* owns an edge that was never stored is up to the order of the handlers'  *)
(* commits, at every point where they can stop.                            *)
(***************************************************************************)
GraphClosed ==
  /\ \A c \in edges : {c[1], c[2]} \subseteq nodes
  /\ \A o \in owned : o[2] \in edges

(***************************************************************************)
(* Once a run has drained the bus, no handler of an earlier discovery is   *)
(* still to run (scheduler.py 400-402), unless the dispatcher died on the  *)
(* last event: what a later stage reads of the inventory cannot change     *)
(* under it.  It may lack the rest of an event whose handler failed.       *)
(***************************************************************************)
StageBarrier ==
  main = "later" => \/ \A e \in Events : status[e] \notin {"PENDING", "PROCESSING"}
                    \/ disp = "dead"

\* What a step may add to the graph.
AllowedAdditions ==
  /\ nodes' \ nodes \subseteq Allows[scope] \cup Technologies
  /\ \A c \in edges' \ edges : {c[1], c[2]} \subseteq Allows[scope] \cup Technologies

(***************************************************************************)
(* Gate 2 under the handling run: a destination or an edge enters the      *)
(* graph only if the scope of the run that handles the event allows it,    *)
(* whichever run, with whichever scope, published it (handlers.py 89-97).  *)
(***************************************************************************)
ScopeGate == [][AllowedAdditions]_vars

\* What completing an event presupposes.
Earned(e) ==
  /\ e \in evidence
  /\ \A c \in ClaimSet(e) :
       {c[1], c[2]} \subseteq Allows[scope] \cup Technologies
         => c \in edges /\ <<e, c>> \in owned
  /\ Shape[e] = "history" => <<e, Claims[e][1]>> \in owned \/ e \in refusals

EarnedCompletions ==
  \A e \in Events : status[e] # "COMPLETED" /\ status'[e] = "COMPLETED" => Earned(e)

(***************************************************************************)
(* COMPLETED is earned: the evidence is stored, and every claim the scope  *)
(* allows is in the graph and owned (bus.py 45-47).                        *)
(***************************************************************************)
CompletedIsEarned == [][EarnedCompletions]_vars

\* What may become of a row that is settled.
SettledRows ==
  \A e \in Events :
    /\ status[e] = "DEAD_LETTER" => status'[e] = "DEAD_LETTER"
    /\ status[e] = "COMPLETED" =>
         \/ status'[e] = "COMPLETED"
         \/ disp = "fail" /\ e \in hand /\ status'[e] \in {"FAILED", "DEAD_LETTER"}

(***************************************************************************)
(* A dead letter is never delivered again, and a completed event only if   *)
(* mark_completed raised after its commit (bus.py 50).                     *)
(***************************************************************************)
SettledStays == [][SettledRows]_vars

(***************************************************************************)
(* The bus implements the promise of DurableDelivery: the log's status is  *)
(* each discovery's fate, the stored evidence what has been observed.      *)
(***************************************************************************)
FateOf(s) == CASE s = "ABSENT" -> "unknown"
               [] s \in Unfinished -> "owed"
               [] s = "COMPLETED" -> "kept"
               [] s = "DEAD_LETTER" -> "given up"

Promise == INSTANCE DurableDelivery WITH
             fate <- [e \in Events |-> FateOf(status[e])],
             tries <- attempts,
             observed <- evidence

DeliversDurably == Promise!DSpec

(***************************************************************************)
(* Seen from the scan's coroutine the bus is RunBus, on which the          *)
(* scheduler and the runner are modelled: whatever raises in the           *)
(* dispatcher, its counter and its life change only as stated there.       *)
(***************************************************************************)
Seen == INSTANCE RunBus WITH
          backlog <- open,
          disp <- IF disp \in {"off", "dead"} THEN disp ELSE "running"

SeenByTheRun == Seen!BusSpec

(***************************************************************************)
(* drain() returns, whatever the handlers do and however often they raise, *)
(* unless the dispatcher has died or the process ends.                     *)
(***************************************************************************)
DrainEnds == main = "draining" ~> main # "draining" \/ disp = "dead"
=============================================================================
