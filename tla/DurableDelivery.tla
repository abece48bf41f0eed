--------------------------- MODULE DurableDelivery ---------------------------
(***************************************************************************)
(* What the durable bus promises of a discovery, over any number of runs   *)
(* and however they end (architecture_overview.md 61): once accepted it    *)
(* stays owed until it is kept, which takes stored evidence, or given up,  *)
(* which takes MaxAttempts failures or a record that no longer decodes.    *)
(* Delivery is at least once: a kept discovery may become owed again if    *)
(* keeping it reports a failure.                                           *)
(***************************************************************************)
EXTENDS Integers, FiniteSets

CONSTANTS Events, MaxAttempts

VARIABLES
  fate,       (* of each discovery                                         *)
  tries,      (* failures so far                                           *)
  observed    (* discoveries with stored evidence                          *)

dvars == <<fate, tries, observed>>

Fate == {"unknown", "owed", "kept", "given up"}

DInit ==
  /\ fate = [e \in Events |-> "unknown"]
  /\ tries = [e \in Events |-> 0]
  /\ observed = {}

Accept(e) ==
  /\ fate[e] = "unknown"
  /\ fate' = [fate EXCEPT ![e] = "owed"]
  /\ UNCHANGED <<tries, observed>>

Observe(e) ==
  /\ fate[e] = "owed"
  /\ observed' = observed \cup {e}
  /\ UNCHANGED <<fate, tries>>

Keep(e) ==
  /\ fate[e] = "owed" /\ e \in observed
  /\ fate' = [fate EXCEPT ![e] = "kept"]
  /\ UNCHANGED <<tries, observed>>

Disappoint(e) ==
  /\ fate[e] \in {"owed", "kept"}
  /\ tries' = [tries EXCEPT ![e] = @ + 1]
  /\ fate' = [fate EXCEPT ![e] =
                IF tries[e] + 1 >= MaxAttempts THEN "given up" ELSE "owed"]
  /\ UNCHANGED observed

\* Several records turn out to be unreadable at once.
Condemn(S) ==
  /\ \A e \in S : fate[e] = "owed"
  /\ fate' = [e \in Events |-> IF e \in S THEN "given up" ELSE fate[e]]
  /\ tries' = [e \in Events |-> IF e \in S THEN tries[e] + 1 ELSE tries[e]]
  /\ UNCHANGED observed

DNext ==
  \/ \E S \in SUBSET Events : Condemn(S)
  \/ \E e \in Events : Accept(e) \/ Observe(e) \/ Keep(e) \/ Disappoint(e)

DSpec == DInit /\ [][DNext]_dvars
=============================================================================
