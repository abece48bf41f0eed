----------------------------- MODULE StageOrder -----------------------------
(***************************************************************************)
(* Scheduler._ordered_plugins (scheduler.py 71-100): the order in which    *)
(* the listed plugins run.                                                 *)
(***************************************************************************)
EXTENDS Naturals, Sequences, Functions

\* A plausible bug of AppendReady, used as a mutant: the dependencies only
\* have to exist.
AppendReadyAny(done, p, deps) ==
  IF p \notin Range(done) /\ deps[p] \subseteq DOMAIN deps THEN Append(done, p) ELSE done

\* Lines 80-87: p is taken if everything it depends on has been.
AppendReady(done, p, deps) ==
  IF p \notin Range(done) /\ deps[p] \subseteq Range(done) THEN Append(done, p) ELSE done

\* Lines 77-87: one pass over what remains, which keeps the list's order.
OnePass(done, list, deps) ==
  LET taken[i \in 0 .. Len(list)] ==
        IF i = 0 THEN done ELSE AppendReady(taken[i - 1], list[i], deps)
  IN  taken[Len(list)]

\* Lines 76-98: passes while plugins remain, until one takes nothing.  Each
\* that takes something takes a plugin, so as many passes as plugins do.
Ordered(list, deps) ==
  LET after[n \in 0 .. Len(list)] ==
        IF n = 0 THEN <<>>
        ELSE LET done == after[n - 1] IN
             IF Len(done) = Len(list) THEN done ELSE OnePass(done, list, deps)
  IN  after[Len(list)]

\* Sequences of all the listed plugins.
Orders(list) == {q \in [DOMAIN list -> Range(list)] : Range(q) = Range(list)}

\* Lines 89-98: RuntimeError, plugins remain and none is ready.
Unorderable(list, deps) == Ordered(list, deps) \notin Orders(list)
=============================================================================
