---------------------------- MODULE ScanRunProofs ----------------------------
(***************************************************************************)
(* The safety of a run for any plugins, dependencies, retries and number   *)
(* of discoveries, wherever Ctrl+C or a failing storage strikes.           *)
(***************************************************************************)
EXTENDS ScanRun, ListProofs, SequenceTheorems

\* The parts of TypeOK.
Places ==
  /\ at \in SchedulerAt \cup RunnerAt
  /\ error \in {"none", "ctrl_c", "storage", "adapter", "order"}
  /\ row \in {"none", "RUNNING", "COMPLETED", "INTERRUPTED"}
  /\ outcome \in {"completed", "interrupted"}
  /\ requests \in {"none", "completed", "interrupted"}
  /\ scheduling \in BOOLEAN
  /\ pressed \in {"never"} \cup SchedulerAt \cup RunnerAt
  /\ allowed \in BOOLEAN
  /\ disp \in {"off", "running", "dead", "stopped"}

Counts == attempt \in 0 .. MaxRetries + 1 /\ left \in Nat /\ backlog \in Nat

Sequences == todo \in Seq(Stages) /\ ran \in Seq(Ending)

Statuses ==
  /\ deps \in DepChoices
  /\ outcomes \in [Stages -> Outcome \cup {"none"}]
  /\ stageRows \in [Stages -> Outcome \cup {"absent"}]
  /\ timed \subseteq Stages

LEMMA TypeParts == TypeOK <=> Places /\ Counts /\ Sequences /\ Statuses
BY DEF TypeOK, SchedulerTypeOK, Places, Counts, Sequences, Statuses

LEMMA TypeFromParts == Places' /\ Counts' /\ Sequences' /\ Statuses' => TypeOK'
BY DEF TypeOK, SchedulerTypeOK, Places, Counts, Sequences, Statuses

LEMMA SameStatuses ==
  ASSUME TypeOK, UNCHANGED <<deps, outcomes, stageRows, timed>>
  PROVE  Statuses'
<1>1. Statuses
  BY TypeParts
<1> HIDE DEF Statuses
<1>2. deps' = deps /\ outcomes' = outcomes /\ stageRows' = stageRows /\ timed' = timed
  OBVIOUS
<1> QED BY <1>1 DEF Statuses

\* The status of one stage is recorded.
LEMMA NewStatus ==
  ASSUME TypeOK, NEW s \in Stages, NEW status \in Outcome,
         outcomes' = [outcomes EXCEPT ![s] = status],
         timed' \in {timed, timed \cup {s}},
         UNCHANGED <<deps, stageRows>>
  PROVE  Statuses'
<1>1. /\ deps \in DepChoices /\ timed \subseteq Stages
      /\ outcomes \in [Stages -> Outcome \cup {"none"}]
      /\ stageRows \in [Stages -> Outcome \cup {"absent"}]
  BY DEF TypeOK, SchedulerTypeOK
<1> HIDE DEF Outcome, Stages
<1>2. outcomes' \in [Stages -> Outcome \cup {"none"}]
  BY <1>1
<1>3. timed' \subseteq Stages
  BY <1>1
<1> QED BY <1>1 DEF Statuses

\* The current stage and its attempts.
Attempts ==
  /\ InStage => todo # <<>> /\ \A i \in 1 .. Len(ran) - 1 : MayPass(ran[i])
  /\ at = "executing" => /\ attempt >= 1 /\ Len(ran) = attempt - 1
                         /\ \A i \in DOMAIN ran : MayPass(ran[i])
  /\ at = "backoff" => /\ 1 <= attempt /\ attempt <= MaxRetries /\ Len(ran) = attempt
                       /\ \A i \in DOMAIN ran : MayPass(ran[i])
  /\ at \in {"publishing", "draining"} =>
       /\ Len(ran) = attempt
       /\ outcomes[Current] \notin {"none", "interrupted"}
       /\ outcomes[Current] \in {"retry_exhausted", "timeout_exhausted"} => attempt = MaxRetries + 1

InTodo == {todo[i] : i \in DOMAIN todo}

\* Every stage is to come or has its duration; nothing is left unpublished.
Lists ==
  /\ at \in {"preflight", "executing", "backoff", "publishing", "draining"} =>
       allowed /\ Stages \subseteq timed \cup InTodo
  /\ at = "returned" /\ allowed => Stages \subseteq timed
  /\ at \in {"new", "opened", "building", "gate", "preflight", "executing",
              "backoff", "draining", "returned"} => left = 0

\* Which exception is on its way, and that every stage with a duration has a
\* status, that of a stage that ended if there is none.
Errors ==
  /\ \A s \in timed : outcomes[s] # "none" /\ (error = "none" => outcomes[s] # "interrupted")
  /\ at \in (SchedulerAt \ {"threw"}) \cup {"new", "opened", "building"} =>
       error = "none" /\ outcome = "completed"
  /\ at = "threw" => error # "none"
  /\ at \in {"shutdown", "requests", "stages", "tools"} => (outcome = "completed" <=> error = "none")
  /\ at \in {"summary", "done"} => error = "none" /\ outcome = "completed"

Reached == left = 0 /\ backlog = 0 /\ scheduling /\ (allowed => Stages \subseteq timed)

Listing ==
  scheduling => \A s \in Stages :
    stageRows[s] = IF s \in timed THEN outcomes[s] ELSE "absent"

\* What the finally clause has done so far.
Closing ==
  /\ at \in SchedulerAt \ {"threw"} => scheduling
  /\ at \in {"shutdown", "requests", "stages", "tools", "summary", "done"} /\ error = "none" => Reached
  /\ at \in {"requests", "stages", "tools", "summary", "done"} => disp = "stopped"
  /\ at \in {"stages", "tools", "summary", "done"} => requests = outcome
  /\ at \in {"tools", "summary", "done"} => Listing
  /\ at \notin {"summary", "done", "raised"} => row \in {"none", "RUNNING"}
  /\ at \in {"summary", "done"} => row = "COMPLETED"

Inv == TypeOK /\ Attempts /\ Lists /\ Errors /\ Closing /\ CompletedIsSettled /\ ClosedIsReported

-----------------------------------------------------------------------------
LEMMA InitInv == Init => Inv
<1> SUFFICES ASSUME Init PROVE Inv
  OBVIOUS
<1> USE DEF Init, SchedulerInit, Bus!BusInit
<1>1. TypeOK
  <2>1. attempt \in 0 .. MaxRetries + 1 /\ left \in Nat /\ backlog \in Nat
    BY SchedulerAssumption
  <2>2. todo \in Seq(Stages) /\ ran \in Seq(Ending)
    OBVIOUS
  <2>3. /\ outcomes \in [Stages -> Outcome \cup {"none"}]
        /\ stageRows \in [Stages -> Outcome \cup {"absent"}]
    OBVIOUS
  <2>4. SchedulerTypeOK
    BY <2>1, <2>2 DEF SchedulerTypeOK
  <2> QED BY <2>4 DEF TypeOK, RunnerAt
<1>2. Attempts /\ Lists /\ Errors /\ Closing
  BY DEF Attempts, InStage, Lists, Errors, Closing, SchedulerAt
<1>3. CompletedIsSettled /\ ClosedIsReported
  BY DEF CompletedIsSettled, ClosedIsReported
<1> QED BY <1>1, <1>2, <1>3 DEF Inv

-----------------------------------------------------------------------------
\* What a stage's leaving the list does to it.
LEMMA Leaving ==
  ASSUME NEW S, NEW q \in Seq(S), q # <<>>
  PROVE  /\ Head(q) \in S /\ Tail(q) \in Seq(S)
         /\ {q[i] : i \in DOMAIN q} \subseteq
              {Head(q)} \cup {Tail(q)[i] : i \in DOMAIN Tail(q)}
<1>1. Head(q) \in S /\ Tail(q) \in Seq(S)
  BY HeadTailProperties
<1>2. ASSUME NEW i \in DOMAIN q, i # 1
      PROVE  i - 1 \in DOMAIN Tail(q) /\ Tail(q)[i - 1] = q[i]
  BY <1>2
<1>3. q[1] = Head(q)
  OBVIOUS
<1> QED BY <1>1, <1>2, <1>3, ZenonT(30)

LEMMA ListedStage ==
  ASSUME Listing, scheduling, NEW s \in Stages
  PROVE  stageRows[s] = IF s \in timed THEN outcomes[s] ELSE "absent"
BY DEF Listing

\* While a stage is in hand it is one of the run's.
LEMMA CurrentStage ==
  ASSUME Inv, InStage \/ (at = "preflight" /\ todo # <<>>)
  PROVE  todo # <<>> /\ Current \in Stages /\ Tail(todo) \in Seq(Stages)
<1>1. todo # <<>> /\ todo \in Seq(Stages)
  BY DEF Inv, TypeOK, SchedulerTypeOK, Attempts
<1> HIDE DEF Stages
<1> QED BY <1>1 DEF Current

LEMMA CurrentLeaves ==
  ASSUME Inv, InStage \/ (at = "preflight" /\ todo # <<>>), todo' = Tail(todo)
  PROVE  InTodo \subseteq {Current} \cup InTodo'
<1>1. todo # <<>> /\ todo \in Seq(Stages)
  BY DEF Inv, TypeOK, SchedulerTypeOK, Attempts
<1> HIDE DEF Stages
<1> QED BY <1>1, Leaving DEF Current, InTodo

\* What recording an attempt's end does to the record.
LEMMA Appending ==
  ASSUME Inv, NEW how \in Ending, ran' = Append(ran, how)
  PROVE  /\ ran' \in Seq(Ending) /\ Len(ran) \in Nat /\ Len(ran') = Len(ran) + 1
         /\ DOMAIN ran = 1 .. Len(ran) /\ DOMAIN ran' = 1 .. Len(ran) + 1
         /\ \A i \in 1 .. Len(ran) : ran'[i] = ran[i]
         /\ ran'[Len(ran) + 1] = how
<1>1. ran \in Seq(Ending)
  BY DEF Inv, TypeOK, SchedulerTypeOK
<1> HIDE DEF Ending
<1> QED BY <1>1

-----------------------------------------------------------------------------
(* One lemma per action.                                                    *)

LEMMA Gate1Step ==
  ASSUME Inv, NEW ok \in BOOLEAN, Gate1(ok), UNCHANGED <<records, pressed>>
  PROVE  Inv'
<1> USE DEF Gate1
<1>0. todo' \in Seq(Stages) /\ (at' = "preflight" => InTodo' = Stages)
  <2>1. CASE at' = "preflight"
    <3>1. todo' \in Orders(Listed)
      BY <2>1 DEF Throw, Unorderable
    <3>2. /\ todo' \in [DOMAIN Listed -> Stages]
          /\ {todo'[i] : i \in DOMAIN todo'} = Stages
      BY <3>1 DEF Orders, Range, Stages
    <3>3. DOMAIN Listed = 1 .. Len(Listed) /\ Len(Listed) \in Nat
      BY SchedulerAssumption
    <3> HIDE DEF Stages
    <3> QED BY <3>2, <3>3 DEF InTodo
  <2>2. CASE at' # "preflight"
    <3>1. todo' = todo
      BY <2>2
    <3> QED BY <2>2 DEF Inv, TypeOK, SchedulerTypeOK
  <2> QED BY <2>1, <2>2
<1>1. TypeOK'
  <2>1. Places'
    BY TypeParts DEF Inv, Places, SchedulerAt, Throw, bus, records
  <2>2. Counts'
    BY TypeParts DEF Inv, Counts, bus
  <2>3. Sequences'
    BY <1>0, TypeParts DEF Inv, Sequences
  <2>4. Statuses'
    BY SameStatuses DEF Inv, records
  <2> QED BY <2>1, <2>2, <2>3, <2>4, TypeFromParts
<1>2. Attempts'
  BY DEF Attempts, InStage, Throw
<1>3. Lists'
  BY <1>0 DEF Inv, Throw, Lists
<1>4. Errors'
  BY DEF Inv, SchedulerAt, Throw, records, Errors
<1>5. Closing'
  BY DEF Inv, SchedulerAt, Throw, records, Closing
<1>6. CompletedIsSettled'
  BY DEF Inv, records, CompletedIsSettled, Closing
<1>7. ClosedIsReported'
  BY DEF Inv, records, ClosedIsReported
<1> QED BY <1>1, <1>2, <1>3, <1>4, <1>5, <1>6, <1>7 DEF Inv

LEMMA StartStageStep ==
  ASSUME Inv, StartStage, UNCHANGED <<records, pressed>>
  PROVE  Inv'
<1> USE DEF StartStage
<1>1. TypeOK'
  <2>1. Places'
    BY TypeParts DEF Inv, Places, SchedulerAt, bus, records
  <2>2. Counts'
    BY TypeParts, SchedulerAssumption DEF Inv, Counts, bus
  <2>3. Sequences'
    <3>1. todo' \in Seq(Stages) /\ ran' = <<>>
      BY TypeParts DEF Inv, Sequences
    <3> QED BY <3>1 DEF Sequences
  <2>4. Statuses'
    BY SameStatuses DEF Inv, records
  <2> QED BY <2>1, <2>2, <2>3, <2>4, TypeFromParts
<1>2. Attempts'
  BY DEF Attempts
<1>3. Lists'
  BY DEF Inv, Lists, InTodo
<1>4. Errors'
  BY DEF Inv, SchedulerAt, records, Errors
<1>5. Closing'
  BY DEF Inv, SchedulerAt, records, Closing
<1>6. CompletedIsSettled'
  BY DEF Inv, records, CompletedIsSettled, Closing
<1>7. ClosedIsReported'
  BY DEF Inv, records, ClosedIsReported
<1> QED BY <1>1, <1>2, <1>3, <1>4, <1>5, <1>6, <1>7 DEF Inv

LEMMA SkipStep ==
  ASSUME Inv, Skip, UNCHANGED <<records, pressed>>
  PROVE  Inv'
<1> USE DEF Skip
<1>1. TypeOK'
  <2>1. Places'
    BY TypeParts DEF Inv, Places, bus, records
  <2>2. Counts'
    BY TypeParts DEF Inv, Counts, bus
  <2>3. Sequences'
    BY TypeParts DEF Inv, Sequences
  <2>4. Statuses'
    <3>0. InStage \/ (at = "preflight" /\ todo # <<>>)
      OBVIOUS
    <3>1. Current \in Stages
      BY <3>0, CurrentStage
    <3>2. {"skipped", "interrupted"} \subseteq Outcome
      BY DEF Outcome
    <3>3. TypeOK /\ deps' = deps /\ stageRows' = stageRows
      BY DEF Inv, records
    <3> QED BY <3>1, <3>2, <3>3, NewStatus
  <2> QED BY <2>1, <2>2, <2>3, <2>4, TypeFromParts
<1>2. Attempts'
  BY DEF Attempts, InStage
<1>3. Lists'
  <2>1. InTodo \subseteq {Current} \cup InTodo'
    BY CurrentLeaves
  <2> HIDE DEF InTodo
  <2> QED BY <2>1 DEF Inv, Lists
<1>4. Errors'
  BY DEF Inv, TypeOK, SchedulerTypeOK, Current, records, Errors
<1>5. Closing'
  BY DEF Inv, records, Closing
<1>6. CompletedIsSettled'
  BY DEF Inv, records, CompletedIsSettled, Closing
<1>7. ClosedIsReported'
  BY DEF Inv, records, ClosedIsReported, Closing
<1> QED BY <1>1, <1>2, <1>3, <1>4, <1>5, <1>6, <1>7 DEF Inv

LEMMA AllStagesDoneStep ==
  ASSUME Inv, AllStagesDone, UNCHANGED <<records, pressed>>
  PROVE  Inv'
<1> USE DEF AllStagesDone
<1>1. TypeOK'
  <2>1. Places'
    BY TypeParts DEF Inv, Places, SchedulerAt, bus, records
  <2>2. Counts'
    BY TypeParts DEF Inv, Counts, stage, bus
  <2>3. Sequences'
    BY TypeParts DEF Inv, Sequences, stage
  <2>4. Statuses'
    BY SameStatuses DEF Inv, stage, records
  <2> QED BY <2>1, <2>2, <2>3, <2>4, TypeFromParts
<1>2. Attempts'
  BY DEF Attempts, InStage
<1>3. Lists'
  BY DEF Inv, stage, Lists, InTodo
<1>4. Errors'
  BY DEF Inv, SchedulerAt, stage, records, Errors
<1>5. Closing'
  BY DEF Inv, SchedulerAt, records, Closing
<1>6. CompletedIsSettled'
  BY DEF Inv, records, CompletedIsSettled, Closing
<1>7. ClosedIsReported'
  BY DEF Inv, records, ClosedIsReported, Closing
<1> QED BY <1>1, <1>2, <1>3, <1>4, <1>5, <1>6, <1>7 DEF Inv

\* An attempt is the stage's last.
LEMMA RecordStep ==
  ASSUME Inv, NEW how \in Ending,
         NEW status \in Outcome \ {"interrupted"}, NEW n \in Nat,
         status \in {"retry_exhausted", "timeout_exhausted"} => LastAttempt,
         at = "executing", Ended(how), Record(status, n),
         UNCHANGED records, pressed' \in {"never"} \cup SchedulerAt \cup RunnerAt
  PROVE  Inv'
<1> USE DEF Ended, Record
<1>1. TypeOK'
  <2>1. Places'
    BY TypeParts DEF Inv, Places, SchedulerAt, bus, records
  <2>2. Counts'
    BY TypeParts DEF Inv, Counts, bus
  <2>3. Sequences'
    BY TypeParts DEF Inv, Sequences
  <2>4. Statuses'
    <3>0. InStage
      BY DEF InStage
    <3>1. Current \in Stages
      BY <3>0, CurrentStage
    <3>2. status \in Outcome /\ timed' = timed
      OBVIOUS
    <3>3. TypeOK /\ deps' = deps /\ stageRows' = stageRows
      BY DEF Inv, records
    <3> QED BY <3>1, <3>2, <3>3, NewStatus
  <2> QED BY <2>1, <2>2, <2>3, <2>4, TypeFromParts
<1>2. Attempts'
  <2>1. /\ Len(ran) = attempt - 1 /\ attempt \in 0 .. MaxRetries + 1 /\ attempt >= 1
        /\ \A i \in 1 .. Len(ran) : MayPass(ran[i])
        /\ todo # <<>> /\ MaxRetries \in Nat
    BY SchedulerAssumption DEF Inv, Attempts, InStage, TypeOK, SchedulerTypeOK
  <2>3. Len(ran') = attempt' /\ outcomes'[Current] = status /\ Current' = Current
    BY <2>1 DEF Inv, TypeOK, SchedulerTypeOK, Current
  <2>4. status \in {"retry_exhausted", "timeout_exhausted"} => attempt' = MaxRetries + 1
    BY <2>1 DEF LastAttempt
  <2>5. \A i \in 1 .. Len(ran') - 1 : MayPass(ran[i])'
    <3>1. 1 .. Len(ran') - 1 = 1 .. Len(ran)
      BY Appending
    <3>2. ASSUME NEW i \in 1 .. Len(ran') - 1
          PROVE  MayPass(ran[i])'
      <4>1. i \in 1 .. Len(ran)
        BY <3>1
      <4>2. ran'[i] = ran[i] /\ Current' = Current
        BY DEF Current
      <4> QED BY <2>1, <4>1, <4>2, Zenon DEF MayPass
    <3> QED BY <3>2
  <2>6. status \notin {"none", "interrupted"}
    BY DEF Outcome
  <2> QED BY <2>1, <2>3, <2>4, <2>5, <2>6 DEF Attempts
<1>3. Lists'
  BY DEF Inv, Lists, InTodo
<1>4. Errors'
  <2>1. ASSUME NEW s \in timed
        PROVE  outcomes'[s] # "none" /\ (error = "none" => outcomes'[s] # "interrupted")
    <3>1. s \in Stages /\ outcomes \in [Stages -> Outcome \cup {"none"}]
      BY DEF Inv, TypeOK, SchedulerTypeOK
    <3>2. status \notin {"none", "interrupted"}
      BY DEF Outcome
    <3>3. outcomes' = [outcomes EXCEPT ![Current] = status]
      OBVIOUS
    <3>4. outcomes[s] # "none" /\ (error = "none" => outcomes[s] # "interrupted")
      BY DEF Inv, Errors
    <3> HIDE DEF Current, Stages, Outcome
    <3> QED BY <3>1, <3>2, <3>3, <3>4
  <2>2. timed' = timed /\ error' = error /\ at' = "publishing" /\ outcome' = outcome
    BY DEF records
  <2> QED BY <2>1, <2>2 DEF Inv, Errors, SchedulerAt
<1>5. Closing'
  BY DEF Inv, SchedulerAt, records, Closing
<1>6. CompletedIsSettled'
  BY DEF Inv, records, CompletedIsSettled, Closing
<1>7. ClosedIsReported'
  BY DEF Inv, records, ClosedIsReported, Closing
<1> QED BY <1>1, <1>2, <1>3, <1>4, <1>5, <1>6, <1>7 DEF Inv

\* An attempt is followed by another.
LEMMA BackOffStep ==
  ASSUME Inv, NEW how \in Ending, MayPass(how), ~LastAttempt,
         at = "executing", Ended(how), BackOff,
         UNCHANGED records, pressed' \in {"never"} \cup SchedulerAt \cup RunnerAt
  PROVE  Inv'
<1> USE DEF Ended, BackOff
<1>1. TypeOK'
  <2>1. Places'
    BY TypeParts DEF Inv, Places, SchedulerAt, bus, records
  <2>2. Counts'
    BY TypeParts DEF Inv, Counts, bus
  <2>3. Sequences'
    BY TypeParts DEF Inv, Sequences
  <2>4. Statuses'
    BY SameStatuses DEF Inv, records
  <2> QED BY <2>1, <2>2, <2>3, <2>4, TypeFromParts
<1>2. Attempts'
  <2>1. /\ Len(ran) = attempt - 1 /\ attempt \in 0 .. MaxRetries + 1 /\ attempt >= 1
        /\ \A i \in 1 .. Len(ran) : MayPass(ran[i])
        /\ todo # <<>> /\ MaxRetries \in Nat
    BY SchedulerAssumption DEF Inv, Attempts, InStage, TypeOK, SchedulerTypeOK
  <2>2. \A i \in 1 .. Len(ran) + 1 : MayPass(ran[i])'
    <3>1. Current' = Current
      BY DEF Current
    <3>2. ASSUME NEW i \in 1 .. Len(ran) + 1
          PROVE  MayPass(ran[i])'
      <4>1. CASE i \in 1 .. Len(ran)
        <5>1. ran'[i] = ran[i]
          BY <4>1, Appending
        <5> QED BY <2>1, <3>1, <4>1, <5>1, Zenon DEF MayPass
      <4>2. CASE i = Len(ran) + 1
        <5>1. ran'[i] = how
          BY <4>2, Appending
        <5> QED BY <3>1, <5>1, Zenon DEF MayPass
      <4> QED BY <4>1, <4>2, Appending
    <3> QED BY <3>2
  <2>3. Len(ran') = attempt' /\ attempt' <= MaxRetries
    BY <2>1 DEF LastAttempt
  <2> QED BY <2>1, <2>2, <2>3 DEF Attempts
<1>3. Lists'
  BY DEF Inv, Lists, InTodo
<1>4. Errors'
  BY DEF Inv, SchedulerAt, records, Errors
<1>5. Closing'
  BY DEF Inv, SchedulerAt, records, Closing
<1>6. CompletedIsSettled'
  BY DEF Inv, records, CompletedIsSettled, Closing
<1>7. ClosedIsReported'
  BY DEF Inv, records, ClosedIsReported
<1> QED BY <1>1, <1>2, <1>3, <1>4, <1>5, <1>6, <1>7 DEF Inv

\* The five ways an attempt ends.
LEMMA AttemptStep ==
  ASSUME Inv, UNCHANGED records, pressed' \in {"never"} \cup SchedulerAt \cup RunnerAt,
         \/ \E n \in 0 .. MaxFound : Returns(n)
         \/ \E n \in 1 .. MaxFound : ReturnsTransient(n) \/ ReturnsCut(n)
         \/ TimesOut \/ Raises
  PROVE  Inv'
<1>1. MaxFound \in Nat /\ 0 .. MaxFound \subseteq Nat /\ 1 .. MaxFound \subseteq Nat
  BY SchedulerAssumption
<1> USE DEF Outcome, Ending
<1>2. CASE Raises
  BY <1>2, RecordStep, Zenon DEF Raises
<1>3. CASE TimesOut
  BY <1>3, RecordStep, BackOffStep, Zenon DEF TimesOut, MayPass
<1>4. ASSUME NEW n \in 0 .. MaxFound, Returns(n) PROVE Inv'
  BY <1>1, <1>4, RecordStep, Zenon DEF Returns
<1>5. ASSUME NEW n \in 1 .. MaxFound, ReturnsTransient(n) PROVE Inv'
  <2>1. CASE LastAttempt /\ Record("retry_exhausted", n)
    BY <1>1, <1>5, <2>1, RecordStep, Zenon DEF ReturnsTransient
  <2>2. CASE ~LastAttempt /\ BackOff
    <3>1. MayPass("transient")
      BY DEF MayPass
    <3> QED BY <1>5, <2>2, <3>1, BackOffStep, Zenon DEF ReturnsTransient
  <2> QED BY <1>5, <2>1, <2>2 DEF ReturnsTransient
<1>6. ASSUME NEW n \in 1 .. MaxFound, ReturnsCut(n) PROVE Inv'
  <2>0. CASE Ended("cut") /\ Record(IF OnCancel[Current] = "told" THEN "truncated" ELSE "completed", n)
    BY <1>1, <1>6, <2>0, RecordStep, Zenon DEF ReturnsCut
  <2>1. CASE Ended("cut, transient") /\ LastAttempt /\ Record("retry_exhausted", n)
    BY <1>1, <1>6, <2>1, RecordStep, Zenon DEF ReturnsCut
  <2>2. CASE Ended("cut, transient") /\ ~LastAttempt /\ BackOff
    <3>1. MayPass("cut, transient")
      BY DEF MayPass
    <3> QED BY <1>6, <2>2, <3>1, BackOffStep, Zenon DEF ReturnsCut
  <2> QED BY <1>6, <2>1, <2>2, <2>0, Zenon DEF ReturnsCut
<1> QED BY <1>2, <1>3, <1>4, <1>5, <1>6

LEMMA RetryStep ==
  ASSUME Inv, Retry, UNCHANGED <<records, pressed>>
  PROVE  Inv'
<1> USE DEF Retry
<1>1. TypeOK'
  <2>1. Places'
    BY TypeParts DEF Inv, Places, SchedulerAt, bus, records
  <2>2. Counts'
    <3>1. attempt \in Nat /\ attempt <= MaxRetries
      BY DEF Inv, Attempts
    <3> QED BY <3>1, SchedulerAssumption, TypeParts DEF Inv, Counts, bus
  <2>3. Sequences'
    BY TypeParts DEF Inv, Sequences
  <2>4. Statuses'
    BY SameStatuses DEF Inv, records
  <2> QED BY <2>1, <2>2, <2>3, <2>4, TypeFromParts
<1>2. Attempts'
  <2>1. todo # <<>> /\ 1 <= attempt /\ attempt \in Nat /\ Len(ran) = attempt
    BY DEF Inv, Attempts, InStage
  <2>2. \A i \in DOMAIN ran : MayPass(ran[i])
    BY DEF Inv, Attempts
  <2>3. DOMAIN ran = 1 .. Len(ran)
    OBVIOUS
  <2>4. attempt' = attempt + 1 /\ ran' = ran /\ todo' = todo
    OBVIOUS
  <2>5. \A i \in DOMAIN ran' : MayPass(ran[i])'
    BY <2>2, Zenon DEF MayPass, Current
  <2> QED BY <2>1, <2>5 DEF Attempts
<1>3. Lists'
  BY DEF Inv, Lists, InTodo
<1>4. Errors'
  BY DEF Inv, SchedulerAt, records, Errors
<1>5. Closing'
  BY DEF Inv, SchedulerAt, records, Closing
<1>6. CompletedIsSettled'
  BY DEF Inv, records, CompletedIsSettled, Closing
<1>7. ClosedIsReported'
  BY DEF Inv, records, ClosedIsReported
<1> QED BY <1>1, <1>2, <1>3, <1>4, <1>5, <1>6, <1>7 DEF Inv

LEMMA StageInterruptedStep ==
  ASSUME Inv, StageInterrupted, UNCHANGED records, pressed' \in {"never"} \cup SchedulerAt \cup RunnerAt
  PROVE  Inv'
<1> USE DEF StageInterrupted
<1>1. TypeOK'
  <2>1. Places'
    BY TypeParts DEF Inv, Places, SchedulerAt, Throw, bus, records
  <2>2. Counts'
    BY TypeParts DEF Inv, Counts, bus
  <2>3. Sequences'
    BY TypeParts DEF Inv, Sequences
  <2>4. Statuses'
    <3>0. InStage \/ (at = "preflight" /\ todo # <<>>)
      BY DEF InStage
    <3>1. Current \in Stages
      BY <3>0, CurrentStage
    <3>2. {"skipped", "interrupted"} \subseteq Outcome
      BY DEF Outcome
    <3>3. TypeOK /\ deps' = deps /\ stageRows' = stageRows
      BY DEF Inv, records
    <3> QED BY <3>1, <3>2, <3>3, NewStatus
  <2> QED BY <2>1, <2>2, <2>3, <2>4, TypeFromParts
<1>2. Attempts'
  BY DEF Attempts, InStage, Throw
<1>3. Lists'
  BY DEF Throw, Lists
<1>4. Errors'
  <2>1. /\ Current \in Stages /\ timed \subseteq Stages
        /\ outcomes \in [Stages -> Outcome \cup {"none"}]
        /\ \A s \in timed : outcomes[s] # "none"
    <3>1. InStage
      BY DEF InStage
    <3> QED BY <3>1, CurrentStage DEF Inv, TypeOK, SchedulerTypeOK, Errors
  <2>2. \A s \in timed' : outcomes'[s] # "none"
    <3> HIDE DEF Current, Stages, Outcome
    <3> QED BY <2>1
  <2>3. error' = "ctrl_c" /\ at' = "threw" /\ outcome' = outcome
    BY DEF Throw, records
  <2> QED BY <2>2, <2>3 DEF Errors
<1>5. Closing'
  BY DEF Inv, Throw, records, Closing
<1>6. CompletedIsSettled'
  BY DEF Inv, records, CompletedIsSettled, Closing
<1>7. ClosedIsReported'
  BY DEF Inv, records, ClosedIsReported, Closing
<1> QED BY <1>1, <1>2, <1>3, <1>4, <1>5, <1>6, <1>7 DEF Inv

LEMMA PublishStep ==
  ASSUME Inv, Publish, UNCHANGED <<records, pressed>>
  PROVE  Inv'
<1> USE DEF Publish, Bus!Accept
<1>1. TypeOK'
  <2>1. Places'
    BY TypeParts DEF Inv, Places, records
  <2>2. Counts'
    BY TypeParts DEF Inv, Counts
  <2>3. Sequences'
    BY TypeParts DEF Inv, Sequences
  <2>4. Statuses'
    BY SameStatuses DEF Inv, records
  <2> QED BY <2>1, <2>2, <2>3, <2>4, TypeFromParts
<1>2. Attempts'
  BY Zenon DEF Inv, Attempts, InStage, MayPass, Current
<1>3. Lists'
  BY DEF Inv, Lists, InTodo
<1>4. Errors'
  BY DEF Inv, records, Errors
<1>5. Closing'
  BY DEF Inv, records, Closing
<1>6. CompletedIsSettled'
  BY DEF Inv, records, CompletedIsSettled
<1>7. ClosedIsReported'
  BY DEF Inv, records, ClosedIsReported
<1> QED BY <1>1, <1>2, <1>3, <1>4, <1>5, <1>6, <1>7 DEF Inv

LEMMA PublishFailsStep ==
  ASSUME Inv, PublishFails, UNCHANGED <<records, pressed>>
  PROVE  Inv'
<1> USE DEF PublishFails
<1>1. TypeOK'
  <2>1. Places'
    BY TypeParts DEF Inv, Places, SchedulerAt, Throw, bus, records
  <2>2. Counts'
    BY TypeParts DEF Inv, Counts, stage, bus
  <2>3. Sequences'
    BY TypeParts DEF Inv, Sequences, stage
  <2>4. Statuses'
    BY SameStatuses DEF Inv, stage, records
  <2> QED BY <2>1, <2>2, <2>3, <2>4, TypeFromParts
<1>2. Attempts'
  BY DEF Attempts, InStage, Throw
<1>3. Lists'
  BY DEF Throw, Lists
<1>4. Errors'
  BY DEF Inv, Throw, stage, Errors
<1>5. Closing'
  BY DEF Inv, Throw, records, Closing
<1>6. CompletedIsSettled'
  BY DEF Inv, records, CompletedIsSettled
<1>7. ClosedIsReported'
  BY DEF Inv, records, ClosedIsReported, Closing
<1> QED BY <1>1, <1>2, <1>3, <1>4, <1>5, <1>6, <1>7 DEF Inv

LEMMA DrainStep ==
  ASSUME Inv, Drain, UNCHANGED <<records, pressed>>
  PROVE  Inv'
<1> USE DEF Drain
<1>1. TypeOK'
  <2>1. Places'
    BY TypeParts DEF Inv, Places, SchedulerAt, bus, records
  <2>2. Counts'
    BY TypeParts DEF Inv, Counts, stage, bus
  <2>3. Sequences'
    BY TypeParts DEF Inv, Sequences, stage
  <2>4. Statuses'
    BY SameStatuses DEF Inv, stage, records
  <2> QED BY <2>1, <2>2, <2>3, <2>4, TypeFromParts
<1>2. Attempts'
  BY Zenon DEF Inv, Attempts, InStage, MayPass, Current, stage
<1>3. Lists'
  BY DEF Inv, stage, Lists, InTodo
<1>4. Errors'
  BY DEF Inv, SchedulerAt, stage, records, Errors
<1>5. Closing'
  BY DEF Inv, SchedulerAt, records, Closing
<1>6. CompletedIsSettled'
  BY DEF Inv, records, CompletedIsSettled, Closing
<1>7. ClosedIsReported'
  BY DEF Inv, records, ClosedIsReported, Closing
<1> QED BY <1>1, <1>2, <1>3, <1>4, <1>5, <1>6, <1>7 DEF Inv

LEMMA StageEndsStep ==
  ASSUME Inv, StageEnds, UNCHANGED <<records, pressed>>
  PROVE  Inv'
<1> USE DEF StageEnds
<1>0. Current \in Stages /\ Tail(todo) \in Seq(Stages)
  <2>1. InStage
    BY DEF InStage
  <2> QED BY <2>1, CurrentStage
<1>1. TypeOK'
  <2>1. Places'
    BY TypeParts DEF Inv, Places, SchedulerAt, bus, records
  <2>2. Counts'
    BY TypeParts DEF Inv, Counts, bus
  <2>3. Sequences'
    BY <1>0, TypeParts DEF Inv, Sequences
  <2>4. Statuses'
    <3>1. /\ deps' = deps /\ outcomes' = outcomes /\ stageRows' = stageRows
          /\ timed' \subseteq Stages
      BY <1>0, TypeParts DEF Inv, Statuses, records
    <3> QED BY <3>1, TypeParts DEF Inv, Statuses
  <2> QED BY <2>1, <2>2, <2>3, <2>4, TypeFromParts
<1>2. Attempts'
  BY DEF Attempts, InStage
<1>3. Lists'
  <2>1. InTodo \subseteq {Current} \cup InTodo'
    BY CurrentLeaves DEF InStage
  <2> HIDE DEF InTodo
  <2> QED BY <2>1 DEF Inv, Lists
<1>4. Errors'
  <2>1. outcomes[Current] \notin {"none", "interrupted"}
    BY DEF Inv, Attempts
  <2> HIDE DEF Current
  <2> QED BY <2>1 DEF Inv, SchedulerAt, records, Errors
<1>5. Closing'
  BY DEF Inv, SchedulerAt, records, Closing
<1>6. CompletedIsSettled'
  BY DEF Inv, records, CompletedIsSettled, Closing
<1>7. ClosedIsReported'
  BY DEF Inv, records, ClosedIsReported, Closing
<1> QED BY <1>1, <1>2, <1>3, <1>4, <1>5, <1>6, <1>7 DEF Inv

LEMMA BusInterruptedStep ==
  ASSUME Inv, BusInterrupted, UNCHANGED records, pressed' \in {"never"} \cup SchedulerAt \cup RunnerAt
  PROVE  Inv'
<1> USE DEF BusInterrupted
<1>1. TypeOK'
  <2>1. Places'
    BY TypeParts DEF Inv, Places, SchedulerAt, Throw, bus, records
  <2>2. Counts'
    BY TypeParts DEF Inv, Counts, stage, bus
  <2>3. Sequences'
    BY TypeParts DEF Inv, Sequences, stage
  <2>4. Statuses'
    BY SameStatuses DEF Inv, stage, records
  <2> QED BY <2>1, <2>2, <2>3, <2>4, TypeFromParts
<1>2. Attempts'
  BY DEF Attempts, InStage, Throw
<1>3. Lists'
  BY DEF Throw, Lists
<1>4. Errors'
  BY DEF Inv, Throw, stage, Errors
<1>5. Closing'
  BY DEF Inv, Throw, records, Closing
<1>6. CompletedIsSettled'
  BY DEF Inv, records, CompletedIsSettled, Closing
<1>7. ClosedIsReported'
  BY DEF Inv, records, ClosedIsReported, Closing
<1> QED BY <1>1, <1>2, <1>3, <1>4, <1>5, <1>6, <1>7 DEF Inv

LEMMA DispatchStep ==
  ASSUME Inv, Dispatch, UNCHANGED <<records, pressed>>
  PROVE  Inv'
<1> USE DEF Dispatch, Bus!Handle
<1>1. TypeOK'
  <2>1. Places'
    BY TypeParts DEF Inv, Places, records
  <2>2. Counts'
    BY TypeParts DEF Inv, Counts, stage
  <2>3. Sequences'
    BY TypeParts DEF Inv, Sequences, stage
  <2>4. Statuses'
    BY SameStatuses DEF Inv, stage, records
  <2> QED BY <2>1, <2>2, <2>3, <2>4, TypeFromParts
<1>2. Attempts'
  BY Zenon DEF Inv, Attempts, InStage, MayPass, Current, stage
<1>3. Lists'
  BY DEF Inv, stage, Lists, InTodo
<1>4. Errors'
  BY DEF Inv, stage, records, Errors
<1>5. Closing'
  BY DEF Inv, records, Closing, Reached
<1>6. CompletedIsSettled'
  BY DEF Inv, records, CompletedIsSettled
<1>7. ClosedIsReported'
  BY DEF Inv, stage, records, ClosedIsReported
<1> QED BY <1>1, <1>2, <1>3, <1>4, <1>5, <1>6, <1>7 DEF Inv

LEMMA CreateStep ==
  ASSUME Inv, Create
  PROVE  Inv'
<1> USE DEF Create
<1>1. TypeOK'
  <2>1. Places'
    BY TypeParts DEF Inv, Places, RunnerAt, Escape, bus, inner
  <2>2. Counts'
    BY TypeParts DEF Inv, Counts, stage, bus, inner
  <2>3. Sequences'
    BY TypeParts DEF Inv, Sequences, stage, inner
  <2>4. Statuses'
    BY SameStatuses DEF Inv, inner, stage
  <2> QED BY <2>1, <2>2, <2>3, <2>4, TypeFromParts
<1>2. Attempts'
  BY DEF Attempts, InStage, Escape
<1>3. Lists'
  BY DEF Inv, Escape, stage, inner, Lists
<1>4. Errors'
  BY DEF Inv, SchedulerAt, Escape, stage, inner, Errors
<1>5. Closing'
  BY DEF SchedulerAt, Escape, Closing
<1>6. CompletedIsSettled'
  BY DEF Inv, CompletedIsSettled, Closing
<1>7. ClosedIsReported'
  BY DEF Inv, ClosedIsReported, Closing
<1> QED BY <1>1, <1>2, <1>3, <1>4, <1>5, <1>6, <1>7 DEF Inv

LEMMA RecoverStep ==
  ASSUME Inv, Recover
  PROVE  Inv'
<1> USE DEF Recover, Bus!Open
<1>1. TypeOK'
  <2>1. Places'
    BY TypeParts DEF Inv, Places, RunnerAt, Escape, bus, inner, records
  <2>2. Counts'
    BY TypeParts DEF Inv, Counts, stage, bus, inner
  <2>3. Sequences'
    BY TypeParts DEF Inv, Sequences, stage, inner
  <2>4. Statuses'
    BY SameStatuses DEF Inv, inner, stage, records
  <2> QED BY <2>1, <2>2, <2>3, <2>4, TypeFromParts
<1>2. Attempts'
  BY DEF Attempts, InStage, Escape
<1>3. Lists'
  BY DEF Inv, Escape, stage, inner, Lists
<1>4. Errors'
  BY DEF Inv, SchedulerAt, Escape, stage, inner, records, Errors
<1>5. Closing'
  BY DEF Inv, SchedulerAt, Escape, records, Closing
<1>6. CompletedIsSettled'
  BY DEF Inv, records, CompletedIsSettled, Closing
<1>7. ClosedIsReported'
  BY DEF Inv, records, ClosedIsReported, Closing
<1> QED BY <1>1, <1>2, <1>3, <1>4, <1>5, <1>6, <1>7 DEF Inv

LEMMA BuildStep ==
  ASSUME Inv, Build
  PROVE  Inv'
<1> USE DEF Build
<1>1. TypeOK'
  <2>1. Places'
    <3>1. /\ at' \in {"gate", "threw"} /\ scheduling' \in {TRUE, scheduling}
          /\ error' \in {error, "adapter", "storage"}
          /\ UNCHANGED <<allowed, disp, row, outcome, requests, pressed>>
      BY Zenon DEF Throw, inner, bus
    <3> QED BY <3>1, TypeParts DEF Inv, Places, SchedulerAt
  <2>2. Counts'
    BY TypeParts DEF Inv, Counts, stage, bus, inner
  <2>3. Sequences'
    BY TypeParts DEF Inv, Sequences, stage, inner
  <2>4. Statuses'
    BY SameStatuses DEF Inv, inner, stage
  <2> QED BY <2>1, <2>2, <2>3, <2>4, TypeFromParts
<1>2. Attempts'
  BY DEF Attempts, InStage, Throw
<1>3. Lists'
  BY DEF Inv, Throw, stage, inner, Lists
<1>4. Errors'
  BY DEF Inv, Throw, stage, inner, Errors
<1>5. Closing'
  BY DEF Inv, Throw, Closing
<1>6. CompletedIsSettled'
  BY DEF Inv, CompletedIsSettled, Closing
<1>7. ClosedIsReported'
  BY DEF Inv, ClosedIsReported, Closing
<1> QED BY <1>1, <1>2, <1>3, <1>4, <1>5, <1>6, <1>7 DEF Inv

LEMMA LastDrainStep ==
  ASSUME Inv, LastDrain
  PROVE  Inv'
<1> USE DEF LastDrain
<1>1. TypeOK'
  <2>1. Places'
    BY TypeParts DEF Inv, Places, RunnerAt, bus, inner, records
  <2>2. Counts'
    BY TypeParts DEF Inv, Counts, stage, bus, inner
  <2>3. Sequences'
    BY TypeParts DEF Inv, Sequences, stage, inner
  <2>4. Statuses'
    BY SameStatuses DEF Inv, inner, stage, records
  <2> QED BY <2>1, <2>2, <2>3, <2>4, TypeFromParts
<1>2. Attempts'
  BY DEF Attempts, InStage
<1>3. Lists'
  BY DEF Lists
<1>4. Errors'
  BY DEF Inv, SchedulerAt, stage, inner, records, Errors
<1>5. Closing'
  BY DEF Inv, SchedulerAt, stage, bus, inner, records, Closing, Reached, Lists
<1>6. CompletedIsSettled'
  BY DEF Inv, records, CompletedIsSettled, Closing
<1>7. ClosedIsReported'
  BY DEF Inv, records, ClosedIsReported, Closing
<1> QED BY <1>1, <1>2, <1>3, <1>4, <1>5, <1>6, <1>7 DEF Inv

LEMMA CaughtStep ==
  ASSUME Inv, Caught
  PROVE  Inv'
<1> USE DEF Caught
<1>1. TypeOK'
  <2>1. Places'
    BY TypeParts DEF Inv, Places, RunnerAt, bus, inner
  <2>2. Counts'
    BY TypeParts DEF Inv, Counts, stage, bus, inner
  <2>3. Sequences'
    BY TypeParts DEF Inv, Sequences, stage, inner
  <2>4. Statuses'
    BY SameStatuses DEF Inv, inner, stage
  <2> QED BY <2>1, <2>2, <2>3, <2>4, TypeFromParts
<1>2. Attempts'
  BY DEF Attempts, InStage
<1>3. Lists'
  BY DEF Lists
<1>4. Errors'
  BY DEF Inv, SchedulerAt, stage, inner, Errors
<1>5. Closing'
  BY DEF Inv, SchedulerAt, Closing, Errors
<1>6. CompletedIsSettled'
  BY DEF Inv, CompletedIsSettled, Closing
<1>7. ClosedIsReported'
  BY DEF Inv, ClosedIsReported, Closing
<1> QED BY <1>1, <1>2, <1>3, <1>4, <1>5, <1>6, <1>7 DEF Inv

LEMMA ShutdownStep ==
  ASSUME Inv, Shutdown
  PROVE  Inv'
<1> USE DEF Shutdown
<1>1. TypeOK'
  <2>1. Places'
    BY TypeParts DEF Inv, Places, RunnerAt, Escape, inner, records
  <2>2. Counts'
    BY TypeParts DEF Inv, Counts, stage, inner
  <2>3. Sequences'
    BY TypeParts DEF Inv, Sequences, stage, inner
  <2>4. Statuses'
    BY SameStatuses DEF Inv, inner, stage, records
  <2> QED BY <2>1, <2>2, <2>3, <2>4, TypeFromParts
<1>2. Attempts'
  BY DEF Attempts, InStage, Escape
<1>3. Lists'
  BY DEF Escape, Lists
<1>4. Errors'
  BY DEF Inv, SchedulerAt, Escape, stage, inner, records, Errors
<1>5. Closing'
  BY DEF Inv, SchedulerAt, Escape, stage, inner, records, Closing, Reached
<1>6. CompletedIsSettled'
  BY DEF Inv, records, CompletedIsSettled, Closing
<1>7. ClosedIsReported'
  BY DEF Inv, records, ClosedIsReported, Closing
<1> QED BY <1>1, <1>2, <1>3, <1>4, <1>5, <1>6, <1>7 DEF Inv

LEMMA StoreRequestMetricsStep ==
  ASSUME Inv, StoreRequestMetrics
  PROVE  Inv'
<1> USE DEF StoreRequestMetrics
<1>1. TypeOK'
  <2>1. Places'
    BY TypeParts DEF Inv, Places, RunnerAt, Escape, bus, inner
  <2>2. Counts'
    BY TypeParts DEF Inv, Counts, stage, bus, inner
  <2>3. Sequences'
    BY TypeParts DEF Inv, Sequences, stage, inner
  <2>4. Statuses'
    BY SameStatuses DEF Inv, inner, stage
  <2> QED BY <2>1, <2>2, <2>3, <2>4, TypeFromParts
<1>2. Attempts'
  BY DEF Attempts, InStage, Escape
<1>3. Lists'
  BY DEF Escape, Lists
<1>4. Errors'
  BY DEF Inv, SchedulerAt, Escape, stage, inner, Errors
<1>5. Closing'
  BY DEF Inv, SchedulerAt, Escape, stage, bus, inner, Closing, Reached
<1>6. CompletedIsSettled'
  BY DEF Inv, CompletedIsSettled, Closing
<1>7. ClosedIsReported'
  BY DEF Inv, ClosedIsReported, Closing
<1> QED BY <1>1, <1>2, <1>3, <1>4, <1>5, <1>6, <1>7 DEF Inv

LEMMA StoreStageMetricsStep ==
  ASSUME Inv, StoreStageMetrics
  PROVE  Inv'
<1> USE DEF StoreStageMetrics
<1>1. TypeOK'
  <2>1. Places'
    BY TypeParts DEF Inv, Places, RunnerAt, Escape, bus, inner
  <2>2. Counts'
    BY TypeParts DEF Inv, Counts, stage, bus, inner
  <2>3. Sequences'
    BY TypeParts DEF Inv, Sequences, stage, inner
  <2>4. Statuses'
    <3>1. /\ deps \in DepChoices /\ timed \subseteq Stages
          /\ outcomes \in [Stages -> Outcome \cup {"none"}]
          /\ stageRows \in [Stages -> Outcome \cup {"absent"}]
          /\ \A s \in timed : outcomes[s] # "none"
      BY TypeParts DEF Inv, Statuses, Errors
    <3> QED BY <3>1 DEF Statuses, inner, stage
  <2> QED BY <2>1, <2>2, <2>3, <2>4, TypeFromParts
<1>2. Attempts'
  BY DEF Attempts, InStage, Escape
<1>3. Lists'
  BY DEF Escape, Lists
<1>4. Errors'
  BY DEF Inv, SchedulerAt, Escape, stage, inner, Errors
<1>5. Closing'
  BY DEF Inv, SchedulerAt, Escape, stage, bus, inner, Closing, Reached, Listing
<1>6. CompletedIsSettled'
  BY DEF Inv, CompletedIsSettled, Closing
<1>7. ClosedIsReported'
  BY DEF Inv, ClosedIsReported, Closing
<1> QED BY <1>1, <1>2, <1>3, <1>4, <1>5, <1>6, <1>7 DEF Inv

LEMMA FinishStep ==
  ASSUME Inv, Finish
  PROVE  Inv'
<1> USE DEF Finish
<1>1. TypeOK'
  <2>1. Places'
    BY TypeParts DEF Inv, Places, RunnerAt, Escape, bus, inner
  <2>2. Counts'
    BY TypeParts DEF Inv, Counts, stage, bus, inner
  <2>3. Sequences'
    BY TypeParts DEF Inv, Sequences, stage, inner
  <2>4. Statuses'
    BY SameStatuses DEF Inv, inner, stage
  <2> QED BY <2>1, <2>2, <2>3, <2>4, TypeFromParts
<1>2. Attempts'
  BY DEF Attempts, InStage, Escape
<1>3. Lists'
  BY DEF Escape, Lists
<1>4. Errors'
  BY DEF Inv, SchedulerAt, Escape, stage, inner, Errors
<1>5. Closing'
  BY DEF Inv, SchedulerAt, Escape, stage, bus, inner, Closing, Reached, Listing,
      Errors
<1>6. CompletedIsSettled'
  <2>1. CASE row' = "COMPLETED"
    <3>1. /\ outcome = "completed" /\ error = "none" /\ disp = "stopped"
          /\ requests = "completed" /\ Reached /\ Listing
      BY <2>1 DEF Inv, Closing, Errors
    <3>2. \A s \in timed : outcomes[s] \notin {"none", "interrupted"}
      BY <3>1 DEF Inv, Errors
    <3>3. UNCHANGED <<left, backlog, disp, requests, allowed, stageRows>>
      BY DEF inner, stage, bus
    <3>4. ASSUME allowed, NEW s \in Stages PROVE stageRows[s] \notin {"absent", "interrupted"}
      <4>1. scheduling /\ s \in timed
        BY <3>1, <3>4 DEF Reached
      <4>2. stageRows[s] = IF s \in timed THEN outcomes[s] ELSE "absent"
        BY <3>1, <3>4, <4>1, ListedStage
      <4>3. outcomes[s] # "absent"
        <5>1. outcomes \in [Stages -> Outcome \cup {"none"}]
          BY DEF Inv, TypeOK, SchedulerTypeOK
        <5> QED BY <5>1 DEF Outcome
      <4> QED BY <4>1, <4>2, <4>3, <3>2
    <3> QED BY <3>1, <3>3, <3>4 DEF CompletedIsSettled, Reached
  <2>2. CASE row' # "COMPLETED"
    BY <2>2 DEF CompletedIsSettled
  <2> QED BY <2>1, <2>2
<1>7. ClosedIsReported'
  BY DEF Inv, stage, inner, ClosedIsReported, Closing, Listing, Errors
<1> QED BY <1>1, <1>2, <1>3, <1>4, <1>5, <1>6, <1>7 DEF Inv

LEMMA SummariseStep ==
  ASSUME Inv, Summarise
  PROVE  Inv'
<1> USE DEF Summarise
<1>1. TypeOK'
  <2>1. Places'
    BY TypeParts DEF Inv, Places, RunnerAt, Escape, bus, inner, records
  <2>2. Counts'
    BY TypeParts DEF Inv, Counts, stage, bus, inner
  <2>3. Sequences'
    BY TypeParts DEF Inv, Sequences, stage, inner
  <2>4. Statuses'
    BY SameStatuses DEF Inv, inner, stage, records
  <2> QED BY <2>1, <2>2, <2>3, <2>4, TypeFromParts
<1>2. Attempts'
  BY DEF Attempts, InStage, Escape
<1>3. Lists'
  BY DEF Escape, Lists
<1>4. Errors'
  BY DEF Inv, SchedulerAt, Escape, stage, inner, records, Errors
<1>5. Closing'
  BY DEF Inv, Escape, stage, bus, inner, records, Closing, Reached, Listing, Errors
<1>6. CompletedIsSettled'
  BY DEF Inv, stage, bus, inner, records, CompletedIsSettled
<1>7. ClosedIsReported'
  BY DEF Inv, stage, inner, records, ClosedIsReported
<1> QED BY <1>1, <1>2, <1>3, <1>4, <1>5, <1>6, <1>7 DEF Inv

LEMMA RunnerInterruptedStep ==
  ASSUME Inv, RunnerInterrupted, pressed' \in {"never"} \cup SchedulerAt \cup RunnerAt
  PROVE  Inv'
<1> USE DEF RunnerInterrupted
<1>1. TypeOK'
  <2>1. Places'
    BY TypeParts DEF Inv, Places, SchedulerAt, RunnerAt, Throw, Escape, bus, inner,
        records
  <2>2. Counts'
    BY TypeParts DEF Inv, Counts, stage, bus, inner
  <2>3. Sequences'
    BY TypeParts DEF Inv, Sequences, stage, inner
  <2>4. Statuses'
    BY SameStatuses DEF Inv, inner, stage, records
  <2> QED BY <2>1, <2>2, <2>3, <2>4, TypeFromParts
<1>2. Attempts'
  BY DEF Attempts, InStage, Throw, Escape
<1>3. Lists'
  BY DEF Throw, Escape, Lists
<1>4. Errors'
  BY DEF Inv, SchedulerAt, Throw, Escape, stage, inner, records, Errors
<1>5. Closing'
  BY DEF Inv, SchedulerAt, Throw, Escape, stage, inner, records, Closing, Reached
<1>6. CompletedIsSettled'
  BY DEF Inv, stage, bus, inner, records, CompletedIsSettled
<1>7. ClosedIsReported'
  BY DEF Inv, stage, inner, records, ClosedIsReported
<1> QED BY <1>1, <1>2, <1>3, <1>4, <1>5, <1>6, <1>7 DEF Inv

-----------------------------------------------------------------------------
LEMMA Stutter ==
  ASSUME Inv, UNCHANGED vars
  PROVE  Inv'
<1>1. /\ at' = at /\ error' = error /\ deps' = deps /\ allowed' = allowed
      /\ stage' = stage /\ bus' = bus /\ records' = records /\ pressed' = pressed
  BY DEF vars
<1>2. /\ todo' = todo /\ attempt' = attempt /\ ran' = ran /\ left' = left
      /\ outcomes' = outcomes /\ timed' = timed
  BY <1>1 DEF stage
<1>3. backlog' = backlog /\ disp' = disp
  BY <1>1 DEF bus
<1>4. UNCHANGED <<row, outcome, requests, stageRows, scheduling>>
  BY <1>1 DEF records
<1>5. TypeOK'
  BY <1>1, <1>2, <1>3, <1>4 DEF Inv, TypeOK, SchedulerTypeOK
<1>6. Attempts'
  BY <1>1, <1>2, Zenon DEF Inv, Attempts, InStage, MayPass, Current
<1>7. Lists' /\ Errors'
  BY <1>1, <1>2, <1>4 DEF Inv, Lists, InTodo, Errors
<1>8. Reached' = Reached /\ Listing' = Listing
  BY <1>1, <1>2, <1>3, <1>4 DEF Reached, Listing
<1>9. Closing'
  BY <1>1, <1>3, <1>4, <1>8 DEF Inv, Closing
<1>10. CompletedIsSettled' /\ ClosedIsReported'
  BY <1>1, <1>2, <1>3, <1>4 DEF Inv, CompletedIsSettled, ClosedIsReported
<1> QED BY <1>5, <1>6, <1>7, <1>9, <1>10 DEF Inv

\* The steps of the scheduler's own code.
LEMMA ScheduleStep ==
  ASSUME Inv, Schedule, UNCHANGED <<records, pressed>>
  PROVE  Inv'
<1>1. UNCHANGED records /\ pressed' \in {"never"} \cup SchedulerAt \cup RunnerAt
  BY DEF Inv, TypeOK
<1>2. CASE \E ok \in BOOLEAN : Gate1(ok)
  BY <1>2, Gate1Step
<1>3. CASE StartStage \/ Skip \/ AllStagesDone \/ Retry
  BY <1>3, StartStageStep, SkipStep, AllStagesDoneStep, RetryStep
<1>4. CASE Publish \/ PublishFails \/ Drain \/ StageEnds
  BY <1>4, PublishStep, PublishFailsStep, DrainStep, StageEndsStep
<1>5. CASE \E n \in 0 .. MaxFound : Returns(n)
  BY <1>1, <1>5, AttemptStep
<1>6. CASE \E n \in 1 .. MaxFound : ReturnsTransient(n) \/ ReturnsCut(n)
  BY <1>1, <1>6, AttemptStep
<1>7. CASE TimesOut \/ Raises
  BY <1>1, <1>7, AttemptStep
<1> QED BY <1>2, <1>3, <1>4, <1>5, <1>6, <1>7 DEF Schedule

\* Wherever Ctrl+C strikes.
LEMMA CtrlCStep ==
  ASSUME Inv, CtrlC
  PROVE  Inv'
<1>1. pressed' \in {"never"} \cup SchedulerAt \cup RunnerAt
  BY DEF CtrlC, Inv, TypeOK
<1>2. CASE RunnerInterrupted
  BY <1>1, <1>2, RunnerInterruptedStep
<1>3. CASE (StageInterrupted \/ BusInterrupted) /\ UNCHANGED records
  BY <1>1, <1>3, StageInterruptedStep, BusInterruptedStep
<1>4. CASE \E n \in 1 .. MaxFound : ReturnsCut(n) /\ UNCHANGED records
  BY <1>1, <1>4, AttemptStep
<1> QED BY <1>2, <1>3, <1>4 DEF CtrlC

LEMMA NextInv == Inv /\ [Next]_vars => Inv'
<1> SUFFICES ASSUME Inv, [Next]_vars PROVE Inv'
  OBVIOUS
<1>1. CASE Create \/ Recover \/ Build \/ LastDrain \/ Caught
  BY <1>1, CreateStep, RecoverStep, BuildStep, LastDrainStep, CaughtStep
<1>2. CASE Shutdown \/ StoreRequestMetrics \/ StoreStageMetrics \/ Finish \/ Summarise
  BY <1>2, ShutdownStep, StoreRequestMetricsStep, StoreStageMetricsStep, FinishStep,
      SummariseStep
<1>3. CASE Schedule /\ UNCHANGED <<records, pressed>>
  BY <1>3, ScheduleStep
<1>4. CASE Dispatch /\ UNCHANGED <<records, pressed>>
  BY <1>4, DispatchStep
<1>5. CASE CtrlC
  BY <1>5, CtrlCStep
<1>6. CASE UNCHANGED vars
  BY <1>6, Stutter
<1> QED BY <1>1, <1>2, <1>3, <1>4, <1>5, <1>6 DEF Next, Run

LEMMA SpecInv == Spec => []Inv
<1>1. Init => Inv
  BY InitInv
<1>2. Inv /\ [Next]_vars => Inv'
  BY NextInv
<1> QED BY <1>1, <1>2, PTL DEF Spec

-----------------------------------------------------------------------------
(* The order of the stages.                                                *)

\* What a stage depends on has its duration or comes before it.
Queued ==
  at \in {"preflight", "executing", "backoff", "publishing", "draining"} =>
    \A i \in DOMAIN todo : deps[todo[i]] \subseteq timed \cup {todo[j] : j \in 1 .. i - 1}

\* Between two stages nothing is left of those that have executed.
Drained ==
  /\ at \in {"new", "opened", "building", "gate"} => timed = {}
  /\ at \in {"preflight", "executing", "backoff"} =>
       backlog = 0 \/ \A s \in timed : outcomes[s] = "skipped"

GivenUp == error = "order" => Unorderable(Listed, deps)

OrderInv == Inv /\ Queued /\ Drained /\ GivenUp

\* A list loses its head to the set of those that are done.
LEMMA HeadIsDone ==
  ASSUME NEW S, NEW q \in Seq(S), q # <<>>, NEW done, NEW ds,
         \A i \in DOMAIN q : ds[q[i]] \subseteq done \cup {q[j] : j \in 1 .. i - 1}
  PROVE  \A i \in DOMAIN Tail(q) :
           ds[Tail(q)[i]] \subseteq (done \cup {Head(q)}) \cup {Tail(q)[j] : j \in 1 .. i - 1}
<1> DEFINE t == Tail(q)
<1>1. /\ Len(q) \in Nat /\ Len(t) = Len(q) - 1 /\ DOMAIN t = 1 .. Len(t)
      /\ DOMAIN q = 1 .. Len(q) /\ q[1] = Head(q)
      /\ \A i \in 1 .. Len(q) - 1 : t[i] = q[i + 1]
  OBVIOUS
<1> HIDE DEF t
<1>2. ASSUME NEW i \in DOMAIN t
      PROVE  ds[t[i]] \subseteq (done \cup {Head(q)}) \cup {t[j] : j \in 1 .. i - 1}
  <2>1. i + 1 \in DOMAIN q /\ t[i] = q[i + 1] /\ i + 1 - 1 = i
    BY <1>1, <1>2
  <2>2. ds[t[i]] \subseteq done \cup {q[j] : j \in 1 .. i}
    <3> DEFINE Before(k) == {q[j] : j \in 1 .. k - 1}
    <3>1. \A k \in DOMAIN q : ds[q[k]] \subseteq done \cup Before(k)
      OBVIOUS
    <3>2. Before(i + 1) = {q[j] : j \in 1 .. i}
      BY <2>1
    <3> HIDE DEF Before
    <3>3. ds[q[i + 1]] \subseteq done \cup Before(i + 1)
      BY <2>1, <3>1
    <3> QED BY <2>1, <3>2, <3>3
  <2>3. ASSUME NEW j \in 1 .. i, j # 1 PROVE q[j] \in {t[k] : k \in 1 .. i - 1}
    <3>1. j - 1 \in 1 .. i - 1 /\ t[j - 1] = q[j]
      BY <1>1, <1>2, <2>3
    <3> QED BY <3>1
  <2> QED BY <1>1, <2>2, <2>3, SMTT(30)
<1> QED BY <1>2 DEF t

LEMMA ListedStages == IsList(Listed, Stages)
BY SchedulerAssumption DEF IsList, Stages, Range

\* Gate 1 makes the list, or gives up.
LEMMA Gate1Orders ==
  ASSUME OrderInv, NEW ok \in BOOLEAN, Gate1(ok)
  PROVE  Queued' /\ Drained' /\ GivenUp'
<1> USE DEF Gate1
<1>1. ASSUME at' = "preflight"
      PROVE  \A i \in DOMAIN todo' : deps[todo'[i]] \subseteq {todo'[j] : j \in 1 .. i - 1}
  <2>1. ~Unorderable(Listed, deps) /\ todo' = Ordered(Listed, deps)
    BY <1>1 DEF Throw
  <2>2. \A E, list, ds : IsList(list, E) /\ ~Unorderable(list, ds) => InOrder(Ordered(list, ds), ds)
    BY PluginsAreOrdered
  <2>3. InOrder(Ordered(Listed, deps), deps)
    BY <2>1, <2>2, ListedStages
  <2> QED BY <2>1, <2>3 DEF InOrder
<1>2. Queued'
  BY <1>1 DEF Queued, Throw
<1>3. Drained'
  BY DEF OrderInv, Drained, Throw
<1>4. GivenUp'
  BY DEF OrderInv, GivenUp, Throw
<1> QED BY <1>2, <1>3, <1>4

\* A stage leaves the list.
LEMMA StageLeaves ==
  ASSUME OrderInv, Skip \/ StageEnds
  PROVE  Queued' /\ Drained' /\ GivenUp'
<1>1. /\ at \in {"preflight", "draining"} /\ at' = "preflight"
      /\ timed' = timed \cup {Current} /\ todo' = Tail(todo)
      /\ UNCHANGED <<error, deps>>
      /\ InStage \/ (at = "preflight" /\ todo # <<>>)
  BY DEF Skip, StageEnds, InStage
<1>2. todo # <<>> /\ todo \in Seq(Stages) /\ Current \in Stages
  BY <1>1, CurrentStage DEF OrderInv, Inv, TypeOK, SchedulerTypeOK
<1>3. Queued'
  <2>1. \A i \in DOMAIN todo : deps[todo[i]] \subseteq timed \cup {todo[j] : j \in 1 .. i - 1}
    BY <1>1 DEF OrderInv, Queued
  <2>2. \A i \in DOMAIN Tail(todo) :
          deps[Tail(todo)[i]] \subseteq (timed \cup {Head(todo)}) \cup {Tail(todo)[j] : j \in 1 .. i - 1}
    <3> HIDE DEF Stages
    <3> QED BY <1>2, <2>1, HeadIsDone
  <2> QED BY <1>1, <2>2 DEF Queued, Current
<1>4. Drained'
  <2>1. CASE StageEnds
    BY <1>1, <2>1 DEF Drained, StageEnds, bus
  <2>2. CASE Skip
    <3>1. backlog' = backlog /\ outcomes' = [outcomes EXCEPT ![Current] = "skipped"]
      BY <2>2 DEF Skip, bus
    <3>2. backlog = 0 \/ \A s \in timed : outcomes[s] = "skipped"
      BY <2>2 DEF OrderInv, Drained, Skip
    <3>3. outcomes \in [Stages -> Outcome \cup {"none"}] /\ timed \subseteq Stages
      BY DEF OrderInv, Inv, TypeOK, SchedulerTypeOK
    <3> HIDE DEF Stages, Current, Outcome
    <3>4. backlog' = 0 \/ \A s \in timed' : outcomes'[s] = "skipped"
      BY <1>1, <1>2, <3>1, <3>2, <3>3
    <3> QED BY <1>1, <3>4 DEF Drained
  <2> QED BY <2>1, <2>2
<1>5. GivenUp'
  BY <1>1 DEF OrderInv, GivenUp
<1> QED BY <1>3, <1>4, <1>5

\* The list stays as it is, and what is drained stays drained.
LEMMA OrderStays ==
  ASSUME OrderInv, UNCHANGED <<deps, todo>>,
         at' \in {"preflight", "executing", "backoff", "publishing", "draining"} =>
           /\ at \in {"preflight", "executing", "backoff", "publishing", "draining"}
           /\ timed' = timed,
         at' \in {"new", "opened", "building", "gate"} =>
           at \in {"new", "opened", "building", "gate"} /\ timed' = timed,
         at' \in {"preflight", "executing", "backoff"} =>
           /\ at \in {"preflight", "executing", "backoff"}
           /\ outcomes' = outcomes /\ (backlog = 0 => backlog' = 0),
         error' = "order" => error = "order"
  PROVE  Queued' /\ Drained' /\ GivenUp'
<1>1. Queued'
  BY DEF OrderInv, Queued
<1>2. Drained'
  BY DEF OrderInv, Drained
<1>3. GivenUp'
  BY DEF OrderInv, GivenUp
<1> QED BY <1>1, <1>2, <1>3

LEMMA NextOrder == OrderInv /\ [Next]_vars => OrderInv'
<1> SUFFICES ASSUME OrderInv, [Next]_vars PROVE Queued' /\ Drained' /\ GivenUp'
  BY NextInv DEF OrderInv
<1>1. CASE \E ok \in BOOLEAN : Gate1(ok)
  BY <1>1, Gate1Orders
<1>2. CASE Skip \/ StageEnds
  BY <1>2, StageLeaves
<1>3. CASE StartStage \/ AllStagesDone \/ Retry \/ Publish \/ PublishFails \/ Drain
  BY <1>3, OrderStays DEF StartStage, AllStagesDone, Retry, Publish, Bus!Accept, PublishFails,
      Drain, Throw, stage, bus
<1>4. CASE \/ \E n \in 0 .. MaxFound : Returns(n)
           \/ \E n \in 1 .. MaxFound : ReturnsTransient(n) \/ ReturnsCut(n)
           \/ TimesOut \/ Raises
  BY <1>4, OrderStays DEF Returns, ReturnsTransient, ReturnsCut, TimesOut, Raises, Ended, Record,
      BackOff, bus
<1>5. CASE StageInterrupted \/ BusInterrupted \/ RunnerInterrupted
  BY <1>5, OrderStays DEF StageInterrupted, BusInterrupted, RunnerInterrupted, Throw, Escape,
      inner, stage, bus
<1>6. CASE Create \/ Recover \/ Build \/ LastDrain \/ Caught
  BY <1>6, OrderStays DEF Create, Recover, Build, LastDrain, Caught, Throw, Escape, inner, stage,
      bus
<1>7. CASE Shutdown \/ StoreRequestMetrics \/ StoreStageMetrics \/ Finish \/ Summarise
  BY <1>7, OrderStays DEF Shutdown, StoreRequestMetrics, StoreStageMetrics, Finish, Summarise,
      Escape, inner, stage, bus
<1>8. CASE Dispatch
  BY <1>8, OrderStays DEF Dispatch, Bus!Handle, stage
<1>9. CASE UNCHANGED vars
  BY <1>9, OrderStays DEF vars, stage, bus
<1> QED BY <1>1, <1>2, <1>3, <1>4, <1>5, <1>6, <1>7, <1>8, <1>9 DEF Next, Run, CtrlC, Schedule

LEMMA SpecOrder == Spec => []OrderInv
<1>1. Init => OrderInv
  BY InitInv DEF OrderInv, Init, SchedulerInit, Queued, Drained, GivenUp
<1>2. OrderInv /\ [Next]_vars => OrderInv'
  BY NextOrder
<1> QED BY <1>1, <1>2, PTL DEF Spec

-----------------------------------------------------------------------------
\* Every variable of a run keeps its type: no interruption or failure leaves
\* the coroutine (scan_runner.py 286-628) at a place the model does not name.
THEOREM RunTypeCorrect == Spec => []TypeOK
<1>1. Inv => TypeOK
  BY DEF Inv
<1> QED BY <1>1, SpecInv, PTL

\* A COMPLETED row is earned (scan_runner.py 582-621), for every set of
\* plugins and dependencies and however many events are inherited.
THEOREM CompletedScansAreSettled == Spec => []CompletedIsSettled
<1>1. Inv => CompletedIsSettled
  BY DEF Inv
<1> QED BY <1>1, SpecInv, PTL

\* A closed row agrees with the stored metrics and with what the caller of
\* run_scan gets (scan_runner.py 590-628).
THEOREM ClosedRunsAreReported == Spec => []ClosedIsReported
<1>1. Inv => ClosedIsReported
  BY DEF Inv
<1> QED BY <1>1, SpecInv, PTL

\* Only what may pass is tried again and exhaustion is the last attempt's
\* (scheduler.py 215-236, 266-290), for every number of retries.
THEOREM RetriesAreJustified == Spec => []RetriesJustified
<1>1. Inv => RetriesJustified
  <2> SUFFICES ASSUME Inv, InStage PROVE
        /\ \A i \in 1 .. Len(ran) - 1 : MayPass(ran[i])
        /\ Len(ran) <= MaxRetries + 1
        /\ at = "publishing" /\ outcomes[Current] \in {"retry_exhausted", "timeout_exhausted"}
             => Len(ran) = MaxRetries + 1
    BY DEF RetriesJustified
  <2>1. attempt \in 0 .. MaxRetries + 1 /\ MaxRetries \in Nat /\ Len(ran) <= attempt
    BY SchedulerAssumption DEF Inv, TypeOK, SchedulerTypeOK, Attempts, InStage
  <2> QED BY <2>1 DEF Inv, Attempts
<1> QED BY <1>1, SpecInv, PTL

\* A stage executes after all it depends on and after every event of those
\* before it, and a run is given up only if its plugins cannot be ordered
\* (scheduler.py 71-100, 400-402): for every list of plugins and everything
\* they may declare.
THEOREM StagesRunInOrder == Spec => []StagesInOrder
<1>1. OrderInv => StagesInOrder
  <2> SUFFICES ASSUME OrderInv PROVE StagesInOrder
    OBVIOUS
  <2>1. ASSUME at = "executing" PROVE deps[Current] \subseteq timed
    <3>1. todo # <<>> /\ todo \in Seq(Stages)
      BY <2>1 DEF OrderInv, Inv, TypeOK, SchedulerTypeOK, Attempts, InStage
    <3>2. 1 \in DOMAIN todo /\ Current = todo[1]
      <4> HIDE DEF Stages
      <4> QED BY <3>1 DEF Current
    <3> QED BY <2>1, <3>2 DEF OrderInv, Queued
  <2>2. ASSUME at = "executing", NEW s \in timed, outcomes[s] # "skipped" PROVE backlog = 0
    BY <2>2 DEF OrderInv, Drained
  <2>3. ASSUME error = "order" PROVE ~Satisfiable(deps)
    <3>1. Unorderable(Listed, deps)
      BY <2>3 DEF OrderInv, GivenUp
    <3>2. \A E, list, ds : IsList(list, E) /\ Unorderable(list, ds) =>
            ~\E q \in Orders(list) : \A i \in DOMAIN q : ds[q[i]] \subseteq {q[j] : j \in 1 .. i - 1}
      BY PluginsAreOrdered
    <3> QED BY <3>1, <3>2, ListedStages DEF Satisfiable
  <2> QED BY <2>1, <2>2, <2>3 DEF StagesInOrder
<1> QED BY <1>1, SpecOrder, PTL
=============================================================================
