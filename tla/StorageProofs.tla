--------------------------- MODULE StorageProofs ----------------------------
(***************************************************************************)
(* The schema for any number of processes and any databases an earlier or  *)
(* a later version can have left; and the views of any database at all.    *)
(***************************************************************************)
EXTENDS Storage, ListProofs

-----------------------------------------------------------------------------
(* The schema.                                                             *)

Names == {"scan", "runs", "results"}

LEMMA ScanFirst ==
  /\ Len(Scan) = 23
  /\ Scan[1] = Ensure /\ Scan[2] = Ensure
  /\ Scan[3] = Create("nodes") /\ Scan[4] = Create("relationships")
  /\ Scan[5] = Index("idx_relationships_from") /\ Scan[6] = Index("idx_relationships_to")
  /\ Scan[7] = Index("idx_nodes_type_value")
  /\ Scan[8] = Create("evidence") /\ Scan[9] = Look("evidence") /\ Scan[10] = Column("scan_run_id")
  /\ Scan[11] = Index("idx_evidence_scan_kind_captured")
  /\ Scan[12] = Index("idx_evidence_target_captured")
BY DEF Scan

LEMMA ScanSecond ==
  /\ Scan[13] = Create("event_log") /\ Scan[14] = Look("event_log")
  /\ Scan[15] = Column("error") /\ Scan[16] = Column("attempts")
  /\ Scan[17] = Column("next_attempt_at") /\ Scan[18] = Index("idx_event_log_status_next")
  /\ Scan[19] = Create("scan_runs") /\ Scan[20] = Use({"scan_runs"})
  /\ Scan[21] = Create("scan_assets") /\ Scan[22] = Index("idx_scan_assets_scan_source_asset")
  /\ Scan[23] = Use(Table)
BY DEF Scan

LEMMA Others ==
  /\ DOMAIN Program = Names
  /\ Program["scan"] = Scan
  /\ Len(Program["runs"]) = 3 /\ Len(Program["results"]) = 2
  /\ Program["runs"][1] = Ensure /\ Program["runs"][2] = Create("scan_runs")
  /\ Program["runs"][3] = Use({"scan_runs"})
  /\ Program["results"][1] = Ensure /\ Program["results"][2] = Use({"scan_runs"})
BY DEF Program, Names

LEMMA LateColumns ==
  /\ LateColumn = {"scan_run_id", "error", "attempts", "next_attempt_at",
                   "config_hash", "template_name", "stages", "tool_versions"}
  /\ Late["evidence"] = {"scan_run_id"}
  /\ Late["event_log"] = {"error", "attempts", "next_attempt_at"}
  /\ \A t \in Table : Late[t] \subseteq LateColumn
  /\ \A t \in Table \ {"evidence", "event_log", "scan_runs"} : Late[t] = {}
<1>1. /\ Late["evidence"] = {"scan_run_id"}
      /\ Late["event_log"] = {"error", "attempts", "next_attempt_at"}
      /\ Late["scan_runs"] = {"config_hash", "template_name", "stages", "tool_versions"}
      /\ \A t \in Table \ {"evidence", "event_log", "scan_runs"} : Late[t] = {}
  BY DEF Late, Table
<1>2. \A c : c \in LateColumn <=> \E t \in Table : c \in Late[t]
  BY DEF LateColumn
<1>3. {"evidence", "event_log", "scan_runs"} \subseteq Table
  BY DEF Table
<1> HIDE DEF Late, Table
<1> QED BY <1>1, <1>2, <1>3

\* What a statement of a program can be.
ScanIndex == {"idx_relationships_from", "idx_relationships_to", "idx_nodes_type_value",
              "idx_evidence_scan_kind_captured", "idx_evidence_target_captured",
              "idx_event_log_status_next", "idx_scan_assets_scan_source_asset"}

LEMMA MigratedIndexes ==
  /\ \A v \in 1 .. CurrentVersion : {i[1] : i \in MigratedIndex(v)} \subseteq IndexName
  /\ ScanIndex \subseteq IndexName
<1>1. \A v \in 1 .. CurrentVersion : \A i \in MigratedIndex(v) : i[1] \in IndexName
  BY DEF IndexName
<1>2. <<"idx_event_log_status_next", "event_log", {"next_attempt_at"}>> \in MigratedIndex(4)
      /\ <<"idx_nodes_type_value", "nodes", {}>> \in MigratedIndex(4)
  BY DEF MigratedIndex
<1>3. /\ <<"idx_evidence_scan_kind_captured", "evidence", {"scan_run_id"}>> \in MigratedIndex(3)
      /\ <<"idx_evidence_target_captured", "evidence", {"scan_run_id"}>> \in MigratedIndex(3)
      /\ <<"idx_scan_assets_scan_source_asset", "scan_assets", {}>> \in MigratedIndex(3)
      /\ <<"idx_relationships_from", "relationships", {}>> \in MigratedIndex(3)
      /\ <<"idx_relationships_to", "relationships", {}>> \in MigratedIndex(3)
  BY DEF MigratedIndex
<1> HIDE DEF MigratedIndex
<1>4. {"idx_event_log_status_next", "idx_nodes_type_value"} \subseteq IndexName
  BY <1>2 DEF IndexName, CurrentVersion
<1>5. {"idx_evidence_scan_kind_captured", "idx_evidence_target_captured",
       "idx_scan_assets_scan_source_asset", "idx_relationships_from",
       "idx_relationships_to"} \subseteq IndexName
  BY <1>3 DEF IndexName, CurrentVersion
<1> QED BY <1>1, <1>4, <1>5 DEF ScanIndex

WellFormed(s) ==
  /\ s.do \in {"create", "look"} => s.table \in Table
  /\ s.do = "index" => s.name \in ScanIndex
  /\ s.do = "column" => s.column \in LateColumn
  /\ s.do = "use" => s.tables = {"scan_runs"} \/ s.tables = Table

LEMMA Forms ==
  /\ WellFormed(Ensure)
  /\ \A t \in Table : WellFormed(Create(t)) /\ WellFormed(Look(t))
  /\ \A name \in ScanIndex : WellFormed(Index(name))
  /\ \A c \in LateColumn : WellFormed(Column(c))
  /\ WellFormed(Use({"scan_runs"})) /\ WellFormed(Use(Table))
BY DEF WellFormed, Ensure, Create, Index, Look, Column, Use

LEMMA ScanWellFormed == \A i \in 1 .. 23 : WellFormed(Scan[i])
<1>1. {"nodes", "relationships", "evidence", "event_log", "scan_runs", "scan_assets"} \subseteq Table
  BY DEF Table
<1> HIDE DEF Scan, LateColumn, Late, Table, Ensure, Create, Index, Look, Column, Use, WellFormed
<1>2. /\ WellFormed(Scan[1]) /\ WellFormed(Scan[2]) /\ WellFormed(Scan[3])
      /\ WellFormed(Scan[4]) /\ WellFormed(Scan[5]) /\ WellFormed(Scan[6])
      /\ WellFormed(Scan[7])
  BY <1>1, ScanFirst, Forms DEF ScanIndex
<1>3. /\ WellFormed(Scan[8]) /\ WellFormed(Scan[9]) /\ WellFormed(Scan[10])
      /\ WellFormed(Scan[11]) /\ WellFormed(Scan[12])
  BY <1>1, ScanFirst, Forms, LateColumns DEF ScanIndex
<1>4. /\ WellFormed(Scan[13]) /\ WellFormed(Scan[14]) /\ WellFormed(Scan[15])
      /\ WellFormed(Scan[16]) /\ WellFormed(Scan[17]) /\ WellFormed(Scan[18])
  BY <1>1, ScanSecond, Forms, LateColumns DEF ScanIndex
<1>5. /\ WellFormed(Scan[19]) /\ WellFormed(Scan[20]) /\ WellFormed(Scan[21])
      /\ WellFormed(Scan[22]) /\ WellFormed(Scan[23])
  BY <1>1, ScanSecond, Forms DEF ScanIndex
<1>6. \A i \in 1 .. 23 : i \in 1 .. 7 \/ i \in 8 .. 12 \/ i \in 13 .. 18 \/ i \in 19 .. 23
  OBVIOUS
<1>7. \A i \in 1 .. 7 : WellFormed(Scan[i])
  BY <1>2
<1>8. \A i \in 8 .. 12 : WellFormed(Scan[i])
  BY <1>3
<1>9. \A i \in 13 .. 18 : WellFormed(Scan[i])
  BY <1>4
<1>10. \A i \in 19 .. 23 : WellFormed(Scan[i])
  BY <1>5
<1> QED BY <1>6, <1>7, <1>8, <1>9, <1>10

LEMMA Statements ==
  ASSUME NEW name \in Names, NEW i \in 1 .. Len(Program[name])
  PROVE  /\ Len(Program[name]) \in 1 .. 23 /\ Program[name][1] = Ensure
         /\ WellFormed(Program[name][i])
<1>1. "scan_runs" \in Table
  BY DEF Table
<1> HIDE DEF Scan, Program, LateColumn, Late, Table, Ensure, Create, Index, Look, Column, Use, WellFormed
<1>2. CASE name = "scan"
  BY <1>2, Others, ScanFirst, ScanWellFormed
<1>3. CASE name = "runs"
  <2>1. WellFormed(Program["runs"][1]) /\ Program["runs"][1] = Ensure
    BY Others, Forms
  <2>2. WellFormed(Program["runs"][2])
    BY <1>1, Others, Forms
  <2>3. WellFormed(Program["runs"][3])
    BY Others, Forms
  <2> QED BY <1>3, <2>1, <2>2, <2>3, Others
<1>4. CASE name = "results"
  <2>1. WellFormed(Program["results"][1]) /\ Program["results"][1] = Ensure
    BY Others, Forms
  <2>2. WellFormed(Program["results"][2])
    BY Others, Forms
  <2> QED BY <1>4, <2>1, <2>2, Others
<1> QED BY <1>2, <1>3, <1>4 DEF Names
-----------------------------------------------------------------------------
(* The invariant: what a process has passed is done and stays done, and the *)
(* transaction's draft is never behind the database it will replace.       *)

Passed(s, d) ==
  /\ s.do = "ensure" => d.recorded = CurrentVersion
  /\ s.do = "create" => s.table \in d.tables
  /\ s.do = "column" => s.column \in d.columns

Held == \A p \in lock : lock = {p} /\ Running(p) /\ Statement(p).do = "ensure"

Drafted ==
  lock # {} => /\ disk.tables = draft.tables /\ disk.columns \subseteq draft.columns
               /\ disk.recorded <= CurrentVersion
               /\ level = CurrentVersion => HasIdentity(draft)

Versioned ==
  /\ Version(disk) \in Nat
  /\ Version(disk) = CurrentVersion => HasIdentity(disk)
  /\ disk.recorded = CurrentVersion => disk.native = CurrentVersion

Advanced ==
  \A p \in Processes :
    /\ pos[p] \in 1 .. Len(Program[program[p]])
    /\ seen[p] \subseteq disk.columns
    /\ Running(p) => \A i \in 1 .. pos[p] - 1 : Passed(Program[program[p]][i], disk)

Outcomes ==
  \A p \in Processes :
    /\ outcome[p] # "no such column"
    /\ outcome[p] = "no such table" => program[p] = "results"
    /\ outcome[p] = "done" /\ program[p] = "scan" => disk.tables = Table

\* The types, in parts.
Files == disk \in Database /\ draft \in Database

Runs ==
  /\ lock \subseteq Processes /\ level \in 0 .. CurrentVersion
  /\ program \in [Processes -> Names]
  /\ pos \in [Processes -> 1 .. 23]
  /\ seen \in [Processes -> SUBSET LateColumn]
  /\ outcome \in [Processes -> {"running", "done", "killed"} \cup Errors]

IInv == Files /\ Runs /\ Held /\ Drafted /\ Versioned /\ Advanced /\ Outcomes

LEMMA TypeFromParts == Files /\ Runs <=> TypeOK
BY ScanFirst, Others DEF TypeOK, Files, Runs

\* e is d with more in it, and of no other version.
Grown(d, e) ==
  /\ e \in Database
  /\ d.tables \subseteq e.tables /\ d.columns \subseteq e.columns
  /\ e.recorded = d.recorded /\ e.native = d.native
  /\ HasIdentity(d) => HasIdentity(e)

LEMMA PassedGrows ==
  ASSUME NEW d, NEW e, d.tables \subseteq e.tables, d.columns \subseteq e.columns,
         d.recorded = CurrentVersion => e.recorded = CurrentVersion
  PROVE  \A s : Passed(s, d) => Passed(s, e)
BY DEF Passed

LEMMA Statically ==
  ASSUME NEW d \in Database
  PROVE  /\ Grown(d, d)
         /\ \A t \in Table : Grown(d, CreateTable(d, t)) /\ t \in CreateTable(d, t).tables
         /\ \A cs \in SUBSET LateColumn : Grown(d, AddColumns(d, cs)) /\ cs \subseteq AddColumns(d, cs).columns
                                          /\ AddColumns(d, cs).tables = d.tables
         /\ \A names \in SUBSET IndexName : Grown(d, CreateIndexes(d, names))
                                            /\ CreateIndexes(d, names).tables = d.tables
<1> HIDE DEF Table, Late, LateColumn, IndexName
<1>1. Grown(d, d)
  BY DEF Grown
<1>2. ASSUME NEW t \in Table
      PROVE  Grown(d, CreateTable(d, t)) /\ t \in CreateTable(d, t).tables
  <2>1. CASE t \in d.tables
    BY <1>1, <2>1 DEF CreateTable
  <2>2. CASE t \notin d.tables
    <3> DEFINE e == [d EXCEPT !.tables = @ \cup {t}, !.columns = @ \cup Late[t]]
    <3>1. CreateTable(d, t) = e
      BY <2>2 DEF CreateTable
    <3>2. /\ e.tables = d.tables \cup {t} /\ e.columns = d.columns \cup Late[t]
          /\ e.recorded = d.recorded /\ e.native = d.native /\ e.indexes = d.indexes
          /\ e \in Database
      BY LateColumns DEF Database
    <3>3. HasIdentity(d) => HasIdentity(e)
      BY <3>2 DEF HasIdentity
    <3> QED BY <3>1, <3>2, <3>3 DEF Grown
  <2> QED BY <2>1, <2>2
<1>3. ASSUME NEW cs \in SUBSET LateColumn
      PROVE  /\ Grown(d, AddColumns(d, cs)) /\ cs \subseteq AddColumns(d, cs).columns
             /\ AddColumns(d, cs).tables = d.tables
  BY DEF Grown, AddColumns, Database, HasIdentity
<1>4. ASSUME NEW names \in SUBSET IndexName
      PROVE  Grown(d, CreateIndexes(d, names)) /\ CreateIndexes(d, names).tables = d.tables
  BY DEF Grown, CreateIndexes, Database, HasIdentity
<1> QED BY <1>1, <1>2, <1>3, <1>4

LEMMA NothingYet == NoDatabase \in Database
BY DEF Database, NoDatabase, Unrecorded

LEMMA FirstLevel == 0 \in 0 .. CurrentVersion
BY DEF CurrentVersion

LEMMA AllTables ==
  \A d : \A e \in Database : d.tables \subseteq e.tables /\ d.tables = Table => e.tables = Table
BY DEF Database

LEMMA Within ==
  ASSUME NEW n \in 1 .. 23, NEW k \in 1 .. n
  PROVE  /\ k \in 1 .. 23
         /\ k < n => k + 1 \in 1 .. n /\ k + 1 \in 1 .. 23
         /\ ~(k < n) => k = n
         /\ \A i \in 1 .. k : i = k \/ i \in 1 .. k - 1
         /\ k + 1 - 1 = k
OBVIOUS

\* A statement that is no transaction has been executed.
LEMMA TakenStep ==
  ASSUME IInv, NEW p \in Processes, NEW d, Grown(disk, d),
         disk' = d, (lock = {}) \/ (d = disk), Advance(p),
         lock' = lock, draft' = draft, level' = level,
         seen' \in [Processes -> SUBSET LateColumn],
         \A q \in Processes : seen'[q] \subseteq d.columns,
         Running(p), Statement(p).do # "ensure",
         Passed(Statement(p), d),
         program[p] = "scan" /\ pos[p] = 23 => d.tables = Table
  PROVE  IInv'
<1> USE DEF IInv
<1> DEFINE last == Len(Program[program[p]])
<1>0. /\ disk' = d /\ (lock = {} \/ d = disk)
      /\ UNCHANGED <<lock, draft, level, program>>
      /\ \/ pos[p] < last /\ pos' = [pos EXCEPT ![p] = @ + 1] /\ outcome' = outcome
         \/ ~(pos[p] < last) /\ outcome' = [outcome EXCEPT ![p] = "done"] /\ pos' = pos
  BY DEF Advance
<1>1. /\ last \in 1 .. 23 /\ pos[p] \in 1 .. last /\ program[p] \in Names
  BY Statements DEF Advanced, Runs
<1>2. Files'
  BY <1>0 DEF Files, Grown
<1>3. Runs'
  <2>1. /\ lock' \subseteq Processes /\ level' \in 0 .. CurrentVersion
        /\ program' \in [Processes -> Names] /\ seen' \in [Processes -> SUBSET LateColumn]
    BY <1>0 DEF Runs
  <2>2. pos' \in [Processes -> 1 .. 23]
    <3>1. pos \in [Processes -> 1 .. 23]
      BY DEF Runs
    <3>2. CASE pos[p] < last /\ pos' = [pos EXCEPT ![p] = @ + 1]
      <4>1. pos[p] + 1 \in 1 .. 23
        BY <1>1, <3>2, Within
      <4> HIDE DEF last, IInv
      <4> QED BY <3>1, <3>2, <4>1
    <3> QED BY <1>0, <3>1, <3>2
  <2>3. outcome' \in [Processes -> {"running", "done", "killed"} \cup Errors]
    BY <1>0 DEF Runs
  <2> QED BY <2>1, <2>2, <2>3 DEF Runs
<1>4. p \notin lock
  BY DEF Held
<1>5. Held'
  BY <1>0, <1>4 DEF Held, Running, Statement, Runs
<1>6. Drafted'
  BY <1>0 DEF Drafted
<1>7. Versioned'
  BY <1>0 DEF Versioned, Grown, Version
<1>8. Advanced'
  <2> SUFFICES ASSUME NEW q \in Processes
               PROVE  /\ pos'[q] \in 1 .. Len(Program[program'[q]])
                      /\ seen'[q] \subseteq disk'.columns
                      /\ outcome'[q] = "running" =>
                           \A i \in 1 .. pos'[q] - 1 : Passed(Program[program'[q]][i], disk')
    BY DEF Advanced, Running
  <2>1. \A s : Passed(s, disk) => Passed(s, d)
    BY PassedGrows DEF Grown
  <2>2. seen'[q] \subseteq disk'.columns
    BY <1>0
  <2>3. CASE q # p
    BY <2>1, <2>2, <2>3, <1>0 DEF Advanced, Running, Runs
  <2>4. CASE q = p /\ pos[p] < last
    <3>1. pos'[p] = pos[p] + 1 /\ outcome'[p] = outcome[p] /\ program'[p] = program[p]
      BY <1>0, <2>4 DEF Runs
    <3>2. \A i \in 1 .. pos[p] : i = pos[p] \/ i \in 1 .. pos[p] - 1
      BY <1>1
    <3>3. \A i \in 1 .. pos[p] : Passed(Program[program[p]][i], d)
      BY <3>2, <2>1 DEF Advanced, Statement
    <3> QED BY <2>2, <2>4, <3>1, <3>3, <1>0, <1>1
  <2>5. CASE q = p /\ ~(pos[p] < last)
    <3>1. outcome'[p] = "done" /\ pos' = pos /\ program' = program
      BY <1>0, <2>5 DEF Runs
    <3> QED BY <2>2, <2>5, <3>1, <1>1
  <2> QED BY <2>3, <2>4, <2>5
<1>9. Outcomes'
  <2> SUFFICES ASSUME NEW q \in Processes
               PROVE  /\ outcome'[q] # "no such column"
                      /\ outcome'[q] = "no such table" => program'[q] = "results"
                      /\ outcome'[q] = "done" /\ program'[q] = "scan" => disk'.tables = Table
    BY DEF Outcomes
  <2>1. disk.tables = Table => disk'.tables = Table
    BY <1>0, AllTables DEF Grown
  <2>2. program[p] = "scan" => last = 23
    BY Others, ScanFirst
  <2>3. outcome'[q] = outcome[q] \/ (q = p /\ outcome'[q] = "done" /\ ~(pos[p] < last))
    BY <1>0 DEF Runs
  <2>4. CASE outcome'[q] = outcome[q]
    BY <2>1, <2>4, <1>0 DEF Outcomes
  <2>5. CASE q = p /\ outcome'[q] = "done" /\ ~(pos[p] < last)
    <3>1. program[p] = "scan" => pos[p] = 23
      BY <1>1, <2>2, <2>5, Within
    <3> QED BY <2>5, <3>1, <1>0
  <2> QED BY <2>3, <2>4, <2>5
<1> HIDE DEF IInv
<1> QED BY <1>2, <1>3, <1>5, <1>6, <1>7, <1>8, <1>9 DEF IInv

LEMMA AlterStep ==
  ASSUME IInv, NEW p \in Processes, NEW d, Grown(disk, d), Alters(p, d),
         Running(p), Statement(p).do # "ensure", Passed(Statement(p), d),
         program[p] = "scan" /\ pos[p] = 23 => d.tables = Table
  PROVE  IInv'
<1>1. /\ disk' = d /\ ((lock = {}) \/ (d = disk)) /\ Advance(p)
      /\ lock' = lock /\ draft' = draft /\ level' = level /\ seen' = seen
  BY DEF Alters, transaction
<1>2. seen' \in [Processes -> SUBSET LateColumn]
  BY <1>1 DEF IInv, Runs
<1>3. \A q \in Processes : seen'[q] \subseteq d.columns
  BY <1>1 DEF IInv, Advanced, Grown
<1> QED BY <1>1, <1>2, <1>3, TakenStep

\* A process has ended with an error or has been killed.
LEMMA FailStep ==
  ASSUME IInv, NEW p \in Processes, NEW error \in Errors \cup {"killed"},
         Fails(p, error), disk' = disk,
         \/ (p \notin lock /\ lock' = lock /\ draft' = draft /\ level' = level)
         \/ (lock' = {} /\ draft' = NoDatabase /\ level' = 0),
         error # "no such column",
         error = "no such table" => program[p] = "results"
  PROVE  IInv'
<1> USE DEF IInv
<1>0. /\ outcome' = [outcome EXCEPT ![p] = error] /\ error # "running" /\ error # "done"
      /\ program' = program /\ pos' = pos /\ seen' = seen /\ disk' = disk
  BY DEF Fails, Errors
<1>1. \/ (p \notin lock /\ lock' = lock /\ draft' = draft /\ level' = level)
      \/ (lock' = {} /\ draft' = NoDatabase /\ level' = 0)
  OBVIOUS
<1>2. Files'
  <2>1. NoDatabase \in Database
    BY NothingYet
  <2>2. draft' = draft \/ draft' = NoDatabase
    BY <1>1
  <2> QED BY <1>0, <2>1, <2>2 DEF Files
<1>3. Runs'
  <2>1. lock' \subseteq Processes
    BY <1>1 DEF Runs
  <2>3. level' \in 0 .. CurrentVersion
    <3>1. level \in 0 .. CurrentVersion
      BY DEF Runs
    <3>2. 0 \in 0 .. CurrentVersion
      BY FirstLevel
    <3>3. level' = level \/ level' = 0
      BY <1>1
    <3> QED BY <3>1, <3>2, <3>3
  <2>2. outcome' \in [Processes -> {"running", "done", "killed"} \cup Errors]
    BY <1>0 DEF Runs
  <2> QED BY <1>0, <2>1, <2>2, <2>3 DEF Runs
<1>4. Held'
  BY <1>0, <1>1 DEF Held, Running, Statement, Runs
<1>5. Drafted'
  BY <1>0, <1>1 DEF Drafted
<1>6. Versioned'
  BY <1>0 DEF Versioned, Version, HasIdentity
<1>7. Advanced'
  BY <1>0 DEF Advanced, Running, Runs
<1>8. Outcomes'
  BY <1>0 DEF Outcomes, Runs
<1> HIDE DEF IInv
<1> QED BY <1>2, <1>3, <1>4, <1>5, <1>6, <1>7, <1>8 DEF IInv

LEMMA InitInv == Init => IInv
<1> SUFFICES ASSUME Init PROVE IInv
  OBVIOUS
<1> USE MigrationsAssumption
<1>1. Files
  BY DEF Init, Files, Database, NoDatabase, Unrecorded
<1>2. Runs
  BY DEF Init, Runs, CurrentVersion, Names
<1>3. Held /\ Drafted
  BY DEF Init, Held, Drafted
<1>4. Versioned
  BY DEF Init, Versioned
<1>5. Advanced
  BY Others DEF Init, Advanced, Running
<1>6. Outcomes
  BY DEF Init, Outcomes
<1> QED BY <1>1, <1>2, <1>3, <1>4, <1>5, <1>6 DEF IInv
-----------------------------------------------------------------------------
LEMMA Lengths ==
  \A name \in Names : Len(Program[name]) \in 1 .. 23 /\ 1 \in 1 .. Len(Program[name])
<1>1. \A name \in Names : Len(Program[name]) \in {2, 3, 23}
  BY Others, ScanFirst, Zenon DEF Names
<1>2. \A n \in {2, 3, 23} : n \in 1 .. 23 /\ 1 \in 1 .. n
  OBVIOUS
<1> QED BY <1>1, <1>2, Zenon

LEMMA StartStep ==
  ASSUME IInv, NEW p \in Processes, NEW name \in DOMAIN Program, Start(p, name)
  PROVE  IInv'
<1> USE DEF IInv
<1>0. /\ ~Running(p) /\ name \in Names
      /\ program' = [program EXCEPT ![p] = name] /\ pos' = [pos EXCEPT ![p] = 1]
      /\ seen' = [seen EXCEPT ![p] = {}] /\ outcome' = [outcome EXCEPT ![p] = "running"]
      /\ UNCHANGED <<disk, lock, draft, level>>
  BY Others DEF Start, transaction
<1>1. Files'
  BY <1>0 DEF Files
<1>2. Runs'
  <2>1. lock' \subseteq Processes /\ level' \in 0 .. CurrentVersion
    BY <1>0 DEF Runs
  <2>2. program' \in [Processes -> Names] /\ seen' \in [Processes -> SUBSET LateColumn]
    BY <1>0 DEF Runs
  <2>3. pos' \in [Processes -> 1 .. 23]
    <3>1. pos \in [Processes -> 1 .. 23]
      BY DEF Runs
    <3>2. 1 \in 1 .. 23
      OBVIOUS
    <3> QED BY <1>0, <3>1, <3>2
  <2>4. outcome' \in [Processes -> {"running", "done", "killed"} \cup Errors]
    BY <1>0 DEF Runs
  <2> QED BY <2>1, <2>2, <2>3, <2>4 DEF Runs
<1>3. Held'
  BY <1>0 DEF Held, Running, Statement, Runs
<1>4. Drafted' /\ Versioned'
  BY <1>0 DEF Drafted, Versioned, Version, HasIdentity
<1>5. Advanced'
  <2> SUFFICES ASSUME NEW q \in Processes
               PROVE  /\ pos'[q] \in 1 .. Len(Program[program'[q]])
                      /\ seen'[q] \subseteq disk'.columns
                      /\ outcome'[q] = "running" =>
                           \A i \in 1 .. pos'[q] - 1 : Passed(Program[program'[q]][i], disk')
    BY DEF Advanced, Running
  <2>1. CASE q # p
    BY <2>1, <1>0 DEF Advanced, Running, Runs
  <2>2. CASE q = p
    <3>1. pos'[p] = 1 /\ program'[p] = name /\ seen'[p] = {}
      BY <1>0 DEF Runs
    <3>2. 1 \in 1 .. Len(Program[name])
      BY <1>0, Lengths
    <3>3. 1 .. 1 - 1 = {}
      OBVIOUS
    <3> QED BY <2>2, <3>1, <3>2, <3>3
  <2> QED BY <2>1, <2>2
<1>6. Outcomes'
  BY <1>0 DEF Outcomes, Runs
<1> HIDE DEF IInv
<1> QED BY <1>1, <1>2, <1>3, <1>4, <1>5, <1>6 DEF IInv

LEMMA BeginStep ==
  ASSUME IInv, NEW p \in Processes, Begin(p)
  PROVE  IInv'
<1> USE DEF IInv
<1>1. CASE Version(disk) > CurrentVersion
  <2>1. /\ Fails(p, "newer") /\ disk' = disk /\ p \notin lock
        /\ lock' = lock /\ draft' = draft /\ level' = level
    BY <1>1 DEF Begin, transaction
  <2>2. "newer" \in Errors \cup {"killed"}
    BY DEF Errors
  <2> QED BY <2>1, <2>2, FailStep
<1>2. CASE ~(Version(disk) > CurrentVersion)
  <2>0. /\ Running(p) /\ Statement(p).do = "ensure" /\ lock = {}
        /\ lock' = {p} /\ draft' = disk /\ level' = Version(disk)
        /\ UNCHANGED <<disk, program, pos, seen, outcome>>
    BY <1>2 DEF Begin, Doing
  <2>1. Version(disk) \in 0 .. CurrentVersion
    BY <1>2 DEF Versioned, CurrentVersion
  <2>2. Files'
    BY <2>0 DEF Files
  <2>3. Runs'
    BY <2>0, <2>1 DEF Runs
  <2>4. Held'
    BY <2>0 DEF Held, Running, Statement
  <2>5. Drafted'
    <3>1. disk.recorded <= CurrentVersion
      <4>1. CASE disk.recorded = Unrecorded
        BY <4>1 DEF Unrecorded, CurrentVersion
      <4>2. CASE disk.recorded # Unrecorded
        BY <4>2, <2>1 DEF Version, CurrentVersion
      <4> QED BY <4>1, <4>2
    <3> QED BY <2>0, <3>1 DEF Drafted, Versioned
  <2>6. Versioned' /\ Outcomes'
    BY <2>0 DEF Versioned, Outcomes, Version, HasIdentity
  <2>7. Advanced'
    BY <2>0 DEF Advanced, Running
  <2> HIDE DEF IInv
  <2> QED BY <2>2, <2>3, <2>4, <2>5, <2>6, <2>7 DEF IInv
<1> QED BY <1>1, <1>2

LEMMA Migrated ==
  ASSUME NEW v \in 1 .. CurrentVersion, NEW d \in Database
  PROVE  /\ Migration(v, d) \in Database /\ Migration(v, d).tables = d.tables
         /\ d.columns \subseteq Migration(v, d).columns
         /\ v = 5 => HasIdentity(Migration(v, d))
<1> DEFINE names == {i[1] : i \in {j \in MigratedIndex(v) : j[2] \in d.tables /\ j[3] \subseteq d.columns}}
<1>1. names \in SUBSET IndexName
  BY MigratedIndexes
<1>2. CASE v = 5
  <2>1. "scan_runs" \in Table
    BY DEF Table
  <2>2. Late["scan_runs"] \in SUBSET LateColumn
    BY <2>1, LateColumns
  <2> HIDE DEF Late, LateColumn, Table
  <2>3. CASE "scan_runs" \in d.tables
    <3>1. Migration(v, d) = AddColumns(d, Late["scan_runs"])
      BY <1>2, <2>3 DEF Migration
    <3> QED BY <3>1, <2>2, Statically DEF Grown, HasIdentity
  <2>4. CASE "scan_runs" \notin d.tables
    <3>1. Migration(v, d) = d
      BY <1>2, <2>4 DEF Migration
    <3> QED BY <3>1, <2>4 DEF HasIdentity
  <2> QED BY <2>3, <2>4
<1>3. CASE v # 5
  <2>1. Migration(v, d) = CreateIndexes(d, names)
    BY <1>3 DEF Migration
  <2> HIDE DEF names, Late, LateColumn, Table
  <2> QED BY <1>1, <1>3, <2>1, Statically DEF Grown
<1> QED BY <1>2, <1>3

LEMMA MigrateStep ==
  ASSUME IInv, NEW p \in Processes, Migrate(p)
  PROVE  IInv'
<1> USE DEF IInv
<1>0. /\ p \in lock /\ level < CurrentVersion /\ draft' = Migration(level + 1, draft)
      /\ level' = level + 1 /\ UNCHANGED <<disk, lock, program, pos, seen, outcome>>
  BY DEF Migrate
<1>1. level + 1 \in 1 .. CurrentVersion /\ level + 1 \in 0 .. CurrentVersion
  BY <1>0 DEF Runs, CurrentVersion
<1>2. /\ draft' \in Database /\ draft'.tables = draft.tables
      /\ draft.columns \subseteq draft'.columns
      /\ level' = CurrentVersion => HasIdentity(draft')
  BY <1>0, <1>1, Migrated DEF Files, CurrentVersion
<1>3. Files'
  BY <1>0, <1>2 DEF Files
<1>4. Runs'
  BY <1>0, <1>1 DEF Runs
<1>5. Held'
  BY <1>0 DEF Held, Running, Statement
<1>6. Drafted'
  BY <1>0, <1>2 DEF Drafted
<1>7. Versioned' /\ Outcomes'
  BY <1>0 DEF Versioned, Outcomes, Version, HasIdentity
<1>8. Advanced'
  BY <1>0 DEF Advanced, Running
<1> HIDE DEF IInv
<1> QED BY <1>3, <1>4, <1>5, <1>6, <1>7, <1>8 DEF IInv

LEMMA Stamped ==
  ASSUME NEW d \in Database
  PROVE  LET e == [d EXCEPT !.recorded = CurrentVersion, !.native = CurrentVersion]
         IN  /\ e \in Database /\ e.tables = d.tables /\ e.columns = d.columns
             /\ e.recorded = CurrentVersion /\ e.native = CurrentVersion
<1>1. CurrentVersion \in Int
  BY DEF CurrentVersion
<1> QED BY <1>1 DEF Database

LEMMA CommitStep ==
  ASSUME IInv, NEW p \in Processes, Commit(p)
  PROVE  IInv'
<1> USE DEF IInv
<1> DEFINE last == Len(Program[program[p]])
<1>0. /\ p \in lock /\ level = CurrentVersion
      /\ disk' = [draft EXCEPT !.recorded = CurrentVersion, !.native = CurrentVersion]
      /\ lock' = {} /\ draft' = NoDatabase /\ level' = 0
      /\ program' = program /\ seen' = seen
      /\ \/ (pos[p] < last /\ pos' = [pos EXCEPT ![p] = @ + 1] /\ outcome' = outcome)
         \/ (~(pos[p] < last) /\ outcome' = [outcome EXCEPT ![p] = "done"] /\ pos' = pos)
  BY DEF Commit, Unlocked, Advance
<1>1. /\ last \in 1 .. 23 /\ pos[p] \in 1 .. last /\ program[p] \in Names
  BY Statements DEF Advanced, Runs
<1>2. /\ disk' \in Database /\ disk'.recorded = CurrentVersion /\ disk'.native = CurrentVersion
      /\ disk'.tables = disk.tables /\ disk.columns \subseteq disk'.columns
      /\ HasIdentity(disk')
  <2>1. /\ disk'.tables = draft.tables /\ disk'.columns = draft.columns
        /\ disk'.recorded = CurrentVersion /\ disk'.native = CurrentVersion
        /\ disk' \in Database
    BY <1>0, Stamped DEF Files
  <2>2. lock # {}
    BY <1>0
  <2> QED BY <1>0, <2>1, <2>2 DEF Drafted, HasIdentity
<1>3. Running(p) /\ Statement(p).do = "ensure" /\ \A q \in lock : q = p
  BY <1>0 DEF Held
<1>4. Files'
  BY <1>0, <1>2, NothingYet DEF Files
<1>5. Runs'
  <2>1. lock' \subseteq Processes /\ program' \in [Processes -> Names]
        /\ seen' \in [Processes -> SUBSET LateColumn]
    BY <1>0 DEF Runs
  <2>2. level' \in 0 .. CurrentVersion
    BY <1>0, FirstLevel
  <2>3. outcome' \in [Processes -> {"running", "done", "killed"} \cup Errors]
    BY <1>0 DEF Runs
  <2>4. pos' \in [Processes -> 1 .. 23]
    <3>1. pos \in [Processes -> 1 .. 23]
      BY DEF Runs
    <3>2. CASE pos[p] < last /\ pos' = [pos EXCEPT ![p] = @ + 1]
      <4>1. pos[p] + 1 \in 1 .. 23
        BY <1>1, <3>2, Within
      <4> HIDE DEF last, IInv
      <4> QED BY <3>1, <3>2, <4>1
    <3> QED BY <1>0, <3>1, <3>2
  <2> QED BY <2>1, <2>2, <2>3, <2>4 DEF Runs
<1>6. Held' /\ Drafted'
  BY <1>0 DEF Held, Drafted
<1>7. Versioned'
  BY <1>2 DEF Versioned, Version, CurrentVersion, Unrecorded
<1>8. Advanced'
  <2> SUFFICES ASSUME NEW q \in Processes
               PROVE  /\ pos'[q] \in 1 .. Len(Program[program'[q]])
                      /\ seen'[q] \subseteq disk'.columns
                      /\ outcome'[q] = "running" =>
                           \A i \in 1 .. pos'[q] - 1 : Passed(Program[program'[q]][i], disk')
    BY DEF Advanced, Running
  <2>1. \A s : Passed(s, disk) => Passed(s, disk')
    BY <1>2, PassedGrows
  <2>2. seen'[q] \subseteq disk'.columns
    BY <1>0, <1>2 DEF Advanced
  <2>3. CASE q # p
    BY <2>1, <2>2, <2>3, <1>0 DEF Advanced, Running, Runs
  <2>4. CASE q = p /\ pos[p] < last
    <3>1. pos'[p] = pos[p] + 1 /\ outcome'[p] = outcome[p] /\ program'[p] = program[p]
      BY <1>0, <2>4 DEF Runs
    <3>2. \A i \in 1 .. pos[p] : i = pos[p] \/ i \in 1 .. pos[p] - 1
      BY <1>1
    <3>3. Passed(Program[program[p]][pos[p]], disk')
      BY <1>2, <1>3 DEF Passed, Statement
    <3>4. \A i \in 1 .. pos[p] : Passed(Program[program[p]][i], disk')
      BY <3>2, <3>3, <2>1, <1>3 DEF Advanced
    <3> QED BY <2>2, <2>4, <3>1, <3>4, <1>0, <1>1
  <2>5. CASE q = p /\ ~(pos[p] < last)
    <3>1. outcome'[p] = "done" /\ pos' = pos /\ program' = program
      BY <1>0, <2>5 DEF Runs
    <3> QED BY <2>2, <2>5, <3>1, <1>1
  <2> QED BY <2>3, <2>4, <2>5
<1>9. Outcomes'
  <2> SUFFICES ASSUME NEW q \in Processes
               PROVE  /\ outcome'[q] # "no such column"
                      /\ outcome'[q] = "no such table" => program'[q] = "results"
                      /\ outcome'[q] = "done" /\ program'[q] = "scan" => disk'.tables = Table
    BY DEF Outcomes
  <2>1. CASE outcome'[q] = outcome[q]
    BY <2>1, <1>0, <1>2 DEF Outcomes
  <2>2. CASE q = p /\ outcome'[q] = "done" /\ ~(pos[p] < last)
    <3>1. program[p] = "scan" => pos[p] = 23
      <4>1. program[p] = "scan" => last = 23
        BY Others, ScanFirst
      <4> QED BY <1>1, <2>2, <4>1, Within
    <3>2. program[p] # "scan"
      BY <1>3, <3>1, Others, ScanSecond DEF Statement, Use
    <3> QED BY <2>2, <3>2, <1>0
  <2>3. outcome'[q] = outcome[q] \/ (q = p /\ outcome'[q] = "done" /\ ~(pos[p] < last))
    BY <1>0 DEF Runs
  <2> QED BY <2>1, <2>2, <2>3
<1> HIDE DEF IInv
<1> QED BY <1>4, <1>5, <1>6, <1>7, <1>8, <1>9 DEF IInv
-----------------------------------------------------------------------------
(* The statements of the stores.                                           *)

LEMMA Kinds ==
  /\ Ensure.do # "use" /\ \A ts : Use(ts).do = "use" /\ Use(ts).tables = ts
  /\ \A t : Create(t).do = "create" /\ Create(t).table = t /\ Look(t).do # "use"
  /\ \A name : Index(name).do # "use"
  /\ \A c : Column(c).do = "column" /\ Column(c).column = c
BY DEF Ensure, Create, Index, Look, Column, Use

\* Where a program uses tables, and which.
LEMMA UseAt ==
  ASSUME NEW name \in Names, NEW i \in 1 .. Len(Program[name]), Program[name][i].do = "use"
  PROVE  \/ (name = "scan" /\ i = 23 /\ Program[name][i].tables = Table)
         \/ (Program[name][i].tables = {"scan_runs"} /\ i # 1
             /\ (name = "scan" => i = 20) /\ (name = "runs" => i = 3))
<1> HIDE DEF Scan, Program, Table, Ensure, Create, Index, Look, Column, Use
<1>1. CASE name = "scan"
  <2>1. i \in 1 .. 23 /\ Scan[i].do = "use"
    BY <1>1, Others, ScanFirst
  <2>2. i \in 1 .. 12 \/ i \in 13 .. 18 \/ i \in 19 .. 23
    BY <2>1
  <2>3. i \notin 1 .. 12
    BY <2>1, ScanFirst, Kinds
  <2>4. i \notin 13 .. 18
    BY <2>1, ScanSecond, Kinds
  <2>5. i = 20 \/ i = 23
    BY <2>1, <2>2, <2>3, <2>4, ScanSecond, Kinds
  <2>6. Scan[20].tables = {"scan_runs"} /\ Scan[23].tables = Table
    BY ScanSecond, Kinds
  <2> QED BY <1>1, <2>5, <2>6, Others
<1>2. CASE name = "runs"
  <2>1. i \in 1 .. 3
    BY <1>2, Others
  <2>2. i # 1 /\ i # 2
    BY <1>2, Others, Kinds
  <2>3. i = 3
    BY <2>1, <2>2
  <2> QED BY <1>2, <2>3, Others, Kinds
<1>3. CASE name = "results"
  <2>1. i \in 1 .. 2
    BY <1>3, Others
  <2>2. i # 1
    BY <1>3, Others, Kinds
  <2>3. i = 2
    BY <2>1, <2>2
  <2> QED BY <1>3, <2>3, Others, Kinds
<1> QED BY <1>1, <1>2, <1>3 DEF Names

\* The statement of a running process is one of its program.
LEMMA AtStatement ==
  ASSUME IInv, NEW p \in Processes
  PROVE  /\ program[p] \in Names /\ pos[p] \in 1 .. Len(Program[program[p]])
         /\ WellFormed(Statement(p))
         /\ program[p] = "scan" /\ pos[p] = 23 => Statement(p).do = "use"
<1>1. program[p] \in Names /\ pos[p] \in 1 .. Len(Program[program[p]])
  BY DEF IInv, Advanced, Runs
<1>2. WellFormed(Statement(p))
  BY <1>1, Statements DEF Statement
<1>3. program[p] = "scan" /\ pos[p] = 23 => Statement(p).do = "use"
  BY Others, ScanSecond, Kinds DEF Statement
<1> QED BY <1>1, <1>2, <1>3

LEMMA CreateStep ==
  ASSUME IInv, NEW p \in Processes, CreateIfMissing(p)
  PROVE  IInv'
<1> DEFINE d == CreateTable(disk, Statement(p).table)
<1>1. Running(p) /\ Statement(p).do = "create" /\ Alters(p, d)
  BY DEF CreateIfMissing, Doing
<1>2. Statement(p).table \in Table
  BY <1>1, AtStatement DEF WellFormed
<1>3. Grown(disk, d) /\ Statement(p).table \in d.tables
  BY <1>2, Statically DEF IInv, Files
<1>4. Passed(Statement(p), d)
  BY <1>1, <1>3 DEF Passed
<1>5. ~(program[p] = "scan" /\ pos[p] = 23)
  BY <1>1, AtStatement
<1> HIDE DEF d
<1> QED BY <1>1, <1>3, <1>4, <1>5, AlterStep

LEMMA IndexStep ==
  ASSUME IInv, NEW p \in Processes, IndexIfMissing(p)
  PROVE  IInv'
<1> DEFINE d == CreateIndexes(disk, {Statement(p).name})
<1>1. Running(p) /\ Statement(p).do = "index" /\ Alters(p, d)
  BY DEF IndexIfMissing, Doing
<1>2. {Statement(p).name} \in SUBSET IndexName
  BY <1>1, AtStatement, MigratedIndexes DEF WellFormed
<1>3. Grown(disk, d)
  BY <1>2, Statically DEF IInv, Files
<1>4. Passed(Statement(p), d)
  BY <1>1 DEF Passed
<1>5. ~(program[p] = "scan" /\ pos[p] = 23)
  BY <1>1, AtStatement
<1> HIDE DEF d
<1> QED BY <1>1, <1>3, <1>4, <1>5, AlterStep

LEMMA LookStep ==
  ASSUME IInv, NEW p \in Processes, LookAt(p)
  PROVE  IInv'
<1> DEFINE cs == Late[Statement(p).table] \cap disk.columns
<1>1. /\ Running(p) /\ Statement(p).do = "look" /\ Advance(p) /\ seen' = [seen EXCEPT ![p] = cs]
      /\ disk' = disk /\ lock' = lock /\ draft' = draft /\ level' = level
  BY DEF LookAt, Doing, transaction
<1>2. cs \in SUBSET LateColumn /\ cs \subseteq disk.columns
  BY <1>1, AtStatement, LateColumns DEF WellFormed
<1> HIDE DEF cs
<1>3. seen' \in [Processes -> SUBSET LateColumn]
  BY <1>1, <1>2 DEF IInv, Runs
<1>4. \A q \in Processes : seen'[q] \subseteq disk.columns
  BY <1>1, <1>2 DEF IInv, Runs, Advanced
<1>5. Passed(Statement(p), disk) /\ ~(program[p] = "scan" /\ pos[p] = 23)
  BY <1>1, AtStatement DEF Passed
<1>6. Grown(disk, disk)
  BY Statically DEF IInv, Files
<1> QED BY <1>1, <1>3, <1>4, <1>5, <1>6, TakenStep

LEMMA ColumnStep ==
  ASSUME IInv, NEW p \in Processes, ColumnIfMissing(p)
  PROVE  IInv'
<1> DEFINE c == Statement(p).column
<1>1. /\ Running(p) /\ Statement(p).do = "column"
      /\ \/ (c \in seen[p] /\ Alters(p, disk))
         \/ Alters(p, AddColumns(disk, {c}))
         \/ (Fails(p, "duplicate column") /\ UNCHANGED <<disk, transaction>>)
  BY DEF ColumnIfMissing, Doing
<1>2. {c} \in SUBSET LateColumn /\ ~(program[p] = "scan" /\ pos[p] = 23)
  BY <1>1, AtStatement DEF WellFormed
<1>3. CASE c \in seen[p] /\ Alters(p, disk)
  <2>1. Grown(disk, disk)
    BY Statically DEF IInv, Files
  <2>2. c \in disk.columns
    BY <1>3 DEF IInv, Advanced
  <2>3. Passed(Statement(p), disk)
    BY <1>1, <2>2 DEF Passed
  <2> QED BY <1>1, <1>2, <1>3, <2>1, <2>3, AlterStep
<1>4. CASE Alters(p, AddColumns(disk, {c}))
  <2>1. Grown(disk, AddColumns(disk, {c})) /\ c \in AddColumns(disk, {c}).columns
    BY <1>2, Statically DEF IInv, Files
  <2>2. Passed(Statement(p), AddColumns(disk, {c}))
    BY <1>1, <2>1 DEF Passed
  <2> QED BY <1>1, <1>2, <1>4, <2>1, <2>2, AlterStep
<1>5. CASE Fails(p, "duplicate column") /\ UNCHANGED <<disk, transaction>>
  <2>1. disk' = disk /\ lock' = lock /\ draft' = draft /\ level' = level
    BY <1>5 DEF transaction
  <2>2. p \notin lock
    BY <1>1 DEF IInv, Held
  <2>3. "duplicate column" \in Errors \cup {"killed"}
    BY DEF Errors
  <2> QED BY <1>5, <2>1, <2>2, <2>3, FailStep
<1> QED BY <1>1, <1>3, <1>4, <1>5

\* What a process has done before its last statement.
LEMMA Prepared ==
  ASSUME IInv, NEW p \in Processes, Running(p), program[p] = "scan", pos[p] = 23
  PROVE  disk.tables = Table /\ UNION {Late[t] : t \in Table} \subseteq disk.columns
<1>1. \A i \in 1 .. 22 : Passed(Scan[i], disk)
  <2>1. pos[p] - 1 = 22
    OBVIOUS
  <2> QED BY <2>1, Others DEF IInv, Advanced
<1>2. /\ Passed(Create("nodes"), disk) /\ Passed(Create("relationships"), disk)
      /\ Passed(Create("evidence"), disk) /\ Passed(Column("scan_run_id"), disk)
      /\ Passed(Ensure, disk)
  BY <1>1, ScanFirst
<1>3. /\ Passed(Create("event_log"), disk) /\ Passed(Create("scan_runs"), disk)
      /\ Passed(Create("scan_assets"), disk) /\ Passed(Column("error"), disk)
      /\ Passed(Column("attempts"), disk) /\ Passed(Column("next_attempt_at"), disk)
  BY <1>1, ScanSecond
<1>4. {"nodes", "relationships", "evidence", "event_log", "scan_runs", "scan_assets"}
        \subseteq disk.tables
  BY <1>2, <1>3, Kinds DEF Passed
<1>5. disk.tables = Table
  BY <1>4 DEF IInv, Files, Database, Table
<1>6. {"scan_run_id", "error", "attempts", "next_attempt_at"} \subseteq disk.columns
  BY <1>2, <1>3, Kinds DEF Passed
<1>7. Late["scan_runs"] \subseteq disk.columns
  <2>1. disk.recorded = CurrentVersion
    BY <1>2 DEF Passed, Ensure
  <2>2. HasIdentity(disk)
    BY <2>1 DEF IInv, Versioned, Version, CurrentVersion, Unrecorded
  <2> QED BY <1>4, <2>2 DEF HasIdentity
<1>8. \A t \in Table : Late[t] \subseteq disk.columns
  <2> SUFFICES ASSUME NEW t \in Table PROVE Late[t] \subseteq disk.columns
    OBVIOUS
  <2>1. CASE t = "evidence"
    BY <1>6, <2>1, LateColumns
  <2>2. CASE t = "event_log"
    BY <1>6, <2>2, LateColumns
  <2>3. CASE t = "scan_runs"
    BY <1>7, <2>3
  <2>4. CASE t \notin {"evidence", "event_log", "scan_runs"}
    BY <2>4, LateColumns
  <2> QED BY <2>1, <2>2, <2>3, <2>4
<1> QED BY <1>5, <1>8

LEMMA UseStep ==
  ASSUME IInv, NEW p \in Processes, UseTables(p)
  PROVE  IInv'
<1> DEFINE ts == Statement(p).tables
           cs == UNION {Late[t] : t \in ts}
<1>1. /\ Running(p) /\ Statement(p).do = "use"
      /\ \/ (ts \subseteq disk.tables /\ Alters(p, disk))
         \/ (~(ts \subseteq disk.tables) /\ Fails(p, "no such table")
             /\ UNCHANGED <<disk, transaction>>)
         \/ (ts \subseteq disk.tables /\ ~(cs \subseteq disk.columns))
  BY DEF UseTables, Doing
<1>2. \/ (program[p] = "scan" /\ pos[p] = 23 /\ ts = Table)
      \/ (ts = {"scan_runs"} /\ pos[p] # 1
          /\ (program[p] = "scan" => pos[p] = 20) /\ (program[p] = "runs" => pos[p] = 3))
  BY <1>1, AtStatement, UseAt, ZenonT(30) DEF Statement
<1>3. pos[p] \in 1 .. 23 /\ \A i \in 1 .. pos[p] - 1 : Passed(Program[program[p]][i], disk)
  BY <1>1 DEF IInv, Advanced, Runs
<1>4. ts \subseteq disk.tables => cs \subseteq disk.columns
  <2>1. CASE program[p] = "scan" /\ pos[p] = 23 /\ ts = Table
    BY <1>1, <2>1, Prepared
  <2>2. CASE ts = {"scan_runs"} /\ pos[p] # 1
    <3>1. Program[program[p]][1] = Ensure
      BY AtStatement, Lengths, Statements
    <3>2. 1 \in 1 .. pos[p] - 1
      BY <1>3, <2>2
    <3>3. disk.recorded = CurrentVersion
      BY <1>3, <3>1, <3>2 DEF Passed, Ensure
    <3>4. HasIdentity(disk)
      BY <3>3 DEF IInv, Versioned, Version, CurrentVersion, Unrecorded
    <3> QED BY <2>2, <3>4 DEF HasIdentity
  <2> QED BY <1>2, <2>1, <2>2
<1>5. program[p] # "results" => ts \subseteq disk.tables
  <2>1. CASE program[p] = "scan" /\ pos[p] = 23
    <3>1. ts = Table
      <4>1. 23 # 20
        OBVIOUS
      <4> HIDE DEF ts
      <4> QED BY <1>2, <2>1, <4>1
    <3>2. disk.tables = Table
      BY <1>1, <2>1, Prepared
    <3> QED BY <3>1, <3>2
  <2>2. CASE program[p] = "scan" /\ pos[p] = 20
    <3>1. Passed(Scan[19], disk)
      BY <1>3, <2>2, Others
    <3> QED BY <1>2, <2>2, <3>1, ScanSecond, Kinds DEF Passed
  <2>3. CASE program[p] = "runs" /\ pos[p] = 3
    <3>1. Passed(Program["runs"][2], disk)
      BY <1>3, <2>3
    <3> QED BY <1>2, <2>3, <3>1, Others, Kinds DEF Passed
  <2> QED BY <1>2, <2>1, <2>2, <2>3, AtStatement DEF Names
<1> HIDE DEF ts, cs
<1>6. CASE ts \subseteq disk.tables /\ Alters(p, disk)
  <2>1. Grown(disk, disk)
    BY Statically DEF IInv, Files
  <2>2. Passed(Statement(p), disk)
    BY <1>1 DEF Passed
  <2>3. program[p] = "scan" /\ pos[p] = 23 => disk.tables = Table
    BY <1>1, Prepared
  <2> QED BY <1>1, <1>6, <2>1, <2>2, <2>3, AlterStep
<1>7. CASE ~(ts \subseteq disk.tables) /\ Fails(p, "no such table") /\ UNCHANGED <<disk, transaction>>
  <2>1. disk' = disk /\ lock' = lock /\ draft' = draft /\ level' = level
    BY <1>7 DEF transaction
  <2>2. p \notin lock
    BY <1>1 DEF IInv, Held
  <2>3. "no such table" \in Errors \cup {"killed"} /\ program[p] = "results"
    BY <1>5, <1>7 DEF Errors
  <2> QED BY <1>7, <2>1, <2>2, <2>3, FailStep
<1> QED BY <1>1, <1>4, <1>6, <1>7

LEMMA EndStep ==
  ASSUME IInv, NEW p \in Processes, Locked(p) \/ Crash(p)
  PROVE  IInv'
<1>1. CASE Locked(p)
  <2>1. /\ Fails(p, "locked") /\ p \notin lock
        /\ disk' = disk /\ lock' = lock /\ draft' = draft /\ level' = level
    BY <1>1 DEF Locked, transaction
  <2>2. "locked" \in Errors \cup {"killed"}
    BY DEF Errors
  <2> QED BY <2>1, <2>2, FailStep
<1>2. CASE Crash(p)
  <2>1. /\ Fails(p, "killed") /\ disk' = disk
        /\ \/ (p \notin lock /\ lock' = lock /\ draft' = draft /\ level' = level)
           \/ (lock' = {} /\ draft' = NoDatabase /\ level' = 0)
    BY <1>2 DEF Crash, transaction, Unlocked
  <2> QED BY <2>1, FailStep
<1> QED BY <1>1, <1>2

LEMMA NextInv == IInv /\ [Next]_vars => IInv'
<1> SUFFICES ASSUME IInv, [Next]_vars PROVE IInv'
  OBVIOUS
<1>1. CASE Next
  <2> PICK p \in Processes :
        \/ \E name \in DOMAIN Program : Start(p, name)
        \/ Begin(p) \/ Migrate(p) \/ Commit(p)
        \/ CreateIfMissing(p) \/ IndexIfMissing(p) \/ LookAt(p) \/ ColumnIfMissing(p) \/ UseTables(p)
        \/ Locked(p) \/ Crash(p)
    BY <1>1, Zenon DEF Next
  <2> QED BY StartStep, BeginStep, MigrateStep, CommitStep, CreateStep, IndexStep, LookStep,
             ColumnStep, UseStep, EndStep
<1>2. CASE UNCHANGED vars
  <2>1. /\ disk' = disk /\ lock' = lock /\ draft' = draft /\ level' = level
        /\ program' = program /\ pos' = pos /\ seen' = seen /\ outcome' = outcome
    BY <1>2 DEF vars, transaction
  <2>2. Files' /\ Runs'
    BY <2>1 DEF IInv, Files, Runs
  <2>3. Held' /\ Drafted'
    BY <2>1 DEF IInv, Held, Drafted, Running, Statement
  <2>4. Versioned' /\ Outcomes'
    BY <2>1 DEF IInv, Versioned, Outcomes, Version, HasIdentity
  <2>5. Advanced'
    BY <2>1 DEF IInv, Advanced, Running
  <2> QED BY <2>2, <2>3, <2>4, <2>5 DEF IInv
<1> QED BY <1>1, <1>2

LEMMA SpecInv == Spec => []IInv
BY InitInv, NextInv, PTL DEF Spec
-----------------------------------------------------------------------------
(***************************************************************************)
(* Every value stays in its type, whoever migrates and whatever is killed  *)
(* (db.py, the stores' init()).                                            *)
(***************************************************************************)
THEOREM SchemaTypeCorrect == Spec => []TypeOK
<1>1. IInv => TypeOK
  BY TypeFromParts DEF IInv
<1> QED BY <1>1, SpecInv, PTL

(***************************************************************************)
(* A database of the current version has the identity columns, so that no  *)
(* process ever misses a column, and a scan that went ahead has all the    *)
(* tables (db.py 141-159 and 210-238, the stores' init()).                 *)
(***************************************************************************)
THEOREM SchemaIsComplete == Spec => []SchemaComplete
<1>1. IInv => SchemaComplete
  <2> SUFFICES ASSUME IInv PROVE SchemaComplete
    OBVIOUS
  <2>1. disk.recorded = CurrentVersion => Version(disk) = CurrentVersion
    BY DEF Version, CurrentVersion, Unrecorded
  <2> QED BY <2>1 DEF IInv, Versioned, Outcomes, SchemaComplete
<1> QED BY <1>1, SpecInv, PTL

LEMMA NewerStep ==
  ASSUME IInv, Next
  PROVE  /\ disk.recorded > CurrentVersion => disk' = disk
         /\ disk'.recorded >= disk.recorded
<1>0. disk.recorded \in Int
  BY DEF IInv, Files, Database
<1>1. PICK p \in Processes :
        \/ \E name \in DOMAIN Program : Start(p, name)
        \/ Begin(p) \/ Migrate(p) \/ Commit(p)
        \/ CreateIfMissing(p) \/ IndexIfMissing(p) \/ LookAt(p) \/ ColumnIfMissing(p) \/ UseTables(p)
        \/ Locked(p) \/ Crash(p)
  BY Zenon DEF Next
<1>2. CASE disk' = disk
  BY <1>0, <1>2
<1>3. CASE Commit(p)
  <2>1. disk.recorded <= CurrentVersion
    BY <1>3 DEF Commit, IInv, Drafted
  <2>2. disk'.recorded = CurrentVersion
    <3>1. disk' = [draft EXCEPT !.recorded = CurrentVersion, !.native = CurrentVersion]
      BY <1>3 DEF Commit
    <3> QED BY <3>1, Stamped DEF IInv, Files
  <2> QED BY <1>0, <2>1, <2>2 DEF CurrentVersion
<1>4. CASE (CreateIfMissing(p) \/ IndexIfMissing(p)) \/ ColumnIfMissing(p)
  <2>1. PICK d \in Database : disk' = d /\ Grown(disk, d)
    <3>1. CASE CreateIfMissing(p)
      BY <3>1, AtStatement, Statically
      DEF CreateIfMissing, Doing, Alters, WellFormed, IInv, Files, Grown
    <3>2. CASE IndexIfMissing(p)
      <4>1. {Statement(p).name} \in SUBSET IndexName
        BY <3>2, AtStatement, MigratedIndexes DEF IndexIfMissing, Doing, WellFormed
      <4> QED BY <3>2, <4>1, Statically
          DEF IndexIfMissing, Doing, Alters, IInv, Files, Grown
    <3>3. CASE ColumnIfMissing(p)
      <4>1. {Statement(p).column} \in SUBSET LateColumn
        BY <3>3, AtStatement DEF ColumnIfMissing, Doing, WellFormed
      <4>2. disk' = disk \/ disk' = AddColumns(disk, {Statement(p).column})
        BY <3>3 DEF ColumnIfMissing, Alters
      <4> QED BY <4>1, <4>2, Statically DEF IInv, Files, Grown
    <3> QED BY <1>4, <3>1, <3>2, <3>3
  <2>2. Running(p) /\ Statement(p).do # "ensure"
    BY <1>4 DEF CreateIfMissing, IndexIfMissing, ColumnIfMissing, Doing
  <2>3. disk.recorded = CurrentVersion
    <3>1. Program[program[p]][1] = Ensure
      BY AtStatement, Lengths, Statements
    <3>2. pos[p] # 1 /\ pos[p] \in 1 .. 23
      BY <2>2, <3>1 DEF Statement, Ensure, IInv, Runs
    <3>3. 1 \in 1 .. pos[p] - 1
      BY <3>2
    <3> QED BY <2>2, <3>1, <3>3 DEF IInv, Advanced, Passed, Ensure
  <2> QED BY <1>0, <2>1, <2>3 DEF Grown, CurrentVersion
<1>5. disk' = disk \/ Commit(p) \/ (CreateIfMissing(p) \/ IndexIfMissing(p)) \/ ColumnIfMissing(p)
  BY <1>1 DEF Start, Begin, Migrate, LookAt, UseTables, Alters, Locked, Crash
<1> QED BY <1>2, <1>3, <1>4, <1>5

(***************************************************************************)
(* A newer version's database is left as it was and no version is taken    *)
(* back: nothing is altered before ensure_schema_version has let the       *)
(* process pass, and its transaction excludes every other writer           *)
(* (db.py 210-238).                                                        *)
(***************************************************************************)
THEOREM NewerIsUntouched == Spec => NewerUntouched
<1>1. IInv /\ [Next]_vars
        => [ /\ disk.recorded > CurrentVersion => disk' = disk
             /\ disk'.recorded >= disk.recorded ]_vars
  BY NewerStep DEF vars
<1> QED BY <1>1, SpecInv, PTL DEF Spec, NewerUntouched

-----------------------------------------------------------------------------
(* What is read back from a database.                                      *)

IsDatabase(db) ==
  /\ Len(db.assets) \in Nat /\ DOMAIN db.assets = 1 .. Len(db.assets)
  /\ \A i \in DOMAIN db.assets : db.assets[i].ok \in BOOLEAN /\ db.assets[i].first \in Nat
  /\ \A o \in db.owned : o.row \in DOMAIN db.assets
  /\ Len(db.evidence) \in Nat /\ DOMAIN db.evidence = 1 .. Len(db.evidence)
  /\ \A i \in DOMAIN db.evidence : db.evidence[i].ok \in BOOLEAN /\ db.evidence[i].subjects \in Nat
  /\ \A p \in UNION {s.plugins : s \in Signal} : db.seconds[p] \in Nat

\* The numbers of a set as a sequence.
Ascends(list, S) ==
  /\ list \in Seq(S) /\ Len(list) = Cardinality(S) /\ Cardinality(S) \in Nat
  /\ DOMAIN list = 1 .. Cardinality(S) /\ Range(list) = S
  /\ \A i, j \in DOMAIN list : i < j => list[i] < list[j]

LEMMA SortedAscends ==
  ASSUME NEW S, S \subseteq Nat, IsFiniteSet(S)
  PROVE  Ascends(Sorted(S), S)
<1> DEFINE n == Cardinality(S)
           list == Sorted(S)
<1>1. /\ n \in Nat /\ list \in [1 .. n -> S]
      /\ \A i, j \in 1 .. n : i < j => list[i] < list[j]
      /\ \A m \in S : \E i \in 1 .. n : list[i] = m
  BY SortedList
<1> HIDE DEF n, list
<1>2. list \in Seq(S) /\ Len(list) = n /\ DOMAIN list = 1 .. n
  BY <1>1
<1>3. Range(list) = S
  BY <1>1 DEF Range
<1> QED BY <1>1, <1>2, <1>3 DEF Ascends, n, list

\* The place of a number in it.
LEMMA SortedPlace ==
  ASSUME NEW S, S \subseteq Nat, IsFiniteSet(S), NEW k \in 1 .. Cardinality(S), NEW n \in S,
         Cardinality({m \in S : m < n}) = k - 1
  PROVE  Sorted(S)[k] = n
<1> DEFINE below == [x \in S |-> Cardinality({m \in S : m < x})]
           x == CHOOSE i \in S : Cardinality({m \in S : m < i}) = k - 1
<1>1. /\ Cardinality(S) \in Nat
      /\ \A m \in S : below[m] \in 0 .. Cardinality(S) - 1
      /\ \A l, m \in S : l < m => below[l] < below[m]
  BY Ranks
<1>2. x \in S /\ Cardinality({m \in S : m < x}) = k - 1
  OBVIOUS
<1>3. Sorted(S)[k] = x
  BY DEF Sorted
<1> HIDE DEF x
<1>4. below[x] = below[n]
  BY <1>2
<1> HIDE DEF below
<1>5. x \in Nat /\ below[x] \in Int
  BY <1>1, <1>2
<1>6. ~(x < n) /\ ~(n < x)
  BY <1>1, <1>2, <1>4, <1>5
<1> QED BY <1>3, <1>5, <1>6

\* The least numbers of a set come first.
LEMMA SortedStart ==
  ASSUME NEW U, U \subseteq Nat, IsFiniteSet(U), NEW T, T \subseteq U,
         \A t \in T, u \in U \ T : t < u
  PROVE  /\ Cardinality(T) <= Cardinality(U)
         /\ \A k \in 1 .. Cardinality(T) : Sorted(T)[k] = Sorted(U)[k]
<1>1. /\ IsFiniteSet(T) /\ T \subseteq Nat /\ Cardinality(T) <= Cardinality(U)
      /\ Cardinality(T) \in Nat /\ Cardinality(U) \in Nat
  BY FS_Subset, FS_CardinalityType
<1>2. ASSUME NEW k \in 1 .. Cardinality(T) PROVE Sorted(T)[k] = Sorted(U)[k]
  <2> DEFINE below == [n \in T |-> Cardinality({m \in T : m < n})]
  <2>1. \A j \in 0 .. Cardinality(T) - 1 : \E n \in T : below[n] = j
    BY <1>1, Ranks
  <2>2. k - 1 \in 0 .. Cardinality(T) - 1
    BY <1>1
  <2>3. PICK n \in T : Cardinality({m \in T : m < n}) = k - 1
    BY <2>1, <2>2
  <2>4. {m \in U : m < n} = {m \in T : m < n}
    <3>1. ASSUME NEW m \in U, m < n, m \notin T PROVE FALSE
      <4>1. n < m /\ m \in Nat /\ n \in Nat
        BY <1>1, <3>1
      <4> QED BY <3>1, <4>1
    <3> QED BY <3>1
  <2>5. Sorted(T)[k] = n
    BY <1>1, <2>3, SortedPlace
  <2>6. k \in 1 .. Cardinality(U)
    BY <1>1
  <2>7. n \in U /\ Cardinality({m \in U : m < n}) = k - 1
    BY <2>3, <2>4
  <2>8. Sorted(U)[k] = n
    BY <2>6, <2>7, SortedPlace
  <2> QED BY <2>5, <2>8
<1> QED BY <1>1, <1>2

-----------------------------------------------------------------------------
(* Limits.                                                                 *)

\* The first size of the rows.
Cut(some, rows, size, V) ==
  /\ size \in Nat /\ size <= Len(rows) /\ some = [k \in 1 .. size |-> rows[k]]
  /\ some \in Seq(V) /\ Len(some) = size

LEMMA CappedRows ==
  ASSUME NEW V, NEW rows \in Seq(V), NEW limit \in Nat
  PROVE  Cut(Capped(rows, limit), rows, Lower(Len(rows), Higher(1, limit)), V)
         /\ Lower(Len(rows), Higher(1, limit)) <= Higher(1, limit)
<1> DEFINE size == Lower(Len(rows), Higher(1, limit))
<1>1. size \in Nat /\ size <= Len(rows) /\ size <= Higher(1, limit)
  BY DEF Lower, Higher
<1>2. Capped(rows, limit) = SubSeq(rows, 1, size)
  <2>1. limit # NoLimit
    BY DEF NoLimit
  <2> QED BY <2>1 DEF Capped
<1> HIDE DEF size
<1>3. SubSeq(rows, 1, size) = [k \in 1 .. size |-> rows[k]]
  BY <1>1
<1>4. [k \in 1 .. size |-> rows[k]] \in Seq(V) /\ Len([k \in 1 .. size |-> rows[k]]) = size
  BY <1>1
<1> QED BY <1>1, <1>2, <1>3, <1>4 DEF size, Cut

LEMMA CappedShortens ==
  ASSUME NEW V, NEW rows \in Seq(V), NEW limit \in Nat, NEW whole \in BOOLEAN
  PROVE  Shortens(Capped(rows, limit), rows, limit, whole)
<1> DEFINE size == Lower(Len(rows), Higher(1, limit))
           some == Capped(rows, limit)
<1>1. Cut(some, rows, size, V) /\ size <= Higher(1, limit)
  BY CappedRows
<1> HIDE DEF some
<1>2. \A k \in DOMAIN some : some[k] = rows[k]
  BY <1>1 DEF Cut
<1>3. Len(some) = size /\ size <= Len(rows)
  BY <1>1 DEF Cut
<1> QED BY <1>1, <1>2, <1>3 DEF Shortens, some

LEMMA Uncapped == \A rows : Capped(rows, NoLimit) = rows
BY DEF Capped

\* The rows that are left of sorted ones are the least.
Leads(P, S, size) ==
  /\ P \subseteq S /\ IsFiniteSet(P) /\ Cardinality(P) = size
  /\ \A p \in P, u \in S \ P : p < u

LEMMA CappedStart ==
  ASSUME NEW S, S \subseteq Nat, IsFiniteSet(S), NEW limit \in Nat
  PROVE  /\ Len(Sorted(S)) = Cardinality(S) /\ Cardinality(S) \in Nat /\ Range(Sorted(S)) = S
         /\ Leads(Range(Capped(Sorted(S), limit)), S, Lower(Cardinality(S), Higher(1, limit)))
         /\ Lower(Cardinality(S), Higher(1, limit)) \in Nat
         /\ Lower(Cardinality(S), Higher(1, limit)) <= Higher(1, limit)
<1> DEFINE rows == Sorted(S)
           cut == Capped(rows, limit)
           size == Lower(Len(rows), Higher(1, limit))
           P == Range(cut)
<1>1. /\ rows \in Seq(S) /\ Len(rows) = Cardinality(S) /\ Cardinality(S) \in Nat
      /\ DOMAIN rows = 1 .. Cardinality(S) /\ Range(rows) = S
      /\ \A i, j \in DOMAIN rows : i < j => rows[i] < rows[j]
  BY SortedAscends DEF Ascends
<1>2. /\ size \in Nat /\ size <= Len(rows) /\ size <= Higher(1, limit)
      /\ cut = [k \in 1 .. size |-> rows[k]] /\ Len(cut) = size /\ cut \in Seq(S)
  <2>1. rows \in Seq(S)
    BY <1>1
  <2> HIDE DEF rows
  <2> QED BY <2>1, CappedRows DEF Cut
<1> HIDE DEF rows, cut, size
<1>3. P \subseteq S /\ IsFiniteSet(P) /\ Cardinality(P) = size
  <2>1. \A i, j \in 1 .. size : cut[i] = cut[j] => i = j
    <3>1. ASSUME NEW i \in 1 .. size, NEW j \in 1 .. size, cut[i] = cut[j] PROVE i = j
      <4>1. i \in DOMAIN rows /\ j \in DOMAIN rows /\ rows[i] = rows[j]
        BY <1>1, <1>2, <3>1
      <4>2. rows[i] \in Nat /\ rows[j] \in Nat
        <5>1. rows[i] \in Range(rows) /\ rows[j] \in Range(rows)
          BY <4>1 DEF Range
        <5> QED BY <1>1, <5>1
      <4> QED BY <1>1, <4>1, <4>2
    <3> QED BY <3>1
  <2>2. cut \in [1 .. size -> S]
    BY <1>2
  <2>3. P \subseteq S
    BY <2>2 DEF Range
  <2> QED BY <1>2, <2>1, <2>2, <2>3, RangeCounts
<1>4. \A p \in P, u \in S \ P : p < u
  <2> SUFFICES ASSUME NEW p \in P, NEW u \in S \ P PROVE p < u
    OBVIOUS
  <2>1. PICK i \in 1 .. size : p = rows[i]
    BY <1>2 DEF Range
  <2>2. PICK j \in DOMAIN rows : u = rows[j]
    BY <1>1 DEF Range
  <2>3. j \notin 1 .. size
    <3>1. ASSUME j \in 1 .. size PROVE FALSE
      <4>1. cut[j] = u /\ j \in DOMAIN cut
        BY <1>2, <2>2, <3>1
      <4> QED BY <4>1 DEF Range
    <3> QED BY <3>1
  <2>4. i < j /\ i \in DOMAIN rows
    BY <1>1, <1>2, <2>1, <2>2, <2>3
  <2> QED BY <1>1, <2>1, <2>2, <2>4
<1>5. Leads(P, S, size)
  BY <1>3, <1>4 DEF Leads
<1> QED BY <1>1, <1>2, <1>5 DEF rows, cut, size

\* What is left of rows that are cut short and then decoded.
LEMMA DecodedShortens ==
  ASSUME NEW db, NEW S, S \subseteq Nat, IsFiniteSet(S), NEW limit \in Nat,
         \A i \in S : db.assets[i].ok \in BOOLEAN
  PROVE  /\ Decodable(db, Sorted(S)) = Sorted({i \in S : db.assets[i].ok})
         /\ Shortens(Decodable(db, Capped(Sorted(S), limit)), Decodable(db, Sorted(S)), limit,
                     \A i \in S : db.assets[i].ok)
<1> DEFINE rows == Sorted(S)
           cut == Capped(rows, limit)
           size == Lower(Len(rows), Higher(1, limit))
           P == Range(cut)
           Good(i) == db.assets[i].ok
           T == {i \in P : Good(i)}
           U == {i \in S : Good(i)}
<1>1. Len(rows) = Cardinality(S) /\ Cardinality(S) \in Nat /\ Range(rows) = S
  BY CappedStart
<1>2. size \in Nat /\ size <= Higher(1, limit) /\ Leads(P, S, size)
  BY CappedStart
<1> HIDE DEF rows, cut, size, Good
<1>3. P \subseteq S /\ IsFiniteSet(P) /\ Cardinality(P) = size
  BY <1>2 DEF Leads
<1>4. \A p \in P, u \in S \ P : p < u
  BY <1>2 DEF Leads
<1>5. T \subseteq U /\ U \subseteq Nat /\ T \subseteq P /\ \A t \in T, u \in U \ T : t < u
  BY <1>3, <1>4
<1>6. IsFiniteSet(U) /\ IsFiniteSet(T) /\ Cardinality(T) <= size
  <2>1. U \in SUBSET S /\ T \in SUBSET P
    BY <1>5
  <2> HIDE DEF T, U
  <2> QED BY <1>3, <2>1, FS_Subset
<1>7. Decodable(db, rows) = Sorted(U) /\ Decodable(db, cut) = Sorted(T)
  BY <1>1 DEF Decodable, Good
<1> HIDE DEF T, U
<1>8. /\ Cardinality(T) <= Cardinality(U)
      /\ \A k \in 1 .. Cardinality(T) : Sorted(T)[k] = Sorted(U)[k]
  BY <1>5, <1>6, SortedStart
<1>9. /\ Len(Sorted(T)) = Cardinality(T) /\ DOMAIN Sorted(T) = 1 .. Cardinality(T)
      /\ Len(Sorted(U)) = Cardinality(U) /\ Cardinality(T) \in Nat
  <2>1. T \subseteq Nat
    BY <1>5
  <2> QED BY <1>5, <1>6, <2>1, SortedAscends DEF Ascends
<1>10. ASSUME \A i \in S : Good(i) PROVE Cardinality(T) = size /\ Cardinality(U) = Len(rows)
  <2>1. T = P /\ U = S
    BY <1>3, <1>10 DEF T, U
  <2> QED BY <1>1, <1>3, <2>1
<1> DEFINE whole == \A i \in S : Good(i)
<1>11. Cardinality(T) <= Higher(1, limit)
  <2>1. Higher(1, limit) \in Nat
    BY DEF Higher
  <2> QED BY <1>2, <1>6, <1>9, <2>1
<1>12. whole => Cardinality(T) = Lower(Cardinality(U), Higher(1, limit))
  BY <1>10 DEF size
<1> HIDE DEF whole
<1>13. Shortens(Sorted(T), Sorted(U), limit, whole)
  BY <1>8, <1>9, <1>11, <1>12 DEF Shortens
<1> QED BY <1>7, <1>13 DEF whole, Good, U, rows, cut

-----------------------------------------------------------------------------
(* The listings.                                                           *)

\* The rows a query selects, before any limit.
Typed(db, query) == {i \in DOMAIN db.assets : query.type \in {Unset, db.assets[i].type}}

Below(db, query) == {i \in Typed(db, query) : Under(db.assets[i].name, query.target)}

CutInPython(query) == query.scan = Unset /\ query.type = "url" /\ query.target # <<>>

Selected(db, query) ==
  IF query.scan # Unset THEN Typed(db, query) \cap OwnedBy(db, query.scan, query.source)
  ELSE IF query.type = "domain" \/ CutInPython(query) THEN Below(db, query) ELSE Typed(db, query)

LEMMA Listed ==
  ASSUME NEW db, NEW query
  PROVE  ListAssets(db, query) =
           IF CutInPython(query)
           THEN Capped(Decodable(db, Sorted(Selected(db, query))), query.limit)
           ELSE Decodable(db, Capped(Sorted(Selected(db, query)), query.limit))
<1> DEFINE S == Selected(db, query)
           Limited(T) == Decodable(db, Capped(Sorted(T), query.limit))
<1>1. ListAssets(db, query) =
        CASE query.scan # Unset -> Limited(Typed(db, query) \cap OwnedBy(db, query.scan, query.source))
          [] query.scan = Unset /\ query.type = "domain" -> Limited(Below(db, query))
          [] query.scan = Unset /\ query.type = "url" /\ query.target # <<>> ->
               Capped(Decodable(db, Sorted(Below(db, query))), query.limit)
          [] OTHER -> Limited(Typed(db, query))
  BY DEF ListAssets, Typed, Below
<1> HIDE DEF Limited
<1>2. CASE query.scan # Unset
  <2>1. ~CutInPython(query) /\ ListAssets(db, query) = Limited(S)
    BY <1>1, <1>2 DEF Selected, CutInPython
  <2> QED BY <2>1 DEF Limited
<1>3. CASE query.scan = Unset /\ query.type = "domain"
  <2>1. ~CutInPython(query) /\ ListAssets(db, query) = Limited(S)
    BY <1>1, <1>3 DEF Selected, CutInPython
  <2> QED BY <2>1 DEF Limited
<1>4. CASE CutInPython(query)
  BY <1>1, <1>4 DEF Selected, CutInPython
<1>5. CASE query.scan = Unset /\ query.type # "domain" /\ ~CutInPython(query)
  <2>1. ListAssets(db, query) = Limited(S)
    BY <1>1, <1>5 DEF Selected, CutInPython
  <2> QED BY <1>5, <2>1 DEF Limited
<1> QED BY <1>2, <1>3, <1>4, <1>5 DEF CutInPython

LEMMA SelectedRows ==
  ASSUME NEW db, IsDatabase(db), NEW query
  PROVE  /\ Selected(db, query) \subseteq DOMAIN db.assets /\ Selected(db, query) \subseteq Nat
         /\ IsFiniteSet(Selected(db, query))
         /\ \A i \in Selected(db, query) : db.assets[i].ok \in BOOLEAN
<1>1. Selected(db, query) \in SUBSET (1 .. Len(db.assets))
  BY DEF IsDatabase, Selected, Typed, Below
<1>2. IsFiniteSet(1 .. Len(db.assets))
  BY FS_Interval DEF IsDatabase
<1>3. IsFiniteSet(Selected(db, query))
  <2> DEFINE S == Selected(db, query)
             T == 1 .. Len(db.assets)
  <2> HIDE DEF S, T
  <2>1. IsFiniteSet(T) /\ S \in SUBSET T
    BY <1>1, <1>2 DEF S, T
  <2>2. IsFiniteSet(S)
    BY <2>1, FS_Subset
  <2> QED BY <2>2 DEF S
<1> QED BY <1>1, <1>3 DEF IsDatabase

\* Without a limit: the rows that can be decoded, in their order.
LEMMA ListedWhole ==
  ASSUME NEW db, IsDatabase(db), NEW query, query.limit = NoLimit
  PROVE  ListAssets(db, query) = Sorted({i \in Selected(db, query) : db.assets[i].ok})
<1> DEFINE S == Selected(db, query)
<1>1. ListAssets(db, query) = Decodable(db, Sorted(S))
  BY Listed, Uncapped
<1> HIDE DEF S
<1>2. S \subseteq Nat /\ IsFiniteSet(S) /\ \A i \in S : db.assets[i].ok \in BOOLEAN
  BY SelectedRows DEF S
<1>3. Decodable(db, Sorted(S)) = Sorted({i \in S : db.assets[i].ok})
  BY <1>2, DecodedShortens, 0 \in Nat
<1> QED BY <1>1, <1>3 DEF S

Queries(T, N, C, P, L) == [type : T, target : N, scan : C, source : P, limit : L]

(***************************************************************************)
(* Whatever is asked of whichever database: with a limit a listing is the  *)
(* start of the listing without it, no longer than the limit, and as long  *)
(* as it or the listing if no row is damaged (results.py 80-200).          *)
(***************************************************************************)
THEOREM LimitsOnlyShorten ==
  ASSUME NEW db, IsDatabase(db), NEW T, NEW N, NEW C, NEW P, NEW L,
         NEW query \in Queries(T, N, C, P, L), NEW limit \in Nat
  PROVE  ListingShortens(db, query, limit)
<1> DEFINE some == [query EXCEPT !.limit = limit]
           all == [query EXCEPT !.limit = NoLimit]
           S == Selected(db, query)
           rows == Sorted(S)
           whole == \A i \in S : db.assets[i].ok
           intact == \A i \in DOMAIN db.assets : db.assets[i].ok
<1>1. /\ some.limit = limit /\ all.limit = NoLimit
      /\ Selected(db, some) = S /\ Selected(db, all) = S
      /\ CutInPython(some) = CutInPython(query) /\ CutInPython(all) = CutInPython(query)
  BY DEF Queries, Selected, Typed, Below, CutInPython
<1> HIDE DEF some, all, S
<1>2. /\ S \subseteq DOMAIN db.assets /\ S \subseteq Nat /\ IsFiniteSet(S)
      /\ \A i \in S : db.assets[i].ok \in BOOLEAN
  BY SelectedRows DEF S
<1>3. ListAssets(db, all) = Decodable(db, rows)
  BY <1>1, Listed, Uncapped
<1>4. Shortens(ListAssets(db, some), ListAssets(db, all), limit, intact)
  <2>1. CASE CutInPython(query)
    <3>1. Decodable(db, rows) = Sorted({i \in S : db.assets[i].ok})
      BY <1>2, DecodedShortens
    <3>2. {i \in S : db.assets[i].ok} \in SUBSET S
      OBVIOUS
    <3> DEFINE U == {i \in S : db.assets[i].ok}
    <3> HIDE DEF U
    <3>3. IsFiniteSet(U) /\ U \subseteq Nat
      BY <1>2, <3>2, FS_Subset DEF U
    <3>4. Sorted(U) \in Seq(U)
      BY <3>3, SortedAscends DEF Ascends
    <3>5. intact \in BOOLEAN
      OBVIOUS
    <3> HIDE DEF intact
    <3>6. Shortens(Capped(Sorted(U), limit), Sorted(U), limit, intact)
      BY <3>4, <3>5, CappedShortens
    <3>7. ListAssets(db, some) = Capped(Decodable(db, rows), limit)
      BY <1>1, <2>1, Listed
    <3> QED BY <1>3, <3>1, <3>6, <3>7 DEF U
  <2>2. CASE ~CutInPython(query)
    <3>1. ListAssets(db, some) = Decodable(db, Capped(rows, limit))
      BY <1>1, <2>2, Listed
    <3>2. Shortens(Decodable(db, Capped(rows, limit)), Decodable(db, rows), limit, whole)
      BY <1>2, DecodedShortens
    <3>3. intact => whole
      BY <1>2
    <3> HIDE DEF intact, whole, rows
    <3> QED BY <1>3, <3>1, <3>2, <3>3 DEF Shortens
  <2> QED BY <2>1, <2>2
<1> HIDE DEF intact
<1> QED BY <1>4 DEF ListingShortens, some, all, intact

(***************************************************************************)
(* Whatever is in the database: the listing of a scan shows each of its    *)
(* assets or that one was damaged, and the export has the same rows in the *)
(* same order (results.py 80-160, exporter.py 222-296).                    *)
(***************************************************************************)
THEOREM ListingsAreComplete ==
  ASSUME NEW db, IsDatabase(db), NEW scan, scan # Unset
  PROVE  ListingComplete(db, scan)
<1> DEFINE query == EveryAsset(scan)
           S == OwnedBy(db, scan, Unset)
           U == {i \in S : db.assets[i].ok}
<1>1. query.limit = NoLimit /\ Selected(db, query) = S
  <2>1. Typed(db, query) = DOMAIN db.assets
    BY DEF Typed, EveryAsset
  <2>2. S \subseteq DOMAIN db.assets
    BY DEF OwnedBy, IsDatabase
  <2> QED BY <2>1, <2>2 DEF EveryAsset, Selected
<1> HIDE DEF query
<1>2. /\ S \subseteq Nat /\ IsFiniteSet(S) /\ \A i \in S : db.assets[i].ok \in BOOLEAN
  BY <1>1, SelectedRows
<1>3. ListAssets(db, query) = Sorted(U)
  BY <1>1, ListedWhole
<1>4. Decodable(db, Sorted(S)) = Sorted(U)
  <2> HIDE DEF S
  <2> QED BY <1>2, DecodedShortens, 0 \in Nat
<1>5. Range(Sorted(U)) = U
  <2>1. U \in SUBSET S
    OBVIOUS
  <2> HIDE DEF U, S
  <2>2. IsFiniteSet(U) /\ U \subseteq Nat
    BY <1>2, <2>1, FS_Subset
  <2> QED BY <2>2, SortedAscends DEF Ascends
<1> QED BY <1>3, <1>4, <1>5 DEF ListingComplete, ExportAssets, query

-----------------------------------------------------------------------------
(* The history.                                                            *)

\* A list by the places of an order has every element once, in that order.
ListedAs(list, place, S) ==
  list \in [1 .. Cardinality(S) -> S] /\ \A k \in 1 .. Cardinality(S) : place[list[k]] = k - 1

Follows(list, less, S) ==
  /\ Range(list) = S
  /\ \A i, j \in 1 .. Cardinality(S) : i < j => <<list[i], list[j]>> \in less /\ list[i] # list[j]

LEMMA ByPlaces ==
  ASSUME NEW S, NEW less, NEW place, Numbers(place, S, less),
         \A m, n \in S : m # n => <<m, n>> \in less \/ <<n, m>> \in less,
         NEW list, ListedAs(list, place, S)
  PROVE  Follows(list, less, S)
<1> DEFINE N == Cardinality(S)
<1>1. /\ N \in Nat
      /\ \A n \in S : place[n] \in 0 .. N - 1
      /\ \A m, n \in S : <<m, n>> \in less => place[m] < place[n]
  BY DEF Numbers
<1>2. list \in [1 .. N -> S] /\ \A k \in 1 .. N : list[k] \in S /\ place[list[k]] = k - 1
  BY DEF ListedAs
<1> HIDE DEF N
<1>4. ASSUME NEW i \in 1 .. N, NEW j \in 1 .. N, i < j
      PROVE  <<list[i], list[j]>> \in less /\ list[i] # list[j]
  <2>1. list[i] \in S /\ list[j] \in S /\ place[list[i]] = i - 1 /\ place[list[j]] = j - 1
    BY <1>2
  <2>2. list[i] # list[j]
    BY <1>4, <2>1
  <2>3. ASSUME <<list[j], list[i]>> \in less PROVE FALSE
    <3>1. place[list[j]] < place[list[i]]
      BY <1>1, <2>1, <2>3
    <3> QED BY <1>4, <2>1, <3>1
  <2> QED BY <2>1, <2>2, <2>3
<1>5. ASSUME NEW n \in S PROVE \E i \in 1 .. N : list[i] = n
  <2>1. place[n] \in 0 .. N - 1
    BY <1>1
  <2> DEFINE k == place[n] + 1
  <2>2. k \in 1 .. N /\ k - 1 = place[n]
    BY <1>1, <2>1
  <2> HIDE DEF k
  <2>3. list[k] \in S /\ place[list[k]] = place[n]
    BY <1>2, <2>2
  <2>4. ASSUME NEW m \in S, place[m] = place[n], m # n PROVE FALSE
    <3>1. place[m] < place[n] \/ place[n] < place[m]
      BY <1>1, <2>4
    <3>2. place[m] \in Int /\ place[n] \in Int
      BY <1>1
    <3> QED BY <2>4, <3>1, <3>2
  <2> QED BY <2>2, <2>3, <2>4
<1>6. Range(list) = S
  BY <1>2, <1>5 DEF Range
<1> QED BY <1>4, <1>6 DEF N, Follows

\* The newest first, and of equally old ones in the order of the listing.
LEMMA NewestInOrder ==
  ASSUME NEW db, NEW S, S \subseteq Nat, IsFiniteSet(S), \A i \in S : db.assets[i].first \in Nat
  PROVE  /\ NewestFirst(db, S) \in Seq(S) /\ Range(NewestFirst(db, S)) = S
         /\ \A i, j \in DOMAIN NewestFirst(db, S) : i < j =>
              /\ db.assets[NewestFirst(db, S)[i]].first >= db.assets[NewestFirst(db, S)[j]].first
              /\ NewestFirst(db, S)[i] # NewestFirst(db, S)[j]
<1> DEFINE First == [i \in S |-> db.assets[i].first]
           less == {p \in S \X S : Newer(db, p[1], p[2])}
           place == [n \in S |-> Cardinality({m \in S : <<m, n>> \in less})]
           list == NewestFirst(db, S)
           N == Cardinality(S)
<1>1. /\ \A i, j \in S : Newer(db, i, j) <=> (First[i] > First[j] \/ (First[i] = First[j] /\ i < j))
      /\ \A i \in S : First[i] \in Nat /\ i \in Nat
  BY DEF Newer
<1>2. \A m, n \in S : <<m, n>> \in less <=> Newer(db, m, n)
  OBVIOUS
<1>3. \A i \in S : First[i] = db.assets[i].first
  OBVIOUS
<1> HIDE DEF less, First
<1>4. /\ \A m, n \in S : m # n => <<m, n>> \in less \/ <<n, m>> \in less
      /\ \A n \in S : <<n, n>> \notin less
      /\ \A l, m, n \in S : <<l, m>> \in less /\ <<m, n>> \in less => <<l, n>> \in less
  <2>1. \A m, n \in S : <<m, n>> \in less <=> (First[m] > First[n] \/ (First[m] = First[n] /\ m < n))
    BY <1>1, <1>2
  <2>2. ASSUME NEW m \in S, NEW n \in S, m # n PROVE <<m, n>> \in less \/ <<n, m>> \in less
    <3>1. First[m] \in Nat /\ First[n] \in Nat /\ m \in Nat /\ n \in Nat
      BY <1>1
    <3> QED BY <2>1, <2>2, <3>1
  <2>3. ASSUME NEW n \in S PROVE <<n, n>> \notin less
    <3>1. First[n] \in Nat /\ n \in Nat
      BY <1>1
    <3> QED BY <2>1, <3>1
  <2>4. ASSUME NEW l \in S, NEW m \in S, NEW n \in S, <<l, m>> \in less, <<m, n>> \in less
        PROVE  <<l, n>> \in less
    <3>1. First[l] \in Nat /\ First[m] \in Nat /\ First[n] \in Nat /\ l \in Nat /\ m \in Nat /\ n \in Nat
      BY <1>1
    <3>2. First[l] > First[m] \/ (First[l] = First[m] /\ l < m)
      BY <2>1, <2>4
    <3>3. First[m] > First[n] \/ (First[m] = First[n] /\ m < n)
      BY <2>1, <2>4
    <3>4. First[l] > First[n] \/ (First[l] = First[n] /\ l < n)
      BY <3>1, <3>2, <3>3
    <3> QED BY <2>1, <3>4
  <2> QED BY <2>2, <2>3, <2>4
<1>5. Numbers(place, S, less)
  BY <1>4, OrderRanks
<1>8. N \in Nat /\ \A k \in 0 .. N - 1 : \E n \in S : place[n] = k
  BY <1>5 DEF Numbers
<1>6. list \in [1 .. N -> S] /\ \A k \in 1 .. N : place[list[k]] = k - 1
  <2>1. \A n \in S : {m \in S : Newer(db, m, n)} = {m \in S : <<m, n>> \in less}
    BY <1>2
  <2>2. \A n \in S : place[n] = Cardinality({m \in S : Newer(db, m, n)})
    BY <2>1
  <2> HIDE DEF place
  <2>3. list = [k \in 1 .. N |-> CHOOSE n \in S : Cardinality({m \in S : Newer(db, m, n)}) = k - 1]
    BY DEF NewestFirst
  <2> HIDE DEF list, N
  <2>4. ASSUME NEW k \in 1 .. N PROVE list[k] \in S /\ place[list[k]] = k - 1
    <3>1. k - 1 \in 0 .. N - 1
      BY <1>8
    <3>2. \E n \in S : Cardinality({m \in S : Newer(db, m, n)}) = k - 1
      BY <1>8, <2>2, <3>1
    <3>3. list[k] \in S /\ Cardinality({m \in S : Newer(db, m, list[k])}) = k - 1
      BY <2>3, <3>2
    <3> QED BY <2>2, <3>3
  <2> QED BY <2>3, <2>4
<1> HIDE DEF place, list
<1>7. Follows(list, less, S)
  <2>1. ListedAs(list, place, S)
    BY <1>6 DEF ListedAs
  <2> QED BY <1>4, <1>5, <2>1, ByPlaces
<1> HIDE DEF N
<1>9. list \in Seq(S) /\ DOMAIN list = 1 .. N
  BY <1>6, <1>8
<1>10. ASSUME NEW i \in DOMAIN list, NEW j \in DOMAIN list, i < j
       PROVE  db.assets[list[i]].first >= db.assets[list[j]].first /\ list[i] # list[j]
  <2>1. list[i] \in S /\ list[j] \in S /\ <<list[i], list[j]>> \in less /\ list[i] # list[j]
    BY <1>6, <1>7, <1>9, <1>10 DEF Follows, N
  <2> DEFINE a == list[i]
             b == list[j]
  <2> HIDE DEF a, b
  <2>2. a \in S /\ b \in S /\ <<a, b>> \in less
    BY <2>1 DEF a, b
  <2>3. First[a] > First[b] \/ First[a] = First[b]
    BY <1>1, <1>2, <2>2
  <2>4. First[a] >= First[b]
    <3>1. First[a] \in Nat /\ First[b] \in Nat
      BY <1>1, <2>2
    <3> QED BY <2>3, <3>1
  <2> QED BY <1>3, <2>1, <2>4 DEF a, b
<1> QED BY <1>7, <1>9, <1>10 DEF list, Follows

LEMMA OriginFollows ==
  ASSUME NEW first \in Nat, NEW started \in Nat
  PROVE  /\ Origin(first, started) = "new" => first >= started
         /\ Origin(first, started) = "returning" => first < started
         /\ (Origin(first, started) = "unknown") = (started = NoTime \/ first = NoTime)
<1>1. CASE started = NoTime \/ first = NoTime
  <2>1. Origin(first, started) = "unknown"
    BY <1>1 DEF Origin
  <2> QED BY <1>1, <2>1
<1>2. CASE first # NoTime /\ started # NoTime /\ first >= started
  <2>1. Origin(first, started) = "new"
    BY <1>2 DEF Origin
  <2> QED BY <1>2, <2>1
<1>3. CASE first # NoTime /\ started # NoTime /\ ~(first >= started)
  <2>1. Origin(first, started) = "returning"
    BY <1>3 DEF Origin
  <2> QED BY <1>3, <2>1
<1> QED BY <1>1, <1>2, <1>3

(***************************************************************************)
(* Whatever is asked of whichever database: the history has the newest     *)
(* assets first and none twice, without a limit all of the listing, and    *)
(* calls new only what was not there when the scan started                 *)
(* (results.py 380-445).                                                   *)
(***************************************************************************)
THEOREM HistoryIsChronological ==
  ASSUME NEW db, IsDatabase(db), NEW T, NEW M, NEW C, NEW P,
         NEW query \in Queries(T, M, C, P, Nat \cup {NoLimit}), NEW started \in Nat
  PROVE  Chronological(db, query, started)
<1> DEFINE all == [query EXCEPT !.limit = NoLimit]
           S == Range(ListAssets(db, all))
           newest == NewestFirst(db, S)
           list == [k \in DOMAIN newest |->
                      [row |-> newest[k], origin |-> Origin(db.assets[newest[k]].first, started)]]
           rows == History(db, query, started)
           First(k) == db.assets[rows[k].row].first
<1>1. S \in SUBSET (1 .. Len(db.assets)) /\ S \subseteq Nat
  <2> DEFINE U == {i \in Selected(db, all) : db.assets[i].ok}
  <2>1. all.limit = NoLimit
    BY DEF Queries
  <2> HIDE DEF all
  <2>2. /\ Selected(db, all) \subseteq DOMAIN db.assets /\ Selected(db, all) \subseteq Nat
        /\ IsFiniteSet(Selected(db, all))
    BY SelectedRows
  <2>3. ListAssets(db, all) = Sorted(U)
    BY <2>1, ListedWhole
  <2>4. U \in SUBSET Selected(db, all)
    OBVIOUS
  <2> HIDE DEF U
  <2>5. IsFiniteSet(U) /\ U \subseteq Nat
    BY <2>2, <2>4, FS_Subset
  <2>6. Range(Sorted(U)) = U
    BY <2>5, SortedAscends DEF Ascends
  <2> QED BY <2>2, <2>3, <2>4, <2>6 DEF IsDatabase
<1>2. IsFiniteSet(S) /\ \A i \in S : db.assets[i].first \in Nat
  <2> DEFINE box == 1 .. Len(db.assets)
  <2>1. IsFiniteSet(box)
    BY FS_Interval DEF IsDatabase
  <2>2. \A i \in box : db.assets[i].first \in Nat
    BY DEF IsDatabase
  <2> HIDE DEF S, box
  <2>3. S \in SUBSET box
    BY <1>1 DEF box
  <2> QED BY <2>1, <2>2, <2>3, FS_Subset
<1>3. rows = Capped(list, query.limit)
  BY DEF History
<1> HIDE DEF rows, S
<1>4. /\ newest \in Seq(S) /\ Range(newest) = S
      /\ \A i, j \in DOMAIN newest : i < j =>
           db.assets[newest[i]].first >= db.assets[newest[j]].first /\ newest[i] # newest[j]
  BY <1>1, <1>2, NewestInOrder
<1> HIDE DEF newest
<1>5. /\ DOMAIN list = DOMAIN newest /\ list \in Seq(Range(list))
      /\ \A k \in DOMAIN newest : list[k].row = newest[k]
                                  /\ list[k].origin = Origin(db.assets[newest[k]].first, started)
  <2>1. DOMAIN newest = 1 .. Len(newest) /\ Len(newest) \in Nat
    BY <1>4
  <2>2. DOMAIN list = DOMAIN newest /\ \A k \in DOMAIN newest : list[k].row = newest[k]
                                  /\ list[k].origin = Origin(db.assets[newest[k]].first, started)
    OBVIOUS
  <2>3. list = [k \in 1 .. Len(newest) |-> list[k]]
    BY <2>1
  <2> HIDE DEF list
  <2>4. list \in [1 .. Len(newest) -> Range(list)]
    BY <2>1, <2>2, <2>3 DEF Range
  <2> QED BY <2>1, <2>2, <2>4
<1> HIDE DEF list
<1>6. /\ DOMAIN rows \subseteq DOMAIN newest /\ DOMAIN rows \subseteq Nat
      /\ \A k \in DOMAIN rows : rows[k] = list[k]
      /\ query.limit = NoLimit => DOMAIN rows = DOMAIN newest
  <2>1. CASE query.limit = NoLimit
    <3>1. rows = list
      BY <1>3, <2>1, Uncapped
    <3>2. DOMAIN newest \subseteq Nat
      BY <1>4
    <3> QED BY <1>5, <3>1, <3>2
  <2>2. CASE query.limit \in Nat
    <3> DEFINE size == Lower(Len(list), Higher(1, query.limit))
    <3>1. Cut(rows, list, size, Range(list))
      BY <1>3, <1>5, <2>2, CappedRows
    <3> HIDE DEF size
    <3>2. /\ size \in Nat /\ size <= Len(list) /\ rows = [k \in 1 .. size |-> list[k]]
      BY <3>1 DEF Cut
    <3>3. DOMAIN list = 1 .. Len(list) /\ Len(list) \in Nat
      BY <1>5
    <3>4. query.limit # NoLimit
      BY <2>2 DEF NoLimit
    <3>5. DOMAIN rows = 1 .. size /\ \A k \in 1 .. size : rows[k] = list[k]
      BY <3>2
    <3>6. 1 .. size \subseteq DOMAIN list /\ 1 .. size \subseteq Nat
      BY <3>2, <3>3
    <3> QED BY <1>5, <3>4, <3>5, <3>6
  <2> QED BY <2>1, <2>2 DEF Queries
<1>7. \A k \in DOMAIN rows : /\ rows[k].row = newest[k] /\ newest[k] \in S
                             /\ rows[k].origin = Origin(First(k), started) /\ First(k) \in Nat
  <2>1. \A k \in DOMAIN newest : newest[k] \in S
    BY <1>4
  <2> QED BY <1>2, <1>5, <1>6, <2>1
<1>8. \A j, k \in DOMAIN rows : j < k => First(j) >= First(k) /\ rows[j].row # rows[k].row
  BY <1>4, <1>6, <1>7
<1>9. ASSUME query.limit = NoLimit PROVE {rows[k].row : k \in DOMAIN rows} = Range(ListAssets(db, query))
  <2>1. query = all
    BY <1>9 DEF Queries
  <2>2. {rows[k].row : k \in DOMAIN rows} = {newest[k] : k \in DOMAIN newest}
    BY <1>6, <1>7, <1>9
  <2> QED BY <1>4, <2>1, <2>2 DEF Range, S
<1>10. ASSUME NEW k \in DOMAIN rows
       PROVE  /\ rows[k].origin = "new" => First(k) >= started
              /\ rows[k].origin = "returning" => First(k) < started
              /\ (rows[k].origin = "unknown") = (started = NoTime \/ First(k) = NoTime)
  <2> DEFINE f == First(k)
  <2>1. f \in Nat /\ rows[k].origin = Origin(f, started)
    BY <1>7
  <2> HIDE DEF f
  <2>2. /\ rows[k].origin = "new" => f >= started
        /\ rows[k].origin = "returning" => f < started
        /\ (rows[k].origin = "unknown") = (started = NoTime \/ f = NoTime)
    BY <2>1, OriginFollows
  <2> QED BY <2>2 DEF f
<1> QED BY <1>8, <1>9, <1>10 DEF Chronological, rows

-----------------------------------------------------------------------------
(* The names.                                                              *)

\* A set is counted in two parts.
LEMMA TwoParts ==
  ASSUME NEW S, IsFiniteSet(S), NEW X
  PROVE  /\ IsFiniteSet(S \cap X) /\ IsFiniteSet(S \ X)
         /\ Cardinality(S) \in Nat /\ Cardinality(S \cap X) \in Nat /\ Cardinality(S \ X) \in Nat
         /\ Cardinality(S) = Cardinality(S \cap X) + Cardinality(S \ X)
<1> DEFINE A == S \cap X
           B == S \ X
<1>1. IsFiniteSet(A) /\ IsFiniteSet(B) /\ Cardinality(B) = Cardinality(S) - Cardinality(A)
  BY FS_Intersection, FS_Difference
<1> HIDE DEF A, B
<1>2. Cardinality(S) \in Nat /\ Cardinality(A) \in Nat /\ Cardinality(B) \in Nat
  BY <1>1, FS_CardinalityType
<1>3. Cardinality(S) = Cardinality(A) + Cardinality(B)
  BY <1>1, <1>2
<1> QED BY <1>1, <1>2, <1>3 DEF A, B

LEMMA SmallerPart ==
  ASSUME NEW S, IsFiniteSet(S), NEW T, T \subseteq S
  PROVE  Cardinality(T) \in Nat /\ Cardinality(S) \in Nat /\ Cardinality(T) <= Cardinality(S)
<1>1. T \in SUBSET S
  OBVIOUS
<1> QED BY <1>1, FS_Subset, FS_CardinalityType

\* The rows whose names are counted.
NameRows(db, target, scan) ==
  {j \in IF scan = Unset THEN DOMAIN db.assets ELSE OwnedBy(db, scan, Unset) :
     db.assets[j].type = "domain" /\ Under(db.assets[j].name, target)}

LEMMA NamesFinite ==
  ASSUME NEW db, IsDatabase(db), NEW target, NEW scan
  PROVE  /\ IsFiniteSet(NameRows(db, target, scan))
         /\ IsFiniteSet({db.assets[i].name : i \in NameRows(db, target, scan)})
<1> DEFINE rows == NameRows(db, target, scan)
           f == [i \in rows |-> db.assets[i].name]
           box == 1 .. Len(db.assets)
<1>1. rows \in SUBSET box
  BY DEF NameRows, OwnedBy, IsDatabase
<1>2. IsFiniteSet(box)
  BY FS_Interval DEF IsDatabase
<1> HIDE DEF rows, box
<1>3. IsFiniteSet(rows)
  BY <1>1, <1>2, FS_Subset
<1>4. DOMAIN f = rows /\ f = [i \in rows |-> f[i]] /\ \A i \in rows : f[i] = db.assets[i].name
  OBVIOUS
<1> HIDE DEF f
<1>5. IsFiniteSet({f[i] : i \in rows})
  BY <1>3, <1>4, ImageFinite
<1>6. {f[i] : i \in rows} = {db.assets[i].name : i \in rows}
  BY <1>4
<1> QED BY <1>3, <1>5, <1>6 DEF rows

LEMMA Summarized ==
  ASSUME NEW db, NEW target, NEW scan
  PROVE  LET count == SummarizeNames(db, target, scan)
             domains == {db.assets[i].name : i \in NameRows(db, target, scan)}
             auto == {n \in domains : Head(n) \in AutoIssued}
         IN /\ count.total = Cardinality(domains)
            /\ count.resolved = Cardinality(domains \cap Resolved(db))
            /\ count.unresolved = Cardinality(domains \cap Failed(db))
            /\ count.unchecked = Cardinality(domains \ (Resolved(db) \cup Failed(db)))
            /\ count.auto = Cardinality(auto) /\ count.autoResolved = Cardinality(auto \cap Resolved(db))
BY DEF SummarizeNames, NameRows

(***************************************************************************)
(* In any database: every name was resolved, failed to or was not checked, *)
(* and just one of them (results.py 202-296).                              *)
(***************************************************************************)
THEOREM NamesArePartitioned ==
  ASSUME NEW db, IsDatabase(db), NEW target, NEW scan
  PROVE  Partitioned(db, target, scan)
<1> DEFINE count == SummarizeNames(db, target, scan)
           domains == {db.assets[i].name : i \in NameRows(db, target, scan)}
           auto == {n \in domains : Head(n) \in AutoIssued}
           R == Resolved(db)
           F == Failed(db)
<1>1. /\ count.total = Cardinality(domains)
      /\ count.resolved = Cardinality(domains \cap R)
      /\ count.unresolved = Cardinality(domains \cap F)
      /\ count.unchecked = Cardinality(domains \ (R \cup F))
      /\ count.auto = Cardinality(auto) /\ count.autoResolved = Cardinality(auto \cap R)
  BY Summarized
<1>2. IsFiniteSet(domains)
  BY NamesFinite
<1>3. F \cap R = {}
  BY DEF Failed
<1>4. auto \subseteq domains
  OBVIOUS
<1> HIDE DEF count, domains, auto, R, F
<1>5. count.total = count.resolved + count.unresolved + count.unchecked
  <2>1. /\ IsFiniteSet(domains \ R) /\ Cardinality(domains) = Cardinality(domains \cap R) + Cardinality(domains \ R)
        /\ Cardinality(domains \cap R) \in Nat
    BY <1>2, TwoParts
  <2> DEFINE rest == domains \ R
  <2>2. rest \cap F = domains \cap F /\ rest \ F = domains \ (R \cup F)
    BY <1>3
  <2> HIDE DEF rest
  <2>3. /\ Cardinality(rest) = Cardinality(rest \cap F) + Cardinality(rest \ F)
        /\ Cardinality(rest \cap F) \in Nat /\ Cardinality(rest \ F) \in Nat
    BY <2>1, TwoParts DEF rest
  <2>4. /\ count.total = count.resolved + Cardinality(rest)
        /\ count.resolved \in Nat
    BY <1>1, <2>1 DEF rest
  <2>5. /\ Cardinality(rest) = count.unresolved + count.unchecked
        /\ count.unresolved \in Nat /\ count.unchecked \in Nat
    BY <1>1, <2>2, <2>3
  <2> QED BY <2>4, <2>5
<1>6. count.autoResolved <= Lower(count.auto, count.resolved)
  <2>1. auto \cap R \subseteq auto /\ auto \cap R \subseteq domains \cap R
    BY <1>4
  <2>2. IsFiniteSet(auto) /\ IsFiniteSet(domains \cap R)
    <3>1. auto \in SUBSET domains
      BY <1>4
    <3> QED BY <1>2, <3>1, FS_Subset, FS_Intersection
  <2>3. Cardinality(auto \cap R) <= Cardinality(auto)
    BY <2>1, <2>2, SmallerPart
  <2>4. Cardinality(auto \cap R) <= Cardinality(domains \cap R)
    BY <2>1, <2>2, SmallerPart
  <2> QED BY <1>1, <2>3, <2>4 DEF Lower
<1> QED BY <1>5, <1>6 DEF Partitioned, count

(***************************************************************************)
(* In a database of which no row is damaged, where a name is not stored    *)
(* twice: as many names are counted as the listing shows                   *)
(* (results.py 80-160, 202-296; database.py 107-150).                      *)
(***************************************************************************)
THEOREM NamesAreListed ==
  ASSUME NEW db, IsDatabase(db), NEW scan, scan # Unset,
         \A i \in DOMAIN db.assets : db.assets[i].ok /\ Len(db.assets[i].name) \in Nat,
         \A i, j \in DOMAIN db.assets :
           db.assets[i].type = db.assets[j].type /\ db.assets[i].name = db.assets[j].name => i = j
  PROVE  NamesAreRows(db, scan)
<1> DEFINE query == [EveryAsset(scan) EXCEPT !.type = "domain"]
           S == Selected(db, query)
           U == {i \in S : db.assets[i].ok}
           names == {db.assets[i].name : i \in S}
<1>1. query.limit = NoLimit
  BY DEF EveryAsset
<1>2. S = NameRows(db, <<>>, scan)
  <2>1. Typed(db, query) = {i \in DOMAIN db.assets : db.assets[i].type = "domain"}
    BY DEF Typed, EveryAsset, Unset
  <2>2. S = Typed(db, query) \cap OwnedBy(db, scan, Unset)
    BY DEF Selected, EveryAsset
  <2>3. \A i \in DOMAIN db.assets : Under(db.assets[i].name, <<>>)
    BY DEF Under
  <2>4. OwnedBy(db, scan, Unset) \subseteq DOMAIN db.assets
    BY DEF OwnedBy, IsDatabase
  <2> QED BY <2>1, <2>2, <2>3, <2>4 DEF NameRows
<1>3. S \subseteq DOMAIN db.assets /\ S \subseteq Nat /\ IsFiniteSet(S)
  BY SelectedRows
<1>4. ListAssets(db, query) = Sorted(S)
  <2>1. U = S
    BY <1>3
  <2> QED BY <1>1, <2>1, ListedWhole
<1>5. Len(Sorted(S)) = Cardinality(S)
  <2> HIDE DEF S
  <2> QED BY <1>3, SortedAscends DEF Ascends
<1>6. \A i \in S : db.assets[i].type = "domain"
  BY <1>2 DEF NameRows
<1> HIDE DEF S
<1>7. Cardinality(names) = Cardinality(S)
  <2> DEFINE f == [i \in S |-> db.assets[i].name]
  <2>1. f \in Surjection(S, names)
    BY DEF Surjection
  <2>2. f \in Injection(S, names)
    BY <1>3, <1>6 DEF Injection, IsInjective
  <2> HIDE DEF f, names
  <2> QED BY <1>3, <2>1, <2>2, FS_Surjection
<1>8. SummarizeNames(db, <<>>, scan).total = Cardinality(names)
  <2>1. SummarizeNames(db, <<>>, scan).total
          = Cardinality({db.assets[i].name : i \in NameRows(db, <<>>, scan)})
    BY DEF SummarizeNames, NameRows
  <2> QED BY <1>2, <2>1
<1> QED BY <1>4, <1>5, <1>7, <1>8 DEF NamesAreRows

-----------------------------------------------------------------------------
(* Failures and references.                                                *)

LEMMA Positions ==
  ASSUME NEW db, IsDatabase(db), NEW S, S \subseteq DOMAIN db.evidence
  PROVE  IsFiniteSet(S) /\ S \subseteq Nat
<1> DEFINE box == 1 .. Len(db.evidence)
<1>1. S \in SUBSET box /\ box \subseteq Nat /\ Len(db.evidence) \in Nat
  BY DEF IsDatabase
<1>2. IsFiniteSet(box)
  BY <1>1, FS_Interval
<1> HIDE DEF box
<1> QED BY <1>1, <1>2, FS_Subset

\* Sorted backwards.
LEMMA Backwards ==
  ASSUME NEW S, S \subseteq Nat, IsFiniteSet(S)
  PROVE  LET list == [k \in 1 .. Cardinality(S) |-> Sorted(S)[Cardinality(S) + 1 - k]] IN
         /\ list \in Seq(S) /\ Range(list) = S
         /\ \A j, k \in DOMAIN list : j < k => list[j] > list[k]
<1> DEFINE n == Cardinality(S)
           rows == Sorted(S)
           list == [k \in 1 .. n |-> rows[n + 1 - k]]
<1>1. /\ n \in Nat /\ rows \in [1 .. n -> S]
      /\ \A i, j \in 1 .. n : i < j => rows[i] < rows[j]
      /\ \A m \in S : \E i \in 1 .. n : rows[i] = m
  BY SortedList
<1> HIDE DEF n, rows
<1>2. \A k \in 1 .. n : n + 1 - k \in 1 .. n /\ n + 1 - (n + 1 - k) = k
  BY <1>1
<1>3. list \in [1 .. n -> S] /\ \A k \in 1 .. n : list[k] = rows[n + 1 - k]
  BY <1>1, <1>2
<1> HIDE DEF list
<1>4. list \in Seq(S) /\ DOMAIN list = 1 .. n
  BY <1>1, <1>3
<1>5. Range(list) = S
  <2>1. ASSUME NEW m \in S PROVE m \in Range(list)
    <3>1. PICK i \in 1 .. n : rows[i] = m
      BY <1>1
    <3> DEFINE k == n + 1 - i
    <3>2. k \in 1 .. n /\ n + 1 - k = i
      BY <1>2
    <3> HIDE DEF k
    <3>3. list[k] = m
      BY <1>3, <3>1, <3>2
    <3> QED BY <1>4, <3>2, <3>3 DEF Range
  <2> QED BY <1>3, <2>1 DEF Range
<1>6. ASSUME NEW j \in 1 .. n, NEW k \in 1 .. n, j < k PROVE list[j] > list[k]
  <2> DEFINE a == n + 1 - j
             b == n + 1 - k
  <2>1. a \in 1 .. n /\ b \in 1 .. n /\ b < a
    BY <1>1, <1>2, <1>6
  <2>2. list[j] = rows[a] /\ list[k] = rows[b]
    BY <1>3
  <2> HIDE DEF a, b
  <2>3. rows[b] < rows[a] /\ rows[a] \in Nat /\ rows[b] \in Nat
    BY <1>1, <2>1
  <2> QED BY <2>2, <2>3
<1> QED BY <1>4, <1>5, <1>6 DEF n, rows, list

(***************************************************************************)
(* In any database: the list of failures has all of them and the latest    *)
(* first, and a limit leaves the latest ones and as many as were asked for *)
(* (results.py 518-598).                                                  *)
(***************************************************************************)
THEOREM FailuresAreListed ==
  ASSUME NEW db, IsDatabase(db), NEW scan, NEW limit \in Nat
  PROVE  FailuresListed(db, scan, limit)
<1> DEFINE failures == {i \in DOMAIN db.evidence : IsFailure(db.evidence[i], scan)}
           list == [k \in 1 .. Cardinality(failures) |-> Sorted(failures)[Cardinality(failures) + 1 - k]]
           all == ListFailures(db, scan, NoLimit)
           some == ListFailures(db, scan, limit)
<1>1. all = list /\ some = Capped(list, limit)
  BY Uncapped DEF ListFailures
<1>2. IsFiniteSet(failures) /\ failures \subseteq Nat
  BY Positions
<1> HIDE DEF failures
<1>3. /\ list \in Seq(failures) /\ Range(list) = failures
      /\ \A j, k \in DOMAIN list : j < k => list[j] > list[k]
  BY <1>2, Backwards
<1> HIDE DEF list, all, some
<1>4. Shortens(some, all, limit, TRUE)
  <2>1. TRUE \in BOOLEAN
    OBVIOUS
  <2> QED BY <1>1, <1>3, <2>1, CappedShortens
<1> QED BY <1>1, <1>3, <1>4 DEF FailuresListed, failures, all, some

\* What ListJavaScript is made of: the rows that SQL selects, those of them
\* that are read, and the first of equal ones.
Asked(db, query) ==
  {i \in DOMAIN db.evidence : /\ db.evidence[i].kind \in JavaScript
                              /\ query.scan \in {Unset, db.evidence[i].scan}
                              /\ query.kind \in {Unset, db.evidence[i].kind}}

ReadOf(db, query, rows) ==
  {i \in rows : db.evidence[i].ok /\ query.page \in {Unset, Page(db.evidence[i].source)}}

FirstOf(db, read) ==
  {i \in read : \A j \in read : Reference(db.evidence[j]) = Reference(db.evidence[i]) => i <= j}

URLs(db) == {db.assets[i].name : i \in {j \in DOMAIN db.assets : db.assets[j].type = "url"}}

Shown(db, rows) ==
  [k \in DOMAIN Sorted(rows) |->
     [row |-> Sorted(rows)[k], inventory |-> db.evidence[Sorted(rows)[k]].name \in URLs(db)]]

LEMMA ShownRows ==
  ASSUME NEW db, NEW query
  PROVE  ListJavaScript(db, query) =
           Shown(db, FirstOf(db, ReadOf(db, query, Range(Capped(Sorted(Asked(db, query)), query.limit)))))
BY DEF ListJavaScript, Asked, ReadOf, FirstOf, URLs, Shown

\* A set of numbers has a least, unless it is empty.
LEMMA LeastNumber ==
  ASSUME NEW S, S \subseteq Nat, IsFiniteSet(S), S # {}
  PROVE  \E n \in S : \A m \in S : n <= m
<1> DEFINE below == [n \in S |-> Cardinality({m \in S : m < n})]
<1>1. /\ Cardinality(S) \in Nat
      /\ \A n \in S : below[n] \in 0 .. Cardinality(S) - 1
      /\ \A m, n \in S : m < n => below[m] < below[n]
      /\ \A k \in 0 .. Cardinality(S) - 1 : \E n \in S : below[n] = k
  BY Ranks
<1> HIDE DEF below
<1>2. PICK s \in S : below[s] \in 0 .. Cardinality(S) - 1
  BY <1>1
<1>3. 0 \in 0 .. Cardinality(S) - 1
  BY <1>1, <1>2
<1>4. PICK n \in S : below[n] = 0
  BY <1>1, <1>3
<1>5. ASSUME NEW m \in S, m < n PROVE FALSE
  <2>1. below[m] \in 0 .. Cardinality(S) - 1 /\ below[m] < 0
    BY <1>1, <1>4, <1>5
  <2> QED BY <1>1, <2>1
<1>6. \A m \in S : n <= m
  BY <1>5
<1> QED BY <1>6

\* The rows of a set, each once and in their order.
ListsRows(list, S, n) ==
  /\ n \in Nat /\ DOMAIN list = 1 .. n /\ Len(list) = n
  /\ \A k \in 1 .. n : list[k].row = Sorted(S)[k] /\ list[k].row \in S
  /\ \A i \in S : \E k \in 1 .. n : list[k].row = i
  /\ \A j, k \in 1 .. n : list[j].row = list[k].row => j = k

LEMMA ShownList ==
  ASSUME NEW db, NEW S, S \subseteq Nat, IsFiniteSet(S)
  PROVE  ListsRows(Shown(db, S), S, Cardinality(S))
<1> DEFINE list == Sorted(S)
           n == Cardinality(S)
<1>1. n \in Nat /\ DOMAIN list = 1 .. n /\ list \in Seq(S) /\ Range(list) = S
      /\ \A i, j \in DOMAIN list : i < j => list[i] < list[j]
  BY SortedAscends DEF Ascends
<1> DEFINE rows == Shown(db, S)
<1>2. rows = [k \in DOMAIN list |-> [row |-> list[k], inventory |-> db.evidence[list[k]].name \in URLs(db)]]
  BY DEF Shown
<1> HIDE DEF list, rows, n
<1>3. DOMAIN rows = 1 .. n /\ \A k \in 1 .. n : rows[k].row = list[k]
  BY <1>1, <1>2
<1>4. \A k \in 1 .. n : list[k] \in S /\ list[k] \in Nat
  <2>1. \A k \in 1 .. n : list[k] \in Range(list)
    BY <1>1 DEF Range
  <2> QED BY <1>1, <2>1
<1>5. \A i \in S : \E k \in 1 .. n : rows[k].row = i
  BY <1>1, <1>3 DEF Range
<1>6. ASSUME NEW j \in 1 .. n, NEW k \in 1 .. n, rows[j].row = rows[k].row PROVE j = k
  <2>1. list[j] = list[k] /\ list[j] \in Nat
    BY <1>3, <1>4, <1>6
  <2>2. ~(j < k) /\ ~(k < j)
    BY <1>1, <2>1
  <2> QED BY <1>1, <2>2
<1>7. Len(rows) = n
  <2>1. rows = [k \in 1 .. n |-> rows[k]]
    BY <1>1, <1>2
  <2> QED BY <1>1, <2>1
<1>8. \A k \in 1 .. n : rows[k].row = Sorted(S)[k] /\ rows[k].row \in S
  BY <1>3, <1>4 DEF list
<1>9. ListsRows(rows, S, n)
  BY <1>1, <1>3, <1>5, <1>6, <1>7, <1>8 DEF ListsRows
<1> QED BY <1>9 DEF rows, n

\* The start of what is selected has the start of the references.
LEMMA FirstStart ==
  ASSUME NEW db, NEW query, NEW S, S \subseteq Nat, NEW P, P \subseteq S,
         \A p \in P, u \in S \ P : p < u
  PROVE  LET T == FirstOf(db, ReadOf(db, query, P))
             U == FirstOf(db, ReadOf(db, query, S))
         IN T \subseteq U /\ \A t \in T, u \in U \ T : t < u
<1> DEFINE Q == ReadOf(db, query, P)
           R == ReadOf(db, query, S)
           T == FirstOf(db, Q)
           U == FirstOf(db, R)
           Ref(i) == Reference(db.evidence[i])
<1>1. Q \subseteq P /\ R \subseteq S /\ Q \subseteq R /\ \A i \in R : i \in P => i \in Q
  BY DEF ReadOf
<1>2. /\ \A i : i \in T <=> i \in Q /\ \A j \in Q : Ref(j) = Ref(i) => i <= j
      /\ \A i : i \in U <=> i \in R /\ \A j \in R : Ref(j) = Ref(i) => i <= j
  BY DEF FirstOf
<1> HIDE DEF Q, R, T, U, Ref
<1>3. ASSUME NEW t \in T PROVE t \in U
  <2>1. ASSUME NEW j \in R, Ref(j) = Ref(t) PROVE t <= j
    <3>1. CASE j \in P
      BY <1>1, <1>2, <2>1, <3>1
    <3>2. CASE j \notin P
      <4>1. t < j /\ t \in Nat /\ j \in Nat
        BY <1>1, <1>2, <3>2
      <4> QED BY <4>1
    <3> QED BY <3>1, <3>2
  <2> QED BY <1>1, <1>2, <2>1
<1>4. ASSUME NEW t \in T, NEW u \in U \ T PROVE t < u
  <2>1. u \notin P
    <3>1. ASSUME u \in P PROVE FALSE
      <4>1. u \in Q /\ \A j \in Q : Ref(j) = Ref(u) => u <= j
        BY <1>1, <1>2, <3>1
      <4> QED BY <1>2, <4>1
    <3> QED BY <3>1
  <2> QED BY <1>1, <1>2, <2>1
<1> QED BY <1>3, <1>4 DEF T, U, Q, R

JavaScriptQueries(C, K, P, L) == [scan : C, kind : K, page : P, limit : L]

(***************************************************************************)
(* In any database: every JavaScript reference that was observed is listed *)
(* once for its kind and the page it is on, and no other; with a limit the *)
(* list is the start of what it is without one (results.py 109-185).       *)
(***************************************************************************)
THEOREM ReferencesAreListed ==
  ASSUME NEW db, IsDatabase(db), NEW C, NEW K, NEW P, NEW L,
         NEW query \in JavaScriptQueries(C, K, P, L), NEW limit \in Nat
  PROVE  ReferencesListed(db, query, limit)
<1> DEFINE S == Asked(db, query)
           cut == Range(Capped(Sorted(S), limit))
           R == ReadOf(db, query, S)
           Q == ReadOf(db, query, cut)
           U == FirstOf(db, R)
           T == FirstOf(db, Q)
           all == ListJavaScript(db, [query EXCEPT !.limit = NoLimit])
           some == ListJavaScript(db, [query EXCEPT !.limit = limit])
           Ref(i) == Reference(db.evidence[i])
<1>1. S \subseteq DOMAIN db.evidence /\ S \subseteq Nat /\ IsFiniteSet(S)
  <2>1. S \subseteq DOMAIN db.evidence
    BY DEF Asked
  <2> HIDE DEF S
  <2> QED BY <2>1, Positions
<1>2. ASSUME NEW q, q.scan = query.scan, q.kind = query.kind, q.page = query.page
      PROVE  Asked(db, q) = S /\ \A rows : ReadOf(db, q, rows) = ReadOf(db, query, rows)
  BY <1>2 DEF Asked, ReadOf
<1>3. \A m : /\ [query EXCEPT !.limit = m].scan = query.scan
             /\ [query EXCEPT !.limit = m].kind = query.kind
             /\ [query EXCEPT !.limit = m].page = query.page
             /\ [query EXCEPT !.limit = m].limit = m
  BY DEF JavaScriptQueries
<1>4. all = Shown(db, U)
  <2>1. Range(Capped(Sorted(S), NoLimit)) = S
    <3> HIDE DEF S
    <3> QED BY <1>1, Uncapped, CappedStart, 0 \in Nat
  <2> DEFINE q == [query EXCEPT !.limit = NoLimit]
  <2>2. Asked(db, q) = S /\ q.limit = NoLimit /\ \A rows : ReadOf(db, q, rows) = ReadOf(db, query, rows)
    BY <1>2, <1>3
  <2> HIDE DEF q, S
  <2>3. ListJavaScript(db, q) = Shown(db, U)
    BY <2>1, <2>2, ShownRows
  <2> QED BY <2>3 DEF q
<1>5. some = Shown(db, T)
  <2> DEFINE q == [query EXCEPT !.limit = limit]
  <2>1. Asked(db, q) = S /\ q.limit = limit /\ \A rows : ReadOf(db, q, rows) = ReadOf(db, query, rows)
    BY <1>2, <1>3
  <2> HIDE DEF q, S
  <2>2. ListJavaScript(db, q) = Shown(db, T)
    BY <2>1, ShownRows
  <2> QED BY <2>2 DEF q
<1> DEFINE size == Lower(Cardinality(S), Higher(1, limit))
<1>6. Leads(cut, S, size) /\ size \in Nat /\ size <= Higher(1, limit)
  <2> HIDE DEF S
  <2> QED BY <1>1, CappedStart
<1> HIDE DEF S, cut, size, all, some
<1>7. T \subseteq U /\ \A t \in T, u \in U \ T : t < u
  BY <1>1, <1>6, FirstStart DEF Leads
<1>8. U \subseteq R /\ R \subseteq S /\ T \subseteq Q /\ Q \subseteq cut
  BY DEF FirstOf, ReadOf
<1>9. \A i \in U : \A j \in R : Ref(j) = Ref(i) => i <= j
  BY DEF FirstOf
<1>10. ASSUME NEW i \in R PROVE \E k \in U : Ref(k) = Ref(i)
  <2> DEFINE same == {j \in R : Ref(j) = Ref(i)}
  <2>1. i \in same /\ same \subseteq R
    OBVIOUS
  <2> HIDE DEF R
  <2>2. same \in SUBSET S
    BY <1>8, <2>1
  <2> HIDE DEF same
  <2>3. same \subseteq Nat /\ IsFiniteSet(same) /\ same # {}
    BY <1>1, <2>1, <2>2, FS_Subset
  <2>4. PICK k \in same : \A m \in same : k <= m
    BY <2>3, LeastNumber
  <2>5. k \in R /\ Ref(k) = Ref(i) /\ \A j \in R : Ref(j) = Ref(k) => k <= j
    BY <2>4 DEF same
  <2>6. k \in U
    BY <2>5 DEF FirstOf
  <2> QED BY <2>5, <2>6
<1> HIDE DEF U, T, Q
<1>11. U \subseteq Nat /\ IsFiniteSet(U) /\ IsFiniteSet(T) /\ T \subseteq Nat /\ Cardinality(T) <= size
  <2>1. U \in SUBSET S /\ T \in SUBSET U /\ T \in SUBSET cut
    BY <1>7, <1>8
  <2>2. IsFiniteSet(U) /\ IsFiniteSet(T)
    BY <1>1, <2>1, FS_Subset
  <2>3. IsFiniteSet(cut) /\ Cardinality(cut) = size
    BY <1>6 DEF Leads
  <2> QED BY <1>1, <2>1, <2>2, <2>3, FS_Subset
<1>12. /\ Cardinality(U) \in Nat /\ DOMAIN all = 1 .. Cardinality(U) /\ Len(all) = Cardinality(U)
       /\ \A k \in 1 .. Cardinality(U) : all[k].row \in U
       /\ \A i \in U : \E k \in 1 .. Cardinality(U) : all[k].row = i
       /\ \A j, k \in 1 .. Cardinality(U) : all[j].row = all[k].row => j = k
  <2>1. ListsRows(all, U, Cardinality(U))
    BY <1>4, <1>11, ShownList
  <2> QED BY <2>1 DEF ListsRows
<1>13. Shortens(some, all, limit, FALSE)
  <2>1. Cardinality(T) <= Cardinality(U) /\ \A k \in 1 .. Cardinality(T) : Sorted(T)[k] = Sorted(U)[k]
    BY <1>7, <1>11, SortedStart
  <2>2. Cardinality(T) \in Nat /\ DOMAIN some = 1 .. Cardinality(T) /\ Len(some) = Cardinality(T)
    <3>1. ListsRows(some, T, Cardinality(T))
      BY <1>5, <1>11, ShownList
    <3> QED BY <3>1 DEF ListsRows
  <2>3. ASSUME NEW k \in 1 .. Cardinality(T) PROVE some[k] = all[k]
    <3>1. k \in 1 .. Cardinality(U) /\ Sorted(T)[k] = Sorted(U)[k]
      BY <1>12, <2>1, <2>2
    <3>2. DOMAIN Sorted(T) = 1 .. Cardinality(T) /\ DOMAIN Sorted(U) = 1 .. Cardinality(U)
      BY <1>11, SortedAscends DEF Ascends
    <3> QED BY <1>4, <1>5, <3>1, <3>2 DEF Shown
  <2>4. Cardinality(T) <= Higher(1, limit)
    <3>1. Higher(1, limit) \in Nat
      BY DEF Higher
    <3> QED BY <1>6, <1>11, <2>2, <3>1
  <2> QED BY <1>12, <2>1, <2>2, <2>3, <2>4 DEF Shortens
<1> DEFINE What(e) == <<e.kind, e.name, Page(e.source)>>
           Is(k) == What(db.evidence[all[k].row])
<1>14. \A i : Ref(i) = What(db.evidence[i])
  BY DEF Reference
<1> HIDE DEF Ref, What
<1>15. ASSUME NEW j \in DOMAIN all, NEW k \in DOMAIN all, Is(j) = Is(k) PROVE j = k
  <2>1. all[j].row \in U /\ all[k].row \in U /\ Ref(all[j].row) = Ref(all[k].row)
    BY <1>12, <1>14, <1>15
  <2>2. all[j].row <= all[k].row /\ all[k].row <= all[j].row
    BY <1>8, <1>9, <2>1
  <2>3. all[j].row \in Nat /\ all[k].row \in Nat
    BY <1>11, <2>1
  <2>4. all[j].row = all[k].row
    BY <2>2, <2>3
  <2> QED BY <1>12, <2>4
<1> DEFINE Wanted(e) == /\ e.ok /\ e.kind \in JavaScript
                        /\ query.scan \in {Unset, e.scan} /\ query.kind \in {Unset, e.kind}
                        /\ query.page \in {Unset, Page(e.source)}
<1>16. \A i : i \in R <=> i \in DOMAIN db.evidence /\ Wanted(db.evidence[i])
  BY DEF R, S, ReadOf, Asked
<1> HIDE DEF Wanted, R
<1>17. {Is(k) : k \in DOMAIN all} = {What(e) : e \in {x \in Range(db.evidence) : Wanted(x)}}
  <2>1. ASSUME NEW k \in DOMAIN all
        PROVE  \E e \in Range(db.evidence) : Wanted(e) /\ Is(k) = What(e)
    <3>1. all[k].row \in R
      BY <1>8, <1>12
    <3> QED BY <1>16, <3>1 DEF Range
  <2>2. ASSUME NEW e \in Range(db.evidence), Wanted(e)
        PROVE  \E k \in DOMAIN all : Is(k) = What(e)
    <3>1. PICK i \in DOMAIN db.evidence : e = db.evidence[i]
      BY DEF Range
    <3>2. i \in R
      BY <1>16, <2>2, <3>1
    <3>3. PICK u \in U : Ref(u) = Ref(i)
      BY <1>10, <3>2
    <3>4. PICK k \in DOMAIN all : all[k].row = u
      BY <1>12
    <3> QED BY <1>14, <3>1, <3>3, <3>4
  <2> QED BY <2>1, <2>2
<1> QED BY <1>13, <1>15, <1>17 DEF ReferencesListed, Wanted, What, all, some

-----------------------------------------------------------------------------
(* The export.                                                             *)

(***************************************************************************)
(* Whatever rules are in the directory: an export leaves those of its own  *)
(* scan and no others; one that is refused leaves what is there            *)
(* (exporter.py 281-384).                                                  *)
(***************************************************************************)
THEOREM RulesAreReplaced ==
  ASSUME NEW db, NEW scan, NEW X, NEW Y,
         NEW directory \in [rules : SUBSET [signals : X, of : Y], telemetry : Y],
         NEW force
  PROVE  RulesReplaced(db, scan, directory, force)
<1> DEFINE after == ExportRules(db, scan, directory, force)
           new == NewRules(db, scan)
<1>1. CASE Refused(db, scan, TRUE, force)
  <2>1. after = directory
    BY <1>1 DEF ExportRules
  <2> HIDE DEF after
  <2> QED BY <1>1, <2>1 DEF RulesReplaced, after
<1>2. CASE ~Refused(db, scan, TRUE, force)
  <2> DEFINE stale == {f \in directory.rules : \A r \in new : r.signals # f.signals}
             kept == directory.rules \ stale
  <2>1. after = [directory EXCEPT !.rules = Written(kept, new), !.telemetry = scan]
    BY <1>2 DEF ExportRules
  <2>2. Written(kept, new) = new
    <3>1. \A f \in kept : \E r \in new : r.signals = f.signals
      OBVIOUS
    <3> HIDE DEF kept, new
    <3> QED BY <3>1 DEF Written
  <2> HIDE DEF kept
  <2>3. after.rules = new /\ after.telemetry = scan
    BY <2>1, <2>2
  <2>4. {f.signals : f \in new} = {r.signals : r \in SigmaRules(db, scan)} /\ \A f \in new : f.of = scan
    <3> DEFINE rules == SigmaRules(db, scan)
    <3>1. new = {[signals |-> r.signals, of |-> scan] : r \in rules}
      BY DEF NewRules
    <3> HIDE DEF rules, new
    <3>2. \A f \in new : f.of = scan /\ \E r \in rules : f.signals = r.signals
      BY <3>1
    <3>3. ASSUME NEW r \in rules PROVE \E f \in new : f.signals = r.signals
      <4>1. [signals |-> r.signals, of |-> scan] \in new
        BY <3>1
      <4> QED BY <4>1
    <3> QED BY <3>2, <3>3 DEF rules
  <2> HIDE DEF after, new
  <2> QED BY <1>2, <2>3, <2>4 DEF RulesReplaced, after
<1> QED BY <1>1, <1>2

-----------------------------------------------------------------------------
(* What a defender could see.                                              *)

\* The signal of a name.
Named(name) ==
  CASE name = "subdomain_enumeration" ->
         Seen("subdomain_enumeration", {"discovered_dns_resolution", "discovered_dns_error"},
              {"discovered-dns"}, "names in a zone")
    [] name = "http_probing" ->
         Seen("http_probing", {"http_probe"},
              {"http", "discovered-http"}, "hosts requested")
    [] name = "virtual_host_probing" ->
         Seen("virtual_host_probing", {"vhost_observation", "vhost_baseline"},
              {"vhost-discovery"}, "hosts requested")
    [] name = "directory_enumeration" ->
         Seen("directory_enumeration", {"directory_observation"},
              {"directory-discovery"}, "absent paths")
    [] name = "certificate_transparency" ->
         Seen("certificate_transparency", {"subdomain_found"},
              {"ct"}, "none")
    [] name = "passive_subdomain_adapter" ->
         Seen("passive_subdomain_adapter", {"subdomain_found"},
              {"subfinder"}, "none")
    [] name = "historical_url_retrieval" ->
         Seen("historical_url_retrieval", {"url_history_batch", "url_history_found"},
              {"url-history"}, "none")

SignalNames ==
  {"subdomain_enumeration", "http_probing", "virtual_host_probing", "directory_enumeration",
   "certificate_transparency", "passive_subdomain_adapter", "historical_url_retrieval"}

\* The name of the signal a plugin's evidence counts for.
Watched(plugin) ==
  CASE plugin = "discovered-dns" -> "subdomain_enumeration"
    [] plugin \in {"http", "discovered-http"} -> "http_probing"
    [] plugin = "vhost-discovery" -> "virtual_host_probing"
    [] plugin = "directory-discovery" -> "directory_enumeration"
    [] plugin = "ct" -> "certificate_transparency"
    [] plugin = "subfinder" -> "passive_subdomain_adapter"
    [] plugin = "url-history" -> "historical_url_retrieval"

\* A signal is known by its name, and by any of its plugins.
LEMMA SignalsDiffer ==
  /\ \A s \in Signal : s = Named(s.name)
  /\ \A s \in Signal : \A p \in s.plugins : Watched(p) = s.name
  /\ \A s \in Signal : IsFiniteSet(s.plugins)
<1> SUFFICES ASSUME NEW s \in Signal
             PROVE  /\ s = Named(s.name)
                    /\ \A p \in s.plugins : Watched(p) = s.name
                    /\ IsFiniteSet(s.plugins)
  OBVIOUS
<1>1. \A p : IsFiniteSet({p})
  BY FS_Singleton
<1>2. ASSUME NEW p, NEW q PROVE IsFiniteSet({p, q})
  <2>1. IsFiniteSet({p} \cup {q})
    BY <1>1, FS_AddElement
  <2>2. {p, q} = {p} \cup {q}
    OBVIOUS
  <2> QED BY <2>1, <2>2
<1>3. CASE s = Seen("subdomain_enumeration", {"discovered_dns_resolution", "discovered_dns_error"},
                    {"discovered-dns"}, "names in a zone")
  <2>1. s.name = "subdomain_enumeration" /\ s.plugins = {"discovered-dns"}
    BY <1>3 DEF Seen
  <2>2. Named(s.name) = s
    BY <1>3, <2>1 DEF Named
  <2>3. \A p \in s.plugins : Watched(p) = s.name
    BY <2>1 DEF Watched
  <2> QED BY <1>1, <1>2, <2>1, <2>2, <2>3
<1>4. CASE s = Seen("http_probing", {"http_probe"},
                    {"http", "discovered-http"}, "hosts requested")
  <2>1. s.name = "http_probing" /\ s.plugins = {"http", "discovered-http"}
    BY <1>4 DEF Seen
  <2>2. Named(s.name) = s
    BY <1>4, <2>1 DEF Named
  <2>3. \A p \in s.plugins : Watched(p) = s.name
    BY <2>1 DEF Watched
  <2>4. IsFiniteSet({"http", "discovered-http"})
    BY <1>2
  <2>5. IsFiniteSet(s.plugins)
    BY <2>1, <2>4, Zenon
  <2> QED BY <2>2, <2>3, <2>5
<1>5. CASE s = Seen("virtual_host_probing", {"vhost_observation", "vhost_baseline"},
                    {"vhost-discovery"}, "hosts requested")
  <2>1. s.name = "virtual_host_probing" /\ s.plugins = {"vhost-discovery"}
    BY <1>5 DEF Seen
  <2>2. Named(s.name) = s
    BY <1>5, <2>1 DEF Named
  <2>3. \A p \in s.plugins : Watched(p) = s.name
    BY <2>1 DEF Watched
  <2> QED BY <1>1, <1>2, <2>1, <2>2, <2>3
<1>6. CASE s = Seen("directory_enumeration", {"directory_observation"},
                    {"directory-discovery"}, "absent paths")
  <2>1. s.name = "directory_enumeration" /\ s.plugins = {"directory-discovery"}
    BY <1>6 DEF Seen
  <2>2. Named(s.name) = s
    BY <1>6, <2>1 DEF Named
  <2>3. \A p \in s.plugins : Watched(p) = s.name
    BY <2>1 DEF Watched
  <2> QED BY <1>1, <1>2, <2>1, <2>2, <2>3
<1>7. CASE s = Seen("certificate_transparency", {"subdomain_found"},
                    {"ct"}, "none")
  <2>1. s.name = "certificate_transparency" /\ s.plugins = {"ct"}
    BY <1>7 DEF Seen
  <2>2. Named(s.name) = s
    BY <1>7, <2>1 DEF Named
  <2>3. \A p \in s.plugins : Watched(p) = s.name
    BY <2>1 DEF Watched
  <2> QED BY <1>1, <1>2, <2>1, <2>2, <2>3
<1>8. CASE s = Seen("passive_subdomain_adapter", {"subdomain_found"},
                    {"subfinder"}, "none")
  <2>1. s.name = "passive_subdomain_adapter" /\ s.plugins = {"subfinder"}
    BY <1>8 DEF Seen
  <2>2. Named(s.name) = s
    BY <1>8, <2>1 DEF Named
  <2>3. \A p \in s.plugins : Watched(p) = s.name
    BY <2>1 DEF Watched
  <2> QED BY <1>1, <1>2, <2>1, <2>2, <2>3
<1>9. CASE s = Seen("historical_url_retrieval", {"url_history_batch", "url_history_found"},
                    {"url-history"}, "none")
  <2>1. s.name = "historical_url_retrieval" /\ s.plugins = {"url-history"}
    BY <1>9 DEF Seen
  <2>2. Named(s.name) = s
    BY <1>9, <2>1 DEF Named
  <2>3. \A p \in s.plugins : Watched(p) = s.name
    BY <2>1 DEF Watched
  <2> QED BY <1>1, <1>2, <2>1, <2>2, <2>3
<1> QED BY <1>3, <1>4, <1>5, <1>6, <1>7, <1>8, <1>9 DEF Signal

LEMMA SignalsFinite == IsFiniteSet(Signal)
<1>1. ASSUME NEW S, NEW x, IsFiniteSet(S) PROVE IsFiniteSet(S \cup {x})
  BY <1>1, FS_AddElement
<1>2. ASSUME NEW a, NEW b, NEW c, NEW d, NEW e, NEW f, NEW g PROVE IsFiniteSet({a, b, c, d, e, f, g})
  <2>1. IsFiniteSet({a})
    BY FS_Singleton
  <2>2. IsFiniteSet({a} \cup {b})
    BY <1>1, <2>1
  <2>3. IsFiniteSet({a, b} \cup {c})
    <3>1. {a, b} = {a} \cup {b}
      OBVIOUS
    <3> QED BY <1>1, <2>2, <3>1
  <2>4. IsFiniteSet({a, b, c} \cup {d})
    <3>1. {a, b, c} = {a, b} \cup {c}
      OBVIOUS
    <3> QED BY <1>1, <2>3, <3>1
  <2>5. IsFiniteSet({a, b, c, d} \cup {e})
    <3>1. {a, b, c, d} = {a, b, c} \cup {d}
      OBVIOUS
    <3> QED BY <1>1, <2>4, <3>1
  <2>6. IsFiniteSet({a, b, c, d, e} \cup {f})
    <3>1. {a, b, c, d, e} = {a, b, c, d} \cup {e}
      OBVIOUS
    <3> QED BY <1>1, <2>5, <3>1
  <2>7. IsFiniteSet({a, b, c, d, e, f} \cup {g})
    <3>1. {a, b, c, d, e, f} = {a, b, c, d, e} \cup {f}
      OBVIOUS
    <3> QED BY <1>1, <2>6, <3>1
  <2>8. {a, b, c, d, e, f, g} = {a, b, c, d, e, f} \cup {g}
    OBVIOUS
  <2> QED BY <2>7, <2>8
<1> QED BY <1>2 DEF Signal

\* A sum counts boxes.
Boxes(f) == UNION {{x} \X (1 .. f[x]) : x \in DOMAIN f}

LEMMA SumCounts ==
  ASSUME NEW S, IsFiniteSet(S), NEW f \in [S -> Nat]
  PROVE  /\ IsFiniteSet(Boxes(f)) /\ Sum(f) = Cardinality(Boxes(f)) /\ Sum(f) \in Nat
         /\ \A x \in S : \A k \in 1 .. f[x] : <<x, k>> \in Boxes(f)
<1> DEFINE box == [x \in S |-> {x} \X (1 .. f[x])]
           all == {box[x] : x \in S}
<1>1. IsFiniteSet(all)
  <2>1. DOMAIN box = S /\ box = [x \in S |-> box[x]]
    OBVIOUS
  <2> HIDE DEF box
  <2> QED BY <2>1, ImageFinite
<1>2. ASSUME NEW x \in S PROVE IsFiniteSet(box[x])
  <2>1. IsFiniteSet({x}) /\ f[x] \in Nat
    BY FS_Singleton
  <2>2. IsFiniteSet(1 .. f[x])
    BY <2>1, FS_Interval
  <2>3. IsFiniteSet({x} \X (1 .. f[x]))
    BY <2>1, <2>2, FS_Product
  <2> QED BY <2>3
<1>3. Boxes(f) = UNION all
  <2>1. DOMAIN f = S /\ \A x \in S : box[x] = {x} \X (1 .. f[x])
    OBVIOUS
  <2> HIDE DEF box
  <2>2. {{x} \X (1 .. f[x]) : x \in DOMAIN f} = all
    BY <2>1
  <2> QED BY <2>2 DEF Boxes
<1> HIDE DEF box
<1>4. \A T \in all : IsFiniteSet(T)
  BY <1>2
<1> HIDE DEF all
<1>5. IsFiniteSet(Boxes(f))
  BY <1>1, <1>3, <1>4, FS_UNION
<1>6. Sum(f) = Cardinality(Boxes(f))
  BY DEF Sum, Boxes
<1>7. ASSUME NEW x \in S, NEW k \in 1 .. f[x] PROVE <<x, k>> \in Boxes(f)
  <2>1. <<x, k>> \in {x} \X (1 .. f[x]) /\ x \in DOMAIN f
    OBVIOUS
  <2> QED BY <2>1 DEF Boxes
<1> QED BY <1>5, <1>6, <1>7, FS_CardinalityType

LEMMA ObservedCounts ==
  ASSUME NEW db, IsDatabase(db), NEW scan, NEW s \in Signal
  PROVE  /\ Counted(db, scan, s) \subseteq Nat /\ IsFiniteSet(Counted(db, scan, s))
         /\ Cardinality(Counted(db, scan, s)) \in Nat
         /\ Observed(db, scan, s) \in Nat /\ Cardinality(Counted(db, scan, s)) <= Observed(db, scan, s)
         /\ Seconds(db, s) \in Nat
<1> DEFINE counted == Counted(db, scan, s)
           f == [i \in counted |-> Subjects(db.evidence[i])]
           g == [p \in s.plugins |-> db.seconds[p]]
<1>1. counted \subseteq DOMAIN db.evidence
  BY DEF Counted
<1>2. IsFiniteSet(counted) /\ counted \subseteq Nat
  BY <1>1, Positions
<1>3. f \in [counted -> Nat]
  <2>1. \A i \in DOMAIN db.evidence : Subjects(db.evidence[i]) \in Nat
    BY DEF IsDatabase, Subjects, Higher
  <2> QED BY <1>1, <2>1
<1>4. g \in [s.plugins -> Nat]
  BY DEF IsDatabase
<1>5. Observed(db, scan, s) = Higher(Cardinality(counted), Sum(f)) /\ Seconds(db, s) = Sum(g)
  BY DEF Observed, Seconds
<1> HIDE DEF counted, f, g
<1>6. Sum(f) \in Nat
  BY <1>2, <1>3, SumCounts
<1>7. Sum(g) \in Nat
  BY <1>4, SignalsDiffer, SumCounts
<1>8. Cardinality(counted) \in Nat
  BY <1>2, FS_CardinalityType
<1> QED BY <1>2, <1>5, <1>6, <1>7, <1>8 DEF Higher, counted

\* No record counts for two signals.
LEMMA OneSignal ==
  ASSUME NEW db, NEW scan, NEW i, NEW s \in Signal, NEW t \in Signal,
         i \in Counted(db, scan, s), i \in Counted(db, scan, t)
  PROVE  s = t
<1>1. db.evidence[i].plugin \in s.plugins /\ db.evidence[i].plugin \in t.plugins
  BY DEF Counted, Counts
<1>2. s.name = t.name
  BY <1>1, SignalsDiffer
<1> QED BY <1>2, SignalsDiffer

\* As many records as a rule is measured by, at least.
LEMMA RuleCounts ==
  ASSUME NEW db, IsDatabase(db), NEW scan, NEW g \in SUBSET Signal
  PROVE  /\ Sum([s \in g |-> Observed(db, scan, s)]) \in Nat
         /\ Sum([s \in g |-> Seconds(db, s)]) \in Nat
         /\ Cardinality({i \in DOMAIN db.evidence : \E s \in g : i \in Counted(db, scan, s)})
              <= Sum([s \in g |-> Observed(db, scan, s)])
<1> DEFINE f == [s \in g |-> Observed(db, scan, s)]
           u == [s \in g |-> Seconds(db, s)]
           T == {i \in DOMAIN db.evidence : \E s \in g : i \in Counted(db, scan, s)}
           Place(s, i) == Cardinality({j \in Counted(db, scan, s) : j < i})
           Of(i) == CHOOSE s \in g : i \in Counted(db, scan, s)
           h == [i \in T |-> <<Of(i), Place(Of(i), i) + 1>>]
<1>1. IsFiniteSet(g)
  BY SignalsFinite, FS_Subset
<1>2. \A s \in g : /\ Counted(db, scan, s) \subseteq Nat /\ IsFiniteSet(Counted(db, scan, s))
                   /\ Cardinality(Counted(db, scan, s)) \in Nat
                   /\ Observed(db, scan, s) \in Nat
                   /\ Cardinality(Counted(db, scan, s)) <= Observed(db, scan, s)
                   /\ Seconds(db, s) \in Nat
  BY ObservedCounts
<1>3. f \in [g -> Nat] /\ u \in [g -> Nat] /\ \A s \in g : f[s] = Observed(db, scan, s)
  BY <1>2
<1>4. ASSUME NEW s \in g
      PROVE  /\ \A i \in Counted(db, scan, s) : Place(s, i) + 1 \in 1 .. f[s] /\ Place(s, i) \in Nat
             /\ \A i, j \in Counted(db, scan, s) : Place(s, i) = Place(s, j) => i = j
  <2> DEFINE S == Counted(db, scan, s)
             below == [n \in S |-> Cardinality({m \in S : m < n})]
  <2>1. S \subseteq Nat /\ IsFiniteSet(S) /\ Cardinality(S) \in Nat /\ Cardinality(S) <= f[s] /\ f[s] \in Nat
    BY <1>2, <1>3
  <2> HIDE DEF S
  <2>2. /\ \A n \in S : below[n] \in 0 .. Cardinality(S) - 1
        /\ \A m, n \in S : m < n => below[m] < below[n]
    BY <2>1, Ranks
  <2>3. \A n \in S : below[n] = Place(s, n)
    BY DEF S
  <2> HIDE DEF below, Place, f
  <2>4. ASSUME NEW i \in S PROVE Place(s, i) + 1 \in 1 .. f[s] /\ Place(s, i) \in Nat
    <3>1. Place(s, i) \in 0 .. Cardinality(S) - 1
      BY <2>2, <2>3
    <3> QED BY <2>1, <3>1
  <2>5. ASSUME NEW i \in S, NEW j \in S, Place(s, i) = Place(s, j) PROVE i = j
    <3>1. i \in Nat /\ j \in Nat /\ below[i] = below[j] /\ below[i] \in Int
      BY <2>1, <2>2, <2>3, <2>5
    <3>2. ~(i < j) /\ ~(j < i)
      BY <2>2, <3>1
    <3> QED BY <3>1, <3>2
  <2> QED BY <2>4, <2>5 DEF S
<1> HIDE DEF f, u, Place
<1>5. /\ IsFiniteSet(Boxes(f)) /\ Sum(f) = Cardinality(Boxes(f)) /\ Sum(f) \in Nat
      /\ \A s \in g : \A k \in 1 .. f[s] : <<s, k>> \in Boxes(f)
  BY <1>1, <1>3, SumCounts
<1>6. Sum(u) \in Nat
  BY <1>1, <1>3, SumCounts
<1>7. \A i \in T : Of(i) \in g /\ i \in Counted(db, scan, Of(i))
  OBVIOUS
<1>8. \A i \in T : h[i] = <<Of(i), Place(Of(i), i) + 1>>
  OBVIOUS
<1> HIDE DEF Of
<1>9. h \in [T -> Boxes(f)]
  BY <1>4, <1>5, <1>7
<1> HIDE DEF T, h
<1>10. ASSUME NEW i \in T, NEW j \in T, h[i] = h[j] PROVE i = j
  <2>1. Of(i) = Of(j) /\ Place(Of(i), i) + 1 = Place(Of(j), j) + 1
    BY <1>8, <1>10
  <2> DEFINE s == Of(i)
  <2>2. s \in g /\ i \in Counted(db, scan, s) /\ j \in Counted(db, scan, s) /\ Place(s, i) + 1 = Place(s, j) + 1
    BY <1>7, <2>1
  <2> HIDE DEF s
  <2>3. Place(s, i) \in Nat /\ Place(s, j) \in Nat
    BY <1>4, <2>2
  <2>4. Place(s, i) = Place(s, j)
    BY <2>2, <2>3
  <2> QED BY <1>4, <2>2, <2>4
<1>11. h \in Injection(T, Boxes(f))
  BY <1>9, <1>10 DEF Injection, IsInjective
<1>12. Cardinality(T) <= Cardinality(Boxes(f))
  BY <1>5, <1>11, FS_Injection
<1> QED BY <1>5, <1>6, <1>12 DEF T, f, u

\* Half of what was measured, in a minute.
LEMMA HalfAMinute ==
  ASSUME NEW o \in Nat, NEW s \in Nat, NEW t, t = IF s = 0 THEN 5 ELSE Higher(5, (o * 60) \div (2 * s))
  PROVE  t \in Nat /\ t >= 5 /\ (t > 5 => t * s <= o * 30)
<1>1. CASE s = 0
  BY <1>1
<1>2. CASE s # 0
  <2> DEFINE a == o * 60
             k == 2 * s
             q == a \div k
  <2>1. a \in Nat /\ k \in Nat \ {0}
    BY <1>2
  <2>2. t = Higher(5, q)
    BY <1>2
  <2> HIDE DEF a
  <2>3. q \in Nat /\ k * q <= a
    <3> HIDE DEF k
    <3> DEFINE rest == a % k
    <3>1. q \in Nat /\ rest \in 0 .. k - 1 /\ a = (k * q) + rest
      BY <2>1
    <3>2. k * q \in Nat
      <4> HIDE DEF q
      <4> QED BY <2>1, <3>1
    <3> DEFINE kq == k * q
    <3> HIDE DEF kq, rest, q
    <3>3. kq \in Nat /\ a = kq + rest
      BY <3>1, <3>2 DEF kq
    <3>4. kq <= a
      BY <2>1, <3>1, <3>3
    <3> QED BY <3>1, <3>4 DEF kq
  <2> HIDE DEF q
  <2> DEFINE sq == s * q
  <2>4. sq \in Nat /\ k * q = 2 * sq /\ q * s = sq
    BY <2>3
  <2> HIDE DEF sq, k
  <2>5. q * s <= o * 30
    <3> DEFINE qs == q * s
    <3>1. qs \in Nat /\ 2 * qs <= a
      BY <2>1, <2>3, <2>4
    <3> HIDE DEF qs
    <3>2. qs <= o * 30
      BY <3>1 DEF a
    <3> QED BY <3>2 DEF qs
  <2>6. t \in Nat /\ t >= 5 /\ (t > 5 => t = q)
    BY <2>2, <2>3 DEF Higher
  <2> QED BY <2>5, <2>6
<1> QED BY <1>1, <1>2

\* In so many minutes with no more than c each, no more than that in all.
LEMMA Pigeonhole ==
  ASSUME NEW w \in Nat, NEW c \in Nat, NEW f \in [1 .. w -> Nat], \A m \in 1 .. w : f[m] <= c
  PROVE  Sum(f) <= w * c
<1> DEFINE places == (1 .. w) \X (1 .. c)
<1>1. IsFiniteSet(1 .. w) /\ Cardinality(1 .. w) = w /\ IsFiniteSet(1 .. c) /\ Cardinality(1 .. c) = c
  BY FS_Interval
<1>2. IsFiniteSet(places) /\ Cardinality(places) = w * c
  <2>1. IsFiniteSet(places) /\ Cardinality(places) = Cardinality(1 .. w) * Cardinality(1 .. c)
    BY <1>1, FS_Product, Zenon
  <2> QED BY <1>1, <2>1
<1>3. Sum(f) = Cardinality(Boxes(f))
  BY <1>1, SumCounts
<1>4. Boxes(f) \subseteq places
  <2>1. ASSUME NEW b \in Boxes(f) PROVE b \in places
    <3>1. PICK x \in 1 .. w : b \in {x} \X (1 .. f[x])
      BY <2>1 DEF Boxes
    <3>2. f[x] \in Nat /\ f[x] <= c
      OBVIOUS
    <3>3. PICK k \in 1 .. f[x] : b = <<x, k>>
      BY <3>1
    <3>4. k \in 1 .. c
      BY <3>2, <3>3
    <3> QED BY <3>3, <3>4
  <2> QED BY <2>1
<1> HIDE DEF places
<1>5. Cardinality(Boxes(f)) <= Cardinality(places)
  BY <1>2, <1>4, FS_Subset
<1> QED BY <1>2, <1>3, <1>5

\* A scan of half a minute and more that reaches a threshold on average
\* reaches it in some minute.
LEMMA SomeMinute ==
  ASSUME NEW rule, rule.observed \in Nat, rule.seconds \in Nat, rule.threshold \in Nat,
         rule.threshold >= 5, rule.seconds >= 30,
         rule.threshold * rule.seconds <= rule.observed * 30,
         NEW minutes \in Spreads(rule.observed, rule.seconds)
  PROVE  Trips(rule, minutes)
<1> DEFINE o == rule.observed
           s == rule.seconds
           t == rule.threshold
           w == (s + 59) \div 60
<1>1. o \in Nat /\ s \in Nat /\ t \in Nat /\ t >= 5 /\ s >= 30 /\ t * s <= o * 30
  OBVIOUS
<1>2. minutes \in [1 .. w -> 0 .. o] /\ Sum(minutes) = o
  BY DEF Spreads
<1> HIDE DEF o, s, t
<1>3. w \in Nat /\ w >= 1 /\ 30 * w <= s
  BY <1>1
<1> HIDE DEF w
<1>4. w * (t - 1) < o
  <2> DEFINE p == w * t
             d == s - 30 * w
             e == t * d
  <2>1. p \in Nat /\ d \in Nat
    BY <1>1, <1>3
  <2> HIDE DEF d
  <2>2. e \in Nat
    BY <1>1, <2>1
  <2>3. t * s = 30 * p + e
    BY <1>1, <1>3 DEF d
  <2>4. w * (t - 1) = p - w
    BY <1>1, <1>3
  <2> HIDE DEF p, e
  <2> DEFINE ts == t * s
  <2>5. ts <= o * 30 /\ ts = 30 * p + e
    BY <1>1, <2>3
  <2> HIDE DEF ts
  <2>6. p <= o
    BY <1>1, <2>1, <2>2, <2>5
  <2> QED BY <1>1, <1>3, <2>1, <2>4, <2>6
<1>5. ASSUME \A m \in 1 .. w : ~(minutes[m] >= t) PROVE FALSE
  <2> DEFINE c == t - 1
  <2>1. c \in Nat
    BY <1>1
  <2>2. minutes \in [1 .. w -> Nat] /\ \A m \in 1 .. w : minutes[m] <= c
    BY <1>1, <1>2, <1>5
  <2>3. w * c < o
    BY <1>4
  <2> HIDE DEF c
  <2>4. Sum(minutes) <= w * c
    BY <1>3, <2>1, <2>2, Pigeonhole
  <2>5. w * c \in Nat
    BY <1>3, <2>1
  <2> QED BY <1>1, <1>2, <2>3, <2>4, <2>5
<1>6. PICK m \in 1 .. w : minutes[m] >= t
  BY <1>5
<1>7. m \in DOMAIN minutes
  BY <1>2
<1> QED BY <1>6, <1>7 DEF Trips, t

(***************************************************************************)
(* In any database: no record counts for two signals; every visible signal *)
(* is in one rule and no invisible one in any; a rule is measured by all   *)
(* its records at least; and a scan of half a minute and more, that did    *)
(* what it did however spread over its time and at no value twice, trips   *)
(* the rule that was measured by it, unless its threshold is the floor     *)
(* (detection.py 245-510).                                                 *)
(***************************************************************************)
THEOREM RecordsCountOnce ==
  ASSUME NEW db, IsDatabase(db), NEW scan
  PROVE  CountedOnce(db, scan)
<1> DEFINE rules == SigmaRules(db, scan)
           visible == {s \in Detected(db, scan) : s.selection # "none"}
           groups == Groups(db, scan)
           Group(t) == {s \in visible : s.selection = t.selection}
           R(g) == Rule(db, scan, g)
<1>1. visible \subseteq Signal
  BY DEF Detected
<1>2. groups = {Group(t) : t \in visible} /\ rules = {R(g) : g \in groups}
  BY DEF Groups, SigmaRules
<1>3. \A g : /\ R(g).signals = {s.name : s \in g}
             /\ R(g).observed = Sum([s \in g |-> Observed(db, scan, s)])
             /\ R(g).seconds = Sum([s \in g |-> Seconds(db, s)])
             /\ R(g).threshold = IF R(g).seconds = 0 THEN 5
                                 ELSE Higher(5, (R(g).observed * 60) \div (2 * R(g).seconds))
  BY DEF Rule
<1>4. \A s, t \in Signal : s.name = t.name => s = t
  BY SignalsDiffer
<1> HIDE DEF visible, R, rules, groups
<1>5. ASSUME NEW i \in DOMAIN db.evidence, NEW s \in Signal, NEW t \in Signal,
             i \in Counted(db, scan, s), i \in Counted(db, scan, t)
      PROVE  s = t
  BY <1>5, OneSignal
<1>6. \A g \in groups : g \subseteq visible /\ g \subseteq Signal
  BY <1>1, <1>2
<1>7. ASSUME NEW s \in visible PROVE \E r \in rules : \A q \in rules : s.name \in q.signals <=> q = r
  <2> DEFINE r == R(Group(s))
  <2>1. Group(s) \in groups /\ s \in Group(s)
    BY <1>2
  <2>2. r \in rules /\ s.name \in r.signals
    BY <1>2, <1>3, <2>1
  <2>3. ASSUME NEW q \in rules, s.name \in q.signals PROVE q = r
    <3>1. PICK t \in visible : q = R(Group(t))
      BY <1>2
    <3>2. PICK u \in Group(t) : u.name = s.name
      BY <1>3, <2>3, <3>1
    <3>3. u = s
      BY <1>1, <1>4, <3>2
    <3>4. Group(t) = Group(s)
      BY <3>2, <3>3
    <3> QED BY <3>1, <3>4
  <2> HIDE DEF r
  <2> QED BY <2>2, <2>3
<1>8. UNION {r.signals : r \in rules} = {s.name : s \in visible}
  <2>1. ASSUME NEW r \in rules, NEW name \in r.signals PROVE name \in {s.name : s \in visible}
    <3>1. PICK g \in groups : r = R(g)
      BY <1>2
    <3>2. r.signals = {s.name : s \in g} /\ g \subseteq visible
      BY <1>3, <1>6, <3>1
    <3> QED BY <2>1, <3>2
  <2>2. ASSUME NEW s \in visible PROVE \E r \in rules : s.name \in r.signals
    BY <1>7
  <2> QED BY <2>1, <2>2
<1>9. ASSUME NEW r \in rules
      PROVE  /\ r.observed >= Cardinality({i \in DOMAIN db.evidence : \E s \in Signal :
                                            s.name \in r.signals /\ i \in Counted(db, scan, s)})
             /\ r.threshold >= 5
             /\ r.threshold > 5 /\ r.seconds >= 30 =>
                  \A minutes \in Spreads(r.observed, r.seconds) : Trips(r, minutes)
  <2>1. PICK g \in groups : r = R(g)
    BY <1>2
  <2>2. g \in SUBSET Signal
    BY <1>6
  <2> DEFINE T == {i \in DOMAIN db.evidence : \E s \in g : i \in Counted(db, scan, s)}
             U == {i \in DOMAIN db.evidence : \E s \in Signal :
                     s.name \in r.signals /\ i \in Counted(db, scan, s)}
  <2>3. U = T
    <3>1. \A s \in Signal : s.name \in r.signals <=> s \in g
      BY <1>3, <1>4, <2>1, <2>2
    <3> QED BY <2>2, <3>1
  <2> HIDE DEF T, U
  <2>4. r.observed \in Nat /\ r.seconds \in Nat /\ Cardinality(T) <= r.observed
    <3> DEFINE f == [s \in g |-> Observed(db, scan, s)]
               u == [s \in g |-> Seconds(db, s)]
    <3>1. Sum(f) \in Nat /\ Sum(u) \in Nat /\ Cardinality(T) <= Sum(f)
      BY <2>2, RuleCounts DEF T
    <3>2. r.observed = Sum(f) /\ r.seconds = Sum(u)
      BY <1>3, <2>1
    <3> HIDE DEF f, u
    <3> QED BY <3>1, <3>2
  <2>5. Cardinality(T) \in Nat
    <3>1. T \subseteq DOMAIN db.evidence
      BY DEF T
    <3>2. IsFiniteSet(T)
      BY <3>1, Positions
    <3> QED BY <3>2, FS_CardinalityType
  <2>6. r.threshold = IF r.seconds = 0 THEN 5 ELSE Higher(5, (r.observed * 60) \div (2 * r.seconds))
    BY <1>3, <2>1
  <2>7. r.threshold \in Nat /\ r.threshold >= 5 /\ (r.threshold > 5 => r.threshold * r.seconds <= r.observed * 30)
    BY <2>4, <2>6, HalfAMinute
  <2>8. r.observed >= Cardinality(U)
    BY <2>3, <2>4, <2>5
  <2>9. ASSUME r.threshold > 5, r.seconds >= 30, NEW minutes \in Spreads(r.observed, r.seconds)
        PROVE  Trips(r, minutes)
    BY <2>4, <2>7, <2>9, SomeMinute
  <2> QED BY <2>7, <2>8, <2>9 DEF U
<1> QED BY <1>5, <1>7, <1>8, <1>9 DEF CountedOnce, rules, visible

-----------------------------------------------------------------------------
(* The small databases.                                                    *)

IsRow(asset) == asset.ok \in BOOLEAN /\ asset.first \in Nat

IsEntry(entry) == entry.ok \in BOOLEAN /\ entry.subjects \in Nat

LEMMA Stored ==
  ASSUME NEW assets, Len(assets) \in Nat, DOMAIN assets = 1 .. Len(assets),
         \A i \in DOMAIN assets : IsRow(assets[i]),
         NEW owned, \A o \in owned : o.row \in DOMAIN assets,
         NEW evidence, Len(evidence) \in Nat, DOMAIN evidence = 1 .. Len(evidence),
         \A i \in DOMAIN evidence : IsEntry(evidence[i]),
         NEW n \in Nat
  PROVE  /\ IsDatabase(Content(assets, owned, evidence, Took(n)))
         /\ Content(assets, owned, evidence, Took(n)).assets = assets
         /\ Content(assets, owned, evidence, Took(n)).evidence = evidence
<1> DEFINE db == Content(assets, owned, evidence, Took(n))
<1>1. db.assets = assets /\ db.owned = owned /\ db.evidence = evidence /\ db.seconds = Took(n)
  BY DEF Content
<1>2. \A p \in UNION {s.plugins : s \in Signal} : Took(n)[p] \in Nat
  BY DEF Took
<1> HIDE DEF db
<1>3. IsDatabase(db)
  BY <1>1, <1>2 DEF IsDatabase, IsRow, IsEntry
<1> QED BY <1>1, <1>3 DEF db

LEMMA NoEntries ==
  /\ Len(<<>>) \in Nat /\ DOMAIN <<>> = 1 .. Len(<<>>)
  /\ \A i \in DOMAIN <<>> : IsEntry(<<>>[i]) /\ IsRow(<<>>[i])
OBVIOUS

LEMMA ThreeRows ==
  ASSUME NEW ok, ok \subseteq BOOLEAN, NEW firsts, firsts \subseteq Nat,
         NEW a \in Row(1, ok, firsts), NEW b \in Row(2, ok, firsts), NEW c \in Row(3, ok, firsts)
  PROVE  /\ Len(<<a, b, c>>) \in Nat /\ DOMAIN <<a, b, c>> = 1 .. Len(<<a, b, c>>)
         /\ \A i \in DOMAIN <<a, b, c>> : IsRow(<<a, b, c>>[i])
         /\ \A plugins : \A o \in Owned(1 .. 3, plugins) : o.row \in DOMAIN <<a, b, c>>
<1>1. IsRow(a) /\ IsRow(b) /\ IsRow(c)
  BY DEF Row, IsRow
<1> QED BY <1>1 DEF Owned

LEMMA IntactRow ==
  ASSUME NEW i, NEW firsts, NEW a \in Row(i, {TRUE}, firsts)
  PROVE  a \in Row(i, BOOLEAN, firsts) /\ a.ok = TRUE
<1>1. \A x \in {TRUE} : x = TRUE /\ x \in BOOLEAN
  OBVIOUS
<1> DEFINE T == {TRUE}
           B == BOOLEAN
<1>2. \A x \in T : x = TRUE /\ x \in B
  BY <1>1
<1> HIDE DEF T, B
<1>3. a \in [type : {Asset[i].type}, name : {Asset[i].name}, ok : T, first : firsts]
  BY DEF Row, T
<1>4. a.ok \in T /\ a \in [type : {Asset[i].type}, name : {Asset[i].name}, ok : B, first : firsts]
  BY <1>2, <1>3
<1>5. a.ok = TRUE
  BY <1>2, <1>4
<1> QED BY <1>4, <1>5 DEF Row, B

LEMMA AtMostTwo ==
  ASSUME NEW S, \A e \in S : IsEntry(e), NEW rows \in UpToTwo(S)
  PROVE  /\ Len(rows) \in Nat /\ DOMAIN rows = 1 .. Len(rows)
         /\ \A i \in DOMAIN rows : rows[i] \in S /\ IsEntry(rows[i])
<1>1. CASE rows = <<>>
  BY <1>1
<1>2. CASE \E e \in S : rows = <<e>>
  BY <1>2
<1>3. CASE \E e, f \in S : rows = <<e, f>>
  BY <1>3
<1> QED BY <1>1, <1>2, <1>3 DEF UpToTwo

LEMMA SmallListings == ListingsComplete
<1> SUFFICES ASSUME NEW a \in Row(1, BOOLEAN, {1}), NEW b \in Row(2, BOOLEAN, {1}), NEW c \in Row(3, BOOLEAN, {1}),
                    NEW owned \in SUBSET Owned(1 .. 3, {"ct", "subfinder"})
             PROVE  LET db == Content(<<a, b, c>>, owned, <<>>, Took(0))
                    IN  /\ ListingComplete(db, "s")
                        /\ \A query \in Query, limit \in 0 .. 3 : ListingShortens(db, query, limit)
  BY DEF ListingsComplete
<1> DEFINE db == Content(<<a, b, c>>, owned, <<>>, Took(0))
           assets == <<a, b, c>>
<1>1. /\ Len(assets) \in Nat /\ DOMAIN assets = 1 .. Len(assets) /\ \A i \in DOMAIN assets : IsRow(assets[i])
      /\ \A o \in owned : o.row \in DOMAIN assets
  BY ThreeRows
<1> HIDE DEF assets
<1>2. IsDatabase(db)
  BY <1>1, NoEntries, Stored DEF assets
<1> HIDE DEF db
<1>3. ListingComplete(db, "s")
  BY <1>2, "s" # Unset, ListingsAreComplete DEF Unset
<1>4. ASSUME NEW query \in Query, NEW limit \in 0 .. 3 PROVE ListingShortens(db, query, limit)
  <2>1. query \in Queries({Unset, "domain", "url"}, {<<>>, Root}, {Unset, "s"}, {Unset, "ct"}, {NoLimit})
    BY DEF Query, Queries
  <2> QED BY <1>2, <2>1, LimitsOnlyShorten
<1> QED BY <1>3, <1>4 DEF db

LEMMA SmallHistories == HistoryOrdered
<1> SUFFICES ASSUME NEW a \in Row(1, BOOLEAN, {NoTime, 1, 2}), NEW b \in Row(2, BOOLEAN, {NoTime, 1, 2}),
                    NEW c \in Row(3, BOOLEAN, {NoTime, 1, 2}), NEW started \in {NoTime, 2}, NEW limit \in {NoLimit, 2}
             PROVE  Chronological(Content(<<a, b, c>>, Owned(1 .. 3, {"ct"}), <<>>, Took(0)),
                                  [EveryAsset("s") EXCEPT !.limit = limit], started)
  BY DEF HistoryOrdered
<1> DEFINE assets == <<a, b, c>>
           owned == Owned(1 .. 3, {"ct"})
           db == Content(assets, owned, <<>>, Took(0))
           query == [EveryAsset("s") EXCEPT !.limit = limit]
<1>1. /\ Len(assets) \in Nat /\ DOMAIN assets = 1 .. Len(assets) /\ \A i \in DOMAIN assets : IsRow(assets[i])
      /\ \A o \in owned : o.row \in DOMAIN assets
  <2>1. {NoTime, 1, 2} \subseteq Nat /\ BOOLEAN \subseteq BOOLEAN
    BY DEF NoTime
  <2> QED BY <2>1, ThreeRows
<1> HIDE DEF assets, owned
<1>2. IsDatabase(db)
  BY <1>1, NoEntries, Stored
<1>3. query \in Queries({Unset}, {<<>>}, {"s"}, {Unset}, Nat \cup {NoLimit})
  BY DEF Queries, EveryAsset
<1>4. started \in Nat
  BY DEF NoTime
<1> HIDE DEF db, query
<1>5. Chronological(db, query, started)
  BY <1>2, <1>3, <1>4, HistoryIsChronological
<1> QED BY <1>5 DEF db, query, assets, owned

LEMMA SmallNames == NamesAddUp
<1> SUFFICES ASSUME NEW a \in Row(1, {TRUE}, {1}), NEW b \in Row(2, {TRUE}, {1}), NEW c \in Row(3, {TRUE}, {1}),
                    NEW evidence \in UpToTwo(Lookups), NEW owned \in SUBSET Owned(1 .. 3, {"ct"})
             PROVE  LET db == Content(<<a, b, c>>, owned, evidence, Took(0))
                    IN  NamesAreRows(db, "s") /\ \A target \in {<<>>, Root} : Partitioned(db, target, "s")
  BY DEF NamesAddUp
<1> DEFINE assets == <<a, b, c>>
           db == Content(assets, owned, evidence, Took(0))
<1>1. /\ Len(assets) \in Nat /\ DOMAIN assets = 1 .. Len(assets) /\ \A i \in DOMAIN assets : IsRow(assets[i])
      /\ \A o \in owned : o.row \in DOMAIN assets
  <2>1. a \in Row(1, BOOLEAN, {1}) /\ b \in Row(2, BOOLEAN, {1}) /\ c \in Row(3, BOOLEAN, {1})
    BY IntactRow
  <2> QED BY <2>1, ThreeRows
<1>2. \A e \in Lookups : IsEntry(e)
  BY DEF Lookups, Entry, IsEntry
<1>3. /\ Len(evidence) \in Nat /\ DOMAIN evidence = 1 .. Len(evidence)
      /\ \A i \in DOMAIN evidence : IsEntry(evidence[i])
  BY <1>2, AtMostTwo
<1>4. Len(Mail) = 2 /\ Len(WWW) = 2 /\ Mail # WWW
  <2>1. Len(Mail) = 2 /\ Len(WWW) = 2 /\ Mail[1] = "mail" /\ WWW[1] = "www"
    BY DEF Mail, WWW
  <2> QED BY <2>1
<1>5. \A i \in DOMAIN assets : assets[i].ok /\ Len(assets[i].name) \in Nat
  <2>1. /\ Asset[1].name = Mail /\ Asset[2].name = WWW /\ Asset[3].name = Mail
    BY DEF Asset
  <2>2. a.ok /\ b.ok /\ c.ok /\ a.name = Mail /\ b.name = WWW /\ c.name = Mail
    BY <2>1 DEF Row
  <2> QED BY <1>4, <2>2
<1>6. \A i, j \in DOMAIN assets : assets[i].type = assets[j].type /\ assets[i].name = assets[j].name => i = j
  <2>1. /\ Asset[1].name = Mail /\ Asset[2].name = WWW /\ Asset[3].name = Mail
        /\ Asset[1].type = "domain" /\ Asset[2].type = "domain" /\ Asset[3].type = "url"
    BY DEF Asset
  <2>2. /\ a.name = Mail /\ b.name = WWW /\ c.name = Mail
        /\ a.type = "domain" /\ b.type = "domain" /\ c.type = "url"
    BY <2>1 DEF Row
  <2>3. DOMAIN assets = 1 .. 3 /\ assets[1] = a /\ assets[2] = b /\ assets[3] = c
    OBVIOUS
  <2> HIDE DEF assets
  <2>4. \A i \in 1 .. 3 : i = 1 \/ i = 2 \/ i = 3
    OBVIOUS
  <2> QED BY <1>4, <2>2, <2>3, <2>4
<1> HIDE DEF assets
<1>7. IsDatabase(db) /\ db.assets = assets
  BY <1>1, <1>3, Stored
<1> HIDE DEF db
<1>8. NamesAreRows(db, "s")
  BY <1>5, <1>6, <1>7, "s" # Unset, NamesAreListed DEF Unset
<1>9. \A target \in {<<>>, Root} : Partitioned(db, target, "s")
  BY <1>7, NamesArePartitioned
<1> QED BY <1>8, <1>9 DEF db, assets

\* A database of nothing but evidence.
LEMMA OnlyEvidence ==
  ASSUME NEW S, \A e \in S : IsEntry(e), NEW evidence \in UpToTwo(S), NEW n \in Nat
  PROVE  /\ IsDatabase(Content(<<>>, {}, evidence, Took(n)))
         /\ Content(<<>>, {}, evidence, Took(n)).evidence = evidence
<1> DEFINE none == <<>>
<1>1. /\ Len(none) \in Nat /\ DOMAIN none = 1 .. Len(none) /\ \A i \in DOMAIN none : IsRow(none[i])
      /\ \A o \in {} : o.row \in DOMAIN none
  BY NoEntries
<1>2. /\ Len(evidence) \in Nat /\ DOMAIN evidence = 1 .. Len(evidence)
      /\ \A i \in DOMAIN evidence : IsEntry(evidence[i])
  BY AtMostTwo
<1> HIDE DEF none
<1>3. IsDatabase(Content(none, {}, evidence, Took(n)))
      /\ Content(none, {}, evidence, Took(n)).evidence = evidence
  BY <1>1, <1>2, Stored
<1> QED BY <1>3 DEF none

LEMMA SmallFailures == LatestFailures
<1> SUFFICES ASSUME NEW evidence \in UpToTwo(Attempts), NEW scan \in {Unset, "s"}, NEW limit \in 0 .. 2
             PROVE  FailuresListed(Content(<<>>, {}, evidence, Took(0)), scan, limit)
  BY DEF LatestFailures
<1> DEFINE db == Content(<<>>, {}, evidence, Took(0))
<1>1. \A e \in Attempts : IsEntry(e)
  BY DEF Attempts, Entry, IsEntry
<1>2. IsDatabase(db)
  BY <1>1, OnlyEvidence
<1> HIDE DEF db
<1>3. FailuresListed(db, scan, limit)
  BY <1>2, FailuresAreListed
<1> QED BY <1>3 DEF db

LEMMA SmallReferences == ReferencesOnce
<1> SUFFICES ASSUME NEW c \in Row(3, {TRUE}, {1}), NEW evidence \in UpToTwo(Observations),
                    NEW query \in JavaScriptQuery, NEW limit \in 1 .. 2
             PROVE  ReferencesListed(Content(<<c>>, {}, evidence, Took(0)), query, limit)
  BY DEF ReferencesOnce
<1> DEFINE assets == <<c>>
           db == Content(assets, {}, evidence, Took(0))
<1>1. /\ Len(assets) \in Nat /\ DOMAIN assets = 1 .. Len(assets) /\ \A i \in DOMAIN assets : IsRow(assets[i])
      /\ \A o \in {} : o.row \in DOMAIN assets
  <2>1. IsRow(c)
    <3>1. c \in Row(3, BOOLEAN, {1})
      BY IntactRow
    <3> QED BY <3>1 DEF Row, IsRow
  <2> QED BY <2>1
<1>2. \A e \in Observations : IsEntry(e)
  <2> SUFFICES ASSUME NEW e \in Observations PROVE IsEntry(e)
    OBVIOUS
  <2>1. CASE e \in Entry({"s", "t"}, {"javascript-bundles"}, {"javascript_bundle_error"}, {<<>>},
                         {"none"}, {FALSE}, {0})
    BY <2>1 DEF Entry, IsEntry
  <2>2. CASE e \in Entry({"s"}, {"javascript-extraction"},
                         {"javascript_script_url", "javascript_endpoint_reference"},
                         {Mail, WWW}, {"page", "page/", "other"}, {FALSE}, {0})
    BY <2>2 DEF Entry, IsEntry
  <2> QED BY <2>1, <2>2 DEF Observations
<1>3. /\ Len(evidence) \in Nat /\ DOMAIN evidence = 1 .. Len(evidence)
      /\ \A i \in DOMAIN evidence : IsEntry(evidence[i])
  BY <1>2, AtMostTwo
<1> HIDE DEF assets
<1>4. IsDatabase(db)
  BY <1>1, <1>3, Stored
<1>5. query \in JavaScriptQueries({Unset, "s"}, {Unset, "javascript_script_url"}, {Unset, "page"}, {NoLimit})
  BY DEF JavaScriptQuery, JavaScriptQueries
<1> HIDE DEF db
<1>6. ReferencesListed(db, query, limit)
  BY <1>4, <1>5, ReferencesAreListed
<1> QED BY <1>6 DEF db, assets

LEMMA CapturedRecords ==
  \A e \in Captured : IsEntry(e) /\ e.scan = "s" /\ \E s \in Signal : Counts(s, e)
<1> SUFFICES ASSUME NEW e \in Captured PROVE IsEntry(e) /\ e.scan = "s" /\ \E s \in Signal : Counts(s, e)
  OBVIOUS
<1>1. IsEntry(e) /\ e.scan = "s"
  BY DEF Captured, Entry, IsEntry
<1>2. \/ e.plugin = "ct" /\ e.kind = "subdomain_found"
      \/ e.plugin = "subfinder" /\ e.kind = "subdomain_found"
      \/ e.plugin = "http" /\ e.kind = "http_probe"
      \/ e.plugin = "vhost-discovery" /\ e.kind = "vhost_baseline"
      \/ e.plugin = "discovered-dns" /\ e.kind = "discovered_dns_error"
  BY DEF Captured
<1>3. CASE e.plugin = "ct" /\ e.kind = "subdomain_found"
  <2> DEFINE s == Seen("certificate_transparency", {"subdomain_found"}, {"ct"}, "none")
  <2>1. s.kinds = {"subdomain_found"} /\ s.plugins = {"ct"}
    BY DEF Seen
  <2>2. s \in Signal
    BY DEF Signal
  <2> HIDE DEF s
  <2> QED BY <1>1, <1>3, <2>1, <2>2 DEF Counts
<1>4. CASE e.plugin = "subfinder" /\ e.kind = "subdomain_found"
  <2> DEFINE s == Seen("passive_subdomain_adapter", {"subdomain_found"}, {"subfinder"}, "none")
  <2>1. s.kinds = {"subdomain_found"} /\ s.plugins = {"subfinder"}
    BY DEF Seen
  <2>2. s \in Signal
    BY DEF Signal
  <2> HIDE DEF s
  <2> QED BY <1>1, <1>4, <2>1, <2>2 DEF Counts
<1>5. CASE e.plugin = "http" /\ e.kind = "http_probe"
  <2> DEFINE s == Seen("http_probing", {"http_probe"}, {"http", "discovered-http"}, "hosts requested")
  <2>1. s.kinds = {"http_probe"} /\ s.plugins = {"http", "discovered-http"}
    BY DEF Seen
  <2>2. s \in Signal
    BY DEF Signal
  <2> HIDE DEF s
  <2> QED BY <1>1, <1>5, <2>1, <2>2 DEF Counts
<1>6. CASE e.plugin = "vhost-discovery" /\ e.kind = "vhost_baseline"
  <2> DEFINE s == Seen("virtual_host_probing", {"vhost_observation", "vhost_baseline"},
                       {"vhost-discovery"}, "hosts requested")
  <2>1. s.kinds = {"vhost_observation", "vhost_baseline"} /\ s.plugins = {"vhost-discovery"}
    BY DEF Seen
  <2>2. s \in Signal
    BY DEF Signal
  <2> HIDE DEF s
  <2> QED BY <1>1, <1>6, <2>1, <2>2 DEF Counts
<1>7. CASE e.plugin = "discovered-dns" /\ e.kind = "discovered_dns_error"
  <2> DEFINE s == Seen("subdomain_enumeration", {"discovered_dns_resolution", "discovered_dns_error"},
                       {"discovered-dns"}, "names in a zone")
  <2>1. s.kinds = {"discovered_dns_resolution", "discovered_dns_error"} /\ s.plugins = {"discovered-dns"}
    BY DEF Seen
  <2>2. s \in Signal
    BY DEF Signal
  <2> HIDE DEF s
  <2> QED BY <1>1, <1>7, <2>1, <2>2 DEF Counts
<1> QED BY <1>2, <1>3, <1>4, <1>5, <1>6, <1>7

LEMMA SmallDetections == EventsCountOnce
<1> SUFFICES ASSUME NEW evidence \in UpToTwo(Captured), NEW n \in {0, 2, 40}
             PROVE  LET db == Content(<<>>, {}, evidence, Took(n))
                    IN  /\ CountedOnce(db, "s")
                        /\ \A i \in DOMAIN evidence : \E s \in Signal : i \in Counted(db, "s", s)
  BY DEF EventsCountOnce
<1> DEFINE db == Content(<<>>, {}, evidence, Took(n))
<1>1. \A i \in DOMAIN evidence : evidence[i] \in Captured
  BY CapturedRecords, AtMostTwo
<1>2. IsDatabase(db) /\ db.evidence = evidence
  BY CapturedRecords, OnlyEvidence
<1> HIDE DEF db
<1>3. CountedOnce(db, "s")
  BY <1>2, RecordsCountOnce
<1>4. \A i \in DOMAIN evidence : \E s \in Signal : i \in Counted(db, "s", s)
  BY <1>1, <1>2, CapturedRecords DEF Counted
<1> QED BY <1>3, <1>4 DEF db

LEMMA SmallExports == RulesOfThisScan
<1> DEFINE Left == [signals : {{"http_probing"}, {"http_probing", "virtual_host_probing"}, {"own"}}, of : {"t"}]
<1>1. ASSUME NEW db, NEW rules \in SUBSET Left, NEW force
      PROVE  RulesReplaced(db, "s", [rules |-> rules, telemetry |-> "t"], force)
  <2> DEFINE directory == [rules |-> rules, telemetry |-> "t"]
  <2>1. directory \in [rules : SUBSET Left, telemetry : {"t"}]
    OBVIOUS
  <2> HIDE DEF directory
  <2>2. RulesReplaced(db, "s", directory, force)
    BY <2>1, RulesAreReplaced
  <2> QED BY <2>2 DEF directory
<1> QED BY <1>1 DEF RulesOfThisScan

\* What is proved above of any database holds of the small ones.
LEMMA SmallViews == ViewsHold
BY SmallListings, SmallHistories, SmallNames, SmallFailures, SmallReferences DEF ViewsHold

LEMMA SmallRules == RulesHold
BY SmallDetections, SmallExports DEF RulesHold

(***************************************************************************)
(* The views of one database agree, whatever the processes do: of any      *)
(* database by LimitsOnlyShorten, ListingsAreComplete,                     *)
(* HistoryIsChronological, NamesArePartitioned, NamesAreListed,            *)
(* FailuresAreListed and ReferencesAreListed.                              *)
(***************************************************************************)
THEOREM ViewsAlwaysAgree == Spec => []ViewsAgree
<1>1. ViewsAgree
  BY SmallViews DEF ViewsAgree
<1> QED BY <1>1, PTL

(***************************************************************************)
(* The rules measure the scan and only its rules are exported, whatever    *)
(* the processes do: of any database by RecordsCountOnce and               *)
(* RulesAreReplaced.                                                       *)
(***************************************************************************)
THEOREM RulesAlwaysMeasure == Spec => []RulesMeasure
<1>1. RulesMeasure
  BY SmallRules DEF RulesMeasure
<1> QED BY <1>1, PTL
=============================================================================
