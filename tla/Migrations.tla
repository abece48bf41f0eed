------------------------------ MODULE Migrations ------------------------------
(***************************************************************************)
(* sh4q/storage/db.py and the stores' init(): how processes of the program *)
(* open a database that does not exist yet or that an earlier version left *)
(* behind.  Numbered migrations run in one transaction; the stores then    *)
(* create what is missing, one statement and one transaction at a time.    *)
(* Several scans and commands may start at once, and any may be killed.    *)
(*                                                                         *)
(* Of a table only the columns that earlier versions lacked are kept, of   *)
(* an index its name.  Rows are left out: no statement here touches any.   *)
(***************************************************************************)
EXTENDS Integers, Sequences, FiniteSets

CONSTANTS
  Processes,   (* processes of the program on one database                 *)
  Databases    (* what they may find                                       *)

CurrentVersion == 5   (* CURRENT_SCHEMA_VERSION                            *)
Unrecorded     == -1  (* schema_metadata has no row, or does not exist     *)

Table == {"nodes", "relationships", "evidence", "event_log", "scan_runs", "scan_assets"}

\* The columns that came later (evidence.py 58-59, event_log.py
\* 97-103, db.py 151-159).
Late == [t \in Table |->
  CASE t = "evidence"  -> {"scan_run_id"}
    [] t = "event_log" -> {"error", "attempts", "next_attempt_at"}
    [] t = "scan_runs" -> {"config_hash", "template_name", "stages", "tool_versions"}
    [] OTHER -> {}]

LateColumn == UNION {Late[t] : t \in Table}

\* Lines 71-138: each index, the table it is on and the late columns it needs.
MigratedIndex(v) ==
  CASE v = 2 -> {<<"idx_evidence_scan_kind", "evidence", {"scan_run_id"}>>,
                 <<"idx_scan_assets_asset", "scan_assets", {}>>,
                 <<"idx_scan_runs_started", "scan_runs", {}>>}
    [] v = 3 -> {<<"idx_evidence_scan_kind_captured", "evidence", {"scan_run_id"}>>,
                 <<"idx_evidence_target_captured", "evidence", {"scan_run_id"}>>,
                 <<"idx_scan_assets_scan_source_asset", "scan_assets", {}>>,
                 <<"idx_relationships_from", "relationships", {}>>,
                 <<"idx_relationships_to", "relationships", {}>>}
    [] v = 4 -> {<<"idx_event_log_status_next", "event_log", {"next_attempt_at"}>>,
                 <<"idx_nodes_type_value", "nodes", {}>>}
    [] OTHER -> {}

IndexName == {i[1] : i \in UNION {MigratedIndex(v) : v \in 1 .. CurrentVersion}}

\* A database: its tables, their late columns, its indexes, the version in
\* schema_metadata and the one in PRAGMA user_version.
Database == [tables : SUBSET Table, columns : SUBSET LateColumn, indexes : SUBSET IndexName,
             recorded : Int, native : Int]

\* Lines 219-223, of what 215-218 read.
Version(d) ==
  IF d.recorded # Unrecorded THEN d.recorded
  ELSE IF d.native < CurrentVersion THEN d.native ELSE CurrentVersion

\* The identity columns are there if the table is.
HasIdentity(d) == "scan_runs" \in d.tables => Late["scan_runs"] \subseteq d.columns

\* No version of the program recorded a version without its migrations, or
\* in one place only.
ASSUME MigrationsAssumption ==
  /\ Databases \subseteq Database
  /\ \A d \in Databases : /\ Version(d) \in Nat
                          /\ Version(d) = CurrentVersion => HasIdentity(d)
                          /\ d.recorded = CurrentVersion => d.native = CurrentVersion

VARIABLES
  disk,      (* the database as committed                                  *)
  lock,      (* the processes in a write transaction, at most one          *)
  draft,     (* what that transaction has made of it                       *)
  level,     (* the migration it has reached                               *)
  program,   (* what each process does                                     *)
  pos,       (* the statement it is at                                     *)
  seen,      (* the columns its last PRAGMA table_info returned            *)
  outcome    (* running, done, killed or the error it ended with           *)

transaction == <<lock, draft, level>>
vars == <<disk, transaction, program, pos, seen, outcome>>

\* No database, or a file that a scan has created and written nothing to yet.
\* A command that reads refuses the one (main.py 1165, 1437-1464) and migrates
\* the other (952-957); the model lets it go on with both, which allows more.
NoDatabase == [tables |-> {}, columns |-> {}, indexes |-> {}, recorded |-> Unrecorded, native |-> 0]
-----------------------------------------------------------------------------
(* The statements.                                                         *)

CreateTable(d, t) ==
  IF t \in d.tables THEN d
  ELSE [d EXCEPT !.tables = @ \cup {t}, !.columns = @ \cup Late[t]]

AddColumns(d, cs) == [d EXCEPT !.columns = @ \cup cs]
CreateIndexes(d, names) == [d EXCEPT !.indexes = @ \cup names]

\* Lines 63-159.
Migration(v, d) ==
  IF v = 5 THEN IF "scan_runs" \in d.tables THEN AddColumns(d, Late["scan_runs"]) ELSE d
  ELSE CreateIndexes(d, {i[1] : i \in {j \in MigratedIndex(v) : j[2] \in d.tables /\ j[3] \subseteq d.columns}})

Ensure      == [do |-> "ensure"]
Create(t)   == [do |-> "create", table |-> t]
Index(name) == [do |-> "index", name |-> name]
Look(t)     == [do |-> "look", table |-> t]
Column(c)   == [do |-> "column", column |-> c]
Use(ts)     == [do |-> "use", tables |-> ts]

\* scan_runner.py 271-294 with the stores' init(), and the scan itself.
Scan ==
  <<Ensure, Ensure,
    Create("nodes"), Create("relationships"),
    Index("idx_relationships_from"), Index("idx_relationships_to"), Index("idx_nodes_type_value"),
    Create("evidence"), Look("evidence"), Column("scan_run_id"),
    Index("idx_evidence_scan_kind_captured"), Index("idx_evidence_target_captured"),
    Create("event_log"), Look("event_log"),
    Column("error"), Column("attempts"), Column("next_attempt_at"),
    Index("idx_event_log_status_next"),
    Create("scan_runs"), Use({"scan_runs"}),
    Create("scan_assets"), Index("idx_scan_assets_scan_source_asset"),
    Use(Table)>>

\* main.py 952-957; then list_scans (scan_runs.py 148-164) or latest_scan
\* (177-198), which creates nothing.
Program == [scan |-> Scan,
            runs |-> <<Ensure, Create("scan_runs"), Use({"scan_runs"})>>,
            results |-> <<Ensure, Use({"scan_runs"})>>]
-----------------------------------------------------------------------------
Init ==
  /\ disk \in Databases
  /\ lock = {} /\ draft = NoDatabase /\ level = 0
  /\ program = [p \in Processes |-> "results"]
  /\ pos = [p \in Processes |-> 1]
  /\ seen = [p \in Processes |-> {}]
  /\ outcome = [p \in Processes |-> "done"]

Running(p) == outcome[p] = "running"
Statement(p) == Program[program[p]][pos[p]]
Doing(p, what) == Running(p) /\ Statement(p).do = what

Start(p, name) ==
  /\ ~Running(p)
  /\ program' = [program EXCEPT ![p] = name]
  /\ pos' = [pos EXCEPT ![p] = 1]
  /\ seen' = [seen EXCEPT ![p] = {}]
  /\ outcome' = [outcome EXCEPT ![p] = "running"]
  /\ UNCHANGED <<disk, transaction>>

\* On to the next statement, if there is one.
Advance(p) ==
  /\ IF pos[p] < Len(Program[program[p]])
     THEN pos' = [pos EXCEPT ![p] = @ + 1] /\ UNCHANGED outcome
     ELSE outcome' = [outcome EXCEPT ![p] = "done"] /\ UNCHANGED pos
  /\ UNCHANGED program

Fails(p, error) ==
  /\ outcome' = [outcome EXCEPT ![p] = error]
  /\ UNCHANGED <<program, pos, seen>>
-----------------------------------------------------------------------------
(* ensure_schema_version (210-238).                                        *)

\* A plausible bug of Begin, used as a mutant: any version will do.
BeginUnchecked(p) ==
  /\ Doing(p, "ensure") /\ lock = {}
  /\ lock' = {p} /\ draft' = disk
  /\ level' = IF Version(disk) < CurrentVersion THEN Version(disk) ELSE CurrentVersion
  /\ UNCHANGED <<disk, program, pos, seen, outcome>>

\* Lines 213-228, BEGIN IMMEDIATE; a newer database is left as it was.
Begin(p) ==
  /\ Doing(p, "ensure") /\ lock = {}
  /\ IF Version(disk) > CurrentVersion
     THEN Fails(p, "newer") /\ UNCHANGED <<disk, transaction>>
     ELSE /\ lock' = {p} /\ draft' = disk /\ level' = Version(disk)
          /\ UNCHANGED <<disk, program, pos, seen, outcome>>

(* Plausible bugs of Migrate, used as mutants: the versions' range ends     *)
(* one short; every migration is committed with the version written first. *)
MigrateButLast(p) ==
  /\ p \in lock /\ level < CurrentVersion
  /\ draft' = IF level + 1 < CurrentVersion THEN Migration(level + 1, draft) ELSE draft
  /\ level' = level + 1
  /\ UNCHANGED <<disk, lock, program, pos, seen, outcome>>

MigrateCommitted(p) ==
  /\ p \in lock /\ level < CurrentVersion
  /\ draft' = Migration(level + 1, draft)
  /\ disk' = [draft EXCEPT !.recorded = level + 1, !.native = level + 1]
  /\ level' = level + 1
  /\ UNCHANGED <<lock, program, pos, seen, outcome>>

\* Lines 229-230.
Migrate(p) ==
  /\ p \in lock /\ level < CurrentVersion
  /\ draft' = Migration(level + 1, draft)
  /\ level' = level + 1
  /\ UNCHANGED <<disk, lock, program, pos, seen, outcome>>

Unlocked == lock' = {} /\ draft' = NoDatabase /\ level' = 0

\* Lines 231-238.
Commit(p) ==
  /\ p \in lock /\ level = CurrentVersion
  /\ disk' = [draft EXCEPT !.recorded = CurrentVersion, !.native = CurrentVersion]
  /\ Unlocked
  /\ Advance(p)
  /\ UNCHANGED seen
-----------------------------------------------------------------------------
(* The stores' statements; each is committed at once.  One that changes    *)
(* nothing needs no lock.                                                  *)

Alters(p, d) ==
  /\ lock = {} \/ d = disk
  /\ disk' = d
  /\ Advance(p)
  /\ UNCHANGED <<transaction, seen>>

CreateIfMissing(p) == Doing(p, "create") /\ Alters(p, CreateTable(disk, Statement(p).table))

IndexIfMissing(p) == Doing(p, "index") /\ Alters(p, CreateIndexes(disk, {Statement(p).name}))

\* PRAGMA table_info.
LookAt(p) ==
  /\ Doing(p, "look")
  /\ seen' = [seen EXCEPT ![p] = Late[Statement(p).table] \cap disk.columns]
  /\ Advance(p)
  /\ UNCHANGED <<disk, transaction>>

\* A column that was not seen is added, if nobody else has been faster.
ColumnIfMissing(p) ==
  /\ Doing(p, "column")
  /\ LET c == Statement(p).column IN
     \/ c \in seen[p] /\ Alters(p, disk)
     \/ c \notin seen[p] /\ c \notin disk.columns /\ Alters(p, AddColumns(disk, {c}))
     \/ /\ c \notin seen[p] /\ c \in disk.columns
        /\ Fails(p, "duplicate column")
        /\ UNCHANGED <<disk, transaction>>

\* INSERT or SELECT with all the columns.
UseTables(p) ==
  /\ Doing(p, "use")
  /\ LET ts == Statement(p).tables IN
     \/ /\ ts \subseteq disk.tables /\ UNION {Late[t] : t \in ts} \subseteq disk.columns
        /\ Alters(p, disk)
     \/ /\ ~ts \subseteq disk.tables
        /\ Fails(p, "no such table")
        /\ UNCHANGED <<disk, transaction>>
     \/ /\ ts \subseteq disk.tables /\ ~UNION {Late[t] : t \in ts} \subseteq disk.columns
        /\ Fails(p, "no such column")
        /\ UNCHANGED <<disk, transaction>>

\* busy_timeout: the other's transaction did not end within ten seconds.
Locked(p) ==
  /\ Running(p) /\ lock # {} /\ p \notin lock
  /\ Fails(p, "locked")
  /\ UNCHANGED <<disk, transaction>>

\* Killed: SQLite rolls the transaction back.
Crash(p) ==
  /\ Running(p)
  /\ Fails(p, "killed")
  /\ IF p \in lock THEN Unlocked ELSE UNCHANGED transaction
  /\ UNCHANGED disk

Next == \E p \in Processes :
  \/ \E name \in DOMAIN Program : Start(p, name)
  \/ Begin(p) \/ Migrate(p) \/ Commit(p)
  \/ CreateIfMissing(p) \/ IndexIfMissing(p) \/ LookAt(p) \/ ColumnIfMissing(p) \/ UseTables(p)
  \/ Locked(p) \/ Crash(p)

Spec == Init /\ [][Next]_vars
-----------------------------------------------------------------------------
Errors == {"newer", "locked", "duplicate column", "no such table", "no such column"}

TypeOK ==
  /\ disk \in Database /\ draft \in Database
  /\ lock \subseteq Processes /\ level \in 0 .. CurrentVersion
  /\ program \in [Processes -> DOMAIN Program]
  /\ pos \in [Processes -> 1 .. Len(Scan)]
  /\ seen \in [Processes -> SUBSET LateColumn]
  /\ outcome \in [Processes -> {"running", "done", "killed"} \cup Errors]

(***************************************************************************)
(* A database that says it has the current version has the columns its     *)
(* migrations add, whatever was killed and whoever else was upgrading or   *)
(* creating tables; so no process ever misses a column, and a scan that    *)
(* goes ahead has all its tables (db.py 141-159 and 210-238; the stores'   *)
(* init(), scan_runs.py 72-101).                                           *)
(***************************************************************************)
SchemaComplete ==
  /\ disk.recorded = CurrentVersion => HasIdentity(disk) /\ disk.native = CurrentVersion
  /\ \A p \in Processes :
       /\ outcome[p] # "no such column"
       /\ outcome[p] = "no such table" => program[p] = "results"
       /\ outcome[p] = "done" /\ program[p] = "scan" => disk.tables = Table

(***************************************************************************)
(* A database of a newer version is left as it was, by every command, and  *)
(* no version is ever taken back (db.py 224-228, main.py 952-957).         *)
(***************************************************************************)
NewerUntouched ==
  [][ /\ disk.recorded > CurrentVersion => disk' = disk
      /\ disk'.recorded >= disk.recorded ]_vars
=============================================================================
