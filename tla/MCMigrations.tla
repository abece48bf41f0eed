---------------------------- MODULE MCMigrations ----------------------------
(* Two processes on no database, one from before the migrations, one of    *)
(* version 4 with and without its scan runs, a current and a newer one.    *)
EXTENDS Storage, TLC

CONSTANTS p1, p2

Symmetry == Permutations(Processes)

Old == [NoDatabase EXCEPT !.tables = Table \ {"scan_assets"}]

Version4 == [tables |-> Table, columns |-> LateColumn \ Late["scan_runs"],
             indexes |-> {"idx_relationships_from", "idx_nodes_type_value"},
             recorded |-> 4, native |-> 4]

MCDatabases ==
  {NoDatabase, Old, Version4,
   [Version4 EXCEPT !.tables = @ \ {"scan_runs"}],
   [Version4 EXCEPT !.columns = LateColumn, !.recorded = 5, !.native = 5],
   [Version4 EXCEPT !.columns = LateColumn, !.recorded = 6, !.native = 6]}
=============================================================================
