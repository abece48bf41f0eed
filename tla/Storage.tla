------------------------------ MODULE Storage -------------------------------
(***************************************************************************)
(* The database of the program: how it comes to have its schema            *)
(* (Migrations) and what its rows are read back as (Results).              *)
(***************************************************************************)
EXTENDS Migrations, Results

\* The two properties are about constants; they are evaluated in the one
\* state before the first command.
NothingStarted == /\ disk = NoDatabase /\ lock = {}
                  /\ \A p \in Processes : /\ outcome[p] = "done" /\ pos[p] = 1
                                          /\ program[p] = "results"

(***************************************************************************)
(* The views of one database agree: a listing shows or reports as damaged  *)
(* every asset of the scan, the export has the same, and a limit only cuts *)
(* it short; the numbers of names add up; all failures are listed, latest  *)
(* first; every JavaScript reference is listed once for each page it was   *)
(* found on (results.py 80-733, exporter.py 222-363).                      *)
(***************************************************************************)
ViewsAgree == NothingStarted => ViewsHold

(***************************************************************************)
(* The detection rules measure the scan: a record counts for one signal    *)
(* and a signal for one rule, whose threshold a scan of half a minute and  *)
(* more reaches itself, however its observations are spread over its time; *)
(* an exported directory has the rules of one scan (detection.py 245-510,  *)
(* exporter.py 281-384).                                                   *)
(***************************************************************************)
RulesMeasure == NothingStarted => RulesHold
=============================================================================
