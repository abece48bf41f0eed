------------------------------- MODULE Stages -------------------------------
(***************************************************************************)
(* The built-in stages: the scheduler runs one of them, whose body is one  *)
(* of the modules below, and it ends an attempt as StageScheduler assumes. *)
(* The http stage is HTTPStage.                                            *)
(***************************************************************************)
EXTENDS LookupStage, ToolStage, CTStage, HostSweep, PathSweep, ScanPlan

CONSTANT OnCancel   (* by plugin: StageScheduler's constant                *)

\* What each plugin does with a CancelledError: it has no except clause for
\* it, or returns what it has, or returns that with a truncation record.
ASSUME StagesAssumption ==
  /\ OnCancel \in [DOMAIN OnCancel -> {"raises", "silent", "told"}]
  /\ \A s \in DOMAIN OnCancel :
       /\ s \in {DNS, Extraction} \cup Tools => OnCancel[s] = "raises"
       /\ s \in {CT, Vhost, Bundles} => OnCancel[s] = "silent"
       /\ s \in {DiscoveredDNS, DiscoveredHTTP, Directory} => OnCancel[s] = "told"
  \* The stages' names are different.
  /\ CT \notin Tools
  /\ (Tools \cup {CT}) \cap {DNS, Extraction, DiscoveredDNS, DiscoveredHTTP,
                             Directory, Vhost, Bundles} = {}
  /\ {DNS, Extraction} \cap {DiscoveredDNS, DiscoveredHTTP, Directory, Vhost, Bundles} = {}
  /\ {DiscoveredDNS, DiscoveredHTTP} \cap {Directory, Vhost, Bundles} = {}
  /\ Bundles \notin {Directory, Vhost} /\ Directory # Vhost

vars == <<attemptVars, lookupVars, toolVars, ctVars, hostVars, pathVars>>

Init ==
  /\ \E name \in DOMAIN OnCancel : AttemptInit(name)
  /\ LookupInit /\ ToolInit /\ CTInit /\ HostInit /\ PathInit

Next ==
  \/ LookupNext /\ UNCHANGED <<toolVars, ctVars, hostVars, pathVars>>
  \/ ToolNext /\ UNCHANGED <<lookupVars, ctVars, hostVars, pathVars>>
  \/ CTNext /\ UNCHANGED <<lookupVars, toolVars, hostVars, pathVars>>
  \/ HostNext /\ UNCHANGED <<lookupVars, toolVars, ctVars, pathVars>>
  \/ PathNext /\ UNCHANGED <<lookupVars, toolVars, ctVars, hostVars>>

(***************************************************************************)
(* What a cancelled stage does next.                                       *)
(***************************************************************************)
UnwindStep ==
  /\ phase = "unwinding"
  /\ \/ UnwindLookup /\ UNCHANGED <<toolVars, ctVars, hostVars, pathVars>>
     \/ /\ StopKills \/ UnwindTool \/ (process = "killed" /\ ToolExits)
        /\ UNCHANGED <<lookupVars, ctVars, hostVars, pathVars>>
     \/ /\ UnwindCT \/ \E p \in Providers : CancelProvider(p)
        /\ UNCHANGED <<lookupVars, toolVars, hostVars, pathVars>>
     \/ /\ UnwindHosts \/ \E n \in names : UnwindHost(n)
        /\ UNCHANGED <<lookupVars, toolVars, ctVars, pathVars>>
     \/ UnwindPath /\ UNCHANGED <<lookupVars, toolVars, ctVars, hostVars>>

Spec == Init /\ [][Next]_vars

\* A killed process group ends, and the event loop delivers cancellations.
FairSpec == Spec /\ WF_vars(UnwindStep)
-----------------------------------------------------------------------------
TypeOK == AttemptTypeOK /\ ToolTypeOK /\ CTTypeOK /\ HostTypeOK /\ PathTypeOK

Scheduled == INSTANCE StageAttempt

(***************************************************************************)
(* Every stage takes a cancellation as the scheduler's model assumes for   *)
(* it: one that raises never returns a part, one that is silent returns no *)
(* truncation record, one that tells never lets a single cancellation      *)
(* through -- or, uncut, says it was -- and a cancelled attempt ends       *)
(* (scheduler.py 196-303, _TRUNCATION_KINDS).                              *)
(***************************************************************************)
AttemptAsScheduled == Scheduled!Spec

(***************************************************************************)
(* The sweeps account for what they were given, see HostSweep and          *)
(* PathSweep.                                                              *)
(***************************************************************************)
SweepsAccounted == HostsAccounted /\ PathsAccounted

\* The next five are about constants; they are evaluated in the one state in
\* which the first stage starts.
ScanStarts == plugin = DNS /\ attempt = 1 /\ phase = "running" /\ cuts = 0

(***************************************************************************)
(* Whatever is switched on, the scan can be ordered, and every stage runs  *)
(* after all the stages whose discoveries it takes -- which the declared   *)
(* dependencies alone do not ensure: discovered-dns declares none, and     *)
(* vhost-discovery and httpx-fingerprint not those they take from          *)
(* (scan_runner.py 344-535, scheduler.py 71-100, the accept_discoveries    *)
(* methods).                                                               *)
(***************************************************************************)
ConsumersAfterProducers == ScanStarts => ProducersFirst

(***************************************************************************)
(* Before its first stage a scan has named exactly the third parties that  *)
(* its ledger names once all its stages have run, and has looked for       *)
(* exactly the tools that these stages, and those of the plan, need; no    *)
(* stage runs that the record leaves out.  The lists are made from the     *)
(* options, the configuration and the plugins by different code            *)
(* (scan_runner.py 214-268, 344-535 and 553-579, stat_report.py 351-422,   *)
(* dependencies.py 96-103, disclosure.py 100-217).                         *)
(***************************************************************************)
ScanDeclared == ScanStarts => Declared

(***************************************************************************)
(* The plan is the scan: stat_report.py 203 and 215 and                    *)
(* docs/operator_reference.md 169-170 and 199-203 have it list each stage  *)
(* that will run and the third parties that will be told.  Not so:         *)
(* plan_scan is given neither the hosts file nor the configured CT         *)
(* sources, adds no extraction to the bundles that need it, asks the       *)
(* manifest of adapters for the names of tools, and the resolver for       *)
(* discovered names only (stat_report.py 351-422).                         *)
(***************************************************************************)
PlanIsTheScan == ScanStarts => PlannedAsRun

(***************************************************************************)
(* The stages a template lists are run: docs/operator_reference.md 45-47   *)
(* has a template with "resolve" alone resolve the names that certificate  *)
(* transparency found.  Not so: main.py 979-988 makes flags of the others  *)
(* only, and 1057 asks for resolution if there is a profile, which cannot  *)
(* be combined with a template.                                            *)
(***************************************************************************)
TemplateStagesRun == ScanStarts => TemplatesObeyed

(***************************************************************************)
(* At every bound exactly as much is kept as the bound allows, or the list *)
(* is refused, and what is preferred is: operators' names and names that   *)
(* several sources found go first; no host's URLs vanish while there are   *)
(* no more hosts than URLs to keep -- beyond that there is no selection,   *)
(* but a ZeroDivisionError; no wordlist path leaves the origin; a body is  *)
(* marked truncated exactly if it was (discovered_dns_plugin.py 155-187,   *)
(* url_history.py 11-63, directory_discovery.py 34-70 and 187-218, http.py *)
(* 204-226).                                                               *)
(***************************************************************************)
BoundsKept == ScanStarts => WithinBounds
=============================================================================
