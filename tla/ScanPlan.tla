------------------------------ MODULE ScanPlan ------------------------------
(***************************************************************************)
(* What is said of a scan, by five pieces of code that each derive it from *)
(* the same command: the plan printed before it, and instead of it for a   *)
(* dry run (application/stat_report.py); the stages it records as it       *)
(* starts (scan_runner.py 214-233); those it runs (StageList); the third   *)
(* parties it names before its first stage, in the DISCLOSE line           *)
(* (scan_runner.py 553-579); and those its ledger names afterwards         *)
(* (application/disclosure.py).                                            *)
(***************************************************************************)
EXTENDS StageList

Service  == {"certspotter", "crt.sh", "crt.name"}   (* DEFAULT_CT_SOURCES  *)
Resolver == "system resolver"                       (* RESOLVER_SERVICE    *)
Profile  == {"none", "web", "full"}

\* A command: its flags or those of its template, the profile, whether the
\* hosts file has a usable name, and the configured CT sources.
Command == [flags : SUBSET (Option \ {"ct", "resolve"}), profile : Profile,
            named : BOOLEAN, sources : {{}, {"crt.sh"}, Service}]

\* main.py 979-988, of the stages in TEMPLATE_STAGES: the flags a template
\* sets.  There is none for "resolve".
Selected(stages) == stages \ {"resolve"}

\* main.py 1003-1020 and again 1054-1064: the flags as plan and scan get them.
Asked(command) ==
  command.flags
  \cup (IF command.profile \in {"web", "full"} THEN {"resolve", "js", "bundles"} ELSE {})
  \cup (IF command.profile = "full" THEN {"sub", "httpx", "history"} ELSE {})

\* scan_runner.py 250-255, 357 and 438: the conditions of the plugin list.
Options(command) ==
  (Asked(command) \ IF command.named THEN {} ELSE {"hosts"})
  \cup (IF command.sources # {} THEN {"ct"} ELSE {})
-----------------------------------------------------------------------------
(* The plan.                                                               *)

\* _TEMPLATE_STAGE_EXPANSION.
Expansion ==
  [sub |-> {"subfinder", "discovered-dns", "discovered-http"},
   resolve |-> {"discovered-dns", "discovered-http"},
   httpx |-> {"httpx-fingerprint"}, history |-> {"url-history"},
   js |-> {"javascript-extraction"}, bundles |-> {"javascript-bundles"},
   katana |-> {"katana"}, vhosts |-> {"vhost-discovery"},
   directories |-> {"directory-discovery"}]

\* _STAGE_REGISTRY: the tool a stage needs.
RequiredTool(stage) ==
  CASE stage \in {"subfinder", "katana"} -> stage
    [] stage = "httpx-fingerprint" -> "httpx"
    [] stage = "url-history" -> "waybackurls"
    [] OTHER -> "none"

\* resolve_stage_flags; plan_scan passes no template, and main.py no profile.
ResolvedFlags(template, profile, flags) ==
  flags \cup template
  \cup (IF profile \in {"web", "full"} THEN {"resolve", "js", "bundles"} ELSE {})
  \cup (IF profile = "full" THEN {"sub", "httpx", "history"} ELSE {})

PlanFlags(command) == ResolvedFlags({}, "none", Asked(command) \cap DOMAIN Expansion)

\* _resolve_internal_stages; the order is for display.
Planned(command) ==
  {"dns", "http", "ct"} \cup UNION {Expansion[f] : f \in PlanFlags(command)}

PlannedTools(command) == {RequiredTool(s) : s \in Planned(command)} \ {"none"}

\* ADAPTER_DISCLOSURES.
Manifest(adapter) ==
  CASE adapter = "subfinder" -> {"subfinder passive sources"}
    [] adapter = "url-history" -> {"web.archive.org"}
    [] OTHER -> {}

\* planned_disclosures as plan_scan calls it: with the default sources, and
\* with the tools' names where the manifest has the adapters'.
PlannedServices(command) ==
  Service \cup (UNION {Manifest(t) : t \in PlannedTools(command)})
  \cup (IF PlanFlags(command) \cap {"resolve", "sub"} # {} THEN {Resolver} ELSE {})
-----------------------------------------------------------------------------
(* The scan.                                                               *)

Adapters(command) ==
  Asked(command) \cap {"sub", "history", "katana", "httpx"}

\* A plausible bug of DisclosedServices, used as a mutant: the manifest is
\* asked for the tools' names, as the plan does.
DisclosedByTool(command) ==
  command.sources \cup {Resolver}
  \cup (UNION {Manifest(RequiredTool(s)) : s \in UNION {Expansion[f] : f \in Adapters(command)}})

\* planned_disclosures as the scan calls it, lines 553-564: with the sources
\* configured, and the adapters' names.
DisclosedServices(command) ==
  LET Adapter(f) == CASE f = "sub" -> "subfinder" [] f = "history" -> "url-history"
                      [] f = "httpx" -> "httpx-fingerprint" [] OTHER -> f
  IN command.sources \cup {Resolver} \cup (UNION {Manifest(Adapter(f)) : f \in Adapters(command)})

\* Lines 215-233.
RecordedStages(command) ==
  LET asked == Asked(command)
      With(condition, stages) == IF condition THEN stages ELSE {}
  IN {"dns", "http", "ct"}
     \cup With("sub" \in asked, {"subfinder"})
     \cup With(asked \cap {"sub", "resolve", "hosts"} # {}, {"discovered-dns", "discovered-http"})
     \cup With("httpx" \in asked, {"httpx-fingerprint"})
     \cup With("history" \in asked, {"url-history"})
     \cup With(asked \cap {"js", "bundles"} # {}, {"javascript-extraction"})
     \cup With("bundles" \in asked, {"javascript-bundles"})
     \cup With("katana" \in asked, {"katana"})
     \cup With("vhosts" \in asked, {"vhost-discovery"})
     \cup With("directories" \in asked, {"directory-discovery"})

Runs(command) == Range(ListedStages(Options(command)))

\* scan_runner.py 261-268, missing_dependencies.
NeededTools(command) ==
  {CASE f = "sub" -> "subfinder" [] f = "history" -> "waybackurls" [] OTHER -> f :
     f \in Options(command) \cap {"sub", "httpx", "history", "katana"}}

\* summarize_disclosures over what these stages record: the provider
\* statuses, the adapters' executions, and at least the target's resolution.
ToldServices(command) ==
  command.sources \cup (UNION {Manifest(s) : s \in Runs(command)}) \cup {Resolver}

\* See ScanDeclared.
Declared ==
  \A command \in Command :
    /\ DisclosedServices(command) = ToldServices(command)
    /\ {RequiredTool(s) : s \in Runs(command)} \ {"none"} = NeededTools(command)
    /\ PlannedTools(command) = NeededTools(command)
    /\ Runs(command) \subseteq RecordedStages(command)

\* See PlanIsTheScan.
PlannedAsRun ==
  \A command \in Command :
    /\ Planned(command) = Runs(command)
    /\ PlannedServices(command) = ToldServices(command)

\* See TemplateStagesRun.
TemplatesObeyed ==
  \A stages \in SUBSET DOMAIN Expansion :
    LET command == [flags |-> Selected(stages), profile |-> "none", named |-> FALSE, sources |-> Service]
    IN  UNION {Expansion[s] : s \in stages} \subseteq Runs(command)
=============================================================================
