----------------------------- MODULE StageList ------------------------------
(***************************************************************************)
(* sh4q/application/scan_runner.py 343-535: which stages a scan has, in    *)
(* which order the runner lists them, and what they declare to depend on.  *)
(* Whether a tool is installed is left out: if not, there is no scan.      *)
(***************************************************************************)
EXTENDS Naturals, Sequences, StageOrder

Option == {"ct", "sub", "vhosts", "directories", "history", "katana", "resolve",
           "hosts", "js", "bundles", "httpx"}

\* Lines 438 and 455.
Resolves(options) == options \cap {"sub", "resolve", "hosts"} # {}

\* A plausible bug of ListedStages, used as a mutant: subfinder is listed last.
ListedSubLast(options) ==
  LET On(condition, stages) == IF condition THEN stages ELSE <<>> IN
  <<"dns", "http">>
  \o On("ct" \in options, <<"ct">>)
  \o On("vhosts" \in options, <<"vhost-discovery">>)
  \o On(Resolves(options), <<"discovered-dns", "discovered-http">>)
  \o On("sub" \in options, <<"subfinder">>)

\* Lines 344-535.
ListedStages(options) ==
  LET On(condition, stages) == IF condition THEN stages ELSE <<>> IN
  <<"dns", "http">>
  \o On("ct" \in options, <<"ct">>)
  \o On("sub" \in options, <<"subfinder">>)
  \o On("vhosts" \in options, <<"vhost-discovery">>)
  \o On("directories" \in options, <<"directory-discovery">>)
  \o On("history" \in options, <<"url-history">>)
  \o On("katana" \in options, <<"katana">>)
  \o On(Resolves(options), <<"discovered-dns", "discovered-http">>)
  \o On(options \cap {"js", "bundles"} # {}, <<"javascript-extraction">>)
  \o On("bundles" \in options, <<"javascript-bundles">>)
  \o On("httpx" \in options, <<"httpx-fingerprint">>)

\* The plugins' metadata.
Dependencies(options, stage) ==
  CASE stage = "http" -> {"dns"}
    [] stage \in {"vhost-discovery", "directory-discovery"} -> {"http"}
    [] stage = "discovered-http" -> {"discovered-dns"}
    [] stage = "javascript-extraction" ->
         {"http"} \cup IF Resolves(options) THEN {"discovered-http"} ELSE {}
    [] stage = "javascript-bundles" -> {"javascript-extraction"}
    [] OTHER -> {}

\* Whose discoveries a stage takes: the accept_discoveries methods, and for
\* the JavaScript stages the http_probe evidence of this scan (451-453).
Sources(stage) ==
  CASE stage \in {"discovered-dns", "vhost-discovery"} -> {"ct", "subfinder"}
    [] stage = "discovered-http" -> {"discovered-dns"}
    [] stage \in {"httpx-fingerprint", "javascript-extraction", "javascript-bundles"} ->
         {"http", "discovered-http"}
    [] OTHER -> {}

\* See ConsumersAfterProducers.
ProducersFirst ==
  \A options \in SUBSET Option :
    LET list  == ListedStages(options)
        deps  == [s \in Range(list) |-> Dependencies(options, s)]
        order == Ordered(list, deps)
    IN  /\ ~Unorderable(list, deps)
        /\ \A i, j \in DOMAIN order : order[i] \in Sources(order[j]) => i < j
=============================================================================
