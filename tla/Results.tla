------------------------------ MODULE Results -------------------------------
(***************************************************************************)
(* What is read back from the database: the listings (application/         *)
(* results.py), the behaviour a defender could see (detection.py) and the  *)
(* export (exporter.py).  Nothing here writes to the database; the views   *)
(* are operators over its rows.                                            *)
(*                                                                         *)
(* A database has assets, in the order (type, value); owned, the rows of   *)
(* scan_assets; evidence, in the order it was captured; and seconds, what  *)
(* its stage_metrics say of every stage.  A name is a sequence of labels;  *)
(* a url is known by its host, and so is a reference to it, and source is  *)
(* the page the reference is on.  ok: a row's JSON can be decoded.         *)
(***************************************************************************)
EXTENDS Integers, Sequences, FiniteSets, Functions, Sorting

NoLimit == -1      (* every row                                           *)
Unset   == "any"   (* no scan, type or source is selected                 *)
NoTime  == 0       (* no first_seen                                        *)

AutoIssued == {"mail"}   (* AUTO_ISSUED_LABELS                             *)

Lower(a, b)  == IF a < b THEN a ELSE b
Higher(a, b) == IF a < b THEN b ELSE a

\* The sum of the numbers f[x], counted out.
Sum(f) == Cardinality(UNION {{x} \X (1 .. f[x]) : x \in DOMAIN f})
-----------------------------------------------------------------------------
(* The listings.                                                           *)

\* _capped, and _row_cap in SQL.
Capped(rows, limit) ==
  IF limit = NoLimit THEN rows
  ELSE SubSeq(rows, 1, Lower(Len(rows), Higher(1, limit)))

\* _matches_target, and the domains' condition in SQL.
Under(name, target) ==
  /\ Len(target) <= Len(name)
  /\ \A i \in DOMAIN target : target[i] = name[Len(name) - Len(target) + i]

OwnedBy(db, scan, source) ==
  {o.row : o \in {x \in db.owned : x.scan = scan /\ source \in {Unset, x.plugin}}}

\* Of rows in the database's order, those that can be decoded.
Decodable(db, rows) == Sorted({i \in Range(rows) : db.assets[i].ok})

\* list_assets, for names and urls.  A scan's listing takes no notice of the
\* target; SQL's limit comes before the decoding, Python's after.
ListAssets(db, query) ==
  LET typed == {i \in DOMAIN db.assets : query.type \in {Unset, db.assets[i].type}}
      under == {i \in typed : Under(db.assets[i].name, query.target)}
      Limited(S) == Decodable(db, Capped(Sorted(S), query.limit))
  IN CASE query.scan # Unset -> Limited(typed \cap OwnedBy(db, query.scan, query.source))
       [] query.scan = Unset /\ query.type = "domain" -> Limited(under)
       [] query.scan = Unset /\ query.type = "url" /\ query.target # <<>> ->
            Capped(Decodable(db, Sorted(under)), query.limit)
       [] OTHER -> Limited(typed)

\* _origin.
Origin(first, started) ==
  CASE started = NoTime \/ first = NoTime -> "unknown"
    [] first # NoTime /\ started # NoTime /\ first >= started -> "new"
    [] OTHER -> "returning"

\* The key of list_inventory_history; sorted() is stable.
Newer(db, i, j) ==
  \/ db.assets[i].first > db.assets[j].first
  \/ db.assets[i].first = db.assets[j].first /\ i < j

\* Sorted by it: the k-th has k - 1 before it.
NewestFirst(db, S) ==
  [k \in 1 .. Cardinality(S) |->
     CHOOSE i \in S : Cardinality({j \in S : Newer(db, j, i)}) = k - 1]

\* list_inventory_history: the limit comes last.
History(db, query, started) ==
  LET newest == NewestFirst(db, Range(ListAssets(db, [query EXCEPT !.limit = NoLimit])))
      rows   == [k \in DOMAIN newest |->
                   [row |-> newest[k], origin |-> Origin(db.assets[newest[k]].first, started)]]
  IN Capped(rows, query.limit)

\* Names that evidence of any scan says were resolved.
Resolved(db) ==
  {e.name : e \in {x \in Range(db.evidence) :
                     x.ok /\ x.kind \in {"dns_resolution", "discovered_dns_resolution"}}}

\* A plausible bug of Failed, used as a mutant: a name that failed once and
\* was resolved another time counts as both.
FailedOnce(db) ==
  {e.name : e \in {x \in Range(db.evidence) : x.ok /\ x.kind = "discovered_dns_error"}}

Failed(db) ==
  {e.name : e \in {x \in Range(db.evidence) : x.ok /\ x.kind = "discovered_dns_error"}}
    \ Resolved(db)

\* summarize_names: the names are the scan's, what became of them anybody's.
SummarizeNames(db, target, scan) ==
  LET rows    == IF scan = Unset THEN DOMAIN db.assets ELSE OwnedBy(db, scan, Unset)
      domains == {db.assets[i].name : i \in {j \in rows : /\ db.assets[j].type = "domain"
                                                          /\ Under(db.assets[j].name, target)}}
      auto    == {n \in domains : Head(n) \in AutoIssued}
  IN [total |-> Cardinality(domains),
      resolved |-> Cardinality(domains \cap Resolved(db)),
      unresolved |-> Cardinality(domains \cap Failed(db)),
      unchecked |-> Cardinality(domains \ (Resolved(db) \cup Failed(db))),
      auto |-> Cardinality(auto), autoResolved |-> Cardinality(auto \cap Resolved(db))]

\* An execution or a provider that succeeded is evidence of the same kinds.
IsFailure(e, scan) ==
  /\ e.ok /\ scan \in {Unset, e.scan}
  /\ \/ e.kind \in {"dns_error", "discovered_dns_error", "javascript_bundle_error"}
     \/ e.kind \in {"adapter_execution", "ct_provider_status"} /\ e.failed

\* list_failures: where in the evidence they are, newest first.
ListFailures(db, scan, limit) ==
  LET failures == {i \in DOMAIN db.evidence : IsFailure(db.evidence[i], scan)}
      count    == Cardinality(failures)
  IN  Capped([k \in 1 .. count |-> Sorted(failures)[count + 1 - k]], limit)

\* LIKE 'javascript_%'.  An error of a bundle has neither value nor source.
JavaScript == {"javascript_script_url", "javascript_endpoint_reference", "javascript_bundle_error"}

\* A slash at the end of a page's address makes no other page of it.
Page(source) == IF source = "page/" THEN "page" ELSE source

\* A plausible bug of Reference, used as a mutant: the page is forgotten.
ReferenceAnywhere(e) == <<e.kind, e.name>>

\* Line 147: what makes two observations the same.
Reference(e) == <<e.kind, e.name, Page(e.source)>>

\* list_javascript_observations: SQL's limit comes before the decoding and
\* the filter by page; then the first of equal ones.  inventory: whether any
\* scan made the reference an asset.
ListJavaScript(db, query) ==
  LET rows  == Sorted({i \in DOMAIN db.evidence : /\ db.evidence[i].kind \in JavaScript
                                                 /\ query.scan \in {Unset, db.evidence[i].scan}
                                                 /\ query.kind \in {Unset, db.evidence[i].kind}})
      read  == {i \in Range(Capped(rows, query.limit)) :
                  db.evidence[i].ok /\ query.page \in {Unset, Page(db.evidence[i].source)}}
      first == Sorted({i \in read : \A j \in read :
                         Reference(db.evidence[j]) = Reference(db.evidence[i]) => i <= j})
      urls  == {db.assets[i].name : i \in {j \in DOMAIN db.assets : db.assets[j].type = "url"}}
  IN [k \in DOMAIN first |-> [row |-> first[k], inventory |-> db.evidence[first[k]].name \in urls]]
-----------------------------------------------------------------------------
(* What a defender could see.                                              *)

\* SIGNALS: each with the evidence that counts for it and the selection of
\* its Sigma rule; none if the target sees nothing.
Seen(name, kinds, plugins, selection) ==
  [name |-> name, kinds |-> kinds, plugins |-> plugins, selection |-> selection]

Signal ==
  {Seen("subdomain_enumeration", {"discovered_dns_resolution", "discovered_dns_error"},
        {"discovered-dns"}, "names in a zone"),
   Seen("http_probing", {"http_probe"}, {"http", "discovered-http"}, "hosts requested"),
   Seen("virtual_host_probing", {"vhost_observation", "vhost_baseline"},
        {"vhost-discovery"}, "hosts requested"),
   Seen("directory_enumeration", {"directory_observation"}, {"directory-discovery"}, "absent paths"),
   Seen("certificate_transparency", {"subdomain_found"}, {"ct"}, "none"),
   Seen("passive_subdomain_adapter", {"subdomain_found"}, {"subfinder"}, "none"),
   Seen("historical_url_retrieval", {"url_history_batch", "url_history_found"},
        {"url-history"}, "none")}

\* A plausible bug of Counts, used as a mutant: the kind alone decides.
CountsByKind(signal, e) == e.kind \in signal.kinds

Counts(signal, e) == e.kind \in signal.kinds /\ e.plugin \in signal.plugins

\* The positions of the evidence of a scan that counts for the signal.
Counted(db, scan, signal) ==
  {i \in DOMAIN db.evidence : scan \in {Unset, db.evidence[i].scan} /\ Counts(signal, db.evidence[i])}

\* _subject_count: of one batched record.
Subjects(e) == IF e.ok THEN Higher(1, e.subjects) ELSE 1

\* summarize_detections.
Observed(db, scan, signal) ==
  LET counted == Counted(db, scan, signal) IN
  Higher(Cardinality(counted), Sum([i \in counted |-> Subjects(db.evidence[i])]))

Seconds(db, signal) == Sum([p \in signal.plugins |-> db.seconds[p]])

Detected(db, scan) == {s \in Signal : Counted(db, scan, s) # {}}

\* visible, _detection_groups: signals with the same rule.
Groups(db, scan) ==
  LET visible == {s \in Detected(db, scan) : s.selection # "none"} IN
  {{s \in visible : s.selection = t.selection} : t \in visible}

\* A plausible bug of Rule, used as a mutant: the rate is not halved.
RuleOfTheWholeRate(db, scan, group) ==
  LET observed == Sum([s \in group |-> Observed(db, scan, s)])
      seconds  == Sum([s \in group |-> Seconds(db, s)])
  IN [signals |-> {s.name : s \in group}, observed |-> observed, seconds |-> seconds,
      threshold |-> IF seconds = 0 THEN 5 ELSE Higher(5, (observed * 60) \div seconds)]

\* _merged and to_sigma_rules: what the rule is named after and measures,
\* half of what the scan did in a minute but MINIMUM_THRESHOLD at least.
Rule(db, scan, group) ==
  LET observed == Sum([s \in group |-> Observed(db, scan, s)])
      seconds  == Sum([s \in group |-> Seconds(db, s)])
  IN [signals |-> {s.name : s \in group}, observed |-> observed, seconds |-> seconds,
      threshold |-> IF seconds = 0 THEN 5 ELSE Higher(5, (observed * 60) \div (2 * seconds))]

SigmaRules(db, scan) == {Rule(db, scan, g) : g \in Groups(db, scan)}

\* The rule's correlation, value_count over 60 s: what trips it is a minute
\* in which as many different values are seen as the threshold says.
Trips(rule, minutes) == \E m \in DOMAIN minutes : minutes[m] >= rule.threshold

\* The ways n different values can be seen over so many seconds.
Spreads(n, seconds) ==
  {minutes \in [1 .. (seconds + 59) \div 60 -> 0 .. n] : Sum(minutes) = n}
-----------------------------------------------------------------------------
(* The export.                                                             *)

\* export_scan 281-293: no output at all.
Refused(db, scan, exists, force) ==
  \/ /\ OwnedBy(db, scan, Unset) = {}
     /\ \E e \in Range(db.evidence) : e.scan = scan
  \/ exists /\ ~force

\* The assets as JSON or CSV.
ExportAssets(db, scan) == Decodable(db, Sorted(OwnedBy(db, scan, Unset)))

Written(files, rules) == {f \in files : \A r \in rules : r.signals # f.signals} \cup rules

NewRules(db, scan) == {[signals |-> r.signals, of |-> scan] : r \in SigmaRules(db, scan)}

\* A plausible bug of ExportRules, used as a mutant: the rules that an
\* earlier export wrote and this one does not are left behind.
ExportRulesOver(db, scan, directory, force) ==
  IF Refused(db, scan, TRUE, force) THEN directory
  ELSE [directory EXCEPT !.rules = Written(@, NewRules(db, scan)), !.telemetry = scan]

\* Lines 281-384, over a directory that exists.  rules: every file of it that
\* is named sh4q_*.yml, an operator's too; the others are left alone.
ExportRules(db, scan, directory, force) ==
  LET stale == {f \in directory.rules : \A r \in NewRules(db, scan) : r.signals # f.signals} IN
  IF Refused(db, scan, TRUE, force) THEN directory
  ELSE [directory EXCEPT !.rules = Written(@ \ stale, NewRules(db, scan)), !.telemetry = scan]
-----------------------------------------------------------------------------
(* What the views promise of a database.                                   *)

EveryAsset(scan) ==
  [type |-> Unset, target |-> <<>>, scan |-> scan, source |-> Unset, limit |-> NoLimit]

\* A shorter view is the start of the longer one, and as long as asked if
\* nothing is damaged.
Shortens(some, all, limit, whole) ==
  /\ Len(some) <= Len(all) /\ \A k \in DOMAIN some : some[k] = all[k]
  /\ Len(some) <= Higher(1, limit)
  /\ whole => Len(some) = Lower(Len(all), Higher(1, limit))

\* Of every asset a scan owns the listing has a row, or the row was damaged
\* and is reported; the export has the same.
ListingComplete(db, scan) ==
  LET all == ListAssets(db, EveryAsset(scan)) IN
  /\ Range(all) = {i \in OwnedBy(db, scan, Unset) : db.assets[i].ok}
  /\ ExportAssets(db, scan) = all

ListingShortens(db, query, limit) ==
  Shortens(ListAssets(db, [query EXCEPT !.limit = limit]),
           ListAssets(db, [query EXCEPT !.limit = NoLimit]),
           limit, \A i \in DOMAIN db.assets : db.assets[i].ok)

\* Newest first, the unrecorded last, the listing's assets and no other; only
\* what was not there before the scan is new.
Chronological(db, query, started) ==
  LET rows     == History(db, query, started)
      First(k) == db.assets[rows[k].row].first
  IN /\ \A j, k \in DOMAIN rows : j < k => First(j) >= First(k) /\ rows[j].row # rows[k].row
     /\ query.limit = NoLimit =>
          {rows[k].row : k \in DOMAIN rows} = Range(ListAssets(db, query))
     /\ \A k \in DOMAIN rows :
          /\ rows[k].origin = "new" => First(k) >= started
          /\ rows[k].origin = "returning" => First(k) < started
          /\ (rows[k].origin = "unknown") = (started = NoTime \/ First(k) = NoTime)

\* Every name is resolved, unresolved or unchecked, and one of them.
Partitioned(db, target, scan) ==
  LET count == SummarizeNames(db, target, scan) IN
  /\ count.total = count.resolved + count.unresolved + count.unchecked
  /\ count.autoResolved <= Lower(count.auto, count.resolved)

\* As many names as rows, if no row is damaged.
NamesAreRows(db, scan) ==
  SummarizeNames(db, <<>>, scan).total = Len(ListAssets(db, [EveryAsset(scan) EXCEPT !.type = "domain"]))

\* A limited list of failures is the latest ones, as many as asked for.
FailuresListed(db, scan, limit) ==
  LET all == ListFailures(db, scan, NoLimit)
  IN /\ Shortens(ListFailures(db, scan, limit), all, limit, TRUE)
     /\ Range(all) = {i \in DOMAIN db.evidence : IsFailure(db.evidence[i], scan)}
     /\ \A j, k \in DOMAIN all : j < k => all[j] > all[k]

\* Every reference of a kind on a page that was observed is listed, and no
\* such reference twice; a limit only cuts the list short.  (The errors of
\* all bundles are one reference.)
ReferencesListed(db, query, limit) ==
  LET all     == ListJavaScript(db, [query EXCEPT !.limit = NoLimit])
      What(e) == <<e.kind, e.name, Page(e.source)>>
      Is(k)   == What(db.evidence[all[k].row])
  IN /\ Shortens(ListJavaScript(db, [query EXCEPT !.limit = limit]), all, limit, FALSE)
     /\ \A j, k \in DOMAIN all : Is(j) = Is(k) => j = k
     /\ {Is(k) : k \in DOMAIN all} =
          {What(e) : e \in {x \in Range(db.evidence) :
             /\ x.ok /\ x.kind \in JavaScript
             /\ query.scan \in {Unset, x.scan} /\ query.kind \in {Unset, x.kind}
             /\ query.page \in {Unset, Page(x.source)}}}

\* No record counts for two signals, none of its subjects is lost; every
\* visible signal is in one rule and no invisible one in any.  A rule above
\* the floor is tripped by the scan it was measured by, whenever in its time
\* that did what it did, if it took half a minute and no two observations
\* were of the same value.  A shorter scan may have done less than its rate
\* makes of a minute, and than the threshold.
CountedOnce(db, scan) ==
  LET rules   == SigmaRules(db, scan)
      visible == {s \in Detected(db, scan) : s.selection # "none"}
  IN /\ \A i \in DOMAIN db.evidence : \A s, t \in Signal :
          i \in Counted(db, scan, s) /\ i \in Counted(db, scan, t) => s = t
     /\ \A s \in visible : \E r \in rules : \A q \in rules : s.name \in q.signals <=> q = r
     /\ UNION {r.signals : r \in rules} = {s.name : s \in visible}
     /\ \A r \in rules :
          /\ r.observed >= Cardinality({i \in DOMAIN db.evidence : \E s \in Signal :
                                         s.name \in r.signals /\ i \in Counted(db, scan, s)})
          /\ r.threshold >= 5
          /\ r.threshold > 5 /\ r.seconds >= 30 =>
               \A minutes \in Spreads(r.observed, r.seconds) : Trips(r, minutes)

\* An export over whatever is there leaves the rules of its own scan only;
\* one that is refused leaves all of it.
RulesReplaced(db, scan, directory, force) ==
  LET after == ExportRules(db, scan, directory, force) IN
  /\ IF Refused(db, scan, TRUE, force) THEN after = directory
     ELSE {f.signals : f \in after.rules} = {r.signals : r \in SigmaRules(db, scan)}
  /\ (\A f \in directory.rules : f.of = directory.telemetry) =>
       \A f \in after.rules : f.of = after.telemetry
-----------------------------------------------------------------------------
(* The promises over small databases of two scans, s and t.                *)

Mail == <<"mail", "example">>
WWW  == <<"www", "other">>
Root == <<"example">>

Asset == <<[type |-> "domain", name |-> Mail], [type |-> "domain", name |-> WWW],
           [type |-> "url", name |-> Mail]>>

\* What may be stored of the i-th of them.
Row(i, ok, firsts) ==
  [type : {Asset[i].type}, name : {Asset[i].name}, ok : ok, first : firsts]

Owned(rows, plugins) == [scan : {"s"}, row : rows, plugin : plugins]

Entry(scans, plugins, kinds, names, sources, failed, subjects) ==
  [scan : scans, plugin : plugins, kind : kinds, name : names, source : sources,
   ok : BOOLEAN, failed : failed, subjects : subjects]

Took(n) == [p \in UNION {s.plugins : s \in Signal} |-> n]

Content(assets, owned, evidence, seconds) ==
  [assets |-> assets, owned |-> owned, evidence |-> evidence, seconds |-> seconds]

\* Up to two rows of S.
UpToTwo(S) == {<<>>} \cup {<<e>> : e \in S} \cup {<<e, f>> : e, f \in S}

Query == [type : {Unset, "domain", "url"}, target : {<<>>, Root}, scan : {Unset, "s"},
          source : {Unset, "ct"}, limit : {NoLimit}]

ListingsComplete ==
  \A a \in Row(1, BOOLEAN, {1}), b \in Row(2, BOOLEAN, {1}), c \in Row(3, BOOLEAN, {1}),
     owned \in SUBSET Owned(1 .. 3, {"ct", "subfinder"}) :
    LET db == Content(<<a, b, c>>, owned, <<>>, Took(0))
    IN  /\ ListingComplete(db, "s")
        /\ \A query \in Query, limit \in 0 .. 3 : ListingShortens(db, query, limit)

HistoryOrdered ==
  \A a \in Row(1, BOOLEAN, {NoTime, 1, 2}), b \in Row(2, BOOLEAN, {NoTime, 1, 2}),
     c \in Row(3, BOOLEAN, {NoTime, 1, 2}), started \in {NoTime, 2}, limit \in {NoLimit, 2} :
    Chronological(Content(<<a, b, c>>, Owned(1 .. 3, {"ct"}), <<>>, Took(0)),
                  [EveryAsset("s") EXCEPT !.limit = limit], started)

Lookups ==
  Entry({"s"}, {"ct"}, {"dns_resolution", "discovered_dns_resolution", "discovered_dns_error"},
        {Mail, WWW}, {"none"}, {FALSE}, {0})

NamesAddUp ==
  \A a \in Row(1, {TRUE}, {1}), b \in Row(2, {TRUE}, {1}), c \in Row(3, {TRUE}, {1}),
     evidence \in UpToTwo(Lookups), owned \in SUBSET Owned(1 .. 3, {"ct"}) :
    LET db == Content(<<a, b, c>>, owned, evidence, Took(0))
    IN  NamesAreRows(db, "s") /\ \A target \in {<<>>, Root} : Partitioned(db, target, "s")

Attempts ==
  Entry({"s", "t"}, {"ct"}, {"dns_error", "adapter_execution"}, {Mail}, {"none"}, BOOLEAN, {0})

LatestFailures ==
  \A evidence \in UpToTwo(Attempts), scan \in {Unset, "s"}, limit \in 0 .. 2 :
    FailuresListed(Content(<<>>, {}, evidence, Took(0)), scan, limit)

Observations ==
  Entry({"s", "t"}, {"javascript-bundles"}, {"javascript_bundle_error"}, {<<>>}, {"none"}, {FALSE}, {0})
  \cup Entry({"s"}, {"javascript-extraction"}, {"javascript_script_url", "javascript_endpoint_reference"},
             {Mail, WWW}, {"page", "page/", "other"}, {FALSE}, {0})

JavaScriptQuery ==
  [scan : {Unset, "s"}, kind : {Unset, "javascript_script_url"}, page : {Unset, "page"}, limit : {NoLimit}]

ReferencesOnce ==
  \A c \in Row(3, {TRUE}, {1}), evidence \in UpToTwo(Observations),
     query \in JavaScriptQuery, limit \in 1 .. 2 :
    ReferencesListed(Content(<<c>>, {}, evidence, Took(0)), query, limit)

Captured ==
  {e \in Entry({"s"}, {"ct", "subfinder", "http", "vhost-discovery", "discovered-dns"},
               {"subdomain_found", "http_probe", "vhost_baseline", "discovered_dns_error"},
               {Mail}, {"none"}, {FALSE}, {0, 12}) :
     <<e.plugin, e.kind>> \in {<<"ct", "subdomain_found">>, <<"subfinder", "subdomain_found">>,
                              <<"http", "http_probe">>, <<"vhost-discovery", "vhost_baseline">>,
                              <<"discovered-dns", "discovered_dns_error">>}}

EventsCountOnce ==
  \A evidence \in UpToTwo(Captured), seconds \in {0, 2, 40} :
    LET db == Content(<<>>, {}, evidence, Took(seconds))
    IN  /\ CountedOnce(db, "s")
        /\ \A i \in DOMAIN evidence : \E s \in Signal : i \in Counted(db, "s", s)

RulesOfThisScan ==
  \A evidence \in UpToTwo(Captured),
     rules \in SUBSET [signals : {{"http_probing"}, {"http_probing", "virtual_host_probing"}, {"own"}},
                       of : {"t"}],
     owned \in SUBSET Owned({1}, {"ct"}), force \in BOOLEAN :
    RulesReplaced(Content(<<>>, owned, evidence, Took(0)), "s",
                  [rules |-> rules, telemetry |-> "t"], force)

ViewsHold ==
  /\ ListingsComplete /\ HistoryOrdered /\ NamesAddUp
  /\ LatestFailures /\ ReferencesOnce

RulesHold == EventsCountOnce /\ RulesOfThisScan
=============================================================================
