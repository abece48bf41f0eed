# Sh4q in TLA+

Sh4q is a command-line tool that scans the targets a configured scope allows,
in stages, and keeps what it finds in one SQLite database: an asset graph, the
evidence for it, the runs that produced it, and a durable log of the events in
between. This directory holds a TLA+ model of it, TLC configurations that
check it on small instances, and TLAPS proofs for all instances. Paths below are
relative to `src/sh4q/`.

## 1. Inventory

| Part | State | Operations | Meets the others through |
| --- | --- | --- | --- |
| Request limiter, `network/limits.py` | budget, next pacing slot, semaphore, counters | `acquire`, permit release, `metrics` | every HTTP request of every stage; the runner reads the metrics |
| HTTP client and DNS, `network/` | transports and their open connections | authorize, resolve, authorize the addresses, connect to one, redirect | stages, limiter, scope |
| Scope engine, `scope/engine.py` | the configuration | `authorize`, `authorize_resolved_address` | Gate 1 in the scheduler, Gate 2 in the handler, the HTTP client |
| Built-in stages, `plugins/` | what earlier stages handed them | `execute` | the scheduler; the HTTP client and through it the limiter |
| CT stage, `plugins/ct_*.py` | answers carried over to a retry | `execute` | the scheduler |
| Adapters, `adapters/` | a child process | run, bound, stop | the scheduler |
| Scheduler, `scheduler.py` | stage outcomes and durations | order, preflight, attempts, publish, drain | runs the plugins; publishes to the bus |
| Event bus, `events/bus.py` | in-memory queue, unfinished counter, dispatcher task | `publish`, `recover`, `start`, `drain`, `shutdown`, the dispatch loop | the scheduler publishes and drains; the dispatcher calls the handler |
| Event log, `events/event_log.py` | `event_log` rows: status, attempts | record, mark, fail, recover | the bus; survives the process |
| Discovery handler, `handlers.py` | none of its own | one handler per event kind | called by the dispatcher; asks the scope, writes storage and evidence |
| Storage, `storage/` | nodes, relationships, evidence, `scan_assets`, `scan_runs`, schema version | upserts, inserts, migrations | everything; other processes |
| Runner, `application/scan_runner.py` | the run's row, `outcome` | `run_scan` and its finally clause | builds and owns all of the above |
| Results, detection, export, plan, `application/` | none | read the database, or the command before it runs | the database, the command line |
| CLI and configuration | none | turn a command into options | the runner |
| Fingerprints, JavaScript extraction | none | functions of response text | the stages |

What is hard here:

- **Concurrency in one process.** Coroutines interleave at every await: the
  origins and hosts of a stage in the limiter and the client's transports, the
  providers of the CT stage, and the scheduler with the bus's dispatcher.
- **Concurrency of processes.** Several commands may open, upgrade and create one
  database at once, statement by statement.
- **Cancellation.** A stage deadline and Ctrl+C are the same `CancelledError`;
  it lands at any await, may land again while the first is being unwound, and
  some plugins swallow it to keep partial results.
- **Crashes.** A run may stop between any two commits. There are no foreign keys
  and no transaction spans a handler, so only the order of commits protects the
  graph. The next run, of any target and scope, inherits unfinished events.
- **Failing storage.** Every access may raise before or after its commit, also
  in the dispatcher's except clause and in the runner's finally clause.
- **Retries.** Events are retried over runs, stages within a run, and a plugin
  object outlives its attempts.
- **Lists that must agree.** What a scan will do is derived from the command in six
  places: the stages planned, recorded and run, the tools looked for, and the third
  parties declared before and told of afterwards. The views of a database are many.

What makes each part correct: the limiter conserves budget, bounds concurrency
and strands nobody; the client contacts only what was authorized in the same hop,
over connections of the same identity; a stage accounts for all it was given and
takes a cancellation the way the scheduler counts on; the scheduler respects
dependencies and reports truthfully how a stage ended; the bus forgets nothing,
gives up after a bounded number of attempts and drains exactly when its work is
done; the handler never gets ahead of the evidence or outside the scope; the
schema is complete for whoever uses it; the runner closes the row truthfully. The
`hazards` of `PROJECT.json` name each line where this could go wrong.

## 2. Plan

The order follows what a scan cannot do without. Done:

1. the limiter;
2. event log, handler and bus, with the abstract `DurableDelivery`;
3. scheduler and runner on the abstract bus `RunBus`;
4. proofs of 1 to 3;
5. the CT stage and the other built-in stages, as attempts of the scheduler;
6. scope, HTTP client and the http stage over them;
7. the adapters' processes;
8. migrations and table creation by concurrent processes;
9. selection functions, stage list, plan, results, detection, export as operators;
10. proofs of the safety of 5 to 9: every safety invariant and action property
    that a passing run checks is a theorem.

Left: `diff.py`; a theorem that the plan's stages and their dependencies are an
instance of the scheduler's constants, so that `StagesInOrder` is stated for the
commands themselves; fairness for the stages' own work, so that their end becomes
a property of the model rather than an assumption of the scheduler's.

## 3. Modules

| Module | Models | State and actions |
| --- | --- | --- |
| `RequestLimiter` | `network/limits.py` | `pc[t]` is a coroutine's await inside `acquire`; `value` and `waiters` are asyncio's semaphore; one action per segment between awaits, `Cancel` and `Unwind` for the cancellation and its delivery |
| `Scope` | `scope/engine.py` | operators: a name is its labels, a pattern a name or a network |
| `Probes` | `network/probes.py` | operators: the origins of a list of ports |
| `ScopedClient` | `network/http.py`, `network/dns.py` | `at[g]` is a coroutine's await inside `get`; its `url`, resolved and remaining addresses, the connection it is on; `permits`, `budget` |
| `HTTPStage` | `plugins/http_plugin.py` | extends the client: a task per origin, the stage's deadline, two cancellations, errors of no known class |
| `Attempt` | what the stages share | `plugin`, `phase`, `cuts`, `told`, `attempt` |
| `LookupStage` | `dns_plugin.py`, `javascript_extraction_plugin.py` | one await, that of the lookup |
| `ToolStage` | `adapters/` with `runner.py` | the process, its pipe, the call that waits for it and the one that stops it; version probe, deadline, limit, cancellation |
| `CTStage` | `ct_plugin.py`, `ct_connectors.py` | `provider[p]`, pages and names; `final`, what was answered for good; the memory over retries |
| `HostSweep` | `discovered_dns_plugin.py`, `discovered_http_plugin.py` | a task per host behind a semaphore; what was not reached |
| `PathSweep` | `directory_discovery.py`, `vhost_discovery_plugin.py`, `javascript_bundle_plugin.py` | candidates one by one under a request budget |
| `Bounds` | the bounds of lists, names, URLs and bodies | operators: one function per line, segment or chunk, and what they promise over all inputs of a bounded length |
| `Sorting` | Python's `sorted` on a set of numbers | one operator |
| `StageList`, `ScanPlan` | `scan_runner.py` 343-535; `stat_report.py`, `disclosure.py` and `cli/main.py`'s options | operators over every command |
| `Stages` | the stages under the scheduler | extends the five stage modules and `ScanPlan`; one stage at a time, with its attempts |
| `StageAttempt` | what the scheduler counts on in an attempt | `phase`, `cuts`, `told` |
| `StageOrder`, `StageScheduler` | `scheduler.py` | `at` is the await of the scan's coroutine; one action per outcome of an attempt, `Publish`, `Drain` ... |
| `ScanRun` | `application/scan_runner.py` | extends the scheduler: `row`, `outcome`, stored metrics; one action per step of the try and finally clauses; `CtrlC` once, at any await |
| `RunBus` | what a run sees of the bus | `backlog` and `disp` only |
| `EventLog` | `events/event_log.py` | `status`, `attempts` per event; one operator per method |
| `DiscoveryHandler` | `handlers.py` and the stores | `nodes`, `edges`, `owned`, `evidence`, `refusals`; `Writes(e, s)` is the sequence of commits the handler of `e` makes under scope `s`, `Save` one of them |
| `EventBus` | `events/bus.py`, fed by a run of `scheduler.py` | extends the two above: `queue`, `open` (unfinished counter), `disp` (the dispatcher's await), `hand`, `main` (the run); `Stop` ends the process in any state and keeps only the database |
| `DurableDelivery` | what the bus promises | fate of each discovery: unknown, owed, kept, given up |
| `Migrations` | `storage/db.py` and every store's `init()` | the file `disk`, the write lock, a draft per transaction, and a program per command, one action per kind of statement |
| `Results` | `application/results.py`, `detection.py`, `exporter.py` | operators over the rows of a database; what they promise of one database, and that over small ones |
| `Storage` | the two above together | |
| `MC*` | instances | |
| `ListProofs` | theorems about `StageOrder` and `Sorting` | the lists of any length that the other proofs meet |
| `RequestLimiterProofs`, `HTTPStageProofs`, `BoundsProofs`, `StagesProofs`, `ScanRunProofs`, `EventBusProofs`, `StorageProofs` | theorems | `StagesProofs` extends `BoundsProofs`; `EventBusProofs` has those of the handler, `StorageProofs` those of `Migrations` and `Results` |

Composition, from the database up:

- `EventBus` is log, handler and dispatcher together, and is shown to implement
  `DurableDelivery` (`DeliversDurably`) and `RunBus` (`SeenByTheRun`).
- `ScanRun` is runner and scheduler over `RunBus` in place of the full bus, which
  keeps the product small and is justified by that refinement: a published event
  is settled once, in any order with the scheduler's steps, and the dispatcher may
  die on any of them. `RunBus.Close` covers both `shutdown` and the end of the
  process; `ScanRun` never looks at the backlog after `shutdown` other than to
  state that it was empty.
- The scheduler knows of a plugin only `OnCancel`, how it takes a cancellation.
  `Stages` shows that every built-in stage really does so (`AttemptAsScheduled`:
  it implements `StageAttempt`), with the same constant.
- `HTTPStage` is one more stage, over the client; `HostSweep` sees it from outside,
  as what a discovered host returns when it is cancelled.
- The client sees the limiter from outside too: a permit is paid for and taken in
  one step, and is refused once those ahead may have spent the budget. What goes
  on in between is `RequestLimiter`.

Abstractions worth knowing:

- The limiter's `asyncio.Lock` is left out: no critical section awaits.
  The semaphore is CPython 3.14's, which the project names as validated.
- `asyncio.wait_for` is that of CPython 3.12 and later: if the plugin swallows the
  cancellation, it returns normally.
- Events are numbered in order of creation; `created_at` is the number.
- An asset is a model value; to the handlers the scope is `Allows[s]`, the
  destinations `ScopeEngine.authorize` allows.
- No shipped plugin overrides `cleanup` or `preflight`; a refusing preflight is
  modelled because the interface allows it, `cleanup` is not, and the
  status `cleanup_error` therefore does not occur.
- One Ctrl+C is delivered to a scan. A second press is a `KeyboardInterrupt` out of
  the event loop and amounts to a crash, which `EventBus` has and `ScanRun` leaves
  out. Within a stage two cancellations are delivered: its deadline and Ctrl+C.
- Of a table only the columns that earlier versions lacked are kept, of an index
  its name. No statement of the migrations touches a row.
- `url_history` divides in floating point; `Bounds!Spread` divides integers and may
  take a neighbour.
- A path is its segments, each of them a name, `Stay` or `Parent`; a list's line is
  blank, bad, or its value. Sorted values are the numbers of their places.

## 4. Runs

| Run | Shows | Bounds, and the states they give |
| --- | --- | --- |
| `limiter` | `BudgetConserved`, `MetricsBalance`, `ConcurrencyBound`, `NoLostWakeup`, `SlotsSpaced`, `AcquireReturns` | three tasks that may ask again, two units, budget 4: a cancelled waiter between two others, a wake-up that races an arrival; no symmetry, for the liveness; 76,000 |
| `http` | `OnlyAuthorizedContacts`, `IdentityKept`, `AnswersKept`, `RequestsEnd` | two origins, or two of an odd port, one redirect to four places (another scheme, a sibling, an excluded name, above), three address lists with a shared and a private address, one permit, budget 3, two cancellations; 300,000 |
| `stages` | `ToolStopped`, `AnswersCarried`, `SweepsAccounted`, `AttemptAsScheduled`; `ConsumersAfterProducers`, `ScanDeclared`, `BoundsKept` | ten stages, one at a time, three attempts (the default), two cancellations each; three providers, one paged; four names for a bound of three, two slots; 279,000. The last three properties are about constants and evaluated in the state `ScanStarts`, over every command and all inputs up to length 5 |
| `storage` | `SchemaComplete`, `NewerUntouched`; `ViewsAgree`, `RulesMeasure` | two processes that start any command as often as they like on no database, one from before the migrations, version 4 with and without its scan runs, the current and a newer one, symmetric; 101,000. The last two are evaluated in the state `NothingStarted`, over three assets and up to two records of evidence of two scans; stages that took no time, 2 s or 40 s, and batches of 12 subjects, so that thresholds are above and below the floor and what was seen may fall into one minute or two |
| `bus` | every bus property and both refinements, `DrainEnds` | three events (a parent that reports a child, a batch of which the second scope refuses one claim, the child's technologies), two attempts, two scopes, any number of runs: recovery under the other scope, dead-lettering and redelivery all happen; 885,000. These are the three ways in which a handler writes the graph; the other shapes, which write a single link or nothing but a refusal, are covered by the theorems |
| `scan` | `CompletedIsSettled`, `ClosedIsReported`, `StagesInOrder`, `RetriesJustified`, `ScanEnds` | three stages, one per way of taking a cancellation; four dependency graphs (a chain, one against the list's order, a cycle, an unmet one); three attempts, one discovery each, one inherited event; 267,000 |
| `scan_completed`, `scan_exhausted`, `scan_ctrl_c`, `scan_failed`, `template_stages`, `scan_plan` | disagreements of documentation and code, below | as `scan`, `stages` |

Three attempts matter: with two, an answer of a provider that the second attempt
replaces is never looked at again. Two cancellations matter for the same
reason: only the second one meets a stage that is unwinding.

Deadlock is checked in `bus` and `storage`. It is off for the limiter and
the client, whose clock, budget and cancellations run out, for a stage, which ends,
and for a scan, which ends, or hangs in a drain if the dispatcher has died.

Fairness is weak fairness of what the event loop does by itself: it resumes a
coroutine whose await is over, and delivers a cancellation it was asked for. For the
limiter and the client also that every request and every resolution ends, since
the client sets a timeout; for a stage that a killed process ends; for a scan
that an attempt ends, since `wait_for` cancels it at its deadline. Nothing makes an
operator start a run or press Ctrl+C, no stage of `EventBus` need end, no
command on a database need go on, and no storage access need succeed.

`ScanEnds` and `DrainEnds` both except a dead dispatcher. That is not a
convenience: if `mark_failed` raises, the dispatch task ends and the next
`drain()` waits for ever. `ToolStopped` excepts a tool whose stopping was itself
cancelled, within the second between SIGTERM and SIGKILL.

### Where documentation and code disagree

- `scan_completed`: `completed` is documented as "ran to the end"; a stage that
  returns partial results on cancellation without a `*_truncated` record (http,
  ct, javascript-bundles, vhost) gets it too (`scheduler.py` 274).
- `scan_exhausted`: the exhausted statuses are documented as "on every attempt";
  the code records the last attempt only (`scheduler.py` 219, 286).
- `scan_ctrl_c`: Ctrl+C in a stage that swallows it ends that stage alone; the
  scan goes on and is COMPLETED, not "marked interrupted".
- `scan_failed`: `cli/main.py` 1089 assumes a failed run was marked
  INTERRUPTED; failures in lines 293-328 of the runner and in its finally clause
  leave the row RUNNING.
- `template_stages`: a template that lists `resolve` resolves nothing
  (`cli/main.py` 979-988).
- `scan_plan`: the table printed before a scan, and by `--dry-run`, is documented as
  "each stage that will run" and "the planned third-party disclosures", in
  `stat_report.py` 215 as "complete". It omits the two stages that resolve and probe a
  hosts file, the extraction that `--js-bundles` alone brings along, web.archive.org
  (405-413 give the manifest of adapters the name "waybackurls", it has
  "url-history") and the system resolver unless names are to be discovered; it lists
  a CT stage that the configuration has switched off, and the three default CT
  services whatever is configured. The scan's own declaration, the DISCLOSE lines,
  has none of these faults: `ScanDeclared` is about that.

Three more are smaller, and stated by no run:

- `scan_runner.py` 214 records "the stage list that will run", with `ct` also if
  no source is configured and the two discovery stages also for a hosts file without a
  usable name. `ScanDeclared` says that no stage runs that the record leaves out.
- A rule's threshold is documented as half of what the scan makes in a minute "so a
  scan slower than the one measured still trips the rule"
  (`docs/operator_reference.md` 436, `detection.py` 303), and `detection.py` 297-299
  is written against rules that can never fire. A scan of less than 30 s is projected
  onto a minute that it did not have: 30 observations in 2 s give a threshold of 450.
  `RulesMeasure` says what holds: from 30 s on, half the rate times the minute is
  no more than the scan has in one of its minutes, provided that no two observations
  have the same value in the field that the rule counts.
- `exporter.py` 367-368: "only files this exporter names are removed", which is whatever
  matches `sh4q_*.yml`, an operator's own file too.

### What else the models found, and state as it is

- CT: the partial names of a retryable error are dropped when the stage is tried
  again; `docs/troubleshooting.md` 29 says that a scan "retains partial names".
  `AnswersCarried` is about final answers only.
- Migrations: a fresh database never gets the three indexes of migration 2, whose
  tables do not exist yet when it runs. A `user_version` above 5 without a
  `schema_metadata` row is taken for 5. Of two processes that upgrade event log or
  evidence at once, one may fail with "duplicate column name"; the database is whole.
- `directory-discovery` sends two requests on a budget of one: the baseline is not
  checked against it.
- `url_history` divides by zero if there are more hosts than the limit has URLs.
- `list_assets` ignores its target when a scan or no type is given, while
  `summarize_names` applies it, and the latter takes evidence of any scan for a
  name's resolution. A limit is applied before damaged rows are dropped.
- The listing of JavaScript references applies its limit before it drops what is
  damaged, on another page or a duplicate, so it may be short of the limit while more
  would match. The errors of bundles have neither value nor page: they are all one
  row, which is counted as refused by Gate 2.
- `Migrations` lets commands that read go on without a database, which the program
  refuses; a scan may already have created the file but written nothing, and then it
  does not.

## 5. Proofs

Every theorem holds for all values of the constants under the named assumptions
of the modules (finite sets, positive limits, which claims a shape may make, which
stage takes a cancellation how).

- `RequestLimiterProofs`. The invariant adds to the properties that the
  semaphore's units are free, reserved or held, that its queue holds exactly the
  queued tasks once each, and that the counters count the tasks in each place.
  `ConcurrencyBound` alone is not inductive: a release says nothing without the
  conservation of units. `SlotsSpaced` needs only that pacing shrinks in every
  step but the one that gives a slot.
- `HTTPStageProofs`. `Sound` says of each coroutine which hop it is in and what has
  been authorized for it, `Whole` that every open
  connection carries the key of its own origin and address, `Account` that permits out
  and permits left add up. From
  it `IdentityKept`, and `ContactsArePermitted`: the scope's own decisions for
  this URL and address stand behind every request, and the address was resolved
  in this hop. `ContactsAreAuthorized` then says what these decisions mean: that a
  name which the engine addresses and matches, after its own normalization, lies
  label by label inside the scope and outside its exclusions. It assumes of the
  folding of labels that doing it twice is doing it once and that it makes no label
  usable or unusable, of the target, redirects and patterns that they are
  sequences of labels, and of a scope that it lists finitely many ports.
  `AnswersKept` takes three more parts: `Telling`, that what a coroutine returns is
  what its last request asked for; `Kept`, that from the moment the results are put
  together they are those of all the settled origins, and that at most one
  cancellation came before; `Traced`, that each of them goes back to a request. What
  is left is the code's own choice among equal answers: every key keeps one of them.
- `ListProofs`. What the functions over lists compute, for lists of any length.
  The induction theorems of the library take a predicate, which the provers here
  cannot instantiate; the induction is therefore stated for sets: a set that has 0
  and with every number the next one has them all, which follows from the
  well-foundedness of the naturals. Counting (`Sorted` lists a finite set
  in ascending order, each number at its place) and the order of the
  stages rest on it. `PluginsAreOrdered`: each of the scheduler's passes either adds a
  plugin or shows that none of those left can ever be added, so that after as many
  passes as there are plugins the list is complete or no order exists.
  `ListedOrderStays`: of a list already right the first pass takes every plugin.
- `BoundsProofs`. `WithinBounds` for any `MaxLength` and `MaxLimit`. Lists, paths and
  bodies by induction over their lines, segments and chunks; what a line does to a
  full list, a parent to an empty path and a chunk to a full body are the cases.
  A spread selection takes as many as asked for because its places lie at least one
  apart. For URLs, the hosts' ranks are the numbers from 0 on, so that exactly
  the remainder of the division is given out one by one, and the shares add up to
  the limit: the places `1 .. share` of all the hosts are counted against it. What
  small hosts do not use is then exactly what the rest is still allowed.
- `StagesProofs`. For tools, `Standing` and its companions relate the process, who
  waits for it and who stops it. For the CT stage, `Memory` relates the
  plugin's memory, what each provider is doing and the history of final
  answers; without it `AnswersCarried` says nothing of a retry, which starts
  from the memory alone. `StagesAreAttempts` is the safety half of
  `AttemptAsScheduled`: initial states and steps of every stage map to those of
  `StageAttempt` or stutter.
  Of a host sweep: a name has a record exactly
  if its task has returned its list, and a cut result counts the others. Of a
  path sweep: at every await the candidates recorded are those the position has
  left behind, with the one it is pausing after, and the count of requests is
  exact; `SweepsAccounted`, the walk over the lists and the last word it reports
  follow. An offer is assumed to have finitely many names, numbered, each from some
  source, and a list file to be a sequence of lines.
  Of the commands: the list of stages climbs by the place of each stage in
  `scan_runner.py`, and there each producer and each dependency has a lower place
  than its consumer; so the list is in order as it stands, `ListedOrderStays` says it
  is run like that, and `ConsumersAfterProducers` follows. For `ScanDeclared` each
  stage's condition in one list is compared with its condition in the others; the
  services follow, since only two stages are in the manifest of adapters.
- `ScanRunProofs`. For any plugins, dependencies, retries and discoveries:
  `TypeOK`, `CompletedIsSettled`, `ClosedIsReported`, `RetriesJustified`,
  `StagesInOrder`. None is
  inductive: that a COMPLETED row lists every stage rests on what was true long
  before the row is closed. `Lists` says that every stage is still to come
  or has its duration and that nothing is left unpublished; `Errors` which
  exception is on its way at each place, and that without one no stage with a
  duration is interrupted; `Closing` what the finally clause has stored so far;
  `Attempts` ties the history of the current stage to its counter. For
  the order of the stages, `Queued` carries what `PluginsAreOrdered` says of the list
  through its execution, `Drained` that the backlog is empty between two stages
  unless all so far were skipped, and `GivenUp` that only an
  impossible graph ends the run for its dependencies.
- `EventBusProofs`. For every shape, claim and scope, `HandlerCommits`:
  each commit is covered by the ones before it, and together they are complete.
  `Control` relates queue, counter, hand and statuses;
  `Backing` says what the handler in progress has committed. From the first
  follow `TypeOK`, `Accounted`, `RetriesBounded`, `NothingForgotten`,
  `StageBarrier`, `SettledStays`, `SeenByTheRun`; from both `GraphClosed`, `EvidenceFirst`,
  `ScopeGate`, `CompletedIsEarned` and the refinement `DeliversDurably`.
- `StorageProofs`. For any number of processes on any database: what a process
  has passed in its program stays done whoever else works on the file, since
  schemas only grow; the draft of the transaction is never behind the file,
  since others wait for the lock; and a version is only written with the
  migrations below it. `NewerUntouched` is an action property of the same invariant.
  The views, for any database with any number of rows (`IsDatabase`: rows and
  evidence are numbered, a row can be decoded or not, times, counts and durations are
  natural, what a scan owns exists), where the run has three assets and two records:
  the least numbers of a set are the first of its sorted list, so a limit only
  shortens; newest-first is a total order, each row's place the number of
  rows before it; the states of a name are disjoint since a name once
  resolved is never failed; among the observations of one reference there is an
  earliest, which is listed, and it stays the earliest of those that a limit leaves;
  no record counts for two signals since no plugin
  reports the same kind for two; and the records of a rule are no more than what
  it measures, because they can be put one by one into the boxes of the sum. That
  some minute trips the rule is a pigeonhole argument on the same boxes: were every
  minute below the threshold, they would fit into fewer than were observed.
  `NamesAreListed` alone needs more of a database: no damaged row, and no name
  twice, which is the key of the table.

Only model-checked: liveness (`AcquireReturns`, `RequestsEnd`, `DrainEnds`,
`ScanEnds`, and the fairness half of `AttemptAsScheduled`), since fairness and
ENABLED are outside the prover's reach. The six properties of the runs that
find a disagreement are false of the code and have no theorem.

## 6. Not modelled

- Fingerprint signatures and JavaScript extraction: pure functions of response text.
- Parsing and validation of configuration and templates, and the layout of HTML,
  CSV and text reports: they keep no state.
- `application/diff.py` (set differences of two scans), triage, redaction, and the
  listings of technologies and addresses: they only read.
- The parsing of the tools' output and the cleaning of CT names: success or failure,
  and which names, is all the stages' control depends on.
- The inside of `TrustedServiceHTTPClient`: its answers are the CT stage's inputs.
- The wire protocols, TLS, the resolver and the tools: libraries and programs.
