----------------------------- MODULE PathSweep ------------------------------
(***************************************************************************)
(* sh4q/plugins/directory_discovery.py, vhost_discovery_plugin.py and      *)
(* javascript_bundle_plugin.py: stages that go through a list of           *)
(* candidates one after the other, with what each does when it is cut:     *)
(* directory-discovery counts what it swept, vhost-discovery what it       *)
(* captured, javascript-bundles returns what it has.                       *)
(*                                                                         *)
(* Their requests are ScopedClient's.  Fingerprints, the classification of *)
(* a response and the parsing of scripts are left out.                     *)
(***************************************************************************)
EXTENDS Attempt, Sequences, FiniteSets, Bounds

CONSTANTS
  Directory, Vhost, Bundles,   (* the stages' names                        *)
  Lines,          (* lists an operator may supply                          *)
  OutOfScope,     (* candidates that are not authorized                    *)
  MaxCandidates,  (* max_paths, max_candidates, max_bundles                *)
  RequestBudgets  (* request_budget                                        *)

\* directory_discovery.py 34-70 and vhost_discovery_plugin.py 80-102.
WordList(lines) == LoadList(lines, MaxCandidates)
HostNames(lines) == FirstCandidates(lines, MaxCandidates)

ASSUME PathAssumption ==
  /\ MaxCandidates \in Nat \ {0} /\ RequestBudgets \subseteq Nat \ {0}
  /\ \A lines \in Lines : lines \in Seq(Range(lines))

VARIABLES
  list,       (* the candidates                                            *)
  next,       (* how many of them the loop has left behind                 *)
  spot,       (* where execute() stands                                    *)
  remaining,  (* directory-discovery's own budget                          *)
  swept,      (* directory-discovery's count                               *)
  outcome,    (* the record of each candidate                              *)
  counts,     (* the record a cut leaves                                   *)
  sent        (* history: requests handed to the client                    *)

pathVars == <<list, next, spot, remaining, swept, outcome, counts, sent>>

(***************************************************************************)
(* loading   before the first await                                        *)
(* baseline  missing   asking for the root, for a path that cannot exist;  *)
(*           for javascript-bundles the observations of this scan          *)
(* deciding  between two awaits                                            *)
(* pausing   probing   sleeping   closing   at the await of that name      *)
(* over      execute() has its result                                      *)
(***************************************************************************)
Spot == {"loading", "baseline", "missing", "deciding", "pausing", "probing",
         "sleeping", "closing", "over"}

Awaiting == spot \in {"baseline", "missing", "pausing", "probing", "sleeping", "closing"}

NoCounts == [kind |-> "none", done |-> 0, open |-> 0]

IsPathSweep == plugin \in {Directory, Vhost, Bundles}

PathInit ==
  /\ list = <<>> /\ next = 0 /\ spot = "loading"
  /\ remaining \in IF plugin = Directory THEN RequestBudgets ELSE {0}
  /\ swept = 0 /\ outcome = <<>> /\ counts = NoCounts /\ sent = 0

Candidate == next + 1

Recorded == {i \in DOMAIN list : outcome[i] # "none"}

\* The next await, or between two.
Moves(to) == spot' = to /\ UNCHANGED attemptVars

Works == IsPathSweep /\ phase = "running"
-----------------------------------------------------------------------------
\* directory_discovery.py 90-93 and 34-46: a list that cannot be used raises.
\* vhost_discovery_plugin.py 115.
Load(lines) ==
  /\ Works /\ spot = "loading"
  /\ IF plugin = Directory /\ WordList(lines).refused
     THEN /\ Goes("raised", FALSE)
          /\ spot' = "over"
          /\ UNCHANGED <<list, outcome>>
     ELSE /\ list' = IF plugin = Directory THEN WordList(lines).accepted ELSE HostNames(lines)
          /\ outcome' = [i \in DOMAIN list' |-> "none"]
          /\ Moves("baseline")
  /\ UNCHANGED <<next, remaining, swept, counts, sent>>

\* directory_discovery.py 96-115, vhost_discovery_plugin.py 122-124,
\* javascript_bundle_plugin.py 65-80: whatever the answer, the loop follows.
Baseline ==
  /\ Works /\ spot \in {"baseline", "missing"}
  /\ Moves(IF plugin = Directory /\ spot = "baseline" THEN "missing" ELSE "deciding")
  /\ remaining' = IF plugin = Directory THEN remaining - 1 ELSE remaining
  /\ sent' = IF plugin = Bundles THEN sent ELSE sent + 1
  /\ UNCHANGED <<list, next, swept, outcome, counts>>

\* javascript_bundle_plugin.py 65: the provider is the evidence store.
ProviderRaises ==
  /\ Works /\ plugin = Bundles /\ spot = "baseline"
  /\ Goes("raised", FALSE)
  /\ spot' = "over"
  /\ UNCHANGED <<list, next, remaining, swept, outcome, counts, sent>>

\* A record that costs no request and no await (119-127, 126-129).
Skipped(kind) ==
  /\ outcome' = [outcome EXCEPT ![Candidate] = kind]
  /\ next' = next + 1
  /\ Moves("deciding")

\* A plausible bug of Decide, used as a mutant: swept counts the candidate
\* that is being worked on.
DecideCountsCurrent ==
  /\ Works /\ spot = "deciding" /\ next < Len(list)
  /\ swept' = IF plugin = Directory THEN Candidate ELSE swept
  /\ IF plugin = Directory /\ remaining <= 0 THEN Skipped("budget_denied")
     ELSE IF plugin # Bundles /\ list[Candidate] \in OutOfScope THEN Skipped("rejected")
     ELSE Moves(IF plugin = Vhost THEN "pausing" ELSE "probing") /\ UNCHANGED <<outcome, next>>
  /\ UNCHANGED <<list, remaining, counts, sent>>

\* directory_discovery.py 116-127, vhost_discovery_plugin.py 125-131,
\* javascript_bundle_plugin.py 83-85.
Decide ==
  /\ Works /\ spot = "deciding" /\ next < Len(list)
  /\ swept' = IF plugin = Directory THEN next ELSE swept
  /\ IF plugin = Directory /\ remaining <= 0 THEN Skipped("budget_denied")
     ELSE IF plugin # Bundles /\ list[Candidate] \in OutOfScope THEN Skipped("rejected")
     ELSE Moves(IF plugin = Vhost THEN "pausing" ELSE "probing") /\ UNCHANGED <<outcome, next>>
  /\ UNCHANGED <<list, remaining, counts, sent>>

\* vhost_discovery_plugin.py 130-131.
Paused ==
  /\ Works /\ spot = "pausing"
  /\ Moves("probing")
  /\ UNCHANGED <<list, next, remaining, swept, outcome, counts, sent>>

\* The request has ended, one way or another (directory_discovery.py 128-151
\* and 174-184, vhost_discovery_plugin.py 132-135 and 145-172,
\* javascript_bundle_plugin.py 96-118: what is no script leaves no record).
Candidated(kind) ==
  /\ Works /\ spot = "probing"
  /\ plugin # Bundles => kind # "none"
  /\ outcome' = [outcome EXCEPT ![Candidate] = kind]
  /\ remaining' = IF plugin = Directory THEN remaining - 1 ELSE remaining
  /\ sent' = sent + 1
  /\ IF plugin = Directory THEN Moves("sleeping") /\ UNCHANGED next
     ELSE Moves("deciding") /\ next' = next + 1
  /\ UNCHANGED <<list, swept, counts>>

\* directory_discovery.py 152.
Slept ==
  /\ Works /\ spot = "sleeping"
  /\ Moves("deciding")
  /\ next' = next + 1
  /\ UNCHANGED <<list, remaining, swept, outcome, counts, sent>>

\* directory_discovery.py 153 and 95; javascript-bundles has no client.
LoopEnds ==
  /\ Works /\ spot = "deciding" /\ next = Len(list)
  /\ swept' = IF plugin = Directory THEN Len(list) ELSE swept
  /\ IF plugin = Bundles THEN Goes("returned", FALSE) /\ spot' = "over" ELSE Moves("closing")
  /\ UNCHANGED <<list, next, remaining, outcome, counts, sent>>

PathDone ==
  /\ Works /\ spot = "closing"
  /\ Goes("returned", FALSE)
  /\ spot' = "over"
  /\ UNCHANGED <<list, next, remaining, swept, outcome, counts, sent>>
-----------------------------------------------------------------------------
\* The try statements of directory-discovery and vhost-discovery cover the
\* client's __aexit__, so a second cancellation is swallowed there, too.
CancelPath ==
  /\ IsPathSweep
  /\ \/ phase = "running" /\ Awaiting
     \/ phase = "unwinding" /\ plugin # Bundles
  /\ Cancelled("unwinding")
  /\ UNCHANGED pathVars

\* directory_discovery.py 154-171, vhost_discovery_plugin.py 136-142,
\* javascript_bundle_plugin.py 86-95 (which has no await after its last one).
UnwindPath ==
  /\ IsPathSweep /\ phase = "unwinding"
  /\ \/ /\ plugin = Directory
        /\ Goes("returned", TRUE)
        /\ counts' = [kind |-> "directory_truncated", done |-> swept, open |-> Len(list) - swept]
     \/ /\ plugin = Vhost
        /\ Goes("returned", FALSE)
        /\ counts' = [kind |-> "vhost_partial", open |-> 0,
                      done |-> Cardinality(Recorded) + IF spot = "baseline" THEN 0 ELSE 1]
     \/ /\ plugin = Bundles
        /\ Goes(IF Recorded = {} THEN "cancelled" ELSE "returned", FALSE)
        /\ UNCHANGED counts
  /\ spot' = "over"
  /\ UNCHANGED <<list, next, remaining, swept, outcome, sent>>

\* javascript-bundles is tried again after a deadline that found nothing.
RetryPath ==
  /\ plugin = Bundles /\ phase = "cancelled"
  /\ NextAttempt
  /\ list' = <<>> /\ next' = 0 /\ spot' = "loading"
  /\ outcome' = <<>>
  /\ UNCHANGED <<remaining, swept, counts, sent>>

PathNext ==
  \/ \E lines \in Lines : Load(lines)
  \/ Baseline \/ ProviderRaises \/ Decide \/ Paused
  \/ \E kind \in {"observation", "error", "budget_denied", "none"} : Candidated(kind)
  \/ Slept \/ LoopEnds \/ PathDone \/ CancelPath \/ UnwindPath \/ RetryPath
-----------------------------------------------------------------------------
PathTypeOK ==
  /\ next \in 0 .. Len(list) /\ spot \in Spot
  /\ swept \in 0 .. Len(list)
  /\ DOMAIN outcome = DOMAIN list

(***************************************************************************)
(* A sweep that was not cut has a record of every candidate.  One that was *)
(* never counts as swept a candidate it has no record of, and its count    *)
(* lags behind its records by one candidate at most, the one it slept      *)
(* after (directory_discovery.py 116-118, 152-171).  And the requests stay *)
(* within the configured budget, but for the two that measure what a       *)
(* missing page looks like, which a budget of one does not stop (96-107,   *)
(* 119).                                                                   *)
(***************************************************************************)
PathsAccounted ==
  /\ plugin \in {Directory, Vhost} /\ phase = "returned" =>
       /\ cuts = 0 => Recorded = DOMAIN list
       /\ counts.kind = "directory_truncated" =>
            /\ 1 .. counts.done \subseteq Recorded
            /\ Cardinality(Recorded) - counts.done \in {0, 1}
            /\ counts.done + counts.open = Len(list)
  /\ plugin = Directory => remaining >= 0 \/ sent = 2
=============================================================================
