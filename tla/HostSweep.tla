----------------------------- MODULE HostSweep ------------------------------
(***************************************************************************)
(* sh4q/plugins/discovered_dns_plugin.py, with network/dns.py, and         *)
(* discovered_http_plugin.py: a stage that works on many hosts at a time,  *)
(* each in a task of its own behind a semaphore, and that says how many it *)
(* never got to when its deadline cuts it.                                 *)
(*                                                                         *)
(* A host of discovered-http is HTTPStage's execute() as seen from         *)
(* outside: cancelled once it still returns what its origins answered.     *)
(***************************************************************************)
EXTENDS Attempt, FiniteSets, Bounds

CONSTANTS
  DiscoveredDNS, DiscoveredHTTP,   (* the stages' names                    *)
  Offers,     (* what the sources may have offered: Offers[..][n] is the   *)
              (* set of sources of the n-th name                           *)
  Refused,    (* names out of scope                                        *)
  MaxNames,   (* max_names                                                 *)
  Slots       (* max_concurrent                                            *)

\* _admit (144-152) refuses what is out of scope.
InScope(offer) == [n \in DOMAIN offer \ Refused |-> offer[n]]

ASSUME HostAssumption ==
  /\ MaxNames \in Nat \ {0} /\ Slots \in Nat \ {0}
  /\ \A offer \in Offers : /\ DOMAIN offer \subseteq Nat /\ IsFiniteSet(DOMAIN offer)
                           /\ \A n \in DOMAIN offer : Cardinality(offer[n]) \in Nat \ {0}

VARIABLES
  names,     (* _names                                                     *)
  task,      (* where each name's task stands                              *)
  record,    (* what a task that has ended says of its name                *)
  hosts      (* the discoveries: the names reported on, and the counts     *)

hostVars == <<names, task, record, hosts>>

(***************************************************************************)
(* queued     waits for the semaphore                                      *)
(* busy       looks the name up, or probes its origins                     *)
(* partly     an origin has answered, others have not (discovered-http)    *)
(* unwinding  cancelled, waits for its origins                             *)
(* listed     returned a list       cancelled  ended otherwise             *)
(***************************************************************************)
TaskAt == {"queued", "busy", "partly", "unwinding", "listed", "cancelled"}

NoHosts == [reported |-> {}, attempted |-> 0, notAttempted |-> 0]

IsHostSweep == plugin \in {DiscoveredDNS, DiscoveredHTTP}

\* As many as the bound allows (155-187).  What is offered to
\* discovered-http has been resolved (accept_discoveries, 44-62).
Admitted(offer) ==
  LET offered == DOMAIN InScope(offer) IN
  IF plugin = DiscoveredDNS THEN SelectNames(InScope(offer), MaxNames)
  ELSE {n \in offered : Cardinality({m \in offered : m < n}) < MaxNames}

HostInit ==
  /\ \E offer \in Offers : names = IF IsHostSweep THEN Admitted(offer) ELSE {}
  /\ task = [n \in names |-> "queued"]
  /\ record = [n \in names |-> "none"]
  /\ hosts = NoHosts

Working == {n \in names : task[n] \in {"busy", "partly"}}
Listed  == {n \in names : task[n] = "listed"}
TaskEnded(n) == task[n] \in {"listed", "cancelled"}

HostStart(n) ==
  /\ IsHostSweep /\ phase = "running"
  /\ task[n] = "queued" /\ Cardinality(Working) < Slots
  /\ task' = [task EXCEPT ![n] = "busy"]
  /\ UNCHANGED <<attemptVars, names, record, hosts>>
-----------------------------------------------------------------------------
(* One name.                                                               *)

Families == {"addresses", "nxdomain", "servfail", "timeout", "no_answer", "dns_error"}

\* dns.py 40: the reason that is reported when both families fail.
Priority(code) ==
  CASE code = "nxdomain" -> 0 [] code = "servfail" -> 1 [] code = "timeout" -> 2
    [] code = "no_answer" -> 3 [] code = "dns_error" -> 4

\* AsyncDNSResolver.resolve_addresses (24-42), from its A and AAAA queries.
Resolution(a, aaaa) ==
  IF "addresses" \in {a, aaaa} THEN "addresses"
  ELSE IF Priority(a) <= Priority(aaaa) THEN a ELSE aaaa

\* _resolve_name (244-270): every way to end is a record.  deadline: the
\* name's own; os_error: any OSError.
Replies == {Resolution(a, aaaa) : a \in Families, aaaa \in Families} \cup {"deadline", "os_error"}

LookedUp(n) ==
  /\ plugin = DiscoveredDNS /\ phase = "running" /\ task[n] = "busy"
  /\ task' = [task EXCEPT ![n] = "listed"]
  /\ \E reply \in Replies : record' = [record EXCEPT ![n] = reply]
  /\ UNCHANGED <<attemptVars, names, hosts>>

\* http_plugin.py 156-176: some origin has settled.
OriginSettles(n) ==
  /\ plugin = DiscoveredHTTP /\ phase = "running" /\ task[n] = "busy"
  /\ task' = [task EXCEPT ![n] = "partly"]
  /\ UNCHANGED <<attemptVars, names, record, hosts>>

\* _probe (discovered_http_plugin.py 105-135): all origins have settled, or
\* an error of one of them stands for the host.
Probed(n) ==
  /\ plugin = DiscoveredHTTP /\ phase = "running" /\ task[n] \in {"busy", "partly"}
  /\ task' = [task EXCEPT ![n] = "listed"]
  /\ record' = [record EXCEPT ![n] = IF task[n] = "partly" THEN "origins" ELSE "host-probe"]
  /\ UNCHANGED <<attemptVars, names, hosts>>
-----------------------------------------------------------------------------
(* execute().                                                              *)

HostsDone ==
  /\ IsHostSweep /\ phase = "running"
  /\ Listed = names
  /\ hosts' = [NoHosts EXCEPT !.reported = names]
  /\ Goes("returned", FALSE)
  /\ UNCHANGED <<names, task, record>>

\* The gather cancels its tasks; a second cancellation is not caught.
CancelHosts ==
  /\ IsHostSweep
  /\ \/ phase = "running" /\ Cancelled("unwinding")
     \/ phase = "unwinding" /\ Cancelled("cancelled")
  /\ UNCHANGED hostVars

\* A task takes its cancellation.  A host with an answer waits for its
\* origins to end, and returns the answer unless it is cancelled again: the
\* gather ends with the first task that does, and execute() then cancels
\* those that have not ended (86-89).
UnwindHost(n) ==
  /\ IsHostSweep /\ phase \in {"unwinding", "cancelled"}
  /\ \/ /\ task[n] \in {"queued", "busy"}
        /\ task' = [task EXCEPT ![n] = "cancelled"]
        /\ UNCHANGED record
     \/ /\ task[n] = "partly"
        /\ task' = [task EXCEPT ![n] = "unwinding"]
        /\ UNCHANGED record
     \/ /\ task[n] = "unwinding"
        /\ task' = [task EXCEPT ![n] = "listed"]
        /\ record' = [record EXCEPT ![n] = "origins"]
     \/ /\ task[n] = "unwinding"
        /\ phase = "cancelled" \/ \E m \in names : task[m] = "cancelled"
        /\ task' = [task EXCEPT ![n] = "cancelled"]
        /\ UNCHANGED record
  /\ UNCHANGED <<attemptVars, names, hosts>>

\* A plausible bug of Attempted, used as a mutant: task.done().
AttemptedDone == {n \in names : TaskEnded(n)}

\* isinstance(batch, list).
Attempted == Listed

\* A plausible bug of UnwindHosts, used as a mutant: no truncation record.
UnwindHostsSilently ==
  /\ IsHostSweep /\ phase = "unwinding"
  /\ \A n \in names : TaskEnded(n)
  /\ hosts' = [NoHosts EXCEPT !.reported = Listed]
  /\ Goes("returned", FALSE)
  /\ UNCHANGED <<names, task, record>>

\* discovered_dns_plugin.py 213-241, discovered_http_plugin.py 89-102.
UnwindHosts ==
  /\ IsHostSweep /\ phase = "unwinding"
  /\ \A n \in names : TaskEnded(n)
  /\ hosts' = [reported |-> Listed, attempted |-> Cardinality(Attempted),
               notAttempted |-> Cardinality(names) - Cardinality(Attempted)]
  /\ Goes("returned", TRUE)
  /\ UNCHANGED <<names, task, record>>

HostNext ==
  \/ \E n \in names : HostStart(n) \/ LookedUp(n) \/ OriginSettles(n) \/ Probed(n) \/ UnwindHost(n)
  \/ HostsDone \/ CancelHosts \/ UnwindHosts
-----------------------------------------------------------------------------
HostTypeOK ==
  /\ task \in [names -> TaskAt]
  /\ hosts.reported \subseteq names

(***************************************************************************)
(* No name disappears: a sweep that returns has a record of every name it  *)
(* admitted or says that it was cut, and then the numbers it gives are the *)
(* names it has records of and the names it has none of, although hosts    *)
(* end, answer and are cancelled (once or twice) in any order              *)
(* (discovered_dns_plugin.py 220-241, discovered_http_plugin.py 81-102).   *)
(***************************************************************************)
HostsAccounted ==
  IsHostSweep /\ phase = "returned" =>
    LET reported == {n \in names : record[n] # "none"} IN
    /\ hosts.reported = reported
    /\ ~told => reported = names
    /\ told => /\ hosts.attempted = Cardinality(reported)
               /\ hosts.attempted + hosts.notAttempted = Cardinality(names)
=============================================================================
