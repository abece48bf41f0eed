------------------------------ MODULE HTTPStage ------------------------------
(***************************************************************************)
(* sh4q/plugins/http_plugin.py over ScopedClient: the http stage probes    *)
(* every origin of its target in a task of its own.  The scheduler may     *)
(* cancel it at its deadline; the stage then keeps the origins that had    *)
(* answered.  discovered-http runs the same plugin once per host and       *)
(* cancels it twice: gather() cancels the hosts, and when the first of     *)
(* them has ended the stage cancels those that have not.                   *)
(*                                                                         *)
(* Fingerprints are part of the probe they come from; statuses, headers,   *)
(* samples and durations are left out.                                     *)
(***************************************************************************)
EXTENDS ScopedClient, Probes

CONSTANTS
  Target,      (* the host                                                 *)
  Enforced,    (* enforce_overall_probe_timeout                            *)
  MaxCancels   (* bound: how often the stage is cancelled                  *)

OriginsOf == [s \in Scopes |-> ProbeTargets(s.ports)]

ASSUME StageAssumption ==
  /\ Enforced \in BOOLEAN /\ MaxCancels \in Nat
  /\ WellFormed(Target)
  /\ \A s \in Scopes : s.ports \subseteq Nat /\ IsFiniteSet(s.ports)
  /\ \A s \in Scopes : \A i \in DOMAIN OriginsOf[s] : OriginsOf[s][i] \in Getters

VARIABLES
  stage,    (* where execute() stands                                      *)
  overdue,  (* origins whose own deadline has passed                       *)
  cancels,  (* cancellations delivered to the stage                        *)
  found     (* what execute() will return                                  *)

vars == <<clientVars, stage, overdue, cancels, found>>

(***************************************************************************)
(* probing    waiting for the tasks                                        *)
(* unwinding  cancelled, waiting for the tasks it cancelled                *)
(* closing    has its result, closes the client                            *)
(* returned   raised   cancelled   execute() has ended                     *)
(***************************************************************************)
StageAt == {"probing", "unwinding", "closing", "returned", "raised", "cancelled"}

\* Line 154.
Origins == OriginsOf[scope]
Tasks   == {Origins[i] : i \in DOMAIN Origins}

URL(o) == [scheme |-> o[1], host |-> Target, port |-> o[2]]

Init ==
  /\ ClientInit
  /\ stage = "probing"
  /\ overdue = {} /\ cancels = 0 /\ found = {}

Unfinished(o) == at[o] \in {"idle", "resolving", "acquiring", "sending"}

\* A task that ended with a list of discoveries (lines 89-131, 138-149).
Settled(o) == at[o] = "returned" \/ error[o] = "http" \/ o \in overdue

Discovery(o) ==
  IF at[o] = "returned"
  THEN [kind |-> "http_probe", url |-> answer[o].url, address |-> answer[o].address]
  ELSE [kind |-> "http_error", url |-> URL(o), address |-> "none"]

\* A plausible bug of Key, used as a mutant.
KeyByKind(d) == d.kind

\* Lines 180-198.
Key(d) == <<d.kind, d.url>>

\* Lines 176-202: of two discoveries with one key the later origin's stays.
Unique ==
  LET settled == {i \in DOMAIN Origins : Settled(Origins[i])}
      Replaced(i) == \E j \in settled :
                       j > i /\ Key(Discovery(Origins[j])) = Key(Discovery(Origins[i]))
  IN  {Discovery(Origins[i]) : i \in {k \in settled : ~Replaced(k)}}
-----------------------------------------------------------------------------
\* A task of the stage takes a step; once the client is closed, a request
\* raises a RuntimeError under its permit (http.py 183-185).
Probe(o) ==
  /\ stage = "probing"
  /\ Get(o, URL(o)) \/ Progress(o)
  /\ UNCHANGED <<stage, overdue, cancels, found>>

ClosedClient(o) ==
  /\ at[o] = "acquiring"
  /\ permits > 0 /\ budget > 0
  /\ budget' = budget - 1
  /\ Raise(o, "other")
  /\ UNCHANGED <<scope, hop, wire, answer, idle, permits, contact>>

ProbeAlone(o) ==
  /\ stage = "raised"
  /\ \/ Get(o, URL(o))
     \/ \E addresses \in Answers : Resolve(o, addresses)
     \/ ResolveFails(o) \/ Denied(o) \/ ClosedClient(o)
     \/ Unanswered(o) \/ Breaks(o)
  /\ UNCHANGED <<stage, overdue, cancels, found>>

\* Lines 133-149: the origin's own deadline.
ProbeDeadline(o) ==
  /\ Enforced
  /\ stage \in {"probing", "raised"} /\ Busy(o)
  /\ CancelGet(o)
  /\ overdue' = overdue \cup {o}
  /\ UNCHANGED <<scope, hop, answer, error, contact, stage, cancels, found>>

\* Lines 157 and 176-202.
Gathered ==
  /\ stage = "probing" /\ \A o \in Tasks : Settled(o)
  /\ stage' = "closing"
  /\ found' = Unique
  /\ UNCHANGED <<clientVars, overdue, cancels>>

\* Line 157: gather raises what a task raised; the other tasks go on, over
\* a client that is being closed.
GatherRaises ==
  /\ stage = "probing" /\ \E o \in Tasks : error[o] = "other"
  /\ stage' = "raised"
  /\ idle' = {}
  /\ UNCHANGED <<scope, at, hop, wire, answer, error, limits, contact, overdue, cancels, found>>

\* The stage's deadline or Ctrl+C (line 158); again in line 167, or while
\* the client is closed: that one is not caught.
CancelStage ==
  /\ cancels < MaxCancels
  /\ \/ stage = "probing" /\ stage' = "unwinding"
     \/ stage \in {"unwinding", "closing"} /\ stage' = "cancelled"
  /\ cancels' = cancels + 1
  /\ UNCHANGED <<clientVars, overdue, found>>

\* Lines 164-167: the cancellation arrives in a task.
UnwindProbe(o) ==
  /\ stage \in {"unwinding", "cancelled"} /\ Unfinished(o)
  /\ CancelGet(o)
  /\ UNCHANGED <<scope, hop, answer, error, contact, stage, overdue, cancels, found>>

\* A plausible bug of KeepSettled, used as a mutant.
KeepNothing ==
  /\ stage = "unwinding" /\ \A o \in Tasks : ~Unfinished(o)
  /\ stage' = "cancelled"
  /\ UNCHANGED <<clientVars, overdue, cancels, found>>

\* Lines 167-176: the cancellation is swallowed only if something is kept.
KeepSettled ==
  /\ stage = "unwinding" /\ \A o \in Tasks : ~Unfinished(o)
  /\ IF \E o \in Tasks : Settled(o) THEN stage' = "closing" /\ found' = Unique
     ELSE stage' = "cancelled" /\ UNCHANGED found
  /\ UNCHANGED <<clientVars, overdue, cancels>>

\* http.py 64-68 and 99-100.
Close ==
  /\ stage = "closing"
  /\ stage' = "returned"
  /\ idle' = {}
  /\ UNCHANGED <<scope, at, hop, wire, answer, error, limits, contact, overdue, cancels, found>>

Next ==
  \/ \E o \in Tasks : Probe(o) \/ ProbeAlone(o) \/ ProbeDeadline(o) \/ UnwindProbe(o)
  \/ Gathered \/ GatherRaises \/ CancelStage \/ KeepSettled \/ Close

(***************************************************************************)
(* The event loop resumes what is due, a resolver and a server answer or   *)
(* time out (the client sets a timeout), and the stage's own steps run.    *)
(* Nothing makes the scheduler cancel.                                     *)
(***************************************************************************)
Fairness ==
  /\ \A o \in Getters : WF_vars(o \in Tasks /\ (Probe(o) \/ ProbeAlone(o) \/ UnwindProbe(o)))
  /\ WF_vars(Gathered \/ GatherRaises \/ KeepSettled \/ Close)

Spec == Init /\ [][Next]_vars
FairSpec == Spec /\ Fairness
-----------------------------------------------------------------------------
TypeOK ==
  /\ ClientTypeOK
  /\ stage \in StageAt /\ overdue \subseteq Getters
  /\ cancels \in 0 .. MaxCancels

Ended == stage \in {"returned", "raised", "cancelled"}

\* A name that may be a pattern or a destination: only its last label may be
\* empty.  And what is compared of it.
Usable(name) ==
  /\ name.labels # <<>> /\ name.labels[1] # Empty
  /\ \A i \in DOMAIN name.labels : name.labels[i] \in Forbidden \cup {Empty} =>
       name.labels[i] = Empty /\ i = Len(name.labels)

Canonical(name) ==
  [i \in {k \in DOMAIN name.labels : name.labels[k] # Empty} |-> Fold[name.labels[i]]]

\* The name is the zone's or lies below it, label by label.
Under(host, zone) == Below(Canonical(host), Canonical(zone))

Zones(patterns) == {p \in patterns : p.kind = "name" /\ Usable(p)}

(***************************************************************************)
(* Whatever redirects, fallback addresses and changing DNS answers do,     *)
(* every request that is sent goes to a port and a named host inside the   *)
(* scope and outside its exclusions, and to an address that is allowed and *)
(* was answered for that very host in that very hop: nothing authorized    *)
(* for an earlier hop or attempt is used for a later one (http.py 106-114, *)
(* 228-246; engine.py 72-116).                                             *)
(***************************************************************************)
OnlyAuthorizedContacts ==
  \A g \in Getters : at[g] = "sending" =>
    LET host == url[g].host IN
    /\ host.kind = "name" =>
         /\ Usable(host)
         /\ \E z \in Zones(scope.targets) : Under(host, z)
         /\ ~\E z \in Zones(scope.excluded) : Under(host, z)
    /\ scope.ports # {} => url[g].port \in scope.ports
    /\ wire[g].address \notin Unsafe \/ scope.allow_private_addresses
    /\ \E j \in DOMAIN resolved[g] : wire[g].address = resolved[g][j]

(***************************************************************************)
(* A request travels on a connection opened for the same scheme, host,     *)
(* port and address, although several hosts share an address and the       *)
(* client's transports keep connections open between requests: the TLS     *)
(* name of another host is never reused (http.py 41-62).                   *)
(***************************************************************************)
IdentityKept ==
  \A g \in Getters : at[g] = "sending" =>
    /\ wire[g].scheme = url[g].scheme /\ wire[g].host = url[g].host
    /\ wire[g].port = url[g].port /\ wire[g].address = Head(left[g])

(***************************************************************************)
(* No answer is lost or made up: if the stage returns, every origin that   *)
(* answered is in its result under the URL that answered, and a stage that *)
(* is cancelled once, while it probes, lets the cancellation through only  *)
(* if no origin had settled.  What is reported was asked for at the        *)
(* address it is reported with (http_plugin.py 158-202, http.py 124).      *)
(***************************************************************************)
AnswersKept ==
  /\ stage = "returned" => /\ found # {}
                           /\ \A o \in Tasks : at[o] = "returned" =>
                                \E d \in found : d.kind = "http_probe" /\ d.url = answer[o].url
  /\ stage = "cancelled" /\ cancels = 1 /\ found = {} => \A o \in Tasks : ~Settled(o)
  /\ \A d \in found : d.kind = "http_probe" =>
       \E o \in Tasks : contact[o] = [url |-> d.url, address |-> d.address]

(***************************************************************************)
(* However the stage ends -- also when one task's unexpected error ends it *)
(* while the others still run -- its requests end and give their permits   *)
(* back (http.py 184-187, http_plugin.py 157-167).                         *)
(***************************************************************************)
RequestsEnd == Ended ~> permits = MaxConcurrent /\ \A g \in Getters : ~Busy(g)
=============================================================================
