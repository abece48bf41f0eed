------------------------------ MODULE CTStage -------------------------------
(***************************************************************************)
(* sh4q/plugins/ct_plugin.py with its connectors: the ct stage asks every  *)
(* configured certificate-transparency provider in a task of its own.  The *)
(* plugin object outlives its attempts and remembers the providers that    *)
(* have answered for good, so that a retry asks the others only.           *)
(*                                                                         *)
(* Names are values; cleaning them, what a record looks like and the       *)
(* table that is printed are left out.                                     *)
(***************************************************************************)
EXTENDS Attempt, Sequences, FiniteSets

CONSTANTS
  CT,          (* the stage's name                                         *)
  Connectors,  (* the providers, in the order of the configuration         *)
  Paged,       (* those that answer in pages: certspotter                  *)
  MaxPages,    (* CertSpotterConnector's max_pages                         *)
  CTNames      (* hostnames                                                *)

Providers == {Connectors[i] : i \in DOMAIN Connectors}

ASSUME CTAssumption ==
  /\ Connectors \in Seq(Providers)
  /\ Paged \subseteq Providers /\ MaxPages \in Nat \ {0}

VARIABLES
  provider,   (* how each provider stands in this attempt                  *)
  got,        (* the names it has sent in this attempt                     *)
  page,       (* pages read in this attempt                                *)
  cached,     (* _successful_results and _terminal_results                 *)
  result,     (* the discoveries of the attempt                            *)
  delivered,  (* history: names of answers that were final                 *)
  final       (* history: how the provider answered, if it did so for good *)
              (* in the last attempt that asked it                         *)

ctVars == <<provider, got, page, cached, result, delivered, final>>

(***************************************************************************)
(* preserved  not asked, its answer is cached                              *)
(* asking     its task runs                                                *)
(* success    the names are complete                                       *)
(* limited    refused      terminal errors: HTTP 429, other refusals       *)
(* failed     a retryable error                                            *)
(* broken     an error that is no CTConnectorError                         *)
(* cancelled  its task was                                                 *)
(***************************************************************************)
ProviderAt == {"preserved", "asking", "success", "limited", "refused", "failed", "broken", "cancelled"}

(***************************************************************************)
(* How a request can end, and what the connectors make of it               *)
(* (ct_connectors.py 101-161, 202-268, 324-360).  retried status: 408,     *)
(* 500, 502, 503 or 504.  unreachable: every httpx.HTTPError of            *)
(* TrustedServiceHTTPClient -- no connection, a destination, an address or *)
(* a redirect denied, no budget.  error: all else, such as an OSError of   *)
(* its resolver or a body that no connector expects.                       *)
(***************************************************************************)
Response == {"429", "retried status", "other status", "malformed", "unreachable", "error"}

Failure(response) ==
  CASE response = "429" -> "limited"
    [] response = "other status" -> "refused"
    [] response = "error" -> "broken"
    [] OTHER -> "failed"

ForGood == {"preserved", "success", "limited", "refused"}

Nothing == [status |-> "none", names |-> {}]

IsCT == plugin = CT

\* Lines 63-79, but for the requests.
Ask(memory) ==
  /\ provider' = [p \in Providers |-> IF memory[p] = Nothing THEN "asking" ELSE "preserved"]
  /\ got' = [p \in Providers |-> {}]
  /\ page' = [p \in Providers |-> 0]
  /\ result' = {}

CTInit ==
  /\ provider = [p \in Providers |-> "asking"]
  /\ got = [p \in Providers |-> {}]
  /\ page = [p \in Providers |-> 0]
  /\ cached = [p \in Providers |-> Nothing]
  /\ result = {}
  /\ delivered = [p \in Providers |-> {}]
  /\ final = [p \in Providers |-> "none"]
-----------------------------------------------------------------------------
(* The connectors.                                                         *)

Asking(p) == IsCT /\ phase = "running" /\ provider[p] = "asking"

\* A page that names a next one (ct_connectors.py 85-186).
NextPage(p, names) ==
  /\ Asking(p) /\ p \in Paged /\ page[p] + 1 < MaxPages
  /\ got' = [got EXCEPT ![p] = @ \cup names]
  /\ page' = [page EXCEPT ![p] = @ + 1]
  /\ UNCHANGED <<attemptVars, provider, cached, result, delivered, final>>

\* The last page, the last one asked for, or the whole answer (163-188,
\* 255-284, 362-367).
Answer(p, names) ==
  /\ Asking(p)
  /\ provider' = [provider EXCEPT ![p] = "success"]
  /\ got' = [got EXCEPT ![p] = @ \cup names]
  /\ delivered' = [delivered EXCEPT ![p] = @ \cup got'[p]]
  /\ final' = [final EXCEPT ![p] = IF got'[p] = {} THEN "empty" ELSE "names"]
  /\ UNCHANGED <<attemptVars, page, cached, result>>

\* The pages read so far go with the error (ct_plugin.py 56-57).
Fail(p, response) ==
  LET how == Failure(response) IN
  /\ Asking(p)
  /\ provider' = [provider EXCEPT ![p] = how]
  /\ IF how \in {"limited", "refused"}
     THEN /\ delivered' = [delivered EXCEPT ![p] = @ \cup got[p]]
          /\ final' = [final EXCEPT ![p] = IF got[p] = {} THEN "refused" ELSE "names"]
     ELSE UNCHANGED <<delivered, final>>
  /\ UNCHANGED <<attemptVars, got, page, cached, result>>
-----------------------------------------------------------------------------
(* execute().                                                              *)

\* The answers that execute() works on: line 91 and lines 66-72.
Answered == {p \in Providers : provider[p] \in {"success", "limited", "refused", "failed"}}
Preserved == {p \in Providers : provider[p] = "preserved"}

\* A former bug of Remember (see the comment of line 100), used as a mutant.
RememberLimits ==
  cached' = [p \in Providers |->
    IF provider[p] \in {"success", "limited"}
    THEN [status |-> provider[p], names |-> got[p]] ELSE cached[p]]

\* Lines 96-106.
Remember ==
  cached' = [p \in Providers |->
    IF provider[p] \in {"success", "limited", "refused"}
    THEN [status |-> provider[p], names |-> got[p]] ELSE cached[p]]

\* A plausible bug of Entry, used as a mutant: a preserved provider is
\* mentioned, its names are not.
EntryUnnamed(p) == [status |-> provider[p], names |-> got[p]]

\* What a provider contributes to the result.
Entry(p) == IF provider[p] = "preserved" THEN cached[p]
            ELSE [status |-> provider[p], names |-> got[p]]

\* Lines 153-161.
Status(e) ==
  CASE e.status = "success" -> "success"
    [] e.status = "limited" -> IF e.names = {} THEN "rate_limited" ELSE "partial_rate_limited"
    [] OTHER -> IF e.names = {} THEN "degraded" ELSE "partial"

Found == UNION {Entry(p).names : p \in Answered \cup Preserved}

\* Lines 108-260.  Retryable is what the scheduler looks for.
Discoveries ==
  LET known   == Answered \cup Preserved
      errors  == {p \in known : Entry(p).status # "success"}
      limited == {p \in known : Entry(p).status = "limited"}
      Record(kind, sources, names, retryable) ==
        [kind |-> kind, sources |-> sources, names |-> names, retryable |-> retryable]
  IN  {Record(Status(Entry(p)), {p}, Entry(p).names, Entry(p).status = "failed") : p \in known}
      \cup {Record("subdomain_found", {p \in known : n \in Entry(p).names}, {n}, FALSE) : n \in Found}
      \cup IF Found # {} \/ errors = {} THEN {}
           ELSE IF limited # {} THEN {Record("ct_rate_limited", limited, {}, FALSE)}
           ELSE {Record("ct_error", errors, {}, \E p \in errors : Entry(p).status = "failed")}

Conclude ==
  /\ Remember
  /\ result' = Discoveries
  /\ Goes("returned", FALSE)
  /\ UNCHANGED <<provider, got, page, delivered, final>>

\* Line 81.
CTGathered ==
  /\ IsCT /\ phase = "running"
  /\ Providers = Answered \cup Preserved
  /\ Conclude

\* Line 81: an error that is no CTConnectorError ends the stage; the other
\* tasks go on, unheard, and nothing is remembered.
CTRaises ==
  /\ IsCT /\ phase = "running"
  /\ \E p \in Providers : provider[p] = "broken"
  /\ Goes("raised", FALSE)
  /\ UNCHANGED ctVars

\* Line 82; in line 90 a second one is not caught.
CancelCT ==
  /\ IsCT
  /\ \/ phase = "running" /\ Cancelled("unwinding")
     \/ phase = "unwinding" /\ Cancelled("cancelled")
  /\ UNCHANGED ctVars

\* Lines 87-90.
CancelProvider(p) ==
  /\ IsCT /\ phase \in {"unwinding", "cancelled"} /\ provider[p] = "asking"
  /\ provider' = [provider EXCEPT ![p] = "cancelled"]
  /\ UNCHANGED <<attemptVars, got, page, cached, result, delivered, final>>

\* Lines 90-106: kept if there are names or earlier answers; if not, what
\* the providers answered in this attempt is forgotten with it.
UnwindCT ==
  /\ IsCT /\ phase = "unwinding"
  /\ \A p \in Providers : provider[p] # "asking"
  /\ IF Preserved # {} \/ \E p \in Answered : got[p] # {} THEN Conclude
     ELSE Goes("cancelled", FALSE) /\ UNCHANGED ctVars

\* The scheduler tries again after a deadline or a retryable discovery.
RetryCT ==
  /\ IsCT
  /\ phase = "cancelled" \/ (phase = "returned" /\ \E r \in result : r.retryable)
  /\ NextAttempt
  /\ Ask(cached)
  /\ final' = [p \in Providers |-> IF provider[p] \in ForGood THEN final[p] ELSE "none"]
  /\ UNCHANGED <<cached, delivered>>

CTNext ==
  \/ \E p \in Providers :
       \/ \E names \in SUBSET CTNames : NextPage(p, names) \/ Answer(p, names)
       \/ \E response \in Response : Fail(p, response)
       \/ CancelProvider(p)
  \/ CTGathered \/ CTRaises \/ CancelCT \/ UnwindCT \/ RetryCT
-----------------------------------------------------------------------------
CTTypeOK ==
  /\ provider \in [Providers -> ProviderAt]
  /\ got \in [Providers -> SUBSET CTNames] /\ page \in [Providers -> 0 .. MaxPages]
  /\ \A p \in Providers : cached[p].names \subseteq CTNames
                          /\ cached[p].status \in {"none", "success", "limited", "refused"}
  /\ delivered \in [Providers -> SUBSET CTNames]
  /\ final \in [Providers -> {"none", "empty", "names", "refused"}]

(***************************************************************************)
(* Over all attempts of the stage, its deadline and its cancellations:     *)
(* every result that is returned holds every name a provider ever sent in  *)
(* a final answer; and a provider that gave one in the attempt before is   *)
(* asked again only if its answer had no names and that attempt was cut    *)
(* before anything at all could be kept -- never because another provider  *)
(* made the stage retry (ct_plugin.py 65-74, 91-106; the crt.name refusals *)
(* of line 102).                                                           *)
(***************************************************************************)
AnswersCarried ==
  /\ IsCT /\ phase = "returned" =>
       \A p \in Providers : \A n \in delivered[p] :
         \E r \in result : r.kind = "subdomain_found" /\ n \in r.names /\ p \in r.sources
  /\ IsCT /\ phase = "running" =>
       \A p \in Providers : provider[p] = "asking" /\ final[p] # "none" =>
         final[p] # "names" /\ Preserved = {}
=============================================================================
