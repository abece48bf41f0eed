-------------------------- MODULE DiscoveryHandler --------------------------
(***************************************************************************)
(* sh4q/handlers.py: how one discovery event becomes evidence and, if the  *)
(* scope of the run that handles it allows, inventory: asset nodes, edges  *)
(* between them, and the rows that say which run owns them.                *)
(*                                                                         *)
(* Every write opens its own connection and commits, so a handler is a     *)
(* sequence of separate commits and can stop between any two.  Writes are  *)
(* set unions: nodes are upserted by id and edges, evidence and ownership  *)
(* inserted OR IGNORE (sqlite_storage.py 57-122, evidence.py 70-78,        *)
(* scan_assets.py 22-40).  Node attributes, timestamps, what is printed    *)
(* and the run's counters are left out.                                    *)
(***************************************************************************)
EXTENDS EventLog

CONSTANTS
  Assets,        (* graph nodes: names, addresses, URLs, technologies      *)
  Technologies,  (* the assets that are no destination and are not gated   *)
  Scopes,        (* the scope configurations runs may be started with      *)
  Allows,        (* Allows[s]: the destinations scope s authorizes         *)
  Shape,         (* Shape[e]: which handler shape the event's kind has     *)
  Origin,        (* Origin[e]: the asset the event is about                *)
  Claims         (* Claims[e]: the edges <<from, to>> the event reports    *)

Destinations == Assets \ Technologies
Edges == Assets \X Assets

(***************************************************************************)
(* resolution   dns_resolution, discovered_dns_resolution                  *)
(* endpoint     http_probe, vhost_observation, javascript_* references     *)
(* history      url_history_found                                          *)
(* batch        url_history_batch                                          *)
(* fingerprint  http_fingerprint, of any number of technologies            *)
(* path         directory_observation                                      *)
(* subdomain    subdomain_found                                            *)
(* notice       kinds that are only printed or that no handler knows, URLs *)
(*              that do not parse, paths that match the not-found response *)
(***************************************************************************)
Shapes == {"resolution", "endpoint", "history", "batch", "fingerprint",
           "path", "subdomain", "notice"}
Single == Shapes \ {"batch", "fingerprint", "notice"}

(***************************************************************************)
(* OriginFollows: the URL kinds ask the scope once, for the URL's host and *)
(* port, and the origin or host they anchor the edge at has the same host: *)
(* authorize() (scope/engine.py 69-93) decides by host and port alone.     *)
(***************************************************************************)
ASSUME HandlerAssumption ==
  /\ Technologies \subseteq Assets
  /\ Allows \in [Scopes -> SUBSET Destinations]
  /\ Shape \in [Events -> Shapes]
  /\ Claims \in [Events -> Seq(Edges)]
  /\ Origin \in [Events -> Destinations]
  /\ \A e \in Events : Shape[e] \in Single => Len(Claims[e]) = 1
  /\ \A e \in Events : Shape[e] = "notice" => Claims[e] = <<>>

ASSUME OriginFollows ==
  \A e \in Events : Shape[e] \in {"endpoint", "history", "batch", "path"} =>
    \A i \in DOMAIN Claims[e] : \A s \in Scopes :
      Claims[e][i][2] \in Allows[s] => Claims[e][i][1] \in Allows[s]

ASSUME ClaimsFollow ==
  \A e \in Events : \A i \in DOMAIN Claims[e] :
    /\ Claims[e][i][1] \in Destinations
    /\ Shape[e] # "batch" => Claims[e][i][1] = Origin[e]
    /\ Claims[e][i][2] \in IF Shape[e] = "fingerprint" THEN Technologies ELSE Destinations

VARIABLES
  evidence,      (* events whose observation is stored                     *)
  refusals,      (* events with a stored <id>:scope-deny record            *)
  nodes, edges,  (* the asset graph                                        *)
  owned          (* <<event, edge>>: scan_assets rows, under the run that  *)
                 (* published the event                                    *)

inventory == <<nodes, edges, owned, refusals>>

InventoryInit ==
  /\ evidence = {} /\ refusals = {}
  /\ nodes = {} /\ edges = {} /\ owned = {}

-----------------------------------------------------------------------------
\* One commit: what it adds to the tables.
Nothing == [nodes |-> {}, edges |-> {}, own |-> {}, refusals |-> {}]
Nodes(S) == [Nothing EXCEPT !.nodes = S]
Links(R) == [Nothing EXCEPT !.edges = R]
Owns(R)  == [Nothing EXCEPT !.own = R]
Refuse(e) == [Nothing EXCEPT !.refusals = {e}]

From(e) == Origin[e]
To(e)   == Claims[e][1][2]
Link(e) == {Claims[e][1]}

ClaimSet(e) == {Claims[e][i] : i \in DOMAIN Claims[e]}

(* Plausible bugs of the writes below, used as mutants.                    *)
SaveLinkEdgeEarly(e) == <<Nodes({From(e)}), Links(Link(e)), Nodes({To(e)}), Owns(Link(e))>>
SaveLinkUnowned(e) == <<Nodes({From(e)}), Nodes({To(e)}), Links(Link(e))>>
AllClaims(e, s) == ClaimSet(e)
SaveBatchUnowned(R) == <<Nodes({r[1] : r \in R} \cup {r[2] : r \in R}), Links(R)>>
SaveTechnologiesEdgeEarly(e) ==
  [k \in 1 .. 3 * Len(Claims[e]) + 1 |->
     IF k = 1 THEN Nodes({From(e)}) ELSE
     LET c == Claims[e][((k - 2) \div 3) + 1]
         m == (k - 2) % 3
     IN  IF m = 1 THEN Nodes({c[2]}) ELSE IF m = 0 THEN Links({c}) ELSE Owns({c})]

\* save_node from, save_node to, save_relationship, record_asset.
SaveLink(e) == <<Nodes({From(e)}), Nodes({To(e)}), Links(Link(e)), Owns(Link(e))>>

\* Lines 206-222: the claims of a batch that the scope allows ...
AllowedClaims(e, s) ==
  {Claims[e][i] : i \in {j \in DOMAIN Claims[e] : Claims[e][j][2] \in Allows[s]}}

\* ... and lines 223-236: three batched commits.
SaveBatch(R) == <<Nodes({r[1] : r \in R} \cup {r[2] : r \in R}), Links(R), Owns(R)>>

\* Lines 364-403: the endpoint, then each technology with its edge and owner.
SaveTechnologies(e) ==
  [k \in 1 .. 3 * Len(Claims[e]) + 1 |->
     IF k = 1 THEN Nodes({From(e)}) ELSE
     LET c == Claims[e][((k - 2) \div 3) + 1]
         m == (k - 2) % 3
     IN  IF m = 0 THEN Nodes({c[2]}) ELSE IF m = 1 THEN Links({c}) ELSE Owns({c})]

(***************************************************************************)
(* What the handler of e commits after the evidence, in order, under scope *)
(* s, by shape.  The gates are synchronous and the scope of a run never    *)
(* changes, so it makes no difference that some sit between two commits.   *)
(***************************************************************************)

\* Lines 85-144: both ends are asked for.
WriteResolution(e, s) ==
  IF {From(e), To(e)} \subseteq Allows[s] THEN SaveLink(e) ELSE <<>>

\* Lines 159-199, 321-354 and 411-456.
WriteEndpoint(e, s) == IF To(e) \in Allows[s] THEN SaveLink(e) ELSE <<>>

\* Lines 252-298: a refusal is stored as evidence of its own.
WriteHistory(e, s) == IF To(e) \in Allows[s] THEN SaveLink(e) ELSE <<Refuse(e)>>

\* Lines 507-563: the path's node comes first.
WritePath(e, s) ==
  IF To(e) \in Allows[s]
  THEN <<Nodes({To(e)}), Nodes({From(e)}), Links(Link(e)), Owns(Link(e))>>
  ELSE <<>>

\* A plausible bug of WriteSubdomain, used as a mutant: the parent's decision
\* is taken for the child's.
WriteSubdomainUnchecked(e, s) ==
  IF From(e) \in Allows[s] THEN SaveLink(e) ELSE <<>>

\* Lines 577-608: the parent is kept although the child is refused.
WriteSubdomain(e, s) ==
  IF From(e) \notin Allows[s] THEN <<>>
  ELSE IF To(e) \notin Allows[s] THEN <<Nodes({From(e)})>> ELSE SaveLink(e)

\* Lines 668-700.
Writes(e, s) ==
  CASE Shape[e] = "resolution" -> WriteResolution(e, s)
    [] Shape[e] = "endpoint" -> WriteEndpoint(e, s)
    [] Shape[e] = "history" -> WriteHistory(e, s)
    [] Shape[e] = "path" -> WritePath(e, s)
    [] Shape[e] = "subdomain" -> WriteSubdomain(e, s)
    [] Shape[e] = "batch" -> SaveBatch(AllowedClaims(e, s))
    [] Shape[e] = "fingerprint" ->
         IF From(e) \in Allows[s] THEN SaveTechnologies(e) ELSE <<>>
    [] Shape[e] = "notice" -> <<>>

\* evidence_store.append at the head of handle_discovery, lines 709-718.
AppendEvidence(e) ==
  /\ evidence' = evidence \cup {e}
  /\ UNCHANGED inventory

\* One commit of a handler.
Save(e, w) ==
  /\ nodes' = nodes \cup w.nodes
  /\ edges' = edges \cup w.edges
  /\ owned' = owned \cup ({e} \X w.own)
  /\ refusals' = refusals \cup w.refusals
  /\ UNCHANGED evidence

\* The assets an event reports.
Reported(e) ==
  {c[1] : c \in ClaimSet(e)} \cup {c[2] : c \in ClaimSet(e)}
    \cup (IF Shape[e] = "fingerprint" THEN {From(e)} ELSE {})

InventoryTypeOK ==
  /\ evidence \subseteq Events /\ refusals \subseteq Events
  /\ nodes \subseteq Assets /\ edges \subseteq Edges
  /\ owned \subseteq Events \X Edges
=============================================================================
