--------------------------- MODULE EventBusProofs ---------------------------
(***************************************************************************)
(* The event bus's safety properties for every number of events and runs,  *)
(* every scope and every bound on attempts, however handlers fail and runs *)
(* end.  First what a handler's sequence of commits guarantees wherever it *)
(* is cut off, for every event shape, claim and scope.  Then three         *)
(* invariants, each inductive given the ones before it:                    *)
(*   Control   where each event is and what its row then says;             *)
(*   Remember  that no unfinished row is left unattended;                  *)
(*   Backing   what the graph, the evidence and the handler's progress     *)
(*             have to do with each other.                                 *)
(***************************************************************************)
EXTENDS EventBus, FiniteSetTheorems, TLAPS

Write == [nodes : SUBSET Assets, edges : SUBSET Edges,
          own : SUBSET Edges, refusals : SUBSET Events]

\* What handlers may put into the graph under scope s.
Permitted(s) == Allows[s] \cup Technologies

\* The ends of each edge are saved by earlier commits than the edge's, and
\* the edge before its ownership.
OrderedCommits(w) ==
  \A i \in DOMAIN w :
    /\ \A c \in w[i].edges : /\ \E j \in 1 .. i - 1 : c[1] \in w[j].nodes
                             /\ \E j \in 1 .. i - 1 : c[2] \in w[j].nodes
    /\ \A c \in w[i].own : \E j \in 1 .. i - 1 : c \in w[j].edges

\* Nothing is written that the event does not report.
FaithfulCommits(e, w) ==
  \A i \in DOMAIN w :
    /\ w[i].nodes \subseteq Reported(e)
    /\ w[i].edges \subseteq ClaimSet(e) /\ w[i].own \subseteq ClaimSet(e)
    /\ w[i].refusals \subseteq {e}

\* Nothing is written that the scope does not allow.
GatedCommits(s, w) ==
  \A i \in DOMAIN w :
    /\ w[i].nodes \subseteq Permitted(s)
    /\ \A c \in w[i].edges : {c[1], c[2]} \subseteq Permitted(s)

\* Everything the scope allows is written, and a refused URL is recorded.
CompleteCommits(e, s, w) ==
  /\ \A c \in ClaimSet(e) : {c[1], c[2]} \subseteq Permitted(s) =>
       /\ \E i \in DOMAIN w : c \in w[i].edges
       /\ \E i \in DOMAIN w : c \in w[i].own
  /\ Shape[e] = "history" => \/ \E i \in DOMAIN w : Claims[e][1] \in w[i].own
                             \/ \E i \in DOMAIN w : e \in w[i].refusals

Good(e, s, w) ==
  /\ w \in Seq(Write)
  /\ OrderedCommits(w) /\ FaithfulCommits(e, w) /\ GatedCommits(s, w)

LEMMA CommitFields ==
  ASSUME NEW S \in SUBSET Assets, NEW R \in SUBSET Edges, NEW e \in Events
  PROVE  /\ Nodes(S) \in Write /\ Links(R) \in Write /\ Owns(R) \in Write
         /\ Refuse(e) \in Write
         /\ Nodes(S).nodes = S /\ Nodes(S).edges = {} /\ Nodes(S).own = {}
         /\ Nodes(S).refusals = {}
         /\ Links(R).nodes = {} /\ Links(R).edges = R /\ Links(R).own = {}
         /\ Links(R).refusals = {}
         /\ Owns(R).nodes = {} /\ Owns(R).edges = {} /\ Owns(R).own = R
         /\ Owns(R).refusals = {}
         /\ Refuse(e).nodes = {} /\ Refuse(e).edges = {} /\ Refuse(e).own = {}
         /\ Refuse(e).refusals = {e}
<1>1. /\ Nodes(S) = [nodes |-> S, edges |-> {}, own |-> {}, refusals |-> {}]
      /\ Links(R) = [nodes |-> {}, edges |-> R, own |-> {}, refusals |-> {}]
      /\ Owns(R) = [nodes |-> {}, edges |-> {}, own |-> R, refusals |-> {}]
      /\ Refuse(e) = [nodes |-> {}, edges |-> {}, own |-> {}, refusals |-> {e}]
  BY SMTT(30) DEF Nodes, Links, Owns, Refuse, Nothing
<1>2. /\ Nodes(S) \in Write /\ Links(R) \in Write /\ Owns(R) \in Write
      /\ Refuse(e) \in Write
  BY <1>1 DEF Write
<1> QED BY <1>1, <1>2

\* A claim's ends are assets; those of other than fingerprints are gated.
LEMMA ClaimEnds ==
  ASSUME NEW e \in Events, NEW i \in DOMAIN Claims[e]
  PROVE  /\ Claims[e][i] \in Edges /\ Claims[e][i] \in ClaimSet(e)
         /\ Claims[e][i] = <<Claims[e][i][1], Claims[e][i][2]>>
         /\ Claims[e][i][1] \in Assets /\ Claims[e][i][2] \in Assets
         /\ Claims[e][i][1] \notin Technologies
         /\ Shape[e] # "fingerprint" => Claims[e][i][2] \notin Technologies
<1>1. Claims[e] \in Seq(Edges)
  BY HandlerAssumption
<1>2. Claims[e][i] \in Edges
  BY <1>1
<1> QED BY <1>2, ClaimsFollow DEF Edges, ClaimSet, Destinations

LEMMA SingleClaim ==
  ASSUME NEW e \in Events, Shape[e] \in Single
  PROVE  /\ DOMAIN Claims[e] = {1} /\ 1 \in DOMAIN Claims[e]
         /\ Claims[e][1] = <<From(e), To(e)>> /\ Claims[e][1] \in Edges
         /\ From(e) \in Assets \ Technologies /\ To(e) \in Assets \ Technologies
         /\ Link(e) = {<<From(e), To(e)>>} /\ ClaimSet(e) = {<<From(e), To(e)>>}
<1>1. Claims[e] \in Seq(Edges) /\ Len(Claims[e]) = 1
  BY HandlerAssumption
<1>2. DOMAIN Claims[e] = {1}
  BY <1>1
<1>3. Shape[e] # "fingerprint"
  BY DEF Single
<1>4. Claims[e][1][1] = From(e) /\ From(e) \in Assets \ Technologies
  BY <1>2, <1>3, ClaimsFollow, ClaimEnds DEF From, Single
<1> QED BY <1>2, <1>3, <1>4, ClaimEnds DEF To, Link, ClaimSet

\* The commits of one checked link, in either order of its ends.
LEMMA LinkCommits ==
  ASSUME NEW e \in Events, NEW s \in Scopes, Shape[e] \in Single,
         From(e) \in Allows[s], To(e) \in Allows[s],
         NEW a, NEW b, {a, b} = {From(e), To(e)},
         NEW w, w = <<Nodes({a}), Nodes({b}), Links(Link(e)), Owns(Link(e))>>
  PROVE  Good(e, s, w) /\ CompleteCommits(e, s, w)
<1> DEFINE c == <<From(e), To(e)>>
<1>1. /\ c \in Edges /\ Link(e) = {c} /\ ClaimSet(e) = {c} /\ Claims[e][1] = c
      /\ a \in Assets /\ b \in Assets /\ c[1] = From(e) /\ c[2] = To(e)
      /\ a \in {c[1], c[2]} /\ b \in {c[1], c[2]} /\ c[1] \in {a, b} /\ c[2] \in {a, b}
  BY SingleClaim
<1>2. /\ w[1] = Nodes({a}) /\ w[2] = Nodes({b}) /\ w[3] = Links({c}) /\ w[4] = Owns({c})
      /\ DOMAIN w = 1 .. 4
  BY <1>1
<1>9. /\ {a} \in SUBSET Assets /\ {b} \in SUBSET Assets /\ {c} \in SUBSET Edges
      /\ w \in Seq(Write)
  <2>1. {a} \in SUBSET Assets /\ {b} \in SUBSET Assets /\ {c} \in SUBSET Edges
    BY <1>1
  <2>2. /\ Nodes({a}) \in Write /\ Nodes({b}) \in Write
        /\ Links({c}) \in Write /\ Owns({c}) \in Write
    BY <2>1, CommitFields
  <2> QED BY <1>1, <2>1, <2>2
<1>3. c[1] \in Allows[s] /\ c[2] \in Allows[s] /\ a \in Allows[s] /\ b \in Allows[s]
  BY <1>1
<1> HIDE DEF c
<1>8. /\ w[1].nodes = {a} /\ w[2].nodes = {b} /\ w[3].nodes = {} /\ w[4].nodes = {}
      /\ w[1].edges = {} /\ w[2].edges = {} /\ w[3].edges = {c} /\ w[4].edges = {}
      /\ w[1].own = {} /\ w[2].own = {} /\ w[3].own = {} /\ w[4].own = {c}
      /\ \A i \in DOMAIN w : w[i].refusals = {}
      /\ \A i \in DOMAIN w : i = 1 \/ i = 2 \/ i = 3 \/ i = 4
  <2>1. \A i \in DOMAIN w : i = 1 \/ i = 2 \/ i = 3 \/ i = 4
    BY <1>2
  <2>2. /\ w[1].nodes = {a} /\ w[1].edges = {} /\ w[1].own = {} /\ w[1].refusals = {}
        /\ w[2].nodes = {b} /\ w[2].edges = {} /\ w[2].own = {} /\ w[2].refusals = {}
    BY <1>2, <1>9, CommitFields
  <2>3. /\ w[3].nodes = {} /\ w[3].edges = {c} /\ w[3].own = {} /\ w[3].refusals = {}
        /\ w[4].nodes = {} /\ w[4].edges = {} /\ w[4].own = {c} /\ w[4].refusals = {}
    BY <1>2, <1>9, CommitFields
  <2> QED BY <2>1, <2>2, <2>3
<1>4. OrderedCommits(w)
  <2> SUFFICES ASSUME NEW i \in DOMAIN w
               PROVE  /\ \A d \in w[i].edges : /\ \E j \in 1 .. i - 1 : d[1] \in w[j].nodes
                                               /\ \E j \in 1 .. i - 1 : d[2] \in w[j].nodes
                      /\ \A d \in w[i].own : \E j \in 1 .. i - 1 : d \in w[j].edges
    BY DEF OrderedCommits
  <2>1. CASE i = 3
    <3>1. 1 \in 1 .. i - 1 /\ 2 \in 1 .. i - 1
      BY <2>1
    <3>2. \A d \in w[i].edges : d = c
      BY <2>1, <1>8
    <3>3. c[1] \in w[1].nodes \/ c[1] \in w[2].nodes
      BY <1>1, <1>8
    <3>4. c[2] \in w[1].nodes \/ c[2] \in w[2].nodes
      BY <1>1, <1>8
    <3>5. /\ \E j \in 1 .. i - 1 : c[1] \in w[j].nodes
          /\ \E j \in 1 .. i - 1 : c[2] \in w[j].nodes
      BY <3>1, <3>3, <3>4
    <3>6. w[i].own = {}
      BY <1>8, <2>1
    <3> QED BY <3>2, <3>5, <3>6
  <2>2. CASE i = 4
    <3>1. 3 \in 1 .. i - 1
      BY <2>2
    <3> QED BY <1>8, <2>2, <3>1
  <2> QED BY <1>8, <2>1, <2>2
<1>5. FaithfulCommits(e, w)
  <2>1. \A i \in DOMAIN w : w[i].nodes \subseteq {a, b}
    BY <1>8, SMTT(30)
  <2>2. \A i \in DOMAIN w : w[i].edges \subseteq {c} /\ w[i].own \subseteq {c}
    BY <1>8
  <2>3. {a, b} \subseteq Reported(e) /\ c \in ClaimSet(e)
    BY <1>1 DEF Reported
  <2> QED BY <1>8, <2>1, <2>2, <2>3 DEF FaithfulCommits
<1>6. GatedCommits(s, w)
  <2>1. \A i \in DOMAIN w : w[i].nodes \subseteq {a, b}
    BY <1>8, SMTT(30)
  <2>2. \A i \in DOMAIN w : w[i].edges \subseteq {c}
    BY <1>8
  <2>3. {a, b} \subseteq Permitted(s) /\ {c[1], c[2]} \subseteq Permitted(s)
    BY <1>3 DEF Permitted
  <2> QED BY <2>1, <2>2, <2>3 DEF GatedCommits
<1>7. CompleteCommits(e, s, w)
  <2>1. 3 \in DOMAIN w /\ 4 \in DOMAIN w
    BY <1>2
  <2> QED BY <1>1, <1>8, <2>1 DEF CompleteCommits
<1> QED BY <1>4, <1>5, <1>6, <1>7, <1>9 DEF Good

\* A handler that returns early has written nothing out of order.
LEMMA NoCommits ==
  ASSUME NEW e \in Events, NEW s \in Scopes
  PROVE  Good(e, s, <<>>)
BY DEF Good, OrderedCommits, FaithfulCommits, GatedCommits

LEMMA OneCommit ==
  ASSUME NEW e \in Events, NEW s \in Scopes, NEW x \in Write,
         x.edges = {}, x.own = {}, x.refusals \subseteq {e},
         x.nodes \subseteq Permitted(s), x.nodes \subseteq Reported(e)
  PROVE  Good(e, s, <<x>>)
<1>1. /\ <<x>> \in Seq(Write) /\ DOMAIN <<x>> = {1} /\ <<x>>[1] = x
  OBVIOUS
<1>2. \A i \in DOMAIN <<x>> : <<x>>[i] = x
  BY <1>1
<1>3. OrderedCommits(<<x>>)
  BY <1>2 DEF OrderedCommits
<1>4. FaithfulCommits(e, <<x>>)
  BY <1>2 DEF FaithfulCommits
<1>5. GatedCommits(s, <<x>>)
  BY <1>2 DEF GatedCommits
<1> QED BY <1>1, <1>3, <1>4, <1>5 DEF Good

\* A denied end is not a technology, so there is nothing to complete.
LEMMA DeniedLink ==
  ASSUME NEW e \in Events, NEW s \in Scopes, NEW w, Shape[e] \in Single \ {"history"},
         From(e) \notin Allows[s] \/ To(e) \notin Allows[s]
  PROVE  CompleteCommits(e, s, w)
<1>1. \A c \in ClaimSet(e) : ~({c[1], c[2]} \subseteq Permitted(s))
  BY SingleClaim DEF Permitted
<1> QED BY <1>1 DEF CompleteCommits

LEMMA SingleCommits ==
  ASSUME NEW e \in Events, NEW s \in Scopes, Shape[e] \in Single
  PROVE  Good(e, s, Writes(e, s)) /\ CompleteCommits(e, s, Writes(e, s))
<1> DEFINE w == Writes(e, s)
<1>1. /\ From(e) \in Assets \ Technologies /\ To(e) \in Assets \ Technologies
      /\ ClaimSet(e) = {<<From(e), To(e)>>} /\ Claims[e][1] = <<From(e), To(e)>>
      /\ 1 \in DOMAIN Claims[e]
  BY SingleClaim
<1>2. CASE From(e) \in Allows[s] /\ To(e) \in Allows[s]
  <2>1. \/ w = <<Nodes({From(e)}), Nodes({To(e)}), Links(Link(e)), Owns(Link(e))>>
        \/ w = <<Nodes({To(e)}), Nodes({From(e)}), Links(Link(e)), Owns(Link(e))>>
    BY <1>2 DEF Writes,
         WriteResolution, WriteEndpoint, WriteHistory, WritePath, WriteSubdomain, SaveLink, Single, Shapes
  <2> QED BY <1>2, <2>1, LinkCommits
<1>3. CASE ~(From(e) \in Allows[s] /\ To(e) \in Allows[s])
  <2>1. CASE Shape[e] = "history"
    <3>1. To(e) \notin Allows[s]
      BY <1>1, <1>3, <2>1, OriginFollows DEF From, To
    <3>2. w = <<Refuse(e)>>
      BY <2>1, <3>1 DEF Writes,
         WriteResolution, WriteEndpoint, WriteHistory, WritePath, WriteSubdomain
    <3>3. /\ Refuse(e) \in Write /\ Refuse(e).nodes = {} /\ Refuse(e).edges = {}
          /\ Refuse(e).own = {} /\ Refuse(e).refusals = {e}
      BY CommitFields
    <3>4. Good(e, s, w)
      BY <3>2, <3>3, OneCommit
    <3>5. \A c \in ClaimSet(e) : ~({c[1], c[2]} \subseteq Permitted(s))
      BY <1>1, <3>1 DEF Permitted
    <3>6. 1 \in DOMAIN w /\ e \in w[1].refusals
      BY <3>2, <3>3
    <3> QED BY <3>4, <3>5, <3>6 DEF CompleteCommits
  <2>2. CASE Shape[e] # "history"
    <3>1. CompleteCommits(e, s, w)
      BY <1>3, <2>2, DeniedLink
    <3>2. CASE Shape[e] = "subdomain" /\ From(e) \in Allows[s]
      <4>1. w = <<Nodes({From(e)})>>
        BY <1>3, <3>2 DEF Writes,
         WriteResolution, WriteEndpoint, WriteHistory, WritePath, WriteSubdomain
      <4>2. /\ Nodes({From(e)}) \in Write /\ Nodes({From(e)}).nodes = {From(e)}
            /\ Nodes({From(e)}).edges = {} /\ Nodes({From(e)}).own = {}
            /\ Nodes({From(e)}).refusals = {}
        BY <1>1, CommitFields
      <4>3. From(e) \in Reported(e) /\ {From(e)} \subseteq Permitted(s)
        BY <1>1, <3>2 DEF Permitted, Reported
      <4>4. Good(e, s, <<Nodes({From(e)})>>)
        BY <4>2, <4>3, OneCommit
      <4> QED BY <3>1, <4>1, <4>4
    <3>3. CASE ~(Shape[e] = "subdomain" /\ From(e) \in Allows[s])
      <4>1. Shape[e] \in {"endpoint", "path"} => To(e) \notin Allows[s]
        BY <1>1, <1>3, OriginFollows DEF From, To
      <4>2. w = <<>>
        BY <1>3, <2>2, <3>3, <4>1 DEF Writes,
         WriteResolution, WriteEndpoint, WriteHistory, WritePath, WriteSubdomain, Single, Shapes
      <4> QED BY <3>1, <4>2, NoCommits
    <3> QED BY <3>2, <3>3
  <2> QED BY <2>1, <2>2
<1> QED BY <1>2, <1>3

LEMMA BatchCommits ==
  ASSUME NEW e \in Events, NEW s \in Scopes, Shape[e] = "batch"
  PROVE  Good(e, s, Writes(e, s)) /\ CompleteCommits(e, s, Writes(e, s))
<1> DEFINE R == AllowedClaims(e, s)
           N == {r[1] : r \in R} \cup {r[2] : r \in R}
           w == Writes(e, s)
<1>1. w = <<Nodes(N), Links(R), Owns(R)>>
  BY DEF Writes, SaveBatch
<1>2. \A r \in R : /\ r \in Edges /\ r \in ClaimSet(e)
                   /\ r[1] \in Assets /\ r[2] \in Assets
                   /\ r[1] \in Allows[s] /\ r[2] \in Allows[s]
  BY ClaimEnds, OriginFollows DEF AllowedClaims
<1>3. \A c \in ClaimSet(e) : {c[1], c[2]} \subseteq Permitted(s) => c \in R
  BY ClaimEnds DEF AllowedClaims, ClaimSet, Permitted
<1>4. /\ N \in SUBSET Assets /\ R \in SUBSET Edges /\ N \subseteq Allows[s]
      /\ \A r \in R : r[1] \in N /\ r[2] \in N
      /\ \A a \in N : \E r \in R : a \in {r[1], r[2]}
  BY <1>2
<1> HIDE DEF R, N
<1>5. /\ Nodes(N) \in Write /\ Links(R) \in Write /\ Owns(R) \in Write
      /\ Nodes(N).nodes = N /\ Nodes(N).edges = {} /\ Nodes(N).own = {}
      /\ Links(R).nodes = {} /\ Links(R).edges = R /\ Links(R).own = {}
      /\ Owns(R).nodes = {} /\ Owns(R).edges = {} /\ Owns(R).own = R
      /\ Nodes(N).refusals = {} /\ Links(R).refusals = {} /\ Owns(R).refusals = {}
  BY <1>4, CommitFields
<1> HIDE DEF w
<1>6. /\ w \in Seq(Write) /\ DOMAIN w = 1 .. 3
      /\ w[1] = Nodes(N) /\ w[2] = Links(R) /\ w[3] = Owns(R)
      /\ \A i \in DOMAIN w : i = 1 \/ i = 2 \/ i = 3
  BY <1>1, <1>5
<1>7. OrderedCommits(w)
  <2> SUFFICES ASSUME NEW i \in DOMAIN w
               PROVE  /\ \A d \in w[i].edges : /\ \E j \in 1 .. i - 1 : d[1] \in w[j].nodes
                                               /\ \E j \in 1 .. i - 1 : d[2] \in w[j].nodes
                      /\ \A d \in w[i].own : \E j \in 1 .. i - 1 : d \in w[j].edges
    BY DEF OrderedCommits
  <2>1. CASE i = 2
    <3>1. 1 \in 1 .. i - 1 /\ w[1].nodes = N /\ w[i].edges = R /\ w[i].own = {}
      BY <1>5, <1>6, <2>1
    <3> QED BY <1>4, <3>1
  <2>2. CASE i = 3
    <3>1. 2 \in 1 .. i - 1 /\ w[2].edges = R /\ w[i].edges = {} /\ w[i].own = R
      BY <1>5, <1>6, <2>2
    <3> QED BY <3>1
  <2>3. CASE i = 1
    BY <1>5, <1>6, <2>3
  <2> QED BY <1>6, <2>1, <2>2, <2>3
<1>8. /\ \A i \in DOMAIN w : w[i].nodes \subseteq N
      /\ \A i \in DOMAIN w : w[i].edges \subseteq R
      /\ \A i \in DOMAIN w : w[i].own \subseteq R
      /\ \A i \in DOMAIN w : w[i].refusals = {}
  BY <1>5, <1>6
<1>9. FaithfulCommits(e, w)
  <2>1. R \subseteq ClaimSet(e) /\ N \subseteq Reported(e)
    BY <1>2, <1>4 DEF Reported
  <2> QED BY <1>8, <2>1 DEF FaithfulCommits
<1>10. GatedCommits(s, w)
  <2>1. N \subseteq Permitted(s) /\ \A r \in R : {r[1], r[2]} \subseteq Permitted(s)
    BY <1>2, <1>4 DEF Permitted
  <2> QED BY <1>8, <2>1 DEF GatedCommits
<1>11. CompleteCommits(e, s, w)
  <2>1. 2 \in DOMAIN w /\ 3 \in DOMAIN w /\ w[2].edges = R /\ w[3].own = R
    BY <1>5, <1>6
  <2> QED BY <1>3, <2>1 DEF CompleteCommits
<1> QED BY <1>6, <1>7, <1>9, <1>10, <1>11 DEF Good, w

\* Each technology takes three commits: its node, its edge, its owner.
LEMMA ThreeCommits ==
  ASSUME NEW k \in Nat, k >= 2, NEW n \in Nat, k <= 3 * n + 1
  PROVE  \E i \in 1 .. n : k = 3 * i - 1 \/ k = 3 * i \/ k = 3 * i + 1
<1> DEFINE i == ((k - 2) \div 3) + 1
           m == (k - 2) % 3
<1>1. i \in Int /\ m \in 0 .. 2 /\ k = 3 * i - 1 + m
  OBVIOUS
<1> HIDE DEF i, m
<1>2. i \in 1 .. n
  BY <1>1
<1> QED BY <1>1, <1>2

LEMMA TechnologyCommits ==
  ASSUME NEW e \in Events, Shape[e] = "fingerprint"
  PROVE  LET w == SaveTechnologies(e)
             n == Len(Claims[e])
         IN  /\ n \in Nat /\ DOMAIN w = 1 .. 3 * n + 1
             /\ w[1] = Nodes({From(e)})
             /\ \A i \in 1 .. n : /\ w[3 * i - 1] = Nodes({Claims[e][i][2]})
                                  /\ w[3 * i] = Links({Claims[e][i]})
                                  /\ w[3 * i + 1] = Owns({Claims[e][i]})
             /\ \A k \in DOMAIN w : k = 1 \/ \E i \in 1 .. n : k \in {3 * i - 1, 3 * i, 3 * i + 1}
<1> DEFINE w == SaveTechnologies(e)
           n == Len(Claims[e])
<1>1. n \in Nat
  BY HandlerAssumption
<1>2. DOMAIN w = 1 .. 3 * n + 1 /\ w[1] = Nodes({From(e)})
  BY <1>1 DEF SaveTechnologies
<1>3. ASSUME NEW k \in 2 .. 3 * n + 1
      PROVE  /\ (k - 2) % 3 = 0 => w[k] = Nodes({Claims[e][((k - 2) \div 3) + 1][2]})
             /\ (k - 2) % 3 = 1 => w[k] = Links({Claims[e][((k - 2) \div 3) + 1]})
             /\ (k - 2) % 3 = 2 => w[k] = Owns({Claims[e][((k - 2) \div 3) + 1]})
  <2> DEFINE m == (k - 2) % 3
             c == Claims[e][((k - 2) \div 3) + 1]
  <2>1. k \in 1 .. 3 * n + 1 /\ k # 1
    BY <1>1
  <2>2. w[k] = IF m = 0 THEN Nodes({c[2]}) ELSE IF m = 1 THEN Links({c}) ELSE Owns({c})
    BY <2>1 DEF SaveTechnologies
  <2> HIDE DEF m, c, w
  <2>3. /\ m = 0 => w[k] = Nodes({c[2]})
        /\ m = 1 => w[k] = Links({c})
        /\ m = 2 => w[k] = Owns({c})
    BY <2>2
  <2> QED BY <2>3 DEF m, c
<1>4. ASSUME NEW i \in 1 .. n
      PROVE  /\ w[3 * i - 1] = Nodes({Claims[e][i][2]})
             /\ w[3 * i] = Links({Claims[e][i]})
             /\ w[3 * i + 1] = Owns({Claims[e][i]})
  <2> HIDE DEF w, n
  <2>1. w[3 * i - 1] = Nodes({Claims[e][i][2]})
    <3> DEFINE k == 3 * i - 1
    <3>1. k \in 2 .. 3 * n + 1 /\ ((k - 2) \div 3) + 1 = i /\ (k - 2) % 3 = 0
      BY <1>1
    <3> HIDE DEF k
    <3>2. w[k] = Nodes({Claims[e][i][2]})
      BY <1>3, <3>1
    <3> QED BY <3>2 DEF k
  <2>2. w[3 * i] = Links({Claims[e][i]})
    <3> DEFINE k == 3 * i
    <3>1. k \in 2 .. 3 * n + 1 /\ ((k - 2) \div 3) + 1 = i /\ (k - 2) % 3 = 1
      BY <1>1
    <3> HIDE DEF k
    <3>2. w[k] = Links({Claims[e][i]})
      BY <1>3, <3>1
    <3> QED BY <3>2 DEF k
  <2>3. w[3 * i + 1] = Owns({Claims[e][i]})
    <3> DEFINE k == 3 * i + 1
    <3>1. k \in 2 .. 3 * n + 1 /\ ((k - 2) \div 3) + 1 = i /\ (k - 2) % 3 = 2
      BY <1>1
    <3> HIDE DEF k
    <3>2. w[k] = Owns({Claims[e][i]})
      BY <1>3, <3>1
    <3> QED BY <3>2 DEF k
  <2> QED BY <2>1, <2>2, <2>3
<1>5. ASSUME NEW k \in DOMAIN w
      PROVE  k = 1 \/ \E i \in 1 .. n : k \in {3 * i - 1, 3 * i, 3 * i + 1}
  <2> HIDE DEF w, n
  <2>1. CASE k # 1
    <3>1. k \in Nat /\ k >= 2 /\ k <= 3 * n + 1 /\ n \in Nat
      BY <1>1, <1>2, <2>1
    <3> QED BY <3>1, ThreeCommits
  <2> QED BY <2>1
<1> QED BY <1>1, <1>2, <1>4, <1>5

LEMMA FingerprintCommits ==
  ASSUME NEW e \in Events, NEW s \in Scopes, Shape[e] = "fingerprint"
  PROVE  Good(e, s, Writes(e, s)) /\ CompleteCommits(e, s, Writes(e, s))
<1> DEFINE n == Len(Claims[e])
           w == SaveTechnologies(e)
           c(i) == Claims[e][i]
<1>1. /\ n \in Nat /\ DOMAIN w = 1 .. 3 * n + 1 /\ DOMAIN Claims[e] = 1 .. n
      /\ w[1] = Nodes({From(e)})
      /\ \A i \in 1 .. n : /\ w[3 * i - 1] = Nodes({c(i)[2]})
                           /\ w[3 * i] = Links({c(i)})
                           /\ w[3 * i + 1] = Owns({c(i)})
      /\ \A k \in DOMAIN w : k = 1 \/ \E i \in 1 .. n : k \in {3 * i - 1, 3 * i, 3 * i + 1}
  <2>1. DOMAIN Claims[e] = 1 .. n
    BY HandlerAssumption
  <2> QED BY <2>1, TechnologyCommits, Zenon
<1>2. \A i \in 1 .. n : /\ c(i) \in Edges /\ c(i) \in ClaimSet(e)
                        /\ c(i)[1] = From(e) /\ c(i)[2] \in Technologies
                        /\ c(i)[1] \in Assets /\ c(i)[2] \in Assets
                        /\ c(i)[1] \notin Technologies
  BY <1>1, ClaimEnds, ClaimsFollow DEF From
<1>3. \A x \in ClaimSet(e) : \E i \in 1 .. n : x = c(i)
  BY <1>1 DEF ClaimSet
<1>4. From(e) \in Assets /\ From(e) \notin Technologies /\ From(e) \in Reported(e)
  BY HandlerAssumption DEF From, Reported, Destinations
<1>5. CASE From(e) \notin Allows[s]
  <2>1. Writes(e, s) = <<>>
    BY <1>5 DEF Writes
  <2>2. \A x \in ClaimSet(e) : ~({x[1], x[2]} \subseteq Permitted(s))
    BY <1>2, <1>3, <1>5 DEF Permitted
  <2>3. CompleteCommits(e, s, <<>>)
    BY <2>2 DEF CompleteCommits
  <2> QED BY <2>1, <2>3, NoCommits
<1>6. CASE From(e) \in Allows[s]
  <2>1. Writes(e, s) = w
    BY <1>6 DEF Writes
  <2> HIDE DEF w, c, n
  \* What each commit holds, by its place.
  <2>2. /\ w[1] \in Write /\ w[1].nodes = {From(e)} /\ w[1].edges = {} /\ w[1].own = {}
        /\ w[1].refusals = {}
    <3>1. w[1] = Nodes({From(e)})
      BY <1>1
    <3>2. {From(e)} \in SUBSET Assets
      BY <1>4
    <3> QED BY <3>1, <3>2, CommitFields
  <2>3. ASSUME NEW i \in 1 .. n
        PROVE  /\ w[3 * i - 1] \in Write /\ w[3 * i] \in Write /\ w[3 * i + 1] \in Write
               /\ w[3 * i - 1].nodes = {c(i)[2]} /\ w[3 * i - 1].edges = {}
               /\ w[3 * i - 1].own = {} /\ w[3 * i - 1].refusals = {}
               /\ w[3 * i].nodes = {} /\ w[3 * i].edges = {c(i)}
               /\ w[3 * i].own = {} /\ w[3 * i].refusals = {}
               /\ w[3 * i + 1].nodes = {} /\ w[3 * i + 1].edges = {}
               /\ w[3 * i + 1].own = {c(i)} /\ w[3 * i + 1].refusals = {}
    <3>1. {c(i)[2]} \in SUBSET Assets /\ {c(i)} \in SUBSET Edges
      BY <1>2
    <3>2. /\ w[3 * i - 1] = Nodes({c(i)[2]}) /\ w[3 * i] = Links({c(i)})
          /\ w[3 * i + 1] = Owns({c(i)})
      BY <1>1
    <3> HIDE DEF c
    <3> QED BY <3>1, <3>2, CommitFields
  <2>4. w \in Seq(Write)
    <3>1. \A k \in DOMAIN w : w[k] \in Write
      BY <1>1, <2>2, <2>3
    <3>2. 3 * n + 1 \in Nat /\ DOMAIN w = 1 .. 3 * n + 1
      BY <1>1
    <3>3. w = [k \in DOMAIN w |-> w[k]]
      BY DEF w, SaveTechnologies
    <3>4. w \in [1 .. 3 * n + 1 -> Write]
      BY <3>1, <3>2, <3>3, Zenon
    <3>5. \A m \in Nat : [1 .. m -> Write] \subseteq Seq(Write)
      OBVIOUS
    <3> QED BY <3>2, <3>4, <3>5, Zenon
  <2>5. OrderedCommits(w)
    <3> SUFFICES ASSUME NEW k \in DOMAIN w
                 PROVE  /\ \A d \in w[k].edges : /\ \E j \in 1 .. k - 1 : d[1] \in w[j].nodes
                                                 /\ \E j \in 1 .. k - 1 : d[2] \in w[j].nodes
                        /\ \A d \in w[k].own : \E j \in 1 .. k - 1 : d \in w[j].edges
      BY DEF OrderedCommits
    <3>1. CASE k = 1
      BY <2>2, <3>1
    <3>2. ASSUME NEW i \in 1 .. n, k = 3 * i - 1
          PROVE  w[k].edges = {} /\ w[k].own = {}
      BY <2>3, <3>2
    <3>3. ASSUME NEW i \in 1 .. n, k = 3 * i
          PROVE  /\ \A d \in w[k].edges : /\ \E j \in 1 .. k - 1 : d[1] \in w[j].nodes
                                          /\ \E j \in 1 .. k - 1 : d[2] \in w[j].nodes
                 /\ w[k].own = {}
      <4>1. 1 \in 1 .. k - 1 /\ 3 * i - 1 \in 1 .. k - 1
        BY <1>1, <3>3
      <4>2. w[k].edges = {c(i)} /\ w[k].own = {} /\ w[3 * i - 1].nodes = {c(i)[2]}
        BY <2>3, <3>3
      <4>3. c(i)[1] \in w[1].nodes /\ c(i)[2] \in w[3 * i - 1].nodes
        BY <1>2, <2>2, <4>2
      <4> QED BY <4>1, <4>2, <4>3
    <3>4. ASSUME NEW i \in 1 .. n, k = 3 * i + 1
          PROVE  /\ w[k].edges = {}
                 /\ \A d \in w[k].own : \E j \in 1 .. k - 1 : d \in w[j].edges
      <4>1. 3 * i \in 1 .. k - 1
        BY <1>1, <3>4
      <4>2. w[k].edges = {} /\ w[k].own = {c(i)} /\ w[3 * i].edges = {c(i)}
        BY <2>3, <3>4
      <4> QED BY <4>1, <4>2
    <3> QED BY <1>1, <3>1, <3>2, <3>3, <3>4
  <2>6. ASSUME NEW k \in DOMAIN w
        PROVE  /\ w[k].nodes \subseteq {From(e)} \cup {c(i)[2] : i \in 1 .. n}
               /\ w[k].edges \subseteq {c(i) : i \in 1 .. n}
               /\ w[k].own \subseteq {c(i) : i \in 1 .. n}
               /\ w[k].refusals = {}
    <3>1. CASE k = 1
      BY <2>2, <3>1
    <3>2. ASSUME NEW i \in 1 .. n, k = 3 * i - 1 \/ k = 3 * i \/ k = 3 * i + 1
          PROVE  /\ w[k].nodes \subseteq {c(i)[2]} /\ w[k].edges \subseteq {c(i)}
                 /\ w[k].own \subseteq {c(i)} /\ w[k].refusals = {}
      <4>1. CASE k = 3 * i - 1
        BY <2>3, <4>1
      <4>2. CASE k = 3 * i
        BY <2>3, <4>2
      <4>3. CASE k = 3 * i + 1
        BY <2>3, <4>3
      <4> QED BY <3>2, <4>1, <4>2, <4>3
    <3>3. CASE k # 1
      <4>1. PICK i \in 1 .. n : k = 3 * i - 1 \/ k = 3 * i \/ k = 3 * i + 1
        BY <1>1, <3>3
      <4>2. /\ w[k].nodes \subseteq {c(i)[2]} /\ w[k].edges \subseteq {c(i)}
            /\ w[k].own \subseteq {c(i)} /\ w[k].refusals = {}
        BY <3>2, <4>1
      <4> QED BY <4>2
    <3> QED BY <3>1, <3>3
  <2>7. FaithfulCommits(e, w)
    <3>1. \A x \in {c(i) : i \in 1 .. n} : x \in ClaimSet(e)
      BY <1>2
    <3>2. {From(e)} \cup {c(i)[2] : i \in 1 .. n} \subseteq Reported(e)
      BY <1>2, <1>4 DEF Reported
    <3> QED BY <2>6, <3>1, <3>2 DEF FaithfulCommits
  <2>8. GatedCommits(s, w)
    <3>1. \A x \in {c(i) : i \in 1 .. n} : {x[1], x[2]} \subseteq Permitted(s)
      BY <1>2, <1>6 DEF Permitted
    <3>2. {From(e)} \cup {c(i)[2] : i \in 1 .. n} \subseteq Permitted(s)
      BY <1>2, <1>6 DEF Permitted
    <3> QED BY <2>6, <3>1, <3>2 DEF GatedCommits
  <2>9. CompleteCommits(e, s, w)
    <3>1. ASSUME NEW i \in 1 .. n
          PROVE  /\ \E k \in DOMAIN w : c(i) \in w[k].edges
                 /\ \E k \in DOMAIN w : c(i) \in w[k].own
      <4>1. 3 * i \in DOMAIN w /\ 3 * i + 1 \in DOMAIN w
        BY <1>1
      <4> QED BY <2>3, <4>1
    <3> QED BY <1>3, <3>1 DEF CompleteCommits
  <2> QED BY <2>1, <2>4, <2>5, <2>7, <2>8, <2>9 DEF Good
<1> QED BY <1>5, <1>6

(***************************************************************************)
(* For every event shape, whatever it claims and whatever the scope: the   *)
(* handler's commits never leave a dangling edge or an unfounded owner,    *)
(* hold only what the event reports and the scope allows (handlers.py      *)
(* 85-608), and when all have landed everything allowed is stored.         *)
(***************************************************************************)
THEOREM HandlerCommits ==
  ASSUME NEW e \in Events, NEW s \in Scopes
  PROVE  Good(e, s, Writes(e, s)) /\ CompleteCommits(e, s, Writes(e, s))
<1>1. CASE Shape[e] = "notice"
  <2>1. Claims[e] = <<>>
    BY <1>1, HandlerAssumption
  <2>2. ClaimSet(e) = {} /\ Writes(e, s) = <<>>
    BY <1>1, <2>1 DEF ClaimSet, Writes
  <2> QED BY <1>1, <2>2, NoCommits DEF CompleteCommits
<1>2. Shape[e] \in Shapes
  BY HandlerAssumption
<1> QED BY <1>1, <1>2, SingleCommits, BatchCommits, FingerprintCommits DEF Shapes, Single

-----------------------------------------------------------------------------
\* The counter of queue.join(), what the dispatcher holds and how far it is.
Hands ==
  /\ open = Len(queue) + (IF Busy THEN 1 ELSE 0)
  /\ Busy <=> hand # {}
  /\ \A e, f \in hand : e = f
  /\ disp \notin {"write", "complete", "fail"} => step = 1

\* Without a process nothing is in memory; a later stage finds the bus empty.
Resting ==
  /\ main = "down" <=> disp = "off"
  /\ main = "down" => queue = <<>> /\ publisher = {}
  /\ main = "later" => open = 0

NoRepeats(q) == \A i, j \in DOMAIN q : q[i] = q[j] => i = j

\* Every event is in at most one place.
Places ==
  /\ NoRepeats(queue)
  /\ Range(queue) \cap (hand \cup publisher) = {} /\ hand \cap publisher = {}
  /\ \A e, f \in publisher : e = f
  /\ publisher # {} => main = "publishing"

\* What an event's row says while the event is in memory.
Rows ==
  /\ \A e \in publisher : status[e] = "PENDING"
  /\ \A e \in Range(queue) : status[e] \in Unfinished
  /\ \A e \in hand : /\ disp = "mark" => status[e] \in Unfinished
                     /\ disp \in {"evidence", "write", "complete"} => status[e] = "PROCESSING"
                     /\ disp = "fail" => status[e] \in Unfinished \cup {"COMPLETED"}

\* What a row says about its attempts.
Tries ==
  \A e \in Events :
    /\ attempts[e] <= MaxAttempts
    /\ status[e] = "ABSENT" => attempts[e] = 0
    /\ status[e] = "FAILED" => attempts[e] >= 1
    /\ status[e] # "DEAD_LETTER" => attempts[e] < MaxAttempts

Control == TypeOK /\ Hands /\ Resting /\ Places /\ Rows /\ Tries
-----------------------------------------------------------------------------
(* The queue.                                                              *)

LEMMA QueueGrows ==
  ASSUME NEW S, NEW q \in Seq(S), NEW e \in S, NoRepeats(q), e \notin Range(q)
  PROVE  /\ Append(q, e) \in Seq(S) /\ Len(Append(q, e)) = Len(q) + 1
         /\ Range(Append(q, e)) = Range(q) \cup {e}
         /\ NoRepeats(Append(q, e))
<1>1. /\ Append(q, e) \in Seq(S) /\ Len(Append(q, e)) = Len(q) + 1 /\ Len(q) \in Nat
      /\ DOMAIN Append(q, e) = 1 .. Len(q) + 1 /\ DOMAIN q = 1 .. Len(q)
      /\ \A i \in DOMAIN q : Append(q, e)[i] = q[i] /\ i \in DOMAIN Append(q, e)
      /\ Append(q, e)[Len(q) + 1] = e
      /\ \A i \in DOMAIN Append(q, e) : i \in DOMAIN q \/ i = Len(q) + 1
  OBVIOUS
<1>2. \A i \in DOMAIN q : q[i] # e
  BY DEF Range
<1>3. Range(Append(q, e)) = Range(q) \cup {e}
  BY <1>1 DEF Range
<1>4. NoRepeats(Append(q, e))
  BY <1>1, <1>2 DEF NoRepeats
<1> QED BY <1>1, <1>3, <1>4

LEMMA QueueShrinks ==
  ASSUME NEW S, NEW q \in Seq(S), q # <<>>, NoRepeats(q)
  PROVE  /\ Tail(q) \in Seq(S) /\ Len(q) = Len(Tail(q)) + 1 /\ Head(q) \in S
         /\ Range(q) = Range(Tail(q)) \cup {Head(q)} /\ Head(q) \notin Range(Tail(q))
         /\ NoRepeats(Tail(q))
<1>1. /\ Tail(q) \in Seq(S) /\ Len(q) = Len(Tail(q)) + 1 /\ Len(q) \in Nat /\ Len(q) >= 1
      /\ Head(q) \in S
      /\ DOMAIN Tail(q) = 1 .. Len(q) - 1 /\ DOMAIN q = 1 .. Len(q)
      /\ Head(q) = q[1]
      /\ \A i \in DOMAIN Tail(q) : Tail(q)[i] = q[i + 1] /\ i + 1 \in DOMAIN q
      /\ \A i \in DOMAIN q : i = 1 \/ i - 1 \in DOMAIN Tail(q)
  OBVIOUS
<1>2. Range(q) = Range(Tail(q)) \cup {Head(q)}
  <2>1. \A x \in Range(Tail(q)) : x \in Range(q)
    BY <1>1 DEF Range
  <2>2. \A i \in DOMAIN q : q[i] \in Range(Tail(q)) \cup {Head(q)}
    <3> TAKE i \in DOMAIN q
    <3>1. CASE i = 1
      BY <1>1, <3>1
    <3>2. CASE i - 1 \in DOMAIN Tail(q)
      <4>1. Tail(q)[i - 1] = q[i]
        BY <1>1, <3>2
      <4> QED BY <3>2, <4>1 DEF Range
    <3> QED BY <1>1, <3>1, <3>2
  <2>3. Head(q) \in Range(q)
    BY <1>1 DEF Range
  <2> QED BY <2>1, <2>2, <2>3 DEF Range
<1>3. Head(q) \notin Range(Tail(q))
  <2> SUFFICES ASSUME NEW i \in DOMAIN Tail(q) PROVE Tail(q)[i] # q[1]
    BY <1>1 DEF Range
  <2>1. i + 1 \in DOMAIN q /\ 1 \in DOMAIN q /\ i + 1 # 1 /\ Tail(q)[i] = q[i + 1]
    BY <1>1
  <2> QED BY <2>1 DEF NoRepeats
<1>4. NoRepeats(Tail(q))
  <2> SUFFICES ASSUME NEW i \in DOMAIN Tail(q), NEW j \in DOMAIN Tail(q),
                      Tail(q)[i] = Tail(q)[j]
               PROVE  i = j
    BY DEF NoRepeats
  <2>1. i + 1 \in DOMAIN q /\ j + 1 \in DOMAIN q /\ q[i + 1] = q[j + 1]
    BY <1>1
  <2>2. i + 1 = j + 1
    BY <2>1 DEF NoRepeats
  <2> QED BY <1>1, <2>2
<1> QED BY <1>1, <1>2, <1>3, <1>4

LEMMA QueueRecovered ==
  ASSUME NEW S \in SUBSET Events, NEW q \in InOrder(S)
  PROVE  /\ q \in Seq(Events) /\ Len(q) = Cardinality(S) /\ Cardinality(S) \in Nat
         /\ Range(q) = S /\ NoRepeats(q)
<1>1. Cardinality(S) \in Nat
  BY EventLogAssumption, FS_Subset, FS_CardinalityType
<1>2. /\ q \in [1 .. Cardinality(S) -> S] /\ \A e \in S : \E i \in DOMAIN q : q[i] = e
      /\ \A i, j \in DOMAIN q : i < j => q[i] < q[j]
  BY DEF InOrder
<1>3. /\ q \in Seq(Events) /\ Len(q) = Cardinality(S) /\ DOMAIN q = 1 .. Cardinality(S)
      /\ \A i \in DOMAIN q : q[i] \in S
  BY <1>1, <1>2
<1>4. Range(q) = S
  BY <1>2, <1>3 DEF Range
<1>5. NoRepeats(q)
  <2> SUFFICES ASSUME NEW i \in DOMAIN q, NEW j \in DOMAIN q, i < j PROVE q[i] # q[j]
    BY <1>1, <1>3 DEF NoRepeats
  <2>1. q[i] < q[j] /\ q[i] \in Nat /\ q[j] \in Nat
    BY <1>2, <1>3, EventLogAssumption
  <2> QED BY <2>1
<1> QED BY <1>1, <1>3, <1>4, <1>5
-----------------------------------------------------------------------------
(* Control, step by step.                                                  *)

LEMMA InitControl == Init => Control
<1> SUFFICES ASSUME Init PROVE Control
  OBVIOUS
<1> USE DEF Init
<1>1. queue \in Seq(Events) /\ Len(queue) = 0 /\ DOMAIN queue = {}
  OBVIOUS
<1>2. TypeOK
  BY <1>1 DEF TypeOK, LogTypeOK, LogInit, InventoryTypeOK, InventoryInit, Main, Disp, Status
<1>3. Hands /\ Resting
  BY <1>1 DEF Hands, Resting, Busy
<1>4. Places /\ Rows
  BY <1>1 DEF Places, Rows, NoRepeats, Range
<1>5. Tries
  BY EventLogAssumption DEF Tries, LogInit
<1> QED BY <1>2, <1>3, <1>4, <1>5 DEF Control

LEMMA StartControl ==
  ASSUME Control, NEW s \in Scopes, NEW corrupt \in SUBSET Events, Start(s, corrupt)
  PROVE  Control'
<1> USE DEF Control
<1> DEFINE R == Recoverable \ corrupt
<1>1. /\ R \in SUBSET Events
      /\ \A e \in R : status'[e] = status[e] /\ status[e] \in Unfinished
  BY DEF Start, RecoverUnfinished, Recoverable
<1>2. /\ queue' \in Seq(Events) /\ Len(queue') = Cardinality(R) /\ Cardinality(R) \in Nat
      /\ Range(queue') = R /\ NoRepeats(queue')
  BY <1>1, QueueRecovered DEF Start
<1>3. /\ main = "down" /\ main' = "first" /\ disp' = "idle" /\ disp = "off" /\ scope' = s
      /\ open' = Cardinality(R) /\ publisher = {} /\ publisher' = {}
      /\ hand = {} /\ hand' = {} /\ step' = step
      /\ UNCHANGED <<evidence, inventory>>
  BY DEF Start, Hands, Resting, Busy
<1>4. /\ status' \in [Events -> Status] /\ attempts' \in [Events -> Nat]
      /\ \A e \in Events :
           \/ /\ e \in corrupt /\ status[e] \in Unfinished
              /\ status'[e] = "DEAD_LETTER" /\ attempts'[e] = attempts[e] + 1
           \/ e \notin corrupt /\ status'[e] = status[e] /\ attempts'[e] = attempts[e]
  BY DEF Start, RecoverUnfinished, Recoverable, TypeOK, LogTypeOK, Status
<1> HIDE DEF R
<1>5. TypeOK'
  BY <1>2, <1>3, <1>4 DEF TypeOK, LogTypeOK, InventoryTypeOK, inventory, Main, Disp
<1>6. Hands' /\ Resting'
  BY <1>2, <1>3 DEF Hands, Resting, Busy
<1>7. Places' /\ Rows'
  BY <1>1, <1>2, <1>3 DEF Places, Rows
<1>8. Tries'
  BY <1>4, EventLogAssumption DEF Tries, Unfinished, TypeOK, LogTypeOK
<1> QED BY <1>5, <1>6, <1>7, <1>8

LEMMA RecordControl ==
  ASSUME Control, NEW e \in Events, Record(e) PROVE Control'
<1> USE DEF Control
<1>1. /\ main = "publishing" /\ publisher = {} /\ publisher' = {e}
      /\ status[e] = "ABSENT" /\ status' = [status EXCEPT ![e] = "PENDING"]
      /\ UNCHANGED <<main, scope, queue, open, disp, hand, step, evidence, inventory, attempts>>
  BY DEF Record, RecordPending
<1>2. e \notin Range(queue) /\ e \notin hand
  BY <1>1 DEF Rows, Hands, Busy, Unfinished, TypeOK, Disp
<1>3. TypeOK'
  BY <1>1 DEF TypeOK, LogTypeOK, InventoryTypeOK, inventory, Status, Unfinished
<1>4. Hands' /\ Resting'
  BY <1>1 DEF Hands, Resting, Busy
<1>5. Places'
  BY <1>1, <1>2 DEF Places
<1>6. Rows'
  BY <1>1, <1>2 DEF Rows, TypeOK, LogTypeOK
<1>7. Tries'
  BY <1>1, EventLogAssumption DEF Tries, TypeOK, LogTypeOK
<1> QED BY <1>3, <1>4, <1>5, <1>6, <1>7

LEMMA PutControl ==
  ASSUME Control, NEW e \in Events, Put(e) PROVE Control'
<1> USE DEF Control
<1>1. /\ publisher = {e} /\ publisher' = {} /\ main = "publishing"
      /\ queue' = Append(queue, e) /\ open' = open + 1
      /\ UNCHANGED <<main, scope, disp, hand, step, store>>
  BY DEF Put, Places
<1>2. /\ queue' \in Seq(Events) /\ Len(queue') = Len(queue) + 1
      /\ Range(queue') = Range(queue) \cup {e} /\ NoRepeats(queue')
  BY <1>1, QueueGrows DEF Places, TypeOK
<1>3. UNCHANGED <<status, attempts, evidence, refusals, nodes, edges, owned>>
  BY <1>1 DEF store, log, inventory
<1>4. TypeOK'
  BY <1>1, <1>2, <1>3 DEF TypeOK, LogTypeOK, InventoryTypeOK
<1>5. Hands' /\ Resting'
  BY <1>1, <1>2 DEF Hands, Resting, Busy, TypeOK
<1>6. Places' /\ Rows'
  BY <1>1, <1>2, <1>3 DEF Places, Rows, Unfinished
<1>7. Tries'
  BY <1>3 DEF Tries
<1> QED BY <1>4, <1>5, <1>6, <1>7

LEMMA TakeControl ==
  ASSUME Control, NEW e \in Events, Take(e) PROVE Control'
<1> USE DEF Control
<1>1. /\ disp = "idle" /\ disp' = "mark" /\ queue # <<>> /\ e = Head(queue)
      /\ queue' = Tail(queue) /\ hand' = {e}
      /\ UNCHANGED <<main, scope, publisher, open, step>>
      /\ UNCHANGED <<status, attempts, evidence, refusals, nodes, edges, owned>>
  BY DEF Take, main_side, store, log, inventory
<1>2. /\ queue' \in Seq(Events) /\ Len(queue) = Len(queue') + 1
      /\ Range(queue) = Range(queue') \cup {e} /\ e \notin Range(queue')
      /\ NoRepeats(queue') /\ Len(queue') \in Nat
  BY <1>1, QueueShrinks DEF Places, TypeOK
<1>3. hand = {}
  BY <1>1 DEF Hands, Busy
<1>4. TypeOK'
  BY <1>1, <1>2 DEF TypeOK, LogTypeOK, InventoryTypeOK, Disp
<1>5. Hands' /\ Resting'
  BY <1>1, <1>2 DEF Hands, Resting, Busy, TypeOK
<1>6. Places' /\ Rows'
  BY <1>1, <1>2, <1>3 DEF Places, Rows
<1>7. Tries'
  BY <1>1 DEF Tries
<1> QED BY <1>4, <1>5, <1>6, <1>7

\* A step of the handler: the event stays in hand and its row as it is.
LEMMA HandleControl ==
  ASSUME Control, NEW d \in {"write", "complete", "fail"},
         disp \in {"mark", "evidence", "write", "complete"}, disp' = d,
         d # "fail" => disp # "mark",
         InventoryTypeOK', step' \in Nat \ {0},
         UNCHANGED <<main, scope, publisher, queue, open, hand, log>>
  PROVE  Control'
<1> USE DEF Control
<1>1. UNCHANGED <<status, attempts>>
  BY DEF log
<1>2. TypeOK'
  BY <1>1 DEF TypeOK, LogTypeOK, Disp
<1>3. Hands' /\ Resting'
  BY DEF Hands, Resting, Busy
<1>4. Places' /\ Tries'
  BY <1>1 DEF Places, Tries
<1>5. Rows'
  BY <1>1 DEF Rows, Unfinished
<1> QED BY <1>2, <1>3, <1>4, <1>5

LEMMA MarkControl ==
  ASSUME Control, NEW e \in Events, Mark(e) PROVE Control'
<1> USE DEF Control
<1>1. /\ disp = "mark" /\ e \in hand /\ disp' \in {"evidence", "fail"}
      /\ status' = [status EXCEPT ![e] = "PROCESSING"]
      /\ UNCHANGED <<main, scope, publisher, queue, open, hand, step, attempts>>
      /\ UNCHANGED <<evidence, refusals, nodes, edges, owned>>
  BY DEF Mark, MarkProcessing, SetStatus, main_side, inventory
<1>2. /\ status[e] \in Unfinished /\ hand = {e}
      /\ e \notin Range(queue) /\ e \notin publisher
  BY <1>1 DEF Rows, Hands, Places
<1>3. TypeOK'
  BY <1>1 DEF TypeOK, LogTypeOK, InventoryTypeOK, Disp, Status, Unfinished
<1>4. Hands' /\ Resting' /\ Places'
  BY <1>1 DEF Hands, Resting, Busy, Places
<1>5. Rows'
  BY <1>1, <1>2 DEF Rows, TypeOK, LogTypeOK, Unfinished
<1>6. Tries'
  BY <1>1, <1>2 DEF Tries, TypeOK, LogTypeOK, Unfinished
<1> QED BY <1>3, <1>4, <1>5, <1>6

LEMMA EvidenceControl ==
  ASSUME Control, NEW e \in Events, HandleEvidence(e) PROVE Control'
<1> USE DEF Control
<1>1. /\ disp = "evidence" /\ disp' \in {"write", "fail"}
      /\ step' \in Nat \ {0}
      /\ UNCHANGED <<main, scope, publisher, queue, open, hand, log>>
  BY DEF HandleEvidence, main_side, TypeOK
<1>2. InventoryTypeOK'
  BY DEF HandleEvidence, AppendEvidence, inventory, TypeOK, InventoryTypeOK
<1> QED BY <1>1, <1>2, HandleControl

\* A commit of a handler is one of those HandlerCommits speaks of.
LEMMA CommitOfHandler ==
  ASSUME TypeOK, NEW e \in Events, HandleWrite(e)
  PROVE  LET w == Writes(e, scope)
         IN  /\ step \in DOMAIN w /\ w[step] \in Write
             /\ Good(e, scope, w) /\ CompleteCommits(e, scope, w)
<1>1. Good(e, scope, Writes(e, scope)) /\ CompleteCommits(e, scope, Writes(e, scope))
  BY HandlerCommits DEF TypeOK
<1>2. step \in Nat \ {0} /\ step <= Len(Writes(e, scope)) /\ Writes(e, scope) \in Seq(Write)
  BY <1>1 DEF HandleWrite, TypeOK, Good
<1> HIDE DEF Writes
<1> QED BY <1>1, <1>2

LEMMA WriteControl ==
  ASSUME Control, NEW e \in Events, HandleWrite(e) PROVE Control'
<1> USE DEF Control
<1>1. /\ disp = "write" /\ disp' \in {"write", "fail"} /\ e \in hand
      /\ step' \in Nat \ {0}
      /\ UNCHANGED <<main, scope, publisher, queue, open, hand, log>>
  BY DEF HandleWrite, main_side, TypeOK
<1> DEFINE w == Writes(e, scope)[step]
<1>2. w \in Write /\ Save(e, w)
  BY CommitOfHandler DEF HandleWrite
<1> HIDE DEF w
<1>3. InventoryTypeOK'
  BY <1>2 DEF Write, Save, TypeOK, InventoryTypeOK
<1> QED BY <1>1, <1>3, HandleControl

LEMMA ReturnsControl ==
  ASSUME Control, NEW e \in Events, HandleReturns(e) PROVE Control'
<1> USE DEF Control
<1>1. /\ disp = "write" /\ disp' = "complete" /\ step' \in Nat \ {0}
      /\ UNCHANGED <<main, scope, publisher, queue, open, hand, log>>
  BY DEF HandleReturns, main_side, store, TypeOK
<1>2. InventoryTypeOK'
  BY DEF HandleReturns, store, inventory, TypeOK, InventoryTypeOK
<1> QED BY <1>1, <1>2, HandleControl

LEMMA RaiseControl == ASSUME Control, Raise PROVE Control'
<1> USE DEF Control
<1>1. /\ disp \in {"mark", "evidence", "write", "complete"} /\ disp' = "fail"
      /\ step' \in Nat \ {0}
      /\ UNCHANGED <<main, scope, publisher, queue, open, hand, log>>
  BY DEF Raise, main_side, store, TypeOK
<1>2. InventoryTypeOK'
  BY DEF Raise, store, inventory, TypeOK, InventoryTypeOK
<1> QED BY <1>1, <1>2, HandleControl

\* The event leaves the dispatcher's hand; its row may change as it does.
LEMMA SettleControl ==
  ASSUME Control, NEW e \in Events, e \in hand, Busy,
         NEW next \in {"idle", "dead"}, Settle(next),
         status' \in [Events -> Status], attempts' \in [Events -> Nat],
         \A f \in Events \ {e} : status'[f] = status[f] /\ attempts'[f] = attempts[f],
         Tries',
         UNCHANGED <<main, scope, publisher, queue, evidence, inventory>>
  PROVE  Control'
<1> USE DEF Control
<1>1. /\ hand = {e} /\ hand' = {} /\ step' = 1 /\ disp' = next
      /\ open' = open - 1 /\ open = Len(queue) + 1 /\ Len(queue) \in Nat
      /\ e \notin Range(queue) /\ e \notin publisher
  BY DEF Hands, Places, Settle, TypeOK
<1>2. TypeOK'
  BY <1>1 DEF TypeOK, LogTypeOK, InventoryTypeOK, inventory, Disp
<1>3. main # "later"
  BY <1>1 DEF Resting, TypeOK
<1>4. Hands' /\ Resting' /\ Places'
  BY <1>1, <1>3 DEF Hands, Resting, Places, Busy
<1>5. Range(queue) \subseteq Events /\ publisher \subseteq Events
  BY DEF TypeOK, Range
<1>6. Rows'
  BY <1>1, <1>5 DEF Rows
<1> QED BY <1>2, <1>4, <1>6

LEMMA CompleteControl ==
  ASSUME Control, NEW e \in Events, Complete(e) PROVE Control'
<1> USE DEF Control
<1>1. /\ disp = "complete" /\ e \in hand
      /\ status' = [status EXCEPT ![e] = "COMPLETED"]
      /\ UNCHANGED <<attempts, main, scope, publisher, queue, evidence, inventory>>
  BY DEF Complete, MarkCompleted, SetStatus, main_side
<1>2. /\ status' \in [Events -> Status] /\ attempts' \in [Events -> Nat]
      /\ \A f \in Events \ {e} : status'[f] = status[f] /\ attempts'[f] = attempts[f]
      /\ status'[e] = "COMPLETED" /\ status[e] = "PROCESSING"
  BY <1>1 DEF TypeOK, LogTypeOK, Status, Rows
<1>3. Tries'
  BY <1>1, <1>2 DEF Tries
<1>4. CASE Settle("idle")
  BY <1>1, <1>2, <1>3, <1>4, SettleControl DEF Busy
<1>5. CASE disp' = "fail" /\ UNCHANGED <<open, hand, step>>
  <2>1. TypeOK'
    BY <1>1, <1>2, <1>5 DEF TypeOK, LogTypeOK, InventoryTypeOK, inventory, Disp
  <2>2. Hands' /\ Resting' /\ Places'
    BY <1>1, <1>5 DEF Hands, Resting, Places, Busy
  <2>3. /\ hand = {e} /\ e \notin Range(queue) /\ e \notin publisher
        /\ Range(queue) \subseteq Events /\ publisher \subseteq Events
    BY <1>1 DEF Hands, Places, TypeOK, Range
  <2>4. Rows'
    BY <1>1, <1>2, <1>5, <2>3 DEF Rows
  <2> QED BY <1>3, <2>1, <2>2, <2>4
<1> QED BY <1>4, <1>5 DEF Complete

\* What mark_failed does to a row whose event is in hand.
LEMMA FailedRow ==
  ASSUME Control, NEW e \in Events, disp = "fail", e \in hand, MarkFailed(e)
  PROVE  /\ status' \in [Events -> Status] /\ attempts' \in [Events -> Nat]
         /\ \A f \in Events \ {e} : status'[f] = status[f] /\ attempts'[f] = attempts[f]
         /\ status[e] \in Unfinished \cup {"COMPLETED"}
         /\ attempts'[e] = attempts[e] + 1
         /\ status'[e] = IF attempts[e] + 1 >= MaxAttempts THEN "DEAD_LETTER" ELSE "FAILED"
         /\ Tries'
<1> USE DEF Control
<1>1. /\ status' \in [Events -> Status] /\ attempts' \in [Events -> Nat]
      /\ attempts'[e] = attempts[e] + 1
      /\ status'[e] = IF attempts[e] + 1 >= MaxAttempts THEN "DEAD_LETTER" ELSE "FAILED"
      /\ \A f \in Events \ {e} : status'[f] = status[f] /\ attempts'[f] = attempts[f]
  BY DEF MarkFailed, TypeOK, LogTypeOK, Status, Unfinished
<1>2. status[e] \in Unfinished \cup {"COMPLETED"}
  BY DEF Rows
<1>3. Tries'
  <2>1. attempts[e] < MaxAttempts /\ attempts[e] \in Nat /\ MaxAttempts \in Nat
    BY <1>2, EventLogAssumption DEF Tries, Unfinished, TypeOK, LogTypeOK
  <2>2. CASE attempts[e] + 1 >= MaxAttempts
    BY <1>1, <2>1, <2>2 DEF Tries
  <2>3. CASE ~(attempts[e] + 1 >= MaxAttempts)
    BY <1>1, <2>1, <2>3 DEF Tries
  <2> QED BY <2>2, <2>3
<1> QED BY <1>1, <1>2, <1>3

LEMMA FailControl ==
  ASSUME Control, NEW e \in Events, Fail(e) PROVE Control'
<1> USE DEF Control
<1>1. /\ disp = "fail" /\ e \in hand /\ Busy
      /\ UNCHANGED <<main, scope, publisher, queue, evidence, inventory>>
  BY DEF Fail, main_side, Busy
<1>2. CASE MarkFailed(e) /\ (Settle("idle") \/ Settle("dead"))
  BY <1>1, <1>2, FailedRow, SettleControl
<1>3. CASE UNCHANGED log /\ Settle("dead")
  <2>1. /\ status' = status /\ attempts' = attempts /\ Tries'
        /\ status' \in [Events -> Status] /\ attempts' \in [Events -> Nat]
    BY <1>3 DEF log, Tries, TypeOK, LogTypeOK
  <2> QED BY <1>1, <1>3, <2>1, SettleControl
<1> QED BY <1>2, <1>3 DEF Fail

LEMMA StopControl == ASSUME Control, Stop PROVE Control'
<1> USE DEF Control
<1>1. /\ main' = "down" /\ disp' = "off" /\ publisher' = {} /\ queue' = <<>>
      /\ open' = 0 /\ hand' = {} /\ step' = 1 /\ scope' = scope
      /\ UNCHANGED <<status, attempts, evidence, refusals, nodes, edges, owned>>
  BY DEF Stop, store, log, inventory
<1>2. queue' \in Seq(Events) /\ Len(queue') = 0 /\ DOMAIN queue' = {} /\ Range(queue') = {}
  BY <1>1 DEF Range
<1>3. TypeOK'
  BY <1>1, <1>2 DEF TypeOK, LogTypeOK, InventoryTypeOK, Main, Disp
<1>4. Hands' /\ Resting'
  BY <1>1, <1>2 DEF Hands, Resting, Busy
<1>5. Places' /\ Rows' /\ Tries'
  BY <1>1, <1>2 DEF Places, Rows, Tries, NoRepeats
<1> QED BY <1>3, <1>4, <1>5

\* The scheduler's own steps and stuttering move nothing but main.
LEMMA SchedulerControl ==
  ASSUME Control, StageEnds \/ Drain \/ DrainReturns \/ UNCHANGED vars PROVE Control'
<1> USE DEF Control
<1>1. /\ UNCHANGED <<scope, publisher, queue, open, disp, hand, step>>
      /\ UNCHANGED <<status, attempts, evidence, refusals, nodes, edges, owned>>
      /\ \/ main' \in {"publishing", "draining"} /\ main # "down" /\ (publisher = {} \/ main' = main)
         \/ main' = "later" /\ main = "draining" /\ open = 0
         \/ main' = main
  BY DEF StageEnds, Drain, DrainReturns, vars, run, store, log, inventory, Places
<1>2. TypeOK'
  BY <1>1 DEF TypeOK, LogTypeOK, InventoryTypeOK, Main
<1>3. Hands' /\ Resting'
  BY <1>1 DEF Hands, Resting, Busy
<1>4. Places' /\ Rows' /\ Tries'
  BY <1>1 DEF Places, Rows, Tries
<1> QED BY <1>2, <1>3, <1>4

LEMMA NextControl == Control /\ [Next]_vars => Control'
BY StartControl, RecordControl, PutControl, TakeControl, MarkControl, EvidenceControl,
   WriteControl, ReturnsControl, RaiseControl, CompleteControl, FailControl,
   StopControl, SchedulerControl DEF Next, Handle

(***************************************************************************)
(* Where every event is and what its row then says, in every reachable     *)
(* state of every instance.                                                *)
(***************************************************************************)
THEOREM ControlInvariant == Spec => []Control
BY InitControl, NextControl, PTL DEF Spec

(* Every variable keeps its type; join()'s counter is never negative.      *)
THEOREM BusTypeCorrect == Spec => []TypeOK
<1>1. Control => TypeOK
  BY DEF Control
<1> QED BY <1>1, ControlInvariant, PTL

(* No event is in two places, and join()'s counter is the work left.       *)
THEOREM WorkIsAccounted == Spec => []Accounted
<1>1. ASSUME Control PROVE Accounted
  <2>1. Cardinality(hand) = IF Busy THEN 1 ELSE 0
    <3>1. CASE Busy
      <4>1. PICK e \in hand : hand = {e}
        BY <1>1, <3>1 DEF Control, Hands
      <4> QED BY <3>1, <4>1, FS_Singleton
    <3>2. CASE ~Busy
      BY <1>1, <3>2, FS_EmptySet DEF Control, Hands
    <3> QED BY <3>1, <3>2
  <2> QED BY <1>1, <2>1 DEF Control, Accounted, Hands, Places, NoRepeats
<1> QED BY <1>1, ControlInvariant, PTL

(* However many runs it takes, an event fails at most MaxAttempts times.   *)
THEOREM AttemptsAreBounded == Spec => []RetriesBounded
<1>1. ASSUME Control PROVE RetriesBounded
  <2>1. /\ MaxAttempts \in Nat \ {0} /\ attempts \in [Events -> Nat]
        /\ \A e \in Events : status[e] = "FAILED" => status[e] # "DEAD_LETTER"
    BY <1>1, EventLogAssumption DEF Control, TypeOK, LogTypeOK
  <2> QED BY <1>1, <2>1 DEF Control, Tries, RetriesBounded
<1> QED BY <1>1, ControlInvariant, PTL

(***************************************************************************)
(* A dead letter stays one, and a completed event is only taken up again   *)
(* when its completion itself raised.                                      *)
(***************************************************************************)
THEOREM SettledRowsStay == Spec => SettledStays
<1>1. ASSUME Control, [Next]_vars PROVE [SettledRows]_vars
  <2> USE <1>1 DEF Control
  <2>1. CASE status' = status
    BY <2>1 DEF SettledRows
  <2>2. ASSUME NEW s \in Scopes, NEW corrupt \in SUBSET Events, Start(s, corrupt)
        PROVE  SettledRows
    BY <2>2 DEF Start, RecoverUnfinished, Recoverable, Unfinished, SettledRows
  <2>3. ASSUME NEW e \in Events, Record(e) PROVE SettledRows
    BY <2>3 DEF Record, RecordPending, SettledRows, TypeOK, LogTypeOK
  <2>4. ASSUME NEW e \in Events, Mark(e) PROVE SettledRows
    <3>1. status[e] \in Unfinished /\ status' = [status EXCEPT ![e] = "PROCESSING"]
      BY <2>4 DEF Mark, MarkProcessing, SetStatus, Rows
    <3> QED BY <3>1 DEF SettledRows, Unfinished, TypeOK, LogTypeOK
  <2>5. ASSUME NEW e \in Events, Complete(e) PROVE SettledRows
    <3>1. status[e] = "PROCESSING" /\ status' = [status EXCEPT ![e] = "COMPLETED"]
      BY <2>5 DEF Complete, MarkCompleted, SetStatus, Rows
    <3> QED BY <3>1 DEF SettledRows, TypeOK, LogTypeOK
  <2>6. ASSUME NEW e \in Events, disp = "fail", e \in hand, MarkFailed(e) PROVE SettledRows
    <3>1. /\ status[e] \in Unfinished \cup {"COMPLETED"}
          /\ status'[e] \in {"FAILED", "DEAD_LETTER"}
          /\ \A f \in Events \ {e} : status'[f] = status[f]
      BY <2>6, FailedRow
    <3> QED BY <2>6, <3>1 DEF SettledRows, Unfinished
  <2>7. CASE \E e \in Events : Fail(e)
    BY <2>1, <2>6, <2>7 DEF Fail, log
  <2>8. CASE \/ StageEnds \/ Drain \/ DrainReturns \/ Stop \/ Raise
             \/ \E e \in Events : Put(e) \/ Take(e) \/ HandleEvidence(e) \/ HandleWrite(e)
                                  \/ HandleReturns(e)
    <3>1. status' = status
      BY <2>8 DEF StageEnds, Drain, DrainReturns, Stop, Raise, Put, Take, HandleEvidence,
                  HandleWrite, HandleReturns, store, log
    <3> QED BY <2>1, <3>1
  <2> QED BY <2>2, <2>3, <2>4, <2>5, <2>7, <2>8 DEF Next, Handle
<1> QED BY <1>1, ControlInvariant, PTL DEF Spec, SettledStays
-----------------------------------------------------------------------------
(* Nothing is forgotten.                                                   *)

LEMMA NextRemembers ==
  Control /\ NothingForgotten /\ [Next]_vars => NothingForgotten'
<1> SUFFICES ASSUME Control, NothingForgotten, [Next]_vars PROVE NothingForgotten'
  OBVIOUS
<1> USE DEF Control
<1>1. Control'
  BY NextControl
<1>2. ASSUME NEW s \in Scopes, NEW corrupt \in SUBSET Events, Start(s, corrupt)
      PROVE  NothingForgotten'
  <2>1. Range(queue') = Recoverable \ corrupt
    BY <1>2, QueueRecovered DEF Start, Recoverable
  <2>2. \A e \in Events : status'[e] \in Unfinished => status[e] \in Unfinished /\ e \notin corrupt
    BY <1>2 DEF Start, RecoverUnfinished, Unfinished
  <2> QED BY <2>1, <2>2 DEF NothingForgotten, Recoverable, Unfinished
<1>3. ASSUME NEW e \in Events, Record(e) PROVE NothingForgotten'
  BY <1>3 DEF Record, RecordPending, NothingForgotten, TypeOK, LogTypeOK
<1>4. ASSUME NEW e \in Events, Put(e) PROVE NothingForgotten'
  <2>1. /\ Range(queue') = Range(queue) \cup {e} /\ publisher = {e} /\ publisher' = {}
        /\ UNCHANGED <<status, main, disp, hand>> /\ e \in publisher /\ status[e] = "PENDING"
    BY <1>4, QueueGrows DEF Put, Places, Rows, TypeOK, store, log
  <2> QED BY <2>1 DEF NothingForgotten
<1>5. ASSUME NEW e \in Events, Take(e) PROVE NothingForgotten'
  <2>1. /\ Range(queue) = Range(queue') \cup {e} /\ hand' = {e} /\ hand = {}
        /\ UNCHANGED <<status, main, publisher>> /\ main # "down" /\ disp # "dead"
    BY <1>5, QueueShrinks DEF Take, Places, TypeOK, store, log, main_side, Hands, Busy, Resting
  <2> QED BY <2>1 DEF NothingForgotten
<1>6. ASSUME NEW e \in Events, Mark(e) PROVE NothingForgotten'
  <2>1. /\ e \in hand /\ status' = [status EXCEPT ![e] = "PROCESSING"]
        /\ disp # "dead" /\ UNCHANGED <<main, publisher, queue, hand>>
    BY <1>6 DEF Mark, MarkProcessing, SetStatus, main_side
  <2> QED BY <2>1 DEF NothingForgotten, TypeOK, LogTypeOK

\* An event leaves the hand with a row that is neither PENDING nor PROCESSING.
<1>7. ASSUME NEW e \in Events, e \in hand, Busy,
             status'[e] \notin {"PENDING", "PROCESSING"},
             \A f \in Events \ {e} : status'[f] = status[f],
             UNCHANGED <<main, publisher, queue>>
      PROVE  NothingForgotten'
  <2>1. hand = {e} /\ disp # "dead"
    BY <1>7 DEF Hands, Busy
  <2> QED BY <1>7, <2>1 DEF NothingForgotten
<1>8. ASSUME NEW e \in Events, Complete(e) PROVE NothingForgotten'
  <2>1. status'[e] = "COMPLETED" /\ \A f \in Events \ {e} : status'[f] = status[f]
    BY <1>8 DEF Complete, MarkCompleted, SetStatus, TypeOK, LogTypeOK
  <2> QED BY <1>7, <1>8, <2>1 DEF Complete, Busy, main_side
<1>9. ASSUME NEW e \in Events, Fail(e) PROVE NothingForgotten'
  <2>1. CASE MarkFailed(e)
    <3>1. /\ status'[e] \notin {"PENDING", "PROCESSING"}
          /\ \A f \in Events \ {e} : status'[f] = status[f]
      BY <1>9, <2>1, FailedRow DEF Fail
    <3> QED BY <1>7, <1>9, <3>1 DEF Fail, Busy, main_side
  <2>2. CASE Settle("dead")
    BY <2>2 DEF Settle, NothingForgotten
  <2> QED BY <1>9, <2>1, <2>2 DEF Fail
<1>10. ASSUME UNCHANGED <<status, publisher, queue, hand>>,
              main' # "down" /\ disp' # "dead" => main # "down" /\ disp # "dead"
       PROVE  NothingForgotten'
  BY <1>10 DEF NothingForgotten
<1>11. CASE \/ StageEnds \/ Drain \/ DrainReturns \/ Raise
            \/ \E e \in Events : HandleEvidence(e) \/ HandleWrite(e) \/ HandleReturns(e)
            \/ UNCHANGED vars
  <2>1. /\ UNCHANGED <<status, publisher, queue, hand>>
        /\ main' # "down" /\ disp' # "dead" => main # "down" /\ disp # "dead"
    BY <1>11 DEF StageEnds, Drain, DrainReturns, Raise, HandleEvidence, HandleWrite,
                 HandleReturns, vars, run, store, log, main_side
  <2> QED BY <1>10, <2>1
<1>12. CASE Stop
  BY <1>12 DEF Stop, NothingForgotten
<1> QED BY <1>2, <1>3, <1>4, <1>5, <1>6, <1>8, <1>9, <1>11, <1>12 DEF Next, Handle

(***************************************************************************)
(* Recovery and dispatch together forget no event, however many runs were  *)
(* cut short before (bus.py 25-61, event_log.py 146-184).                  *)
(***************************************************************************)
THEOREM NoEventForgotten == Spec => []NothingForgotten
<1>1. Init => NothingForgotten
  BY DEF Init, NothingForgotten
<1> QED BY <1>1, NextRemembers, ControlInvariant, PTL DEF Spec

(* When drain() has returned, no earlier discovery is half processed.      *)
THEOREM DrainIsABarrier == Spec => []StageBarrier
<1>1. ASSUME Control, NothingForgotten PROVE StageBarrier
  <2> SUFFICES ASSUME main = "later", disp # "dead"
               PROVE  \A e \in Events : status[e] \notin {"PENDING", "PROCESSING"}
    BY DEF StageBarrier
  <2>1. open = 0 /\ publisher = {} /\ Len(queue) \in Nat
    BY <1>1 DEF Control, Resting, Places, TypeOK
  <2>2. hand = {} /\ Len(queue) = 0
    BY <1>1, <2>1 DEF Control, Hands
  <2>3. Range(queue) = {}
    BY <1>1, <2>2 DEF Control, TypeOK, Range
  <2> QED BY <1>1, <2>1, <2>2, <2>3 DEF NothingForgotten
<1> QED BY <1>1, ControlInvariant, NoEventForgotten, PTL
-----------------------------------------------------------------------------
(* Graph, evidence and progress.                                           *)

\* What a commit adds is stored.
Landed(e, w) ==
  /\ w.nodes \subseteq nodes /\ w.edges \subseteq edges
  /\ {e} \X w.own \subseteq owned /\ w.refusals \subseteq refusals

\* The handler's evidence and its commits so far are stored; all of them
\* once it has returned.
Progress ==
  \A e \in hand : disp \in {"write", "complete"} =>
    /\ e \in evidence
    /\ \A i \in DOMAIN Writes(e, scope) :
         i < step \/ disp = "complete" => Landed(e, Writes(e, scope)[i])

Backing == GraphClosed /\ EvidenceFirst /\ Progress

\* A step that leaves the inventory alone and no handler further than it was.
LEMMA QuietBacking ==
  ASSUME Control, Backing, UNCHANGED <<evidence, inventory>>,
         \/ hand' = {}
         \/ disp' \notin {"write", "complete"}
         \/ UNCHANGED <<hand, scope, disp, step>>
  PROVE  Backing'
<1> USE DEF Backing
<1>1. UNCHANGED <<nodes, edges, owned, refusals, evidence>>
  BY DEF inventory
<1>2. GraphClosed' /\ EvidenceFirst'
  BY <1>1 DEF GraphClosed, EvidenceFirst
<1>3. Progress'
  BY <1>1 DEF Progress, Landed
<1> QED BY <1>2, <1>3

LEMMA EvidenceBacking ==
  ASSUME Control, Backing, NEW e \in Events, HandleEvidence(e) PROVE Backing'
<1> USE DEF Backing, Control
<1>1. /\ evidence' = evidence \cup {e} /\ disp = "evidence" /\ hand = {e}
      /\ UNCHANGED <<hand, scope, step>>
      /\ UNCHANGED <<nodes, edges, owned, refusals>>
  BY DEF HandleEvidence, AppendEvidence, inventory, Hands, main_side
<1>2. GraphClosed' /\ EvidenceFirst'
  BY <1>1 DEF GraphClosed, EvidenceFirst
<1>3. step' = 1 /\ \A s \in Scopes : \A i \in DOMAIN Writes(e, s) : ~(i < 1)
  <2>1. \A s \in Scopes : Writes(e, s) \in Seq(Write)
    BY HandlerCommits DEF Good
  <2> HIDE DEF Writes
  <2> QED BY <1>1, <2>1 DEF Hands
<1>4. Progress'
  BY <1>1, <1>3 DEF Progress, HandleEvidence, TypeOK
<1> QED BY <1>2, <1>4

LEMMA WriteBacking ==
  ASSUME Control, Backing, NEW e \in Events, HandleWrite(e) PROVE Backing'
<1> USE DEF Backing, Control
<1> DEFINE w == Writes(e, scope)
           k == step
<1>1. /\ k \in DOMAIN w /\ w[k] \in Write /\ Good(e, scope, w)
      /\ \A i \in DOMAIN w : i \in Nat
  BY CommitOfHandler DEF Good
<1>2. /\ hand = {e} /\ hand' = hand /\ scope' = scope /\ disp = "write"
      /\ disp' \in {"write", "fail"} /\ step' = k + 1 /\ evidence' = evidence
      /\ nodes' = nodes \cup w[k].nodes /\ edges' = edges \cup w[k].edges
      /\ owned' = owned \cup ({e} \X w[k].own) /\ refusals' = refusals \cup w[k].refusals
  BY DEF HandleWrite, Save, Hands, main_side
<1>3. e \in evidence /\ \A i \in DOMAIN w : i < k => Landed(e, w[i])
  BY <1>2 DEF Progress
<1> HIDE DEF w, k
<1>4. \A i \in 1 .. k - 1 : i \in DOMAIN w /\ i < k
  BY <1>1 DEF Good
<1>5. GraphClosed'
  <2>1. ASSUME NEW c \in w[k].edges PROVE {c[1], c[2]} \subseteq nodes
    <3>1. PICK i \in 1 .. k - 1 : c[1] \in w[i].nodes
      BY <1>1, <2>1 DEF Good, OrderedCommits
    <3>2. PICK j \in 1 .. k - 1 : c[2] \in w[j].nodes
      BY <1>1, <2>1 DEF Good, OrderedCommits
    <3>3. w[i].nodes \subseteq nodes /\ w[j].nodes \subseteq nodes
      BY <1>3, <1>4 DEF Landed
    <3> QED BY <3>1, <3>2, <3>3
  <2>2. ASSUME NEW c \in w[k].own PROVE c \in edges
    <3>1. PICK i \in 1 .. k - 1 : c \in w[i].edges
      BY <1>1, <2>2 DEF Good, OrderedCommits
    <3> QED BY <1>3, <1>4, <3>1 DEF Landed
  <2>3. \A o \in {e} \X w[k].own : o[2] \in w[k].own
    OBVIOUS
  <2> QED BY <1>2, <2>1, <2>2, <2>3 DEF GraphClosed
<1>6. EvidenceFirst'
  <2>2. /\ w[k].nodes \subseteq Reported(e)
        /\ w[k].edges \subseteq ClaimSet(e) /\ w[k].refusals \subseteq {e}
    BY <1>1 DEF Good, FaithfulCommits
  <2>3. \A o \in {e} \X w[k].own : o[1] = e
    OBVIOUS
  <2>4. \A c \in edges' : \E f \in evidence : c \in ClaimSet(f)
    BY <1>2, <1>3, <2>2 DEF EvidenceFirst
  <2>5. \A a \in nodes' : \E f \in evidence : a \in Reported(f)
    BY <1>2, <1>3, <2>2 DEF EvidenceFirst
  <2>6. refusals' \subseteq evidence /\ \A o \in owned' : o[1] \in evidence
    BY <1>2, <1>3, <2>2, <2>3 DEF EvidenceFirst
  <2> QED BY <1>2, <2>4, <2>5, <2>6 DEF EvidenceFirst
<1>7. Progress'
  <2> SUFFICES ASSUME NEW i \in DOMAIN w, i < k + 1 PROVE Landed(e, w[i])'
    BY <1>2, <1>3 DEF Progress, w
  <2>1. w[i]' = w[i]
    BY <1>2 DEF w
  <2>2. CASE i = k
    BY <1>2, <2>1, <2>2 DEF Landed
  <2>3. CASE i # k
    <3>1. i < k
      BY <1>1, <2>3
    <3> QED BY <1>2, <1>3, <2>1, <3>1 DEF Landed
  <2> QED BY <2>2, <2>3
<1> QED BY <1>5, <1>6, <1>7

LEMMA ReturnsBacking ==
  ASSUME Control, Backing, NEW e \in Events, HandleReturns(e) PROVE Backing'
<1> USE DEF Backing, Control
<1>1. /\ hand = {e} /\ disp = "write" /\ disp' = "complete" /\ step > Len(Writes(e, scope))
      /\ UNCHANGED <<hand, scope, step, nodes, edges, owned, refusals, evidence>>
  BY DEF HandleReturns, Hands, main_side, store, inventory
<1>2. GraphClosed' /\ EvidenceFirst'
  BY <1>1 DEF GraphClosed, EvidenceFirst
<1> DEFINE w == Writes(e, scope)
<1>3. w \in Seq(Write) /\ step \in Nat /\ step > Len(w)
  BY <1>1, HandlerCommits DEF TypeOK, Good
<1>4. e \in evidence /\ \A i \in DOMAIN w : i < step => Landed(e, w[i])
  BY <1>1 DEF Progress
<1>5. \A i \in DOMAIN w : Landed(e, w[i])
  <2> HIDE DEF w
  <2>1. \A i \in DOMAIN w : i < step
    BY <1>3
  <2> QED BY <1>4, <2>1
<1>6. Progress'
  BY <1>1, <1>4, <1>5 DEF Progress, Landed
<1> QED BY <1>2, <1>6

LEMMA NextBacking == Control /\ Backing /\ [Next]_vars => Backing'
<1> SUFFICES ASSUME Control, Backing, [Next]_vars PROVE Backing'
  OBVIOUS
<1> USE DEF Control
<1>1. CASE UNCHANGED vars
  BY <1>1, QuietBacking DEF vars, run, store
<1>2. ASSUME NEW s \in Scopes, NEW corrupt \in SUBSET Events, Start(s, corrupt)
      PROVE  Backing'
  BY <1>2, QuietBacking DEF Start
<1>3. CASE StageEnds \/ Drain \/ DrainReturns \/ Stop \/ Raise
  BY <1>3, QuietBacking DEF StageEnds, Drain, DrainReturns, Stop, Raise, store
<1>4. ASSUME NEW e \in Events, Record(e) \/ Put(e) \/ Take(e) \/ Mark(e) PROVE Backing'
  BY <1>4, QuietBacking DEF Record, Put, Take, Mark, store, main_side
<1>5. ASSUME NEW e \in Events, Complete(e) \/ Fail(e) PROVE Backing'
  BY <1>5, QuietBacking DEF Complete, Fail, Settle
<1> QED BY <1>1, <1>2, <1>3, <1>4, <1>5, EvidenceBacking, WriteBacking, ReturnsBacking
        DEF Next, Handle

THEOREM BackingInvariant == Spec => []Backing
<1>1. Init => Backing
  BY DEF Init, InventoryInit, Backing, GraphClosed, EvidenceFirst, Progress
<1> QED BY <1>1, NextBacking, ControlInvariant, PTL DEF Spec

(* No edge dangles and no ownership row is unfounded, wherever handlers    *)
(* are cut off.                                                            *)
THEOREM GraphStaysClosed == Spec => []GraphClosed
<1>1. Backing => GraphClosed
  BY DEF Backing
<1> QED BY <1>1, BackingInvariant, PTL

(* All that is stored is backed by stored evidence.                        *)
THEOREM EvidenceComesFirst == Spec => []EvidenceFirst
<1>1. Backing => EvidenceFirst
  BY DEF Backing
<1> QED BY <1>1, BackingInvariant, PTL

(***************************************************************************)
(* Nothing enters the graph that the scope of the running run denies.      *)
(***************************************************************************)
THEOREM ScopeGatesTheGraph == Spec => ScopeGate
<1>1. ASSUME Control, [Next]_vars PROVE [AllowedAdditions]_vars
  <2> USE <1>1 DEF Control
  <2>1. ASSUME UNCHANGED inventory PROVE AllowedAdditions
    BY <2>1 DEF inventory, AllowedAdditions
  <2>2. ASSUME NEW e \in Events, HandleWrite(e) PROVE AllowedAdditions
    <3> DEFINE w == Writes(e, scope)[step]
    <3>1. /\ w.nodes \subseteq Permitted(scope)
          /\ \A c \in w.edges : {c[1], c[2]} \subseteq Permitted(scope)
      BY <2>2, CommitOfHandler DEF Good, GatedCommits
    <3>2. nodes' = nodes \cup w.nodes /\ edges' = edges \cup w.edges
      BY <2>2 DEF HandleWrite, Save
    <3> QED BY <3>1, <3>2 DEF AllowedAdditions, Permitted
  <2>3. CASE \/ \E s \in Scopes, corrupt \in SUBSET Events : Start(s, corrupt)
             \/ StageEnds \/ Drain \/ DrainReturns \/ Stop \/ Raise
    BY <2>1, <2>3 DEF Start, StageEnds, Drain, DrainReturns, Stop, Raise, store
  <2>4. ASSUME NEW e \in Events,
               \/ Record(e) \/ Put(e) \/ Take(e) \/ Mark(e) \/ HandleEvidence(e)
               \/ HandleReturns(e) \/ Complete(e) \/ Fail(e)
        PROVE  AllowedAdditions
    BY <2>1, <2>4 DEF Record, Put, Take, Mark, HandleEvidence, AppendEvidence,
                      HandleReturns, Complete, Fail, store
  <2> QED BY <2>2, <2>3, <2>4 DEF Next, Handle
<1> QED BY <1>1, ControlInvariant, PTL DEF Spec, ScopeGate

(***************************************************************************)
(* An event is completed only when all it reports and the scope allows is  *)
(* in the graph and owned by its run.                                      *)
(***************************************************************************)
THEOREM CompletionsAreEarned == Spec => CompletedIsEarned
<1>1. ASSUME Control, Backing, [Next]_vars PROVE [EarnedCompletions]_vars
  <2> USE <1>1 DEF Control
  <2>1. ASSUME \A e \in Events : status'[e] = "COMPLETED" => status[e] = "COMPLETED"
        PROVE  EarnedCompletions
    BY <2>1 DEF EarnedCompletions
  <2>2. ASSUME NEW e \in Events, Complete(e) PROVE EarnedCompletions
    <3> DEFINE w == Writes(e, scope)
    <3>1. /\ disp = "complete" /\ e \in hand
          /\ \A f \in Events \ {e} : status'[f] = status[f]
      BY <2>2 DEF Complete, MarkCompleted, SetStatus, TypeOK, LogTypeOK
    <3>2. e \in evidence /\ \A i \in DOMAIN w : Landed(e, w[i])
      BY <3>1 DEF Backing, Progress
    <3>3. CompleteCommits(e, scope, w)
      BY HandlerCommits DEF TypeOK
    <3> HIDE DEF w
    <3>5. ASSUME NEW c \in ClaimSet(e),
                 {c[1], c[2]} \subseteq Allows[scope] \cup Technologies
          PROVE  c \in edges /\ <<e, c>> \in owned
      <4>1. PICK i \in DOMAIN w : c \in w[i].edges
        BY <3>3, <3>5 DEF CompleteCommits, Permitted
      <4>2. PICK j \in DOMAIN w : c \in w[j].own
        BY <3>3, <3>5 DEF CompleteCommits, Permitted
      <4> QED BY <3>2, <4>1, <4>2 DEF Landed
    <3>6. Shape[e] = "history" => <<e, Claims[e][1]>> \in owned \/ e \in refusals
      BY <3>2, <3>3 DEF CompleteCommits, Landed
    <3> QED BY <3>1, <3>2, <3>5, <3>6 DEF EarnedCompletions, Earned
  <2>3. ASSUME NEW e \in Events, Record(e) \/ Mark(e) PROVE EarnedCompletions
    BY <2>1, <2>3 DEF Record, RecordPending, Mark, MarkProcessing, SetStatus, TypeOK, LogTypeOK
  <2>4. ASSUME NEW e \in Events, Fail(e) PROVE EarnedCompletions
    BY <2>1, <2>4, FailedRow DEF Fail, log
  <2>5. CASE \E s \in Scopes, corrupt \in SUBSET Events : Start(s, corrupt)
    BY <2>1, <2>5 DEF Start, RecoverUnfinished
  <2>6. CASE \/ StageEnds \/ Drain \/ DrainReturns \/ Stop \/ Raise
             \/ \E e \in Events : Put(e) \/ Take(e) \/ HandleEvidence(e) \/ HandleWrite(e)
                                  \/ HandleReturns(e)
    <3>1. status' = status
      BY <2>6 DEF StageEnds, Drain, DrainReturns, Stop, Raise, Put, Take, HandleEvidence,
                  HandleWrite, HandleReturns, store, log
    <3> QED BY <2>1, <3>1
  <2> QED BY <2>2, <2>3, <2>4, <2>5, <2>6 DEF Next, Handle
<1> QED BY <1>1, ControlInvariant, BackingInvariant, PTL DEF Spec, CompletedIsEarned
-----------------------------------------------------------------------------
(* The refinement.                                                         *)

Fates == [e \in Events |-> FateOf(status[e])]

LEMMA FateValues ==
  /\ FateOf("ABSENT") = "unknown"
  /\ FateOf("PENDING") = "owed" /\ FateOf("PROCESSING") = "owed" /\ FateOf("FAILED") = "owed"
  /\ FateOf("COMPLETED") = "kept" /\ FateOf("DEAD_LETTER") = "given up"
BY DEF FateOf, Unfinished

\* A row changes, and with it its event's fate and no other.
LEMMA FateOfChange ==
  ASSUME TypeOK, NEW e \in Events, NEW s, status' = [status EXCEPT ![e] = s]
  PROVE  Fates' = [Fates EXCEPT ![e] = FateOf(s)]
BY DEF Fates, TypeOK, LogTypeOK

\* Each step of the bus is a step of the promise, or changes nothing of it.
LEMMA StepKeepsPromise ==
  ASSUME Control, Backing, [Next]_vars
  PROVE  Promise!DNext \/ UNCHANGED <<Fates, attempts, evidence>>
<1> USE DEF Control
<1> DEFINE Same == UNCHANGED <<Fates, attempts, evidence>>
<1>1. ASSUME NEW s \in Scopes, NEW corrupt \in SUBSET Events, Start(s, corrupt)
      PROVE  Promise!Condemn(corrupt)
  <2>1. \A e \in corrupt : status[e] \in Unfinished
    BY <1>1 DEF Start, RecoverUnfinished, Recoverable
  <2>2. \A e \in corrupt : Fates[e] = "owed"
    BY <2>1, FateValues DEF Unfinished, Fates
  <2>3. status' = [e \in Events |-> IF e \in corrupt THEN "DEAD_LETTER" ELSE status[e]]
    BY <1>1 DEF Start, RecoverUnfinished
  <2>4. Fates' = [e \in Events |-> IF e \in corrupt THEN "given up" ELSE Fates[e]]
    <3>1. \A e \in Events : Fates'[e] = IF e \in corrupt THEN "given up" ELSE Fates[e]
      BY <2>3, FateValues DEF Fates
    <3> QED BY <3>1 DEF Fates
  <2>5. /\ attempts' = [e \in Events |-> IF e \in corrupt THEN attempts[e] + 1 ELSE attempts[e]]
        /\ evidence' = evidence
    BY <1>1 DEF Start, RecoverUnfinished
  <2> QED BY <2>2, <2>4, <2>5 DEF Promise!Condemn, Fates
<1>2. ASSUME NEW e \in Events, Record(e) PROVE Promise!Accept(e)
  <2>1. /\ status[e] = "ABSENT" /\ status' = [status EXCEPT ![e] = "PENDING"]
        /\ attempts' = attempts /\ evidence' = evidence
    BY <1>2 DEF Record, RecordPending
  <2>2. Fates[e] = "unknown"
    BY <2>1, FateValues DEF Fates
  <2>3. Fates' = [Fates EXCEPT ![e] = FateOf("PENDING")]
    BY <2>1, FateOfChange
  <2>4. Fates' = [Fates EXCEPT ![e] = "owed"]
    BY <2>3, FateValues
  <2> QED BY <2>1, <2>2, <2>4 DEF Promise!Accept, Fates
<1>3. ASSUME NEW e \in Events, HandleEvidence(e) PROVE Promise!Observe(e)
  <2>1. /\ status[e] = "PROCESSING" /\ status' = status /\ attempts' = attempts
        /\ evidence' = evidence \cup {e}
    BY <1>3 DEF HandleEvidence, AppendEvidence, Rows, log
  <2>2. Fates[e] = "owed" /\ Fates' = Fates
    BY <2>1, FateValues DEF Fates
  <2> QED BY <2>1, <2>2 DEF Promise!Observe, Fates
<1>4. ASSUME NEW e \in Events, Complete(e) PROVE Promise!Keep(e)
  <2>1. /\ status[e] = "PROCESSING" /\ status' = [status EXCEPT ![e] = "COMPLETED"]
        /\ attempts' = attempts /\ evidence' = evidence /\ e \in evidence
    BY <1>4 DEF Complete, MarkCompleted, SetStatus, Rows, Backing, Progress
  <2>2. Fates[e] = "owed"
    BY <2>1, FateValues DEF Fates
  <2>3. Fates' = [Fates EXCEPT ![e] = FateOf("COMPLETED")]
    BY <2>1, FateOfChange
  <2>4. Fates' = [Fates EXCEPT ![e] = "kept"]
    BY <2>3, FateValues
  <2> QED BY <2>1, <2>2, <2>4 DEF Promise!Keep, Fates
<1>5. ASSUME NEW e \in Events, Fail(e) PROVE Promise!Disappoint(e) \/ Same
  <2>1. evidence' = evidence /\ disp = "fail" /\ e \in hand
    BY <1>5 DEF Fail
  <2>2. CASE MarkFailed(e)
    <3> DEFINE s == IF attempts[e] + 1 >= MaxAttempts THEN "DEAD_LETTER" ELSE "FAILED"
    <3>1. /\ status' = [status EXCEPT ![e] = s]
          /\ attempts' = [attempts EXCEPT ![e] = @ + 1]
          /\ status[e] \in Unfinished \cup {"COMPLETED"}
      BY <2>1, <2>2, FailedRow DEF MarkFailed
    <3>2. FateOf(s) = IF attempts[e] + 1 >= MaxAttempts THEN "given up" ELSE "owed"
      BY FateValues
    <3>3. Fates[e] \in {"owed", "kept"}
      BY <3>1, FateValues DEF Unfinished, Fates
    <3> HIDE DEF s
    <3>4. Fates' = [Fates EXCEPT ![e] = FateOf(s)]
      BY <3>1, FateOfChange
    <3> QED BY <2>1, <3>1, <3>2, <3>3, <3>4 DEF Promise!Disappoint, Fates
  <2>3. CASE UNCHANGED log
    BY <2>1, <2>3 DEF log, Fates
  <2> QED BY <1>5, <2>2, <2>3 DEF Fail
<1>6. ASSUME NEW e \in Events, Mark(e) PROVE Same
  <2>1. /\ status[e] \in Unfinished /\ status' = [status EXCEPT ![e] = "PROCESSING"]
        /\ attempts' = attempts /\ evidence' = evidence
    BY <1>6 DEF Mark, MarkProcessing, SetStatus, Rows
  <2>2. Fates[e] = "owed"
    BY <2>1, FateValues DEF Unfinished, Fates
  <2>3. Fates' = [Fates EXCEPT ![e] = FateOf("PROCESSING")]
    BY <2>1, FateOfChange
  <2>4. Fates' = [Fates EXCEPT ![e] = "owed"]
    BY <2>3, FateValues
  <2>5. Fates' = Fates
    BY <2>2, <2>4 DEF Fates
  <2> QED BY <2>1, <2>5
<1>7. ASSUME NEW e \in Events, Put(e) \/ Take(e) \/ HandleWrite(e) \/ HandleReturns(e)
      PROVE  Same
  <2>1. UNCHANGED <<status, attempts, evidence>>
    BY <1>7 DEF Put, Take, HandleWrite, HandleReturns, Save, store, log
  <2> QED BY <2>1 DEF Fates
<1>8. CASE StageEnds \/ Drain \/ DrainReturns \/ Stop \/ Raise \/ UNCHANGED vars
  <2>1. UNCHANGED <<status, attempts, evidence>>
    BY <1>8 DEF StageEnds, Drain, DrainReturns, Stop, Raise, vars, store, log
  <2> QED BY <2>1 DEF Fates
<1> HIDE DEF Same
<1>9. ASSUME NEW e \in Events, Record(e) \/ Handle(e) \/ Put(e) \/ Take(e)
      PROVE  Promise!DNext \/ Same
  <2>1. Promise!Accept(e) \/ Promise!Observe(e) \/ Promise!Keep(e) \/ Promise!Disappoint(e)
          => Promise!DNext
    BY DEF Promise!DNext
  <2>2. CASE Record(e) \/ HandleEvidence(e) \/ Complete(e) \/ Fail(e)
    BY <1>2, <1>3, <1>4, <1>5, <2>1, <2>2
  <2>3. CASE Mark(e) \/ Put(e) \/ Take(e) \/ HandleWrite(e) \/ HandleReturns(e)
    BY <1>6, <1>7, <2>3
  <2> QED BY <1>9, <2>2, <2>3 DEF Handle
<1>10. (\E s \in Scopes, corrupt \in SUBSET Events : Start(s, corrupt)) => Promise!DNext
  BY <1>1 DEF Promise!DNext
<1> QED BY <1>8, <1>9, <1>10 DEF Next, Same

(***************************************************************************)
(* The bus keeps the promise of DurableDelivery: an accepted discovery is  *)
(* kept, with its evidence, or given up, across any number of runs.        *)
(***************************************************************************)
THEOREM BusKeepsPromise == Spec => DeliversDurably
<1>1. Init => Promise!DInit
  <2> SUFFICES ASSUME Init PROVE Promise!DInit
    OBVIOUS
  <2>1. /\ \A e \in Events : status[e] = "ABSENT"
        /\ attempts = [e \in Events |-> 0] /\ evidence = {}
    BY DEF Init, LogInit, InventoryInit
  <2>2. Fates = [e \in Events |-> "unknown"]
    BY <2>1, FateValues DEF Fates
  <2> QED BY <2>1, <2>2 DEF Promise!DInit, Fates
<1>2. ASSUME Control, Backing, [Next]_vars PROVE [Promise!DNext]_(Promise!dvars)
  BY <1>2, StepKeepsPromise DEF Promise!dvars, Fates
<1> QED BY <1>1, <1>2, ControlInvariant, BackingInvariant, PTL
        DEF Spec, DeliversDurably, Promise!DSpec
-----------------------------------------------------------------------------
(* The bus as the scan's coroutine sees it.                                *)

SeenDisp == IF disp \in {"off", "dead"} THEN disp ELSE "running"

LEMMA StepIsSeen ==
  ASSUME Control, Next
  PROVE  Seen!BusNext \/ UNCHANGED <<open, SeenDisp>>
<1> USE DEF SeenDisp, Seen!BusNext
<1>1. open \in Nat /\ disp \in Disp /\ (Busy <=> hand # {}) /\ (main = "down" <=> disp = "off")
  BY DEF Control, TypeOK, Hands, Resting
<1>2. hand # {} => open > 0
  BY <1>1 DEF Control, Hands, TypeOK
<1>3. ASSUME NEW s \in Scopes, NEW corrupt \in SUBSET Events, Start(s, corrupt)
      PROVE  Seen!Open
  <2>1. open' \in Nat
    BY <1>3, FS_Subset, FS_CardinalityType, EventLogAssumption DEF Start, Recoverable
  <2> QED BY <1>1, <1>3, <2>1 DEF Start, Seen!Open
<1>4. ASSUME NEW e \in Events, Put(e) PROVE Seen!Accept
  BY <1>1, <1>4 DEF Put, Seen!Accept, Control, Places, Resting, Disp
<1>5. Stop => Seen!Close
  BY DEF Stop, Seen!Close
<1>6. ASSUME NEW e \in Events, Complete(e) PROVE Seen!Handle("running") \/ UNCHANGED <<open, SeenDisp>>
  BY <1>1, <1>2, <1>6 DEF Complete, Settle, Seen!Handle
<1>7. ASSUME NEW e \in Events, Fail(e)
      PROVE  Seen!Handle("running") \/ Seen!Handle("dead")
  BY <1>1, <1>2, <1>7 DEF Fail, Settle, Seen!Handle
<1>8. StageEnds \/ Drain \/ DrainReturns \/ Raise => UNCHANGED <<open, SeenDisp>>
  BY DEF StageEnds, Drain, DrainReturns, Raise, main_side
<1>9. ASSUME NEW e \in Events,
             Record(e) \/ Take(e) \/ Mark(e) \/ HandleEvidence(e) \/ HandleWrite(e) \/ HandleReturns(e)
      PROVE  UNCHANGED <<open, SeenDisp>>
  BY <1>9 DEF Record, Take, Mark, HandleEvidence, HandleWrite, HandleReturns, main_side
<1> QED BY <1>3, <1>4, <1>5, <1>6, <1>7, <1>8, <1>9 DEF Next, Handle

(***************************************************************************)
(* To the coroutine of a scan the bus behaves as RunBus, on which the      *)
(* scheduler and the runner are modelled.                                  *)
(***************************************************************************)
THEOREM BusIsSeen == Spec => SeenByTheRun
<1>1. Init => Seen!BusInit
  BY DEF Init, Seen!BusInit
<1>2. ASSUME Control, [Next]_vars PROVE [Seen!BusNext]_<<open, SeenDisp>>
  BY <1>2, StepIsSeen DEF vars, run, SeenDisp
<1> QED BY <1>1, <1>2, ControlInvariant, PTL
        DEF Spec, SeenByTheRun, Seen!BusSpec, SeenDisp
=============================================================================
