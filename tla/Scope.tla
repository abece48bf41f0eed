-------------------------------- MODULE Scope --------------------------------
(***************************************************************************)
(* sh4q/scope/engine.py: what a configured scope allows, by name, by port  *)
(* and by resolved address.                                                *)
(*                                                                         *)
(* A name is the sequence of its labels, so that `endswith("." + pattern)` *)
(* is a proper suffix of labels.  A pattern is a name or a network, an     *)
(* address standing for the network of itself.  An address is a value      *)
(* without labels: dotted patterns made of digits alone are left out.      *)
(***************************************************************************)
EXTENDS Naturals, Sequences
LOCAL INSTANCE SequencesExt

CONSTANTS
  Labels,      (* labels as written                                        *)
  Fold,        (* Fold[l]: l after NFKC, IDNA and casefold                 *)
  Empty,       (* the empty label                                          *)
  Forbidden,   (* labels no hostname can have: "*", too long, with spaces  *)
  Addresses,   (* IP addresses                                             *)
  Unsafe       (* private, loopback, link-local, multicast, reserved or    *)
               (* unspecified ones                                         *)

\* Folding twice is folding once, and leaves a label as usable as it was.
ASSUME ScopeAssumption ==
  /\ Empty \in Labels /\ Forbidden \subseteq Labels
  /\ Fold \in [Labels -> Labels]
  /\ \A l \in Labels : /\ Fold[Fold[l]] = Fold[l]
                       /\ Fold[l] \in Forbidden \cup {Empty} <=> l \in Forbidden \cup {Empty}
  /\ Unsafe \subseteq Addresses

Name(labels) == [kind |-> "name", labels |-> labels]
Numeric(a)   == [kind |-> "address", address |-> a]
Network(as)  == [kind |-> "network", addresses |-> as]

\* The zone itself, or a name below it.
Below(labels, zone) == IsSuffix(zone, labels)

\* A plausible bug of NormalizeTarget, used as a mutant: no case folding.
NormalizeAsWritten(h) == h

\* One trailing dot goes, then case and encoding (lines 146-158).
NormalizeTarget(h) ==
  IF h.kind # "name" THEN h
  ELSE LET n == Len(h.labels)
           kept == IF n > 1 /\ h.labels[n] = Empty THEN n - 1 ELSE n
       IN  Name([i \in 1 .. kept |-> Fold[h.labels[i]]])

\* Lines 10-39.  A network is no destination, but it is a pattern.
Addressable(h, allowNetwork) ==
  \/ h.kind = "address"
  \/ h.kind = "network" /\ allowNetwork
  \/ /\ h.kind = "name" /\ h.labels # <<>>
     /\ \A i \in DOMAIN h.labels : h.labels[i] \notin Forbidden \cup {Empty}

\* The address in the network; the name itself or a name below it (121-144).
MatchesOne(target, pattern) ==
  LET t == NormalizeTarget(target)
      p == NormalizeTarget(pattern)
  IN  /\ Addressable(p, TRUE)
      /\ \/ p.kind = "network" /\ t.kind = "address" /\ t.address \in p.addresses
         \/ p.kind = "name" /\ t.kind = "name" /\ Below(t.labels, p.labels)

MatchesAny(target, patterns) == \E p \in patterns : MatchesOne(target, p)

\* A plausible bug of Authorize, used as a mutant: targets before exclusions.
AuthorizeTargetsFirst(scope, target, port) ==
  /\ MatchesAny(target, scope.targets) \/ ~MatchesAny(target, scope.excluded)
  /\ scope.ports = {} \/ port \in scope.ports

\* Lines 72-96.  An empty port list allows every port.
Authorize(scope, target, port) ==
  LET t == NormalizeTarget(target) IN
  /\ Addressable(t, FALSE)
  /\ ~MatchesAny(t, scope.excluded)
  /\ MatchesAny(t, scope.targets)
  /\ scope.ports = {} \/ port \in scope.ports

\* Lines 98-116.
AuthorizeResolvedAddress(scope, address) ==
  address \notin Unsafe \/ scope.allow_private_addresses
=============================================================================
