------------------------------- MODULE Bounds -------------------------------
(***************************************************************************)
(* What the stages admit of a list and keep of a result that is longer     *)
(* than a bound: discovered_dns_plugin.py, directory_discovery.py,         *)
(* vhost_discovery_plugin.py, adapters/url_history.py and the bounded      *)
(* bodies of network/http.py.                                              *)
(*                                                                         *)
(* Sorted values are numbered, and a list is a sequence of numbers.        *)
(***************************************************************************)
EXTENDS Naturals, Sequences, FiniteSets, Functions, Sorting

Least(a, b) == IF a < b THEN a ELSE b

\* k of the group's values, evenly over its range.  The code divides in
\* floating point and may take a neighbour of what is taken here.
Spread(group, k) == {group[(i * Len(group)) \div k + 1] : i \in 0 .. k - 1}
-----------------------------------------------------------------------------
(* DiscoveredDNSPlugin._select (lines 155-187): sources[n] is what offered *)
(* the name n.                                                             *)

SelectNames(sources, limit) ==
  LET names        == DOMAIN sources
      Operator     == Sorted({n \in names : "operator" \in sources[n]})
      Corroborated == Sorted({n \in names : "operator" \notin sources[n] /\ Cardinality(sources[n]) > 1})
      Single       == Sorted({n \in names : "operator" \notin sources[n] /\ Cardinality(sources[n]) = 1})
      first        == {Operator[i] : i \in 1 .. Least(limit, Len(Operator))}
      Added(chosen, group) ==
        LET remaining == limit - Cardinality(chosen) IN
        chosen \cup IF Len(group) <= remaining THEN Range(group) ELSE Spread(group, remaining)
  IN  Added(Added(first, Corroborated), Single)
-----------------------------------------------------------------------------
(* url_history.py _select (lines 11-63): value i belongs to host hosts[i]. *)

\* The code divides by a share of zero; 0 is no value.
NoSelection == {0}

URLsOf(hosts, h) == Sorted({i \in DOMAIN hosts : hosts[i] = h})

\* Lines 39-40: g comes before h where the remainder is given out.
Before(hosts, g, h) ==
  \/ Len(URLsOf(hosts, g)) > Len(URLsOf(hosts, h))
  \/ Len(URLsOf(hosts, g)) = Len(URLsOf(hosts, h)) /\ g < h

Share(hosts, h, limit) ==
  LET all  == Range(hosts)
      rank == Cardinality({g \in all \ {h} : Before(hosts, g, h)})
  IN  (limit \div Cardinality(all)) + IF rank < limit % Cardinality(all) THEN 1 ELSE 0

FromHost(hosts, h, limit) ==
  LET group == URLsOf(hosts, h)
      share == Share(hosts, h, limit)
  IN  IF Len(group) <= share THEN Range(group) ELSE Spread(group, share)

SelectURLs(hosts, limit) ==
  LET all      == Range(hosts)
      first    == UNION {FromHost(hosts, h, limit) : h \in all}
      leftover == Cardinality({place \in all \X (1 .. limit) :
                                 /\ Len(URLsOf(hosts, place[1])) < place[2]
                                 /\ place[2] <= Share(hosts, place[1], limit)})
      rest     == Sorted(DOMAIN hosts \ first)
  IN  IF Len(hosts) <= limit THEN DOMAIN hosts
      ELSE IF \E h \in all : Share(hosts, h, limit) = 0 THEN NoSelection
      ELSE first \cup IF leftover > 0 THEN Spread(rest, Least(leftover, Len(rest))) ELSE {}
-----------------------------------------------------------------------------
(* Lists an operator supplies.  A line is blank (or a comment), bad, or    *)
(* has a value.                                                            *)

Blank == ""
Bad   == "#?"

NothingLoaded == [accepted |-> <<>>, rejected |-> 0, duplicates |-> 0, refused |-> FALSE]

\* A plausible bug of LoadLine, used as a mutant: refuses a full list.
LoadLineOffByOne(loaded, line, max) ==
  IF line = Blank \/ loaded.refused THEN loaded
  ELSE IF line = Bad THEN [loaded EXCEPT !.rejected = @ + 1]
  ELSE IF line \in Range(loaded.accepted) THEN [loaded EXCEPT !.duplicates = @ + 1]
  ELSE IF Len(loaded.accepted) + 1 >= max THEN [loaded EXCEPT !.refused = TRUE]
  ELSE [loaded EXCEPT !.accepted = Append(@, line)]

\* One line: more than max values are an error.
LoadLine(loaded, line, max) ==
  IF line = Blank \/ loaded.refused THEN loaded
  ELSE IF line = Bad THEN [loaded EXCEPT !.rejected = @ + 1]
  ELSE IF line \in Range(loaded.accepted) THEN [loaded EXCEPT !.duplicates = @ + 1]
  ELSE IF Len(loaded.accepted) >= max THEN [loaded EXCEPT !.refused = TRUE]
  ELSE [loaded EXCEPT !.accepted = Append(@, line)]

\* load_candidates (directory_discovery.py 47-70) and load_host_names
\* (discovered_dns_plugin.py 69-87).
LoadList(lines, max) ==
  LET loaded[i \in 0 .. Len(lines)] ==
        IF i = 0 THEN NothingLoaded ELSE LoadLine(loaded[i - 1], lines[i], max)
  IN  loaded[Len(lines)]

\* VhostDiscoveryPlugin._candidates (80-102): the first max of them.  There
\* are no bad lines here: one that starts with a comment is blank.
Collect(found, line, max) ==
  IF line \in {Blank, Bad} \/ line \in Range(found) \/ Len(found) >= max
  THEN found ELSE Append(found, line)

FirstCandidates(lines, max) ==
  LET found[i \in 0 .. Len(lines)] ==
        IF i = 0 THEN <<>> ELSE Collect(found[i - 1], lines[i], max)
  IN  found[Len(lines)]

\* normalize_candidate (directory_discovery.py 205-218), over the segments
\* of the path.
Stay   == "stay"     \* "" or ".": dropped
Parent == "parent"   \* "..": takes back the one before

Descend(at, segment) ==
  IF at.escapes \/ segment = Stay THEN at
  ELSE IF segment # Parent THEN [at EXCEPT !.path = Append(@, segment)]
  ELSE IF at.path = <<>> THEN [at EXCEPT !.escapes = TRUE]
  ELSE [at EXCEPT !.path = SubSeq(@, 1, Len(@) - 1)]

TheRoot == [path |-> <<>>, escapes |-> FALSE]

NormalizePath(segments) ==
  LET at[i \in 0 .. Len(segments)] ==
        IF i = 0 THEN TheRoot ELSE Descend(at[i - 1], segments[i])
  IN  at[Len(segments)]
-----------------------------------------------------------------------------
\* ScopedHTTPClient._stream_text (http.py 204-226): the bytes retained of a
\* body that comes in chunks of these lengths.  declared: content-length.
Retain(kept, chunk, max) ==
  IF kept.truncated THEN kept
  ELSE [bytes     |-> kept.bytes + Least(chunk, max - kept.bytes),
        truncated |-> chunk > max - kept.bytes]

Retained(chunks, declared, max) ==
  LET kept[i \in 0 .. Len(chunks)] ==
        IF i = 0 THEN [bytes |-> 0, truncated |-> FALSE] ELSE Retain(kept[i - 1], chunks[i], max)
  IN  IF declared > max THEN [bytes |-> 0, truncated |-> TRUE] ELSE kept[Len(chunks)]
-----------------------------------------------------------------------------
(* What the operators promise, over all inputs up to a size.               *)

CONSTANTS
  MaxLength,   (* bound: values, lines, segments or chunks of an input     *)
  MaxLimit     (* bound: limits                                            *)

ASSUME BoundsAssumption == MaxLength \in Nat /\ MaxLimit \in Nat

UpTo(S) == UNION {[1 .. n -> S] : n \in 0 .. MaxLength}
Limits  == 1 .. MaxLimit

Total(numbers) ==
  LET total[i \in 0 .. Len(numbers)] == IF i = 0 THEN 0 ELSE total[i - 1] + numbers[i]
  IN  total[Len(numbers)]

\* Sources as _select tells them apart.
SourceSets == {{"operator"}, {"ct"}, {"ct", "subfinder"}}

NamesSelected ==
  \A sources \in UpTo(SourceSets), limit \in Limits :
    LET chosen   == SelectNames(sources, limit)
        Operator == {n \in DOMAIN sources : "operator" \in sources[n]}
        Several  == {n \in DOMAIN sources : sources[n] = {"ct", "subfinder"}}
        dropped  == DOMAIN sources \ chosen
    IN  /\ chosen \subseteq DOMAIN sources
        /\ Cardinality(chosen) = Least(limit, Len(sources))
        /\ dropped \cap Operator # {} => chosen \subseteq Operator
        /\ dropped \cap Several # {} => chosen \subseteq Operator \cup Several

URLsSelected ==
  \A hosts \in UpTo(1 .. 3), limit \in Limits :
    LET chosen == SelectURLs(hosts, limit) IN
    IF Len(hosts) > limit /\ Cardinality(Range(hosts)) > limit THEN chosen = NoSelection
    ELSE /\ chosen \subseteq DOMAIN hosts
         /\ Cardinality(chosen) = Least(limit, Len(hosts))
         /\ \A h \in Range(hosts) : \E i \in chosen : hosts[i] = h

ListsLoaded ==
  \A lines \in UpTo({Blank, Bad, "a", "b", "c"}), max \in Limits :
    LET loaded == LoadList(lines, max)
        values == Range(lines) \ {Blank, Bad}
        Count(line) == Cardinality({i \in DOMAIN lines : lines[i] = line})
    IN  /\ loaded.refused <=> Cardinality(values) > max
        /\ ~loaded.refused =>
             /\ Range(loaded.accepted) = values /\ IsInjective(loaded.accepted)
             /\ Len(loaded.accepted) + loaded.rejected + loaded.duplicates = Len(lines) - Count(Blank)

CandidatesCollected ==
  \A lines \in UpTo({Blank, Bad, "a", "b", "c"}), max \in Limits :
    LET found  == FirstCandidates(lines, max)
        values == Range(lines) \ {Blank, Bad}
    IN  /\ Range(found) \subseteq values /\ IsInjective(found)
        /\ Len(found) = Least(max, Cardinality(values))

PathsNormalized ==
  \A segments \in UpTo({"a", "b", Parent, Stay}) :
    LET Up(i)   == Cardinality({j \in 1 .. i : segments[j] = Parent})
        Down(i) == Cardinality({j \in 1 .. i : segments[j] \in {"a", "b"}})
        result  == NormalizePath(segments)
    IN  /\ result.escapes <=> \E i \in DOMAIN segments : Up(i) > Down(i)
        /\ Range(result.path) \subseteq {"a", "b"}
        /\ ~result.escapes => Len(result.path) = Down(Len(segments)) - Up(Len(segments))

BodiesRetained ==
  \A chunks \in UpTo(1 .. 2), declared \in 0 .. MaxLimit + 1, max \in 0 .. MaxLimit :
    LET body == Total(chunks)
        kept == Retained(chunks, declared, max)
    IN  /\ kept.bytes <= max
        /\ declared <= max => /\ kept.bytes = Least(body, max)
                              /\ kept.truncated <=> body > max

\* All of them, see BoundsKept.
WithinBounds ==
  /\ NamesSelected /\ URLsSelected /\ ListsLoaded /\ CandidatesCollected
  /\ PathsNormalized /\ BodiesRetained
=============================================================================
