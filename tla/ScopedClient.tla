---------------------------- MODULE ScopedClient ----------------------------
(***************************************************************************)
(* sh4q/network/http.py: the client every native HTTP request goes         *)
(* through.  A hop is authorized by host and port, resolved, its addresses *)
(* authorized, and then tried in turn, each under a permit of the limiter  *)
(* and over a connection pinned to that address; a redirect starts over.   *)
(*                                                                         *)
(* The limiter is RequestLimiter seen from outside: Acquire pays and       *)
(* starts in one step, and a coroutine that waits may be refused when the  *)
(* others that wait may have been admitted with what is left.  get() and   *)
(* get_text_bounded() are the same loop; the second also reads the body,   *)
(* see Bounds.  Only GET requests are made.                                *)
(***************************************************************************)
EXTENDS Integers, FiniteSets, Scope

CONSTANTS
  Getters,       (* coroutines that may call get()                         *)
  Scopes,        (* configured scopes                                      *)
  Locations,     (* URLs a response may redirect to                        *)
  Answers,       (* address lists a resolver may return                    *)
  Follows,       (* the callers that do not pass follow_redirects=False    *)
  ForeignErrors, (* the resolver raises errors that are not OSErrors, as   *)
                 (* AsyncDNSResolver, which discovered-http passes, does   *)
  MaxRedirects,  (* _max_redirects                                         *)
  MaxConcurrent, (* the limiter's semaphore                                *)
  Budget         (* the limiter's budget                                   *)

\* A name of these labels, or something without labels.
WellFormed(h) == h.kind = "name" => h.labels \in Seq(Labels)

ASSUME ClientAssumption ==
  /\ IsFiniteSet(Getters) /\ Follows \subseteq Getters
  /\ Answers \subseteq Seq(Addresses)
  /\ \A u \in Locations : WellFormed(u.host)
  /\ \A s \in Scopes : \A p \in s.targets \cup s.excluded : WellFormed(p)
  /\ ForeignErrors \in BOOLEAN
  /\ MaxRedirects \in Nat /\ MaxConcurrent \in Nat \ {0} /\ Budget \in Nat

VARIABLES
  scope,      (* the client's scope                                        *)
  at,         (* where each coroutine stands                               *)
  url,        (* the hop it works on                                       *)
  hops,       (* hops started                                              *)
  left,       (* addresses of the hop not given up yet, the current first  *)
  wire,       (* the connection its request is on                          *)
  answer,     (* what get() returned                                       *)
  error,      (* what it raised                                            *)
  idle,       (* open connections of the transports, unused                *)
  permits,    (* permits not handed out                                    *)
  budget,     (* requests the limiter still admits                         *)
  resolved,   (* history: what the hop's resolution returned               *)
  contact     (* history: the last request it sent                         *)

hop    == <<url, hops, left, resolved>>
limits == <<permits, budget>>
clientVars == <<scope, at, hop, wire, answer, error, idle, limits, contact>>

(***************************************************************************)
(* idle       get() not called, or its caller ended before it was          *)
(* resolving  acquiring   sending    at the await of that name             *)
(* returned   raised      cancelled  it has ended                          *)
(***************************************************************************)
At == {"idle", "resolving", "acquiring", "sending", "returned", "raised", "cancelled"}

\* http: an httpx.HTTPError, which the callers expect; other: anything else.
Errors == {"none", "http", "other"}

NoURL    == [scheme |-> "none"]
NoWire   == [scheme |-> "none"]
NoAnswer == [url |-> NoURL, address |-> "none"]

ClientInit ==
  /\ scope \in Scopes
  /\ at = [g \in Getters |-> "idle"]
  /\ url = [g \in Getters |-> NoURL]
  /\ hops = [g \in Getters |-> 0]
  /\ left = [g \in Getters |-> <<>>]
  /\ wire = [g \in Getters |-> NoWire]
  /\ answer = [g \in Getters |-> NoAnswer]
  /\ error = [g \in Getters |-> "none"]
  /\ idle = {}
  /\ permits = MaxConcurrent /\ budget = Budget
  /\ resolved = [g \in Getters |-> <<>>]
  /\ contact = [g \in Getters |-> NoAnswer]

Raise(g, e) ==
  /\ at' = [at EXCEPT ![g] = "raised"]
  /\ error' = [error EXCEPT ![g] = e]
-----------------------------------------------------------------------------
(* Lines 106-107 and 228-237: the next hop, up to its first await.         *)

\* Lines 229-235.
Permitted(u) == u.scheme \in {"http", "https"} /\ Authorize(scope, u.host, u.port)

\* A plausible bug of Hop, used as a mutant: only the first hop is authorized.
HopTrusting(g, u) ==
  IF hops[g] > MaxRedirects \/ (hops[g] = 0 /\ ~Permitted(u)) THEN Raise(g, "http") /\ UNCHANGED <<url, hops>>
  ELSE /\ at' = [at EXCEPT ![g] = "resolving"]
       /\ url' = [url EXCEPT ![g] = u]
       /\ hops' = [hops EXCEPT ![g] = @ + 1]
       /\ UNCHANGED error

Hop(g, u) ==
  IF hops[g] > MaxRedirects \/ ~Permitted(u) THEN Raise(g, "http") /\ UNCHANGED <<url, hops>>
  ELSE /\ at' = [at EXCEPT ![g] = "resolving"]
       /\ url' = [url EXCEPT ![g] = u]
       /\ hops' = [hops EXCEPT ![g] = @ + 1]
       /\ UNCHANGED error

Get(g, u) ==
  /\ at[g] = "idle"
  /\ Hop(g, u)
  /\ UNCHANGED <<scope, left, resolved, wire, answer, idle, limits, contact>>

\* A plausible bug of Resolve, used as a mutant: one good address is enough.
ResolveAny(g, addresses) ==
  /\ at[g] = "resolving"
  /\ IF \E i \in DOMAIN addresses : AuthorizeResolvedAddress(scope, addresses[i])
     THEN /\ at' = [at EXCEPT ![g] = "acquiring"]
          /\ left' = [left EXCEPT ![g] = addresses]
          /\ resolved' = [resolved EXCEPT ![g] = addresses]
          /\ UNCHANGED error
     ELSE Raise(g, "http") /\ UNCHANGED <<left, resolved>>
  /\ UNCHANGED <<scope, url, hops, wire, answer, idle, limits, contact>>

\* Lines 240-246: one address that is not allowed denies them all.
Resolve(g, addresses) ==
  /\ at[g] = "resolving"
  /\ IF addresses # <<>> /\ \A i \in DOMAIN addresses : AuthorizeResolvedAddress(scope, addresses[i])
     THEN /\ at' = [at EXCEPT ![g] = "acquiring"]
          /\ left' = [left EXCEPT ![g] = addresses]
          /\ resolved' = [resolved EXCEPT ![g] = addresses]
          /\ UNCHANGED error
     ELSE Raise(g, "http") /\ UNCHANGED <<left, resolved>>
  /\ UNCHANGED <<scope, url, hops, wire, answer, idle, limits, contact>>

\* Lines 236-239: an OSError is an HTTP error to the caller, others escape.
ResolveFails(g) ==
  /\ at[g] = "resolving"
  /\ Raise(g, IF ForeignErrors THEN "other" ELSE "http")
  /\ UNCHANGED <<scope, hop, wire, answer, idle, limits, contact>>
-----------------------------------------------------------------------------
(* One attempt, lines 110-121 and 178-202.                                 *)

\* A plausible bug of TransportKey, used as a mutant: the host is left out.
TransportKeyByAddress(u, a) == <<u.scheme, u.port, a>>

\* Lines 56-57.  The connections of one transport lead to one address.
TransportKey(u, a) == <<u.scheme, u.host, u.port, a>>

\* Who the other end of a connection proved to be: the host is the name
\* of its TLS handshake (line 45).
Wire(u, a) == [key |-> TransportKey(u, a), scheme |-> u.scheme, host |-> u.host,
               port |-> u.port, address |-> a]

\* Lines 58-62: an idle connection of the transport, or a new one.
Acquire(g) ==
  LET u == url[g]
      a == Head(left[g]) IN
  /\ at[g] = "acquiring"
  /\ permits > 0 /\ budget > 0
  /\ permits' = permits - 1 /\ budget' = budget - 1
  /\ \/ \E w \in idle :
          /\ w.key = TransportKey(u, a)
          /\ wire' = [wire EXCEPT ![g] = w]
          /\ idle' = idle \ {w}
     \/ wire' = [wire EXCEPT ![g] = Wire(u, a)] /\ UNCHANGED idle
  /\ contact' = [contact EXCEPT ![g] = [url |-> u, address |-> a]]
  /\ at' = [at EXCEPT ![g] = "sending"]
  /\ UNCHANGED <<scope, hop, answer, error>>

\* Line 183: not a connection error, so no other address is tried.
Denied(g) ==
  /\ at[g] = "acquiring"
  /\ budget < Cardinality({o \in Getters : at[o] = "acquiring"})
  /\ Raise(g, "http")
  /\ UNCHANGED <<scope, hop, wire, answer, idle, limits, contact>>

\* The permit is released and the connection closed or kept.
Release(g, kept) ==
  /\ permits' = permits + 1
  /\ wire' = [wire EXCEPT ![g] = NoWire]
  /\ idle' = IF kept THEN idle \cup {wire[g]} ELSE idle
  /\ UNCHANGED budget

\* Lines 116-123: the next address, or the last one's error.
Unanswered(g) ==
  /\ at[g] = "sending"
  /\ Release(g, FALSE)
  /\ left' = [left EXCEPT ![g] = Tail(@)]
  /\ IF Len(left[g]) > 1 THEN at' = [at EXCEPT ![g] = "acquiring"] /\ UNCHANGED error
                         ELSE Raise(g, "http")
  /\ UNCHANGED <<scope, url, hops, resolved, answer, contact>>

\* Any other transport error ends the request.
Breaks(g) ==
  /\ at[g] = "sending"
  /\ Release(g, FALSE)
  /\ Raise(g, "http")
  /\ UNCHANGED <<scope, hop, answer, contact>>

\* A plausible bug of Answered, used as a mutant: the last address tried.
AnsweredLastAddress(g, kept) ==
  /\ at[g] = "sending"
  /\ Release(g, kept)
  /\ answer' = [answer EXCEPT ![g] = [url |-> url[g], address |-> left[g][Len(left[g])]]]
  /\ at' = [at EXCEPT ![g] = "returned"]
  /\ UNCHANGED <<scope, hop, error, contact>>

\* Lines 124-129: the response, with the address it came from.
Answered(g, kept) ==
  /\ at[g] = "sending"
  /\ Release(g, kept)
  /\ answer' = [answer EXCEPT ![g] = [url |-> url[g], address |-> Head(left[g])]]
  /\ at' = [at EXCEPT ![g] = "returned"]
  /\ UNCHANGED <<scope, hop, error, contact>>

\* Line 130; a location that cannot be joined or parsed raises ValueError or
\* httpx.InvalidURL, which are no HTTP errors.
Redirected(g, kept) ==
  /\ at[g] = "sending" /\ g \in Follows
  /\ Release(g, kept)
  /\ \/ \E u \in Locations : Hop(g, u)
     \/ Raise(g, "other") /\ UNCHANGED <<url, hops>>
  /\ UNCHANGED <<scope, left, resolved, answer, contact>>

\* A plausible bug of CancelGet, used as a mutant.
CancelKeepsPermit(g) ==
  /\ wire' = [wire EXCEPT ![g] = NoWire]
  /\ at' = [at EXCEPT ![g] = "cancelled"]
  /\ UNCHANGED <<idle, limits>>

\* CancelledError at any await; RequestPermit.__aexit__ releases.
CancelGet(g) ==
  /\ IF at[g] = "sending" THEN Release(g, FALSE) ELSE UNCHANGED <<wire, idle, limits>>
  /\ at' = [at EXCEPT ![g] = "cancelled"]

Busy(g) == at[g] \in {"resolving", "acquiring", "sending"}

\* What the network, the resolver and the limiter do to a request.
Progress(g) ==
  \/ \E addresses \in Answers : Resolve(g, addresses)
  \/ ResolveFails(g) \/ Acquire(g) \/ Denied(g) \/ Unanswered(g) \/ Breaks(g)
  \/ \E kept \in BOOLEAN : Answered(g, kept) \/ Redirected(g, kept)

ClientTypeOK ==
  /\ scope \in Scopes
  /\ at \in [Getters -> At] /\ error \in [Getters -> Errors]
  /\ hops \in [Getters -> 0 .. MaxRedirects + 1]
  /\ left \in [Getters -> Seq(Addresses)]
  /\ permits \in 0 .. MaxConcurrent /\ budget \in 0 .. Budget
=============================================================================
