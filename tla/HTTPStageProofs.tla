-------------------------- MODULE HTTPStageProofs --------------------------
(***************************************************************************)
(* The scoped client under the http stage: for any scope, any origins and  *)
(* redirects, any number of addresses, permits and cancellations.          *)
(***************************************************************************)
EXTENDS HTTPStage, ListProofs

\* A connection's key says whose it is.
Whole(w) == w.key = <<w.scheme, w.host, w.port, w.address>>

\* The addresses of a hop: all allowed, and those left are some of them.
Checked(h) ==
  /\ left[h] # <<>>
  /\ \A i \in DOMAIN resolved[h] : AuthorizeResolvedAddress(scope, resolved[h][i])
  /\ \A i \in DOMAIN left[h] : \E j \in DOMAIN resolved[h] : left[h][i] = resolved[h][j]

Typed(h) ==
  /\ at[h] \in At /\ error[h] \in Errors
  /\ hops[h] \in 0 .. MaxRedirects + 1
  /\ left[h] \in Seq(Addresses) /\ resolved[h] \in Seq(Addresses)

Sound(h) ==
  /\ Typed(h)
  /\ Busy(h) => Permitted(url[h])
  /\ at[h] \in {"acquiring", "sending"} => Checked(h)
  /\ at[h] = "sending" => Whole(wire[h]) /\ wire[h].key = TransportKey(url[h], Head(left[h]))

Sending == {h \in Getters : at[h] = "sending"}

Domains ==
  /\ DOMAIN at = Getters /\ DOMAIN error = Getters /\ DOMAIN hops = Getters
  /\ DOMAIN left = Getters /\ DOMAIN resolved = Getters
  /\ DOMAIN url = Getters /\ DOMAIN wire = Getters

Account ==
  /\ permits \in Nat /\ permits + Cardinality(Sending) = MaxConcurrent
  /\ budget \in 0 .. Budget

CInv ==
  /\ scope \in Scopes /\ Domains
  /\ \A h \in Getters : Sound(h)
  /\ \A w \in idle : Whole(w)
  /\ Account

-----------------------------------------------------------------------------
LEMMA SendingFinite ==
  /\ IsFiniteSet(Sending) /\ Cardinality(Sending) \in Nat
  /\ \A g \in Sending : Cardinality(Sending \ {g}) = Cardinality(Sending) - 1
  /\ \A g \in Getters \ Sending : Cardinality(Sending \cup {g}) = Cardinality(Sending) + 1
<1>1. IsFiniteSet(Sending)
  BY ClientAssumption, FS_Subset DEF Sending
<1> QED BY <1>1, FS_CardinalityType, FS_RemoveElement, FS_AddElement

\* A coroutine that did not move is as sound as before.
LEMMA Unmoved ==
  ASSUME NEW h, Sound(h), scope' = scope,
         at'[h] = at[h], error'[h] = error[h], hops'[h] = hops[h], left'[h] = left[h],
         resolved'[h] = resolved[h], url'[h] = url[h], wire'[h] = wire[h]
  PROVE  Sound(h)'
BY DEF Sound, Typed, Busy, Checked, Permitted

\* One coroutine takes a step.
LEMMA OneMoves ==
  ASSUME CInv, NEW g \in Getters, scope' = scope, Domains',
         \A h \in Getters \ {g} :
           /\ at'[h] = at[h] /\ error'[h] = error[h] /\ hops'[h] = hops[h] /\ left'[h] = left[h]
           /\ resolved'[h] = resolved[h] /\ url'[h] = url[h] /\ wire'[h] = wire[h],
         Sound(g)', \A w \in idle' : Whole(w), Account'
  PROVE  CInv'
<1>1. \A h \in Getters \ {g} : Sound(h)'
  BY Unmoved DEF CInv
<1>2. \A h \in Getters : Sound(h)'
  BY <1>1
<1> QED BY <1>2 DEF CInv

\* What becomes of the permits: g starts, ends or does not touch a request.
LEMMA Accounts ==
  ASSUME Account, Domains, NEW g \in Getters, NEW x, at' = [at EXCEPT ![g] = x],
         \/ (at[g] # "sending" /\ x # "sending" /\ permits' = permits
             /\ budget' \in 0 .. Budget)
         \/ (at[g] # "sending" /\ x = "sending" /\ permits > 0 /\ permits' = permits - 1
             /\ budget' \in 0 .. Budget)
         \/ (at[g] = "sending" /\ x # "sending" /\ permits' = permits + 1 /\ budget' = budget)
  PROVE  Account'
<1>0. \A h \in Getters : at'[h] = IF h = g THEN x ELSE at[h]
  BY DEF Domains
<1>1. CASE at[g] # "sending" /\ x # "sending" /\ permits' = permits /\ budget' \in 0 .. Budget
  <2>1. Sending' = Sending
    BY <1>0, <1>1 DEF Sending
  <2> QED BY <1>1, <2>1 DEF Account
<1>2. CASE at[g] # "sending" /\ x = "sending" /\ permits > 0 /\ permits' = permits - 1
           /\ budget' \in 0 .. Budget
  <2>1. Sending' = Sending \cup {g} /\ g \in Getters \ Sending
    BY <1>0, <1>2 DEF Sending
  <2>2. Cardinality(Sending') = Cardinality(Sending) + 1
    BY <2>1, SendingFinite
  <2> QED BY <1>2, <2>2, SendingFinite DEF Account
<1>3. CASE at[g] = "sending" /\ x # "sending" /\ permits' = permits + 1 /\ budget' = budget
  <2>1. Sending' = Sending \ {g} /\ g \in Sending
    BY <1>0, <1>3 DEF Sending
  <2>2. Cardinality(Sending') = Cardinality(Sending) - 1
    BY <2>1, SendingFinite
  <2> QED BY <1>3, <2>2, SendingFinite DEF Account
<1> QED BY <1>1, <1>2, <1>3
-----------------------------------------------------------------------------
(* The hop.                                                                *)

\* A hop either ends the coroutine or has an authorized destination.
LEMMA HopEffect ==
  ASSUME CInv, NEW g \in Getters, NEW u, Hop(g, u)
  PROVE  /\ \E x \in {"raised", "resolving"} : at' = [at EXCEPT ![g] = x]
         /\ at'[g] \in {"raised", "resolving"} /\ error'[g] \in Errors
         /\ hops'[g] \in 0 .. MaxRedirects + 1
         /\ at'[g] = "resolving" => url'[g] = u /\ Permitted(u)
         /\ DOMAIN error' = Getters /\ DOMAIN hops' = Getters /\ DOMAIN url' = Getters
         /\ \A h \in Getters \ {g} :
              /\ at'[h] = at[h] /\ error'[h] = error[h] /\ hops'[h] = hops[h] /\ url'[h] = url[h]
<1>0. hops[g] \in 0 .. MaxRedirects + 1 /\ MaxRedirects \in Nat /\ error[g] \in Errors
  BY ClientAssumption DEF CInv, Sound, Typed
<1>1. CASE hops[g] > MaxRedirects \/ ~Permitted(u)
  BY <1>0, <1>1 DEF Hop, Raise, CInv, Domains, Errors
<1>2. CASE ~(hops[g] > MaxRedirects \/ ~Permitted(u))
  <2>1. hops[g] + 1 \in 0 .. MaxRedirects + 1
    BY <1>0, <1>2
  <2> QED BY <1>0, <1>2, <2>1 DEF Hop, CInv, Domains
<1> QED BY <1>1, <1>2

LEMMA Shorter ==
  ASSUME NEW S, NEW q \in Seq(S), q # <<>>
  PROVE  /\ Tail(q) \in Seq(S) /\ Head(q) = q[1] /\ 1 \in DOMAIN q
         /\ Len(q) > 1 => Tail(q) # <<>>
         /\ \A i \in DOMAIN Tail(q) : i + 1 \in DOMAIN q /\ Tail(q)[i] = q[i + 1]
<1>1. Len(q) \in Nat \ {0} /\ q \in [1 .. Len(q) -> S]
  OBVIOUS
<1>2. /\ Len(Tail(q)) = Len(q) - 1 /\ \A i \in 1 .. Len(q) - 1 : Tail(q)[i] = q[i + 1]
      /\ Tail(q) \in Seq(S) /\ Head(q) = q[1]
  OBVIOUS
<1>3. DOMAIN q = 1 .. Len(q) /\ DOMAIN Tail(q) = 1 .. Len(q) - 1
  BY <1>2
<1>4. \A i \in 1 .. Len(q) - 1 : i + 1 \in 1 .. Len(q)
  BY <1>1
<1>5. Len(q) > 1 => Tail(q) # <<>>
  <2> DEFINE r == Tail(q)
  <2>1. Len(r) = Len(q) - 1
    BY <1>2
  <2> HIDE DEF r
  <2>2. Len(q) > 1 => r # <<>>
    BY <1>1, <2>1
  <2> QED BY <2>2 DEF r
<1> QED BY <1>1, <1>2, <1>3, <1>4, <1>5

LEMMA GetStep ==
  ASSUME CInv, NEW g \in Getters, NEW u, Get(g, u)
  PROVE  CInv'
<1>1. /\ at[g] = "idle" /\ Hop(g, u)
      /\ scope' = scope /\ left' = left /\ resolved' = resolved /\ wire' = wire /\ idle' = idle
      /\ permits' = permits /\ budget' = budget
  BY DEF Get, limits
<1>2. PICK x \in {"raised", "resolving"} : at' = [at EXCEPT ![g] = x]
  BY <1>1, HopEffect
<1>3. Domains'
  BY <1>1, <1>2, HopEffect DEF CInv, Domains
<1>4. Sound(g)'
  <2>1. at'[g] \in {"raised", "resolving"}
    BY <1>1, HopEffect
  <2>2. Typed(g)'
    BY <1>1, <2>1, HopEffect DEF CInv, Sound, Typed, At
  <2>3. Busy(g)' => Permitted(url[g])'
    BY <1>1, <2>1, HopEffect DEF Busy, Permitted
  <2> QED BY <2>1, <2>2, <2>3 DEF Sound
<1>5. Account'
  <2>1. budget' \in 0 .. Budget
    BY <1>1 DEF CInv, Account
  <2> QED BY <1>1, <1>2, <2>1, Accounts DEF CInv
<1> QED BY <1>1, <1>3, <1>4, <1>5, HopEffect, OneMoves DEF CInv

\* g ends with an error, or by its cancellation, and a request of its ends.
Ends(g, x) ==
  /\ at' = [at EXCEPT ![g] = x] /\ x \in {"raised", "returned", "cancelled"}
  /\ error' = error \/ \E e \in Errors : error' = [error EXCEPT ![g] = e]
  /\ scope' = scope /\ url' = url /\ hops' = hops /\ resolved' = resolved
  /\ left' = left \/ (left' = [left EXCEPT ![g] = Tail(@)] /\ left[g] # <<>>)
  /\ wire' = wire \/ wire' = [wire EXCEPT ![g] = NoWire]
  /\ \/ (at[g] # "sending" /\ permits' = permits /\ budget' \in 0 .. Budget)
     \/ (at[g] = "sending" /\ permits' = permits + 1 /\ budget' = budget)
  /\ \A w \in idle' : Whole(w)

LEMMA EndStep ==
  ASSUME CInv, NEW g \in Getters, NEW x, Ends(g, x)
  PROVE  CInv'
<1> USE DEF Ends
<1>1. Domains'
  BY DEF CInv, Domains
<1>2. Sound(g)'
  <2>1. at'[g] = x
    BY DEF CInv, Domains
  <2>2. error'[g] \in Errors
    BY DEF CInv, Domains, Sound, Typed
  <2>3. left'[g] \in Seq(Addresses)
    <3>1. left[g] \in Seq(Addresses) /\ DOMAIN left = Getters
      BY DEF CInv, Domains, Sound, Typed
    <3>2. left[g] # <<>> => Tail(left[g]) \in Seq(Addresses)
      BY <3>1, Shorter
    <3>3. left'[g] = left[g] \/ (left[g] # <<>> /\ left'[g] = Tail(left[g]))
      BY <3>1
    <3> QED BY <3>1, <3>2, <3>3
  <2>4. hops'[g] \in 0 .. MaxRedirects + 1 /\ resolved'[g] \in Seq(Addresses)
    BY DEF CInv, Sound, Typed
  <2>5. x \in At
    BY DEF At
  <2> QED BY <2>1, <2>2, <2>3, <2>4, <2>5 DEF Sound, Typed, Busy
<1>3. Account'
  BY Accounts DEF CInv
<1>4. \A h \in Getters \ {g} :
        /\ at'[h] = at[h] /\ error'[h] = error[h] /\ hops'[h] = hops[h] /\ left'[h] = left[h]
        /\ resolved'[h] = resolved[h] /\ url'[h] = url[h] /\ wire'[h] = wire[h]
  BY DEF CInv, Domains
<1> QED BY <1>1, <1>2, <1>3, <1>4, OneMoves

LEMMA ResolveStep ==
  ASSUME CInv, NEW g \in Getters, NEW addresses \in Answers, Resolve(g, addresses)
  PROVE  CInv'
<1>0. /\ at[g] = "resolving" /\ scope' = scope /\ url' = url /\ hops' = hops /\ wire' = wire
      /\ idle' = idle /\ permits' = permits /\ budget' = budget
  BY DEF Resolve, limits
<1>1. addresses \in Seq(Addresses)
  BY ClientAssumption
<1>2. CASE addresses # <<>> /\ \A i \in DOMAIN addresses : AuthorizeResolvedAddress(scope, addresses[i])
  <2>1. /\ at' = [at EXCEPT ![g] = "acquiring"] /\ left' = [left EXCEPT ![g] = addresses]
        /\ resolved' = [resolved EXCEPT ![g] = addresses] /\ error' = error
    BY <1>2 DEF Resolve
  <2>2. Domains'
    BY <1>0, <2>1 DEF CInv, Domains
  <2>3. /\ at'[g] = "acquiring" /\ left'[g] = addresses /\ resolved'[g] = addresses
        /\ error'[g] = error[g] /\ url'[g] = url[g] /\ hops'[g] = hops[g]
    BY <1>0, <2>1 DEF CInv, Domains
  <2>4. Sound(g)'
    <3>1. Typed(g)'
      BY <1>1, <2>3 DEF CInv, Sound, Typed, At
    <3>2. Permitted(url[g])'
      BY <1>0, <2>3 DEF CInv, Sound, Busy, Permitted
    <3>3. Checked(g)'
      BY <1>0, <1>2, <2>3 DEF Checked
    <3> QED BY <2>3, <3>1, <3>2, <3>3 DEF Sound
  <2>5. Account'
    <3>1. budget' \in 0 .. Budget
      BY <1>0 DEF CInv, Account
    <3> QED BY <1>0, <2>1, <3>1, Accounts DEF CInv
  <2>6. \A h \in Getters \ {g} :
        /\ at'[h] = at[h] /\ error'[h] = error[h] /\ hops'[h] = hops[h] /\ left'[h] = left[h]
        /\ resolved'[h] = resolved[h] /\ url'[h] = url[h] /\ wire'[h] = wire[h]
    BY <1>0, <2>1 DEF CInv, Domains
  <2> QED BY <1>0, <2>2, <2>4, <2>5, <2>6, OneMoves DEF CInv
<1>3. CASE ~(addresses # <<>> /\ \A i \in DOMAIN addresses : AuthorizeResolvedAddress(scope, addresses[i]))
  <2>1. /\ at' = [at EXCEPT ![g] = "raised"] /\ error' = [error EXCEPT ![g] = "http"]
        /\ left' = left /\ resolved' = resolved
    BY <1>3 DEF Resolve, Raise
  <2>2. "http" \in Errors /\ budget' \in 0 .. Budget
    BY <1>0 DEF Errors, CInv, Account
  <2>3. Ends(g, "raised")
    BY <1>0, <2>1, <2>2 DEF Ends, CInv
  <2> QED BY <2>3, EndStep
<1> QED BY <1>2, <1>3
-----------------------------------------------------------------------------
(* The attempt.                                                            *)

LEMMA WireWhole ==
  \A u, a : Whole(Wire(u, a)) /\ Wire(u, a).key = TransportKey(u, a)
BY DEF Whole, Wire, TransportKey

LEMMA AcquireStep ==
  ASSUME CInv, NEW g \in Getters, Acquire(g)
  PROVE  CInv'
<1> DEFINE u == url[g]
           a == Head(left[g])
<1>0. /\ at[g] = "acquiring" /\ permits > 0 /\ budget > 0
      /\ permits' = permits - 1 /\ budget' = budget - 1
      /\ at' = [at EXCEPT ![g] = "sending"]
      /\ scope' = scope /\ url' = url /\ hops' = hops /\ left' = left /\ resolved' = resolved
      /\ error' = error
  BY DEF Acquire, hop
<1>1. PICK w : /\ wire' = [wire EXCEPT ![g] = w] /\ Whole(w) /\ w.key = TransportKey(u, a)
               /\ idle' \subseteq idle
  <2>1. \/ (\E w \in idle : w.key = TransportKey(u, a) /\ wire' = [wire EXCEPT ![g] = w]
                            /\ idle' = idle \ {w})
        \/ (wire' = [wire EXCEPT ![g] = Wire(u, a)] /\ idle' = idle)
    BY DEF Acquire
  <2> HIDE DEF u, a
  <2>2. CASE \E w \in idle : w.key = TransportKey(u, a) /\ wire' = [wire EXCEPT ![g] = w]
                             /\ idle' = idle \ {w}
    BY <2>2 DEF CInv
  <2>3. CASE wire' = [wire EXCEPT ![g] = Wire(u, a)] /\ idle' = idle
    BY <2>3, WireWhole
  <2> QED BY <2>1, <2>2, <2>3
<1>2. Domains'
  BY <1>0, <1>1 DEF CInv, Domains
<1>3. /\ at'[g] = "sending" /\ wire'[g] = w /\ left'[g] = left[g] /\ url'[g] = url[g]
      /\ error'[g] = error[g] /\ hops'[g] = hops[g] /\ resolved'[g] = resolved[g]
  BY <1>0, <1>1 DEF CInv, Domains
<1>4. Sound(g)'
  <2>1. Typed(g)'
    BY <1>3 DEF CInv, Sound, Typed, At
  <2>2. Permitted(url[g])' /\ Checked(g)'
    BY <1>0, <1>3 DEF CInv, Sound, Busy, Permitted, Checked
  <2>3. Whole(wire'[g]) /\ wire'[g].key = TransportKey(url'[g], Head(left'[g]))
    BY <1>1, <1>3
  <2> QED BY <1>3, <2>1, <2>2, <2>3 DEF Sound
<1>5. Account'
  <2>1. budget' \in 0 .. Budget
    BY <1>0, ClientAssumption DEF CInv, Account
  <2> QED BY <1>0, <2>1, Accounts DEF CInv
<1>6. \A h \in Getters \ {g} :
        /\ at'[h] = at[h] /\ error'[h] = error[h] /\ hops'[h] = hops[h] /\ left'[h] = left[h]
        /\ resolved'[h] = resolved[h] /\ url'[h] = url[h] /\ wire'[h] = wire[h]
  BY <1>0, <1>1 DEF CInv, Domains
<1>7. \A v \in idle' : Whole(v)
  BY <1>1 DEF CInv
<1> QED BY <1>0, <1>2, <1>4, <1>5, <1>6, <1>7, OneMoves

\* What a request that ends leaves behind.
LEMMA Released ==
  ASSUME CInv, NEW g \in Getters, at[g] = "sending", NEW kept, Release(g, kept)
  PROVE  /\ permits' = permits + 1 /\ budget' = budget
         /\ wire' = [wire EXCEPT ![g] = NoWire] /\ \A w \in idle' : Whole(w)
BY DEF Release, CInv, Sound

LEMMA UnansweredStep ==
  ASSUME CInv, NEW g \in Getters, Unanswered(g)
  PROVE  CInv'
<1>0. /\ at[g] = "sending" /\ left' = [left EXCEPT ![g] = Tail(@)]
      /\ scope' = scope /\ url' = url /\ hops' = hops /\ resolved' = resolved
      /\ permits' = permits + 1 /\ budget' = budget
      /\ wire' = [wire EXCEPT ![g] = NoWire] /\ \A w \in idle' : Whole(w)
  BY Released DEF Unanswered
<1>1. left[g] \in Seq(Addresses) /\ left[g] # <<>> /\ Checked(g) /\ Permitted(url[g])
  BY <1>0 DEF CInv, Sound, Typed, Checked, Busy
<1>2. CASE Len(left[g]) > 1
  <2>1. at' = [at EXCEPT ![g] = "acquiring"] /\ error' = error
    BY <1>2 DEF Unanswered
  <2>2. Domains'
    BY <1>0, <2>1 DEF CInv, Domains
  <2>3. /\ at'[g] = "acquiring" /\ left'[g] = Tail(left[g]) /\ url'[g] = url[g]
        /\ error'[g] = error[g] /\ hops'[g] = hops[g] /\ resolved'[g] = resolved[g]
    BY <1>0, <2>1 DEF CInv, Domains
  <2>4. Sound(g)'
    <3>1. /\ Tail(left[g]) \in Seq(Addresses) /\ Tail(left[g]) # <<>>
          /\ \A i \in DOMAIN Tail(left[g]) : i + 1 \in DOMAIN left[g] /\ Tail(left[g])[i] = left[g][i + 1]
      BY <1>1, <1>2, Shorter
    <3>2. Typed(g)'
      BY <2>3, <3>1 DEF CInv, Sound, Typed, At
    <3>3. Permitted(url[g])' /\ Checked(g)'
      BY <1>0, <1>1, <2>3, <3>1 DEF Permitted, Checked
    <3> QED BY <2>3, <3>2, <3>3 DEF Sound
  <2>5. Account'
    <3>1. budget' = budget
      BY <1>0
    <3> QED BY <1>0, <2>1, <3>1, Accounts DEF CInv
  <2>6. \A h \in Getters \ {g} :
        /\ at'[h] = at[h] /\ error'[h] = error[h] /\ hops'[h] = hops[h] /\ left'[h] = left[h]
        /\ resolved'[h] = resolved[h] /\ url'[h] = url[h] /\ wire'[h] = wire[h]
    BY <1>0, <2>1 DEF CInv, Domains
  <2> QED BY <1>0, <2>2, <2>4, <2>5, <2>6, OneMoves
<1>3. CASE ~(Len(left[g]) > 1)
  <2>1. at' = [at EXCEPT ![g] = "raised"] /\ error' = [error EXCEPT ![g] = "http"]
    BY <1>3 DEF Unanswered, Raise
  <2>2. Ends(g, "raised")
    BY <1>0, <1>1, <2>1 DEF Ends, Errors
  <2> QED BY <2>2, EndStep
<1> QED BY <1>2, <1>3

\* The ways to end without another hop.
LEMMA PlainEnds ==
  ASSUME CInv, NEW g \in Getters,
         ResolveFails(g) \/ Denied(g) \/ ClosedClient(g) \/ Breaks(g)
         \/ \E kept \in BOOLEAN : Answered(g, kept)
  PROVE  CInv'
<1>0. budget \in 0 .. Budget /\ \A w \in idle : Whole(w)
  BY DEF CInv, Account
<1>1. CASE ResolveFails(g)
  <2>1. PICK e \in Errors : at' = [at EXCEPT ![g] = "raised"] /\ error' = [error EXCEPT ![g] = e]
    BY <1>1 DEF ResolveFails, Raise, Errors
  <2>2. Ends(g, "raised")
    BY <1>0, <1>1, <2>1 DEF Ends, ResolveFails, hop, limits
  <2> QED BY <2>2, EndStep
<1>2. CASE Denied(g)
  <2>1. at' = [at EXCEPT ![g] = "raised"] /\ error' = [error EXCEPT ![g] = "http"] /\ "http" \in Errors
    BY <1>2 DEF Denied, Raise, Errors
  <2>2. Ends(g, "raised")
    BY <1>0, <1>2, <2>1 DEF Ends, Denied, hop, limits
  <2> QED BY <2>2, EndStep
<1>3. CASE ClosedClient(g)
  <2>1. at' = [at EXCEPT ![g] = "raised"] /\ error' = [error EXCEPT ![g] = "other"] /\ "other" \in Errors
    BY <1>3 DEF ClosedClient, Raise, Errors
  <2>2. budget' \in 0 .. Budget /\ permits' = permits /\ at[g] # "sending"
    BY <1>0, <1>3, ClientAssumption DEF ClosedClient
  <2>3. Ends(g, "raised")
    BY <1>0, <1>3, <2>1, <2>2 DEF Ends, ClosedClient, hop
  <2> QED BY <2>3, EndStep
<1>4. CASE Breaks(g)
  <2>1. at' = [at EXCEPT ![g] = "raised"] /\ error' = [error EXCEPT ![g] = "http"] /\ "http" \in Errors
    BY <1>4 DEF Breaks, Raise, Errors
  <2>2. Ends(g, "raised")
    BY <1>4, <2>1, Released DEF Ends, Breaks, hop
  <2> QED BY <2>2, EndStep
<1>5. ASSUME NEW kept \in BOOLEAN, Answered(g, kept) PROVE CInv'
  <2>1. Ends(g, "returned")
    BY <1>5, Released DEF Ends, Answered, hop
  <2> QED BY <2>1, EndStep
<1> QED BY <1>1, <1>2, <1>3, <1>4, <1>5

LEMMA RedirectedStep ==
  ASSUME CInv, NEW g \in Getters, NEW kept \in BOOLEAN, Redirected(g, kept)
  PROVE  CInv'
<1>0. /\ at[g] = "sending" /\ scope' = scope /\ left' = left /\ resolved' = resolved
      /\ permits' = permits + 1 /\ budget' = budget
      /\ wire' = [wire EXCEPT ![g] = NoWire] /\ \A w \in idle' : Whole(w)
  BY Released DEF Redirected
<1>1. CASE Raise(g, "other") /\ url' = url /\ hops' = hops
  <2>1. Ends(g, "raised")
    BY <1>0, <1>1 DEF Ends, Raise, Errors
  <2> QED BY <2>1, EndStep
<1>2. ASSUME NEW u \in Locations, Hop(g, u) PROVE CInv'
  <2>1. PICK x \in {"raised", "resolving"} : at' = [at EXCEPT ![g] = x]
    BY <1>2, HopEffect
  <2>2. Domains'
    BY <1>0, <1>2, <2>1, HopEffect DEF CInv, Domains
  <2>3. Sound(g)'
    <3>1. at'[g] \in {"raised", "resolving"}
      BY <1>2, HopEffect
    <3>2. Typed(g)'
      BY <1>0, <1>2, <3>1, HopEffect DEF CInv, Sound, Typed, At
    <3>3. Busy(g)' => Permitted(url[g])'
      BY <1>0, <1>2, <3>1, HopEffect DEF Busy, Permitted
    <3> QED BY <3>1, <3>2, <3>3 DEF Sound
  <2>4. Account'
    BY <1>0, <2>1, Accounts DEF CInv
  <2>5. \A h \in Getters \ {g} :
        /\ at'[h] = at[h] /\ error'[h] = error[h] /\ hops'[h] = hops[h] /\ left'[h] = left[h]
        /\ resolved'[h] = resolved[h] /\ url'[h] = url[h] /\ wire'[h] = wire[h]
    <3>1. \A h \in Getters \ {g} : wire'[h] = wire[h]
      BY <1>0 DEF CInv, Domains
    <3> QED BY <1>0, <1>2, <3>1, HopEffect
  <2> QED BY <1>0, <2>2, <2>3, <2>4, <2>5, OneMoves
<1>3. (\E u \in Locations : Hop(g, u)) \/ (Raise(g, "other") /\ url' = url /\ hops' = hops)
  BY DEF Redirected
<1> QED BY <1>1, <1>2, <1>3

LEMMA CancelStep ==
  ASSUME CInv, NEW g \in Getters, CancelGet(g),
         UNCHANGED <<scope, hop, answer, error, contact>>
  PROVE  CInv'
<1>0. /\ at' = [at EXCEPT ![g] = "cancelled"] /\ error' = error /\ scope' = scope
      /\ url' = url /\ hops' = hops /\ left' = left /\ resolved' = resolved
  BY DEF CancelGet, hop
<1>1. CASE at[g] = "sending"
  <2>1. Release(g, FALSE)
    BY <1>1 DEF CancelGet
  <2>2. Ends(g, "cancelled")
    BY <1>0, <1>1, <2>1, Released DEF Ends
  <2> QED BY <2>2, EndStep
<1>2. CASE at[g] # "sending"
  <2>1. wire' = wire /\ idle' = idle /\ permits' = permits /\ budget' = budget
    BY <1>2 DEF CancelGet, limits
  <2>2. Ends(g, "cancelled")
    BY <1>0, <1>2, <2>1 DEF Ends, CInv, Account
  <2> QED BY <2>2, EndStep
<1> QED BY <1>1, <1>2

\* A step that closes the client's connections, or touches nothing of it.
LEMMA QuietStep ==
  ASSUME CInv, scope' = scope, at' = at, error' = error,
         url' = url, hops' = hops, left' = left, resolved' = resolved, wire' = wire,
         permits' = permits, budget' = budget, idle' \subseteq idle
  PROVE  CInv'
<1>1. \A h \in Getters : Sound(h)'
  BY Unmoved DEF CInv
<1>2. Account' /\ Domains'
  BY DEF CInv, Account, Domains, Sending
<1> QED BY <1>1, <1>2 DEF CInv
-----------------------------------------------------------------------------
StageTyped == stage \in StageAt /\ overdue \subseteq Getters /\ cancels \in 0 .. MaxCancels

HInv == CInv /\ StageTyped

LEMMA TasksGet == scope \in Scopes => Tasks \subseteq Getters
BY StageAssumption DEF Tasks, Origins

LEMMA InitHInv == Init => HInv
<1> SUFFICES ASSUME Init PROVE HInv
  OBVIOUS
<1> USE DEF Init, ClientInit
<1>1. Domains /\ scope \in Scopes /\ \A w \in idle : Whole(w)
  BY DEF Domains
<1>2. \A h \in Getters : Sound(h)
  BY ClientAssumption DEF Sound, Typed, Busy, At, Errors
<1>3. Account
  <2>1. Sending = {}
    BY DEF Sending
  <2> QED BY <2>1, FS_EmptySet, ClientAssumption DEF Account
<1>4. StageTyped
  BY StageAssumption DEF StageTyped, StageAt
<1> QED BY <1>1, <1>2, <1>3, <1>4 DEF HInv, CInv

LEMMA ClientNext ==
  ASSUME HInv, [Next]_vars PROVE CInv'
<1>0. CInv /\ Tasks \subseteq Getters
  BY TasksGet DEF HInv, CInv
<1>1. ASSUME NEW o \in Tasks, Probe(o) PROVE CInv'
  <2>1. Get(o, URL(o)) \/ Progress(o)
    BY <1>1 DEF Probe
  <2> QED BY <1>0, <2>1, GetStep, ResolveStep, AcquireStep, UnansweredStep, PlainEnds, RedirectedStep
      DEF Progress
<1>2. ASSUME NEW o \in Tasks, ProbeAlone(o) PROVE CInv'
  BY <1>0, <1>2, GetStep, ResolveStep, UnansweredStep, PlainEnds DEF ProbeAlone
<1>3. ASSUME NEW o \in Tasks, ProbeDeadline(o) \/ UnwindProbe(o) PROVE CInv'
  <2>1. CancelGet(o) /\ UNCHANGED <<scope, hop, answer, error, contact>>
    BY <1>3 DEF ProbeDeadline, UnwindProbe
  <2> QED BY <1>0, <2>1, CancelStep
<1>4. CASE Gathered \/ CancelStage \/ KeepSettled \/ UNCHANGED vars
  <2>1. UNCHANGED clientVars
    BY <1>4 DEF Gathered, CancelStage, KeepSettled, vars
  <2> QED BY <1>0, <2>1, QuietStep DEF clientVars, hop, limits
<1>5. CASE GatherRaises \/ Close
  <2>1. /\ idle' = {} /\ scope' = scope /\ at' = at /\ error' = error /\ wire' = wire
        /\ url' = url /\ hops' = hops /\ left' = left /\ resolved' = resolved
        /\ permits' = permits /\ budget' = budget
    BY <1>5 DEF GatherRaises, Close, hop, limits
  <2> QED BY <1>0, <2>1, QuietStep
<1> QED BY <1>1, <1>2, <1>3, <1>4, <1>5 DEF Next

LEMMA StageNext ==
  ASSUME HInv, [Next]_vars PROVE StageTyped'
<1>0. StageTyped /\ Tasks \subseteq Getters
  BY TasksGet DEF HInv, CInv
<1>1. ASSUME NEW o \in Tasks,
             Probe(o) \/ ProbeAlone(o) \/ ProbeDeadline(o) \/ UnwindProbe(o)
      PROVE  StageTyped'
  BY <1>0, <1>1 DEF Probe, ProbeAlone, ProbeDeadline, UnwindProbe, StageTyped
<1>2. CASE Gathered \/ GatherRaises \/ KeepSettled \/ Close \/ UNCHANGED vars
  BY <1>0, <1>2 DEF Gathered, GatherRaises, KeepSettled, Close, vars, StageTyped, StageAt
<1>3. CASE CancelStage
  BY <1>0, <1>3, StageAssumption DEF CancelStage, StageTyped, StageAt
<1> QED BY <1>1, <1>2, <1>3 DEF Next

LEMMA SpecHInv == Spec => []HInv
<1>1. HInv /\ [Next]_vars => HInv'
  BY ClientNext, StageNext DEF HInv
<1> QED BY <1>1, InitHInv, PTL DEF Spec

\* That a value is a function, which its domain alone does not say.
IsFunction(f) == f = [x \in DOMAIN f |-> f[x]]

Form == IsFunction(at) /\ IsFunction(error) /\ IsFunction(hops) /\ IsFunction(left)

LEMMA ExceptIsFunction == \A f, g, x : IsFunction([f EXCEPT ![g] = x])
BY DEF IsFunction

\* At most one coroutine's entry changes.
Turned(g) ==
  /\ at' = at \/ \E x : at' = [at EXCEPT ![g] = x]
  /\ error' = error \/ \E x : error' = [error EXCEPT ![g] = x]
  /\ hops' = hops \/ \E x : hops' = [hops EXCEPT ![g] = x]
  /\ left' = left \/ \E x : left' = [left EXCEPT ![g] = x]

LEMMA TurnedForm ==
  ASSUME Form, NEW g, Turned(g) PROVE Form'
<1>1. IsFunction(at')
  BY ExceptIsFunction DEF Form, Turned
<1>2. IsFunction(error')
  BY ExceptIsFunction DEF Form, Turned
<1>3. IsFunction(hops')
  BY ExceptIsFunction DEF Form, Turned
<1>4. IsFunction(left')
  BY ExceptIsFunction DEF Form, Turned
<1> QED BY <1>1, <1>2, <1>3, <1>4 DEF Form, IsFunction

LEMMA ProgressTurns ==
  ASSUME NEW g, Progress(g) \/ ClosedClient(g) PROVE Turned(g)
<1>1. ASSUME NEW addresses, Resolve(g, addresses) PROVE Turned(g)
  BY <1>1 DEF Resolve, Raise, Turned
<1>2. CASE ResolveFails(g) \/ Denied(g) \/ Breaks(g) \/ ClosedClient(g)
  BY <1>2 DEF ResolveFails, Denied, Breaks, ClosedClient, Raise, Turned, hop
<1>3. CASE Acquire(g)
  BY <1>3 DEF Acquire, Turned, hop
<1>4. CASE Unanswered(g)
  BY <1>4 DEF Unanswered, Raise, Turned
<1>5. ASSUME NEW kept, Answered(g, kept) PROVE Turned(g)
  BY <1>5 DEF Answered, Turned, hop
<1>6. ASSUME NEW kept, Redirected(g, kept) PROVE Turned(g)
  BY <1>6 DEF Redirected, Hop, Raise, Turned
<1> QED BY <1>1, <1>2, <1>3, <1>4, <1>5, <1>6 DEF Progress

LEMMA NextForm ==
  ASSUME Form, [Next]_vars PROVE Form'
<1>1. ASSUME NEW o, Probe(o) \/ ProbeAlone(o) PROVE Form'
  <2>1. CASE Get(o, URL(o))
    <3>1. Turned(o)
      BY <2>1 DEF Get, Hop, Raise, Turned
    <3> QED BY <3>1, TurnedForm
  <2>2. CASE Progress(o) \/ ClosedClient(o)
    BY <2>2, ProgressTurns, TurnedForm
  <2> QED BY <1>1, <2>1, <2>2 DEF Probe, ProbeAlone, Progress
<1>2. ASSUME NEW o, ProbeDeadline(o) \/ UnwindProbe(o) PROVE Form'
  <2>1. Turned(o)
    BY <1>2 DEF ProbeDeadline, UnwindProbe, CancelGet, Turned, hop
  <2> QED BY <2>1, TurnedForm
<1>3. CASE Gathered \/ GatherRaises \/ CancelStage \/ KeepSettled \/ Close \/ UNCHANGED vars
  <2>1. at' = at /\ error' = error /\ hops' = hops /\ left' = left
    BY <1>3 DEF Gathered, GatherRaises, CancelStage, KeepSettled, Close, vars, clientVars, hop
  <2> QED BY <2>1 DEF Form, IsFunction
<1> QED BY <1>1, <1>2, <1>3 DEF Next

LEMMA SpecForm == Spec => []Form
<1>1. Init => Form
  BY DEF Init, ClientInit, Form, IsFunction
<1> QED BY <1>1, NextForm, PTL DEF Spec
-----------------------------------------------------------------------------
(***************************************************************************)
(* Every value stays in its type; the semaphore's count never leaves its   *)
(* bounds, so that no permit is given back twice or lost (http.py 178-202).*)
(***************************************************************************)
THEOREM HTTPTypeCorrect == Spec => []TypeOK
<1>1. HInv /\ Form => TypeOK
  <2> SUFFICES ASSUME HInv, Form PROVE TypeOK
    OBVIOUS
  <2>1. permits \in 0 .. MaxConcurrent
    BY SendingFinite, ClientAssumption DEF HInv, CInv, Account
  <2>2. /\ at \in [Getters -> At] /\ error \in [Getters -> Errors]
        /\ hops \in [Getters -> 0 .. MaxRedirects + 1] /\ left \in [Getters -> Seq(Addresses)]
    <3>1. /\ at = [h \in Getters |-> at[h]] /\ error = [h \in Getters |-> error[h]]
          /\ hops = [h \in Getters |-> hops[h]] /\ left = [h \in Getters |-> left[h]]
      BY DEF HInv, CInv, Domains, Form, IsFunction
    <3>2. \A h \in Getters : Typed(h)
      BY DEF HInv, CInv, Sound
    <3> QED BY <3>1, <3>2 DEF Typed
  <2> QED BY <2>1, <2>2 DEF HInv, CInv, Account, StageTyped, TypeOK, ClientTypeOK
<1> QED BY <1>1, SpecHInv, SpecForm, PTL

(***************************************************************************)
(* A request travels on a connection of its own scheme, host, port and     *)
(* address: the transports' key says all four (http.py 41-62).             *)
(***************************************************************************)
THEOREM IdentityIsKept == Spec => []IdentityKept
<1>1. HInv => IdentityKept
  <2> SUFFICES ASSUME HInv, NEW g \in Getters, at[g] = "sending"
               PROVE  /\ wire[g].scheme = url[g].scheme /\ wire[g].host = url[g].host
                      /\ wire[g].port = url[g].port /\ wire[g].address = Head(left[g])
    BY DEF IdentityKept
  <2>1. Whole(wire[g]) /\ wire[g].key = TransportKey(url[g], Head(left[g]))
    BY DEF HInv, CInv, Sound
  <2> QED BY <2>1 DEF Whole, TransportKey
<1> QED BY <1>1, SpecHInv, PTL

\* What the code has decided of a request that is on its way.
ContactPermitted ==
  \A g \in Getters : at[g] = "sending" =>
    /\ Permitted(url[g])
    /\ AuthorizeResolvedAddress(scope, wire[g].address)
    /\ \E j \in DOMAIN resolved[g] : wire[g].address = resolved[g][j]

(***************************************************************************)
(* Whatever is redirected, answered or cancelled, a request on its way has *)
(* been authorized for the very URL and address it goes to, and the        *)
(* address is one of those its own hop resolved (http.py 106-114, 228-246).*)
(* That the engine's decision is the right one: ContactsAreAuthorized.     *)
(***************************************************************************)
THEOREM ContactsArePermitted == Spec => []ContactPermitted
<1>1. HInv => ContactPermitted
  <2> SUFFICES ASSUME HInv, NEW g \in Getters, at[g] = "sending"
               PROVE  /\ Permitted(url[g])
                      /\ AuthorizeResolvedAddress(scope, wire[g].address)
                      /\ \E j \in DOMAIN resolved[g] : wire[g].address = resolved[g][j]
    BY DEF ContactPermitted
  <2>1. Permitted(url[g]) /\ Checked(g) /\ left[g] \in Seq(Addresses)
    BY DEF HInv, CInv, Sound, Busy, Typed
  <2>2. wire[g].address = Head(left[g])
    <3>1. Whole(wire[g]) /\ wire[g].key = TransportKey(url[g], Head(left[g]))
      BY DEF HInv, CInv, Sound
    <3> QED BY <3>1 DEF Whole, TransportKey
  <2>3. Head(left[g]) = left[g][1] /\ 1 \in DOMAIN left[g]
    BY <2>1, Shorter DEF Checked
  <2>4. PICK j \in DOMAIN resolved[g] : left[g][1] = resolved[g][j]
    BY <2>1, <2>3 DEF Checked
  <2> QED BY <2>1, <2>2, <2>3, <2>4 DEF Checked
<1> QED BY <1>1, SpecHInv, PTL
-----------------------------------------------------------------------------
(* What a decision of the scope engine means, label by label.              *)

\* A name the engine can address is usable, is compared in its canonical
\* form, and is compared in it once more when it is matched.
LEMMA AddressableName ==
  ASSUME NEW h, h.kind = "name", h.labels \in Seq(Labels), NEW allow,
         Addressable(NormalizeTarget(h), allow)
  PROVE  /\ Usable(h)
         /\ NormalizeTarget(h) = Name(Canonical(h))
         /\ NormalizeTarget(NormalizeTarget(h)) = NormalizeTarget(h)
<1> DEFINE n == Len(h.labels)
           kept == IF n > 1 /\ h.labels[n] = Empty THEN n - 1 ELSE n
           folded == [i \in 1 .. kept |-> Fold[h.labels[i]]]
           Unusable == Forbidden \cup {Empty}
<1>1. n \in Nat /\ DOMAIN h.labels = 1 .. n /\ \A i \in 1 .. n : h.labels[i] \in Labels
  OBVIOUS
<1>2. NormalizeTarget(h) = Name(folded)
  BY DEF NormalizeTarget
<1>3. folded # <<>> /\ \A i \in 1 .. kept : Fold[h.labels[i]] \notin Unusable
  <2>1. NormalizeTarget(h).kind = "name" /\ NormalizeTarget(h).labels = folded
    BY <1>2 DEF Name
  <2>2. folded # <<>> /\ \A i \in DOMAIN folded : folded[i] \notin Unusable
    BY <2>1 DEF Addressable
  <2> QED BY <2>2
<1>4. \A i \in 1 .. kept : h.labels[i] \notin Unusable
  BY <1>1, <1>3, ScopeAssumption
<1>5. kept \in 1 .. n
  <2>1. kept \in 0 .. n
    BY <1>1
  <2>2. kept # 0
    BY <1>3, <2>1
  <2> QED BY <1>1, <2>1, <2>2
<1>6. \A i \in 1 .. n : i \in 1 .. kept \/ (i = n /\ h.labels[i] = Empty)
  BY <1>1
<1>7. {k \in 1 .. n : h.labels[k] # Empty} = 1 .. kept
  BY <1>1, <1>4, <1>5, <1>6
<1>8. Canonical(h) = folded
  BY <1>1, <1>7 DEF Canonical
<1>9. Usable(h)
  BY <1>1, <1>4, <1>5, <1>6 DEF Usable
<1>10. NormalizeTarget(Name(folded)) = Name(folded)
  <2>1. Len(folded) = kept /\ DOMAIN folded = 1 .. kept /\ folded[kept] # Empty
    BY <1>1, <1>3, <1>5
  <2>2. \A i \in 1 .. kept : Fold[folded[i]] = folded[i]
    BY <1>1, <1>5, ScopeAssumption
  <2>3. [i \in 1 .. kept |-> Fold[folded[i]]] = folded
    BY <2>2
  <2> HIDE DEF folded, kept
  <2> QED BY <2>1, <2>3 DEF NormalizeTarget, Name
<1> QED BY <1>2, <1>8, <1>9, <1>10

\* A usable pattern is not malformed to the engine.
LEMMA UsablePattern ==
  ASSUME NEW h, h.kind = "name", h.labels \in Seq(Labels), Usable(h)
  PROVE  Addressable(NormalizeTarget(h), TRUE)
<1> DEFINE n == Len(h.labels)
           kept == IF n > 1 /\ h.labels[n] = Empty THEN n - 1 ELSE n
           folded == [i \in 1 .. kept |-> Fold[h.labels[i]]]
<1>1. n \in Nat \ {0} /\ DOMAIN h.labels = 1 .. n /\ \A i \in 1 .. n : h.labels[i] \in Labels
  BY DEF Usable
<1>2. kept \in 1 .. n
  BY <1>1
<1>3. \A i \in 1 .. kept : h.labels[i] \notin Forbidden \cup {Empty}
  BY <1>1 DEF Usable
<1>4. \A i \in 1 .. kept : Fold[h.labels[i]] \notin Forbidden \cup {Empty}
  BY <1>1, <1>2, <1>3, ScopeAssumption
<1>5. NormalizeTarget(h) = Name(folded)
  BY DEF NormalizeTarget
<1>6. folded # <<>>
  BY <1>2
<1> QED BY <1>4, <1>5, <1>6 DEF Addressable, Name

LEMMA MatchMeans ==
  ASSUME NEW h, h.kind = "name", NormalizeTarget(h) = Name(Canonical(h)),
         NEW p, WellFormed(p)
  PROVE  MatchesOne(h, p) <=> (p.kind = "name" /\ Usable(p) /\ Under(h, p))
<1>1. NormalizeTarget(h).kind = "name" /\ NormalizeTarget(h).labels = Canonical(h)
  BY DEF Name
<1>2. MatchesOne(h, p) <=> /\ Addressable(NormalizeTarget(p), TRUE)
                           /\ NormalizeTarget(p).kind = "name"
                           /\ Below(Canonical(h), NormalizeTarget(p).labels)
  BY <1>1 DEF MatchesOne
<1>3. CASE p.kind # "name"
  BY <1>2, <1>3 DEF NormalizeTarget
<1>4. CASE p.kind = "name"
  <2>1. p.labels \in Seq(Labels)
    BY <1>4 DEF WellFormed
  <2>2. CASE Addressable(NormalizeTarget(p), TRUE)
    <3>1. Usable(p) /\ NormalizeTarget(p) = Name(Canonical(p))
      BY <1>4, <2>1, <2>2, AddressableName
    <3>2. NormalizeTarget(p).kind = "name" /\ NormalizeTarget(p).labels = Canonical(p)
      BY <3>1 DEF Name
    <3> QED BY <1>2, <1>4, <2>2, <3>1, <3>2 DEF Under
  <2>3. CASE ~Addressable(NormalizeTarget(p), TRUE)
    BY <1>2, <1>4, <2>1, <2>3, UsablePattern
  <2> QED BY <2>2, <2>3
<1> QED BY <1>3, <1>4

LEMMA AuthorizeMeans ==
  ASSUME NEW s \in Scopes, NEW h, h.kind = "name", WellFormed(h), NEW port, Authorize(s, h, port)
  PROVE  /\ Usable(h)
         /\ \E z \in Zones(s.targets) : Under(h, z)
         /\ ~\E z \in Zones(s.excluded) : Under(h, z)
<1> DEFINE t == NormalizeTarget(h)
<1>1. Addressable(t, FALSE) /\ ~MatchesAny(t, s.excluded) /\ MatchesAny(t, s.targets)
  BY DEF Authorize
<1>2. Usable(h) /\ t = Name(Canonical(h)) /\ NormalizeTarget(t) = t
  BY <1>1, AddressableName DEF WellFormed
<1>3. \A p : MatchesOne(t, p) <=> MatchesOne(h, p)
  BY <1>2 DEF MatchesOne
<1>4. \A p \in s.targets \cup s.excluded :
        MatchesOne(t, p) <=> (p.kind = "name" /\ Usable(p) /\ Under(h, p))
  BY <1>2, <1>3, MatchMeans, ClientAssumption
<1> QED BY <1>1, <1>2, <1>4 DEF MatchesAny, Zones

\* The hop a coroutine works on goes to the target or follows a redirect.
HopKnown == \A g \in Getters : url[g] = NoURL \/ url[g].host = Target \/ url[g] \in Locations

LEMMA HopKnownNext ==
  ASSUME HInv, HopKnown, [Next]_vars
  PROVE  HopKnown'
<1>0. DOMAIN url = Getters
  BY DEF HInv, CInv, Domains
<1>1. url' = url => HopKnown'
  BY DEF HopKnown
<1>2. ASSUME NEW g, NEW u, Hop(g, u), u.host = Target \/ u \in Locations PROVE HopKnown'
  <2>1. url' = url \/ url' = [url EXCEPT ![g] = u]
    BY <1>2 DEF Hop
  <2> QED BY <1>0, <1>1, <1>2, <2>1 DEF HopKnown
<1>3. ASSUME NEW o, Get(o, URL(o)) PROVE HopKnown'
  BY <1>2, <1>3 DEF Get, URL
<1>4. ASSUME NEW o, Progress(o) \/ ClosedClient(o) PROVE HopKnown'
  <2>1. ASSUME NEW kept, Redirected(o, kept) PROVE HopKnown'
    BY <1>1, <1>2, <2>1 DEF Redirected
  <2>2. CASE ClosedClient(o) \/ ResolveFails(o) \/ Acquire(o) \/ Denied(o) \/ Unanswered(o) \/ Breaks(o)
    BY <1>1, <2>2 DEF ClosedClient, ResolveFails, Acquire, Denied, Unanswered, Breaks, hop
  <2>3. ASSUME NEW addresses, Resolve(o, addresses) PROVE HopKnown'
    BY <1>1, <2>3 DEF Resolve
  <2>4. ASSUME NEW kept, Answered(o, kept) PROVE HopKnown'
    BY <1>1, <2>4 DEF Answered, hop
  <2> QED BY <1>4, <2>1, <2>2, <2>3, <2>4 DEF Progress
<1>5. ASSUME NEW o, ProbeDeadline(o) \/ UnwindProbe(o) PROVE HopKnown'
  BY <1>1, <1>5 DEF ProbeDeadline, UnwindProbe, hop
<1>6. CASE Gathered \/ GatherRaises \/ CancelStage \/ KeepSettled \/ Close \/ UNCHANGED vars
  BY <1>1, <1>6 DEF Gathered, GatherRaises, CancelStage, KeepSettled, Close, vars, clientVars, hop
<1> QED BY <1>3, <1>4, <1>5, <1>6 DEF Next, Probe, ProbeAlone, Progress

LEMMA SpecHopKnown == Spec => []HopKnown
<1>1. Init => HopKnown
  BY DEF Init, ClientInit, HopKnown
<1> QED BY <1>1, HopKnownNext, SpecHInv, PTL DEF Spec

(***************************************************************************)
(* For any scope, spelling of names, redirects, answers of the resolver    *)
(* and cancellations, a request that is sent goes to a usable name inside  *)
(* the scope and outside its exclusions, to an allowed port, and to an     *)
(* allowed address that its own hop resolved (http.py 106-114 and 228-246, *)
(* engine.py 72-158).                                                      *)
(***************************************************************************)
THEOREM ContactsAreAuthorized == Spec => []OnlyAuthorizedContacts
<1>1. HInv /\ HopKnown /\ ContactPermitted => OnlyAuthorizedContacts
  <2> SUFFICES ASSUME HInv, HopKnown, ContactPermitted, NEW g \in Getters, at[g] = "sending"
               PROVE
                 LET host == url[g].host IN
                 /\ host.kind = "name" =>
                      /\ Usable(host)
                      /\ \E z \in Zones(scope.targets) : Under(host, z)
                      /\ ~\E z \in Zones(scope.excluded) : Under(host, z)
                 /\ scope.ports # {} => url[g].port \in scope.ports
                 /\ wire[g].address \notin Unsafe \/ scope.allow_private_addresses
                 /\ \E j \in DOMAIN resolved[g] : wire[g].address = resolved[g][j]
    BY DEF OnlyAuthorizedContacts
  <2>1. /\ Permitted(url[g]) /\ AuthorizeResolvedAddress(scope, wire[g].address)
        /\ \E j \in DOMAIN resolved[g] : wire[g].address = resolved[g][j]
    BY DEF ContactPermitted
  <2>2. Authorize(scope, url[g].host, url[g].port) /\ url[g] # NoURL /\ scope \in Scopes
    BY <2>1 DEF Permitted, NoURL, HInv, CInv
  <2>3. WellFormed(url[g].host)
    BY <2>2, ClientAssumption, StageAssumption DEF HopKnown
  <2>4. url[g].host.kind = "name" =>
          /\ Usable(url[g].host)
          /\ \E z \in Zones(scope.targets) : Under(url[g].host, z)
          /\ ~\E z \in Zones(scope.excluded) : Under(url[g].host, z)
    BY <2>2, <2>3, AuthorizeMeans
  <2>5. scope.ports # {} => url[g].port \in scope.ports
    BY <2>2 DEF Authorize
  <2>6. wire[g].address \notin Unsafe \/ scope.allow_private_addresses
    BY <2>1 DEF AuthorizeResolvedAddress
  <2> QED BY <2>1, <2>4, <2>5, <2>6
<1> QED BY <1>1, SpecHInv, SpecHopKnown, ContactsArePermitted, PTL
-----------------------------------------------------------------------------
(* The result of the stage.                                                *)

\* There is an origin for every list of ports.
LEMMA OriginsListed ==
  ASSUME NEW s \in Scopes
  PROVE  \E n \in Nat \ {0} : DOMAIN OriginsOf[s] = 1 .. n
<1> DEFINE effective == IF s.ports = {} THEN DefaultProbePorts ELSE s.ports
           some == {q \in effective : Len(SchemesForPort(q)) = 2}
           first == {2 * p : p \in effective}
           second == {2 * p + 1 : p \in some}
           places == Sorted(first \cup second)
<1>1. effective \subseteq Nat /\ IsFiniteSet(effective) /\ effective # {}
  <2>1. {80, 443} \subseteq Nat /\ IsFiniteSet({80, 443}) /\ {80, 443} # {}
    <3>1. IsFiniteSet({80} \cup {443})
      <4>1. IsFiniteSet({80})
        BY FS_Singleton
      <4> QED BY <4>1, FS_AddElement
    <3>2. {80} \cup {443} = {80, 443}
      OBVIOUS
    <3> QED BY <3>1, <3>2
  <2> QED BY <2>1, StageAssumption DEF DefaultProbePorts
<1>2. IsFiniteSet(first) /\ first \subseteq Nat /\ first # {}
  <2> DEFINE f == [p \in effective |-> 2 * p]
  <2> HIDE DEF effective
  <2>1. first = {f[p] : p \in effective} /\ DOMAIN f = effective /\ f = [p \in effective |-> f[p]]
    OBVIOUS
  <2>2. first \subseteq Nat /\ first # {}
    <3>1. PICK p \in effective : TRUE
      BY <1>1
    <3>2. 2 * p \in first
      OBVIOUS
    <3>3. \A q \in effective : 2 * q \in Nat
      BY <1>1
    <3> QED BY <3>2, <3>3
  <2> HIDE DEF f, first
  <2> QED BY <1>1, <2>1, <2>2, ImageFinite
<1>3. IsFiniteSet(second) /\ second \subseteq Nat
  <2> DEFINE f == [p \in some |-> 2 * p + 1]
  <2>0. IsFiniteSet(some) /\ some \subseteq Nat
    <3>1. some \in SUBSET effective
      OBVIOUS
    <3> HIDE DEF some, effective
    <3> QED BY <1>1, <3>1, FS_Subset
  <2> HIDE DEF some
  <2>1. second = {f[p] : p \in some} /\ DOMAIN f = some /\ f = [p \in some |-> f[p]]
    OBVIOUS
  <2>2. second \subseteq Nat
    BY <2>0
  <2> HIDE DEF f, second
  <2> QED BY <2>0, <2>1, <2>2, ImageFinite
<1>4. OriginsOf[s] = ProbeTargets(s.ports) /\ DOMAIN ProbeTargets(s.ports) = DOMAIN places
  BY DEF OriginsOf, ProbeTargets
<1> HIDE DEF first, second, effective, some
<1>5. IsFiniteSet(first \cup second) /\ first \cup second \subseteq Nat /\ first \cup second # {}
  BY <1>2, <1>3, FS_Union
<1>6. /\ Cardinality(first \cup second) \in Nat
      /\ places \in [1 .. Cardinality(first \cup second) -> first \cup second]
  BY <1>5, SortedList
<1>7. Cardinality(first \cup second) # 0
  BY <1>5, FS_EmptySet
<1> QED BY <1>4, <1>6, <1>7

\* Of the discoveries with one key the last is kept.
LEMMA KeyKept ==
  ASSUME scope \in Scopes, NEW o \in Tasks, Settled(o)
  PROVE  \E d \in Unique : Key(d) = Key(Discovery(o))
<1> DEFINE settled == {i \in DOMAIN Origins : Settled(Origins[i])}
           Same == {j \in settled : Key(Discovery(Origins[j])) = Key(Discovery(o))}
<1>1. PICK n \in Nat : DOMAIN Origins = 1 .. n
  BY OriginsListed DEF Origins
<1>2. PICK i \in DOMAIN Origins : Origins[i] = o
  BY DEF Tasks
<1>3. i \in Same /\ Same \subseteq 1 .. n
  BY <1>1, <1>2
<1>4. PICK m \in Same : \A k \in Same : k <= m
  <2> HIDE DEF Same
  <2> QED BY <1>3, Greatest
<1>5. m \in settled /\ Key(Discovery(Origins[m])) = Key(Discovery(o))
  BY <1>4
<1>6. ~\E j \in settled : j > m /\ Key(Discovery(Origins[j])) = Key(Discovery(Origins[m]))
  <2> SUFFICES ASSUME NEW j \in settled, j > m,
                      Key(Discovery(Origins[j])) = Key(Discovery(Origins[m]))
               PROVE  FALSE
    OBVIOUS
  <2>1. j \in Same
    BY <1>5
  <2>2. j <= m /\ j \in Nat /\ m \in Nat
    BY <1>1, <1>3, <1>4, <2>1
  <2> QED BY <2>2
<1>7. Discovery(Origins[m]) \in Unique
  BY <1>5, <1>6, Zenon DEF Unique
<1> QED BY <1>5, <1>7

\* The last request of a coroutine is what it asked for; what it was
\* answered is an answer to that.
Told(h) ==
  /\ at[h] = "sending" => contact[h] = [url |-> url[h], address |-> Head(left[h])]
  /\ at[h] = "returned" => /\ answer[h] = contact[h]
                           /\ \E u, a : contact[h] = [url |-> u, address |-> a]

Telling ==
  /\ DOMAIN answer = Getters /\ DOMAIN contact = Getters
  /\ \A h \in Getters : Told(h)

\* One coroutine takes a step that neither starts nor answers a request.
LEMMA MovesOn ==
  ASSUME Telling, Domains, NEW g \in Getters, NEW x,
         at' = [at EXCEPT ![g] = x], x \notin {"sending", "returned"},
         url' = url \/ \E u : url' = [url EXCEPT ![g] = u],
         left' = left \/ \E l : left' = [left EXCEPT ![g] = l],
         answer' = answer, contact' = contact
  PROVE  Telling'
<1>1. ASSUME NEW h \in Getters PROVE Told(h)'
  <2>1. CASE h = g
    BY <2>1 DEF Told, Domains
  <2>2. CASE h # g
    <3>1. at'[h] = at[h] /\ url'[h] = url[h] /\ left'[h] = left[h]
      BY <2>2 DEF Domains
    <3> QED BY <3>1 DEF Told, Telling
  <2> QED BY <2>1, <2>2
<1> QED BY <1>1 DEF Telling

LEMMA HopMovesOn ==
  ASSUME NEW g, NEW u, Hop(g, u)
  PROVE  /\ \E x \in {"raised", "resolving"} : at' = [at EXCEPT ![g] = x]
         /\ url' = url \/ url' = [url EXCEPT ![g] = u]
BY DEF Hop, Raise

LEMMA TellingNext ==
  ASSUME HInv, Telling, [Next]_vars
  PROVE  Telling'
<1>0. Domains /\ Tasks \subseteq Getters
  BY TasksGet DEF HInv, CInv
<1>1. ASSUME NEW g \in Getters, NEW u, Get(g, u) PROVE Telling'
  BY <1>0, <1>1, HopMovesOn, MovesOn DEF Get
<1>2. ASSUME NEW g \in Getters, NEW addresses, Resolve(g, addresses) PROVE Telling'
  <2>1. /\ \E x \in {"raised", "acquiring"} : at' = [at EXCEPT ![g] = x]
        /\ url' = url /\ answer' = answer /\ contact' = contact
        /\ left' = left \/ left' = [left EXCEPT ![g] = addresses]
    BY <1>2 DEF Resolve, Raise
  <2> QED BY <1>0, <2>1, MovesOn
<1>3. ASSUME NEW g \in Getters, ResolveFails(g) \/ Denied(g) \/ ClosedClient(g) \/ Breaks(g)
      PROVE  Telling'
  <2>1. /\ at' = [at EXCEPT ![g] = "raised"] /\ url' = url /\ left' = left
        /\ answer' = answer /\ contact' = contact
    BY <1>3 DEF ResolveFails, Denied, ClosedClient, Breaks, Raise, hop
  <2> QED BY <1>0, <2>1, MovesOn
<1>4. ASSUME NEW g \in Getters, Unanswered(g) PROVE Telling'
  <2>1. /\ \E x \in {"raised", "acquiring"} : at' = [at EXCEPT ![g] = x]
        /\ url' = url /\ left' = [left EXCEPT ![g] = Tail(@)]
        /\ answer' = answer /\ contact' = contact
    BY <1>4 DEF Unanswered, Raise
  <2> QED BY <1>0, <2>1, MovesOn
<1>5. ASSUME NEW g \in Getters, NEW kept, Redirected(g, kept) PROVE Telling'
  <2>1. /\ \E x \in {"raised", "resolving"} : at' = [at EXCEPT ![g] = x]
        /\ url' = url \/ \E u : url' = [url EXCEPT ![g] = u]
        /\ left' = left /\ answer' = answer /\ contact' = contact
    BY <1>5, HopMovesOn DEF Redirected, Raise
  <2> QED BY <1>0, <2>1, MovesOn
<1>6. ASSUME NEW g \in Getters, CancelGet(g), UNCHANGED <<hop, answer, contact>> PROVE Telling'
  <2>1. /\ at' = [at EXCEPT ![g] = "cancelled"] /\ url' = url /\ left' = left
        /\ answer' = answer /\ contact' = contact
    BY <1>6 DEF CancelGet, hop
  <2> QED BY <1>0, <2>1, MovesOn
<1>7. ASSUME NEW g \in Getters, Acquire(g) PROVE Telling'
  <2>1. /\ at' = [at EXCEPT ![g] = "sending"] /\ url' = url /\ left' = left /\ answer' = answer
        /\ contact' = [contact EXCEPT ![g] = [url |-> url[g], address |-> Head(left[g])]]
    BY <1>7 DEF Acquire, hop
  <2>2. ASSUME NEW h \in Getters PROVE Told(h)'
    <3>1. CASE h = g
      BY <1>0, <2>1, <3>1 DEF Told, Telling, Domains
    <3>2. CASE h # g
      <4>1. at'[h] = at[h] /\ contact'[h] = contact[h]
        BY <1>0, <2>1, <3>2 DEF Telling, Domains
      <4> QED BY <2>1, <4>1 DEF Told, Telling
    <3> QED BY <3>1, <3>2
  <2> QED BY <2>1, <2>2 DEF Telling
<1>8. ASSUME NEW g \in Getters, NEW kept, Answered(g, kept) PROVE Telling'
  <2>1. /\ at[g] = "sending" /\ at' = [at EXCEPT ![g] = "returned"]
        /\ url' = url /\ left' = left /\ contact' = contact
        /\ answer' = [answer EXCEPT ![g] = [url |-> url[g], address |-> Head(left[g])]]
    BY <1>8 DEF Answered, hop
  <2>2. ASSUME NEW h \in Getters PROVE Told(h)'
    <3>1. CASE h = g
      BY <1>0, <2>1, <3>1 DEF Told, Telling, Domains
    <3>2. CASE h # g
      <4>1. at'[h] = at[h] /\ answer'[h] = answer[h]
        BY <1>0, <2>1, <3>2 DEF Telling, Domains
      <4> QED BY <2>1, <4>1 DEF Told, Telling
    <3> QED BY <3>1, <3>2
  <2> QED BY <2>1, <2>2 DEF Telling
<1>9. ASSUME UNCHANGED <<at, hop, answer, contact>> PROVE Telling'
  BY <1>9 DEF Telling, Told, hop
<1>10. ASSUME NEW o \in Tasks, Probe(o) \/ ProbeAlone(o) PROVE Telling'
  BY <1>0, <1>1, <1>2, <1>3, <1>4, <1>5, <1>7, <1>8, <1>10 DEF Probe, ProbeAlone, Progress
<1>11. ASSUME NEW o \in Tasks, ProbeDeadline(o) \/ UnwindProbe(o) PROVE Telling'
  BY <1>0, <1>6, <1>11 DEF ProbeDeadline, UnwindProbe
<1>12. CASE Gathered \/ GatherRaises \/ CancelStage \/ KeepSettled \/ Close \/ UNCHANGED vars
  BY <1>9, <1>12 DEF Gathered, GatherRaises, CancelStage, KeepSettled, Close, vars, clientVars, hop
<1> QED BY <1>10, <1>11, <1>12 DEF Next

\* What is kept of the origins, and whether the stage was cancelled before.
Kept ==
  /\ stage = "probing" => cancels = 0
  /\ stage = "unwinding" => cancels = 1
  /\ stage \in {"probing", "unwinding", "raised"} => found = {}
  /\ stage \in {"closing", "returned"} => found = Unique /\ \E o \in Tasks : Settled(o)
  /\ stage = "cancelled" /\ cancels = 1 /\ found = {} => \A o \in Tasks : ~Settled(o)

Traced ==
  \A d \in found : d.kind = "http_probe" =>
    \E o \in Tasks : contact[o] = [url |-> d.url, address |-> d.address]

LEMMA SomethingKept ==
  ASSUME scope \in Scopes, \E o \in Tasks : Settled(o) PROVE Unique # {}
BY KeyKept

LEMMA UniqueTraced ==
  ASSUME HInv, Telling, NEW d \in Unique, d.kind = "http_probe"
  PROVE  \E o \in Tasks : contact[o] = [url |-> d.url, address |-> d.address]
<1>1. PICK i \in DOMAIN Origins : d = Discovery(Origins[i])
  BY DEF Unique
<1> DEFINE o == Origins[i]
<1>2. o \in Tasks /\ o \in Getters
  BY TasksGet DEF Tasks, HInv, CInv
<1>3. at[o] = "returned" /\ d.url = answer[o].url /\ d.address = answer[o].address
  BY <1>1 DEF Discovery
<1>4. answer[o] = contact[o] /\ \E u, a : contact[o] = [url |-> u, address |-> a]
  BY <1>2, <1>3 DEF Telling, Told
<1>5. contact[o] = [url |-> d.url, address |-> d.address]
  BY <1>3, <1>4
<1> QED BY <1>2, <1>5

LEMMA SameResult ==
  ASSUME UNCHANGED <<scope, at, answer, error, overdue>>
  PROVE  Unique' = Unique /\ Tasks' = Tasks /\ \A o : Settled(o)' = Settled(o)
<1>1. Origins' = Origins /\ Tasks' = Tasks /\ \A o : Settled(o)' = Settled(o)
  BY DEF Origins, Tasks, Settled
<1>2. \A o : Discovery(o)' = Discovery(o)
  BY DEF Discovery, URL
<1> QED BY <1>1, <1>2 DEF Unique, Key

LEMMA KeptNext ==
  ASSUME HInv, Telling, Kept, Traced, [Next]_vars
  PROVE  Kept' /\ Traced'
<1>0. /\ scope \in Scopes /\ cancels \in Nat /\ Tasks \subseteq Getters /\ DOMAIN at = Getters
  BY StageAssumption, TasksGet DEF HInv, CInv, StageTyped, Domains
<1>1. ASSUME NEW o \in Tasks, Probe(o) \/ ProbeAlone(o) \/ ProbeDeadline(o) PROVE Kept' /\ Traced'
  <2>1. /\ stage \in {"probing", "raised"} /\ stage' = stage /\ cancels' = cancels /\ found' = found
    BY <1>1 DEF Probe, ProbeAlone, ProbeDeadline
  <2> QED BY <2>1 DEF Kept, Traced
<1>2. ASSUME NEW o \in Tasks, UnwindProbe(o) PROVE Kept' /\ Traced'
  <2>1. /\ stage \in {"unwinding", "cancelled"} /\ Unfinished(o) /\ at' = [at EXCEPT ![o] = "cancelled"]
        /\ UNCHANGED <<scope, error, contact, stage, overdue, cancels, found>>
    BY <1>2 DEF UnwindProbe, CancelGet
  <2>2. Tasks' = Tasks
    BY <2>1 DEF Tasks, Origins
  <2>3. ASSUME NEW p \in Tasks, ~Settled(p) PROVE ~Settled(p)'
    BY <1>0, <2>1, <2>3 DEF Settled
  <2> QED BY <2>1, <2>2, <2>3 DEF Kept, Traced
<1>3. CASE Gathered \/ (KeepSettled /\ \E o \in Tasks : Settled(o))
  <2>1. \E o \in Tasks : Settled(o)
    <3>1. CASE Gathered
      <4>1. \E n \in Nat \ {0} : DOMAIN Origins = 1 .. n
        BY <1>0, OriginsListed DEF Origins
      <4>2. 1 \in DOMAIN Origins
        BY <4>1
      <4>3. Origins[1] \in Tasks
        BY <4>2 DEF Tasks
      <4> QED BY <3>1, <4>3 DEF Gathered
    <3> QED BY <1>3, <3>1
  <2>2. stage' = "closing" /\ found' = Unique /\ UNCHANGED <<scope, at, answer, error, overdue, contact>>
    BY <1>3 DEF Gathered, KeepSettled, clientVars
  <2>3. Unique' = Unique /\ Tasks' = Tasks /\ \A o : Settled(o)' = Settled(o)
    BY <2>2, SameResult
  <2>4. Kept'
    BY <2>1, <2>2, <2>3 DEF Kept
  <2>5. Traced'
    BY <2>2, <2>3, UniqueTraced DEF Traced
  <2> QED BY <2>4, <2>5
<1>4. CASE KeepSettled /\ ~\E o \in Tasks : Settled(o)
  <2>1. stage' = "cancelled" /\ UNCHANGED <<scope, at, answer, error, overdue, contact, found>>
    BY <1>4 DEF KeepSettled, clientVars
  <2>2. Tasks' = Tasks /\ \A o : Settled(o)' = Settled(o)
    BY <2>1, SameResult
  <2> QED BY <1>4, <2>1, <2>2 DEF Kept, Traced
<1>5. CASE CancelStage
  <2>1. cancels' = cancels + 1 /\ UNCHANGED <<scope, at, answer, error, overdue, contact, found>>
    BY <1>5 DEF CancelStage, clientVars
  <2>2. Tasks' = Tasks /\ Unique' = Unique
    BY <2>1, SameResult
  <2>3. Traced'
    BY <2>1, <2>2 DEF Traced
  <2>4. CASE stage = "probing" /\ stage' = "unwinding"
    BY <2>1, <2>3, <2>4 DEF Kept
  <2>5. CASE stage = "unwinding" /\ stage' = "cancelled"
    BY <2>1, <2>3, <2>5 DEF Kept
  <2>6. CASE stage = "closing" /\ stage' = "cancelled"
    <3>1. found # {}
      BY <1>0, <2>6, SomethingKept DEF Kept
    <3> QED BY <2>1, <2>3, <2>6, <3>1 DEF Kept
  <2> QED BY <1>5, <2>4, <2>5, <2>6 DEF CancelStage
<1>6. CASE Close
  <2>1. /\ stage = "closing" /\ stage' = "returned"
        /\ UNCHANGED <<scope, at, answer, error, overdue, contact, cancels, found>>
    BY <1>6 DEF Close
  <2>2. Unique' = Unique /\ Tasks' = Tasks /\ \A o : Settled(o)' = Settled(o)
    BY <2>1, SameResult
  <2> QED BY <2>1, <2>2 DEF Kept, Traced
<1>7. CASE GatherRaises
  <2>1. stage = "probing" /\ stage' = "raised" /\ found' = found
    BY <1>7 DEF GatherRaises
  <2> QED BY <2>1 DEF Kept, Traced
<1>8. CASE UNCHANGED vars
  <2>1. UNCHANGED <<scope, at, answer, error, overdue, contact, stage, cancels, found>>
    BY <1>8 DEF vars, clientVars
  <2>2. Unique' = Unique /\ Tasks' = Tasks /\ \A o : Settled(o)' = Settled(o)
    BY <2>1, SameResult
  <2> QED BY <2>1, <2>2 DEF Kept, Traced
<1> QED BY <1>1, <1>2, <1>3, <1>4, <1>5, <1>6, <1>7, <1>8 DEF Next

LEMMA SpecKept == Spec => [](Telling /\ Kept /\ Traced)
<1>1. Init => Telling /\ Kept /\ Traced
  BY DEF Init, ClientInit, Telling, Told, Kept, Traced
<1>2. HInv /\ Telling /\ Kept /\ Traced /\ [Next]_vars => (Telling /\ Kept /\ Traced)'
  BY TellingNext, KeptNext
<1> QED BY <1>1, <1>2, SpecHInv, PTL DEF Spec

(***************************************************************************)
(* No answer is lost or made up, for any origins, redirects, errors and    *)
(* cancellations: a stage that returns has every origin that answered, one *)
(* that is cancelled once had nothing to return, and what is reported was  *)
(* asked for (http_plugin.py 158-202, http.py 124).                        *)
(***************************************************************************)
THEOREM AnswersAreKept == Spec => []AnswersKept
<1>1. HInv /\ Telling /\ Kept /\ Traced => AnswersKept
  <2> SUFFICES ASSUME HInv, Telling, Kept, Traced PROVE AnswersKept
    OBVIOUS
  <2>0. scope \in Scopes
    BY DEF HInv, CInv
  <2>1. ASSUME stage = "returned" PROVE found # {}
    BY <2>0, <2>1, SomethingKept DEF Kept
  <2>2. ASSUME stage = "returned", NEW o \in Tasks, at[o] = "returned"
        PROVE  \E d \in found : d.kind = "http_probe" /\ d.url = answer[o].url
    <3>1. PICK d \in Unique : Key(d) = Key(Discovery(o))
      BY <2>0, <2>2, KeyKept DEF Settled
    <3>2. d.kind = Discovery(o).kind /\ d.url = Discovery(o).url
      BY <3>1 DEF Key
    <3>3. Discovery(o).kind = "http_probe" /\ Discovery(o).url = answer[o].url
      BY <2>2 DEF Discovery
    <3> QED BY <2>2, <3>1, <3>2, <3>3 DEF Kept
  <2> QED BY <2>1, <2>2 DEF AnswersKept, Kept, Traced
<1> QED BY <1>1, SpecHInv, SpecKept, PTL
=============================================================================
