---------------------------- MODULE MCHTTPStage ----------------------------
(* A host below the only target, redirects to it and to its siblings, one  *)
(* of which is excluded; two public addresses and a private one.           *)
EXTENDS HTTPStage

CONSTANTS example, EXAMPLE, com, app, old, internal, star, empty, a1, a2, lo

MCLabels == {example, EXAMPLE, com, app, old, internal, star, empty}
MCFold == [l \in MCLabels |-> IF l = EXAMPLE THEN example ELSE l]

Host(label) == Name(<<label, example, com>>)

MCTarget == Host(app)

MCScope == [targets |-> {Name(<<example, com>>)},
            excluded |-> {Name(<<internal, EXAMPLE, com, empty>>), Name(<<star, example, com>>)},
            ports |-> {80, 443},
            allow_private_addresses |-> FALSE]

MCScopes ==
  {MCScope,
   [MCScope EXCEPT !.ports = {9}, !.allow_private_addresses = TRUE]}

MCGetters == {<<"http", 80>>, <<"https", 443>>, <<"http", 9>>, <<"https", 9>>}

URLTo(scheme, host, port) == [scheme |-> scheme, host |-> host, port |-> port]

MCLocations ==
  {URLTo("https", Host(app), 443), URLTo("http", Host(old), 80),
   URLTo("http", Host(internal), 80), URLTo("https", Name(<<EXAMPLE, com>>), 443)}

MCAnswers == {<<a1>>, <<a1, a2>>, <<a2, lo>>}
=============================================================================
