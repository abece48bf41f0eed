------------------------------- MODULE Probes -------------------------------
(***************************************************************************)
(* sh4q/network/probes.py: the origins, pairs of scheme and port, that a   *)
(* stage contacts for a list of authorized ports.                          *)
(***************************************************************************)
EXTENDS Naturals, Sequences, Sorting

\* Lines 15-30, PORT_SCHEMES.
PlainPorts  == {80, 591, 3000, 5000, 8000, 8008, 8080, 8081, 8088, 8888}
SecurePorts == {443, 4443, 8443, 9443}

\* Line 34.
DefaultProbePorts == {80, 443}

\* Lines 37-38.
SchemesForPort(port) ==
  IF port \in PlainPorts THEN <<"http">>
  ELSE IF port \in SecurePorts THEN <<"https">>
  ELSE <<"https", "http">>

\* Lines 41-52: by port, those of one port in the order of its schemes.
ProbeTargets(ports) ==
  LET effective == IF ports = {} THEN DefaultProbePorts ELSE ports
      first     == {2 * p : p \in effective}
      second    == {2 * p + 1 : p \in {q \in effective : Len(SchemesForPort(q)) = 2}}
      places    == Sorted(first \cup second)
  IN  [k \in DOMAIN places |->
         LET p == places[k] \div 2 IN <<SchemesForPort(p)[(places[k] % 2) + 1], p>>]
=============================================================================
