------------------------------ MODULE MCScanRun ------------------------------
(* Scans of three stages, one of each way to take a cancellation: an       *)
(* adapter, the http stage and a sweep such as directory-discovery.        *)
EXTENDS ScanRun

CONSTANTS history, http, sweep

MCListed == <<history, http, sweep>>
MCOnCancel == [s \in Stages |-> IF s = history THEN "raises"
                                ELSE IF s = http THEN "silent" ELSE "told"]

Depends(d, h, s) ==
  [p \in Stages |-> IF p = history THEN d ELSE IF p = http THEN h ELSE s]

\* A chain; against the order of the list; circular; unmet.
MCDepChoices ==
  {Depends({}, {history}, {http}), Depends({http}, {sweep}, {}),
   Depends({}, {sweep}, {http}), Depends({}, {"absent"}, {history})}
=============================================================================
