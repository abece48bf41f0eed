-------------------------- MODULE MCRequestLimiter --------------------------
(* A small instance of the limiter for TLC.                                *)
EXTENDS RequestLimiter

CONSTANTS t1, t2, t3
=============================================================================
