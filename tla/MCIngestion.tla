----------------------------- MODULE MCIngestion -----------------------------
(* Small instances of Ingestion for TLC.  r1 and r2 are a batch and its retry, *)
(* r3 the next, longer batch of the same queue, r4 a request under the key of  *)
(* r1 with another body.                                                       *)
EXTENDS Ingestion

CONSTANTS r1, r2, r3, r4, k1, k2, a, b, c, x

Reading(s, v) == [sequence |-> s, value |-> v]
Keys   == [r \in Requests |-> IF r = r3 THEN k2 ELSE k1]
Bodies == [r \in Requests |->
  CASE r \in {r1, r2} -> <<Reading(1, a), Reading(2, b)>>
    [] r = r3 -> <<Reading(1, a), Reading(2, b), Reading(3, c)>>
    [] r = r4 -> <<Reading(1, a), Reading(2, x)>>]
=============================================================================
