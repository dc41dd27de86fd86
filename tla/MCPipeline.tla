----------------------------- MODULE MCPipeline -----------------------------
(* Small instances of Pipeline for TLC: two traces of one shard with one    *)
(* event each, e1 an error and e2 healthy and not sampled.                  *)
EXTENDS Pipeline

CONSTANTS t1, t2, e1, e2, k1, k2, w1, s1, p1

MCTraceOf == [e \in Envelopes |-> IF e = e1 THEN t1 ELSE t2]
MCKeyOf == [e \in Envelopes |-> IF e = e1 THEN k1 ELSE k2]
MCShardOf == [t \in Traces |-> s1]
MCOwnerOf == [w \in Workers |-> w]
MCPartitionOf == [e \in Envelopes |-> p1]
=============================================================================
