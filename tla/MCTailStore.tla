--------------------------- MODULE MCTailStore ---------------------------
(* Small instances of TailStore for TLC: two traces of one shard, e1 and   *)
(* e2 events of t1, e3 an event of t2.                                     *)
EXTENDS TailStore

CONSTANTS t1, t2, e1, e2, e3, k1, k2, k3, w1, w2, s1

MCTraceOf == [e \in Envelopes |-> IF e = e3 THEN t2 ELSE t1]
MCShardOf == [t \in Traces |-> s1]

\* Every event has its own key.
MCKeyOf == [e \in Envelopes |-> IF e = e1 THEN k1 ELSE IF e = e2 THEN k2 ELSE k3]

\* The client reuses the event ID of e1 for e3, in another trace.
MCReusedKeyOf == [e \in Envelopes |-> IF e = e2 THEN k2 ELSE k1]

\* Helm names every tailer after its pod.
MCOwnerOf == [w \in Workers |-> w]
=============================================================================
