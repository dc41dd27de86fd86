----------------------------- MODULE MCGateway -----------------------------
(* Small instances of Gateway for TLC: traces t1 and t3 share a shard.      *)
EXTENDS Gateway

CONSTANTS r1, r2, r3, r4, t1, t2, t3, a, b, s1, s2

Span(t, s) == [signal |-> "span", trace |-> t, id |-> s]
Log(t, body) == [signal |-> "log", trace |-> t, id |-> <<>>, body |-> body]

\* A single event whose chosen event ID is the one of a span of t2.
Single == [signal |-> "ingest", trace |-> t3, id |-> <<t2, a>>]
Invalid == Span(t2, b)

MCPayload == [r \in Requests |->
    CASE r = r1 -> {Span(t1, a), Span(t2, a)}
      [] r = r2 -> {Span(t1, a), Span(t1, b), Span(t2, a), Span(t3, a), Span(t3, b)}
      [] r = r3 -> {Single}
      [] r = r4 -> {Span(t3, a), Invalid}]
MCEvents == UNION {MCPayload[r] : r \in Requests}
MCInvalidEvents == {Invalid}
MCShardOf == [t \in Traces |-> IF t = t2 THEN s2 ELSE s1]

\* Two clients send a log of the same span without a timestamp.
MCLogPayload == [r \in Requests |-> {Log(t1, r)}]
MCLogEvents == UNION {MCLogPayload[r] : r \in Requests}
=============================================================================
