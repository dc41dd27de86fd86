SPECIFICATION FairSpec
CONSTANTS
    t1 = t1
    t2 = t2
    e1 = e1
    e2 = e2
    e3 = e3
    k1 = k1
    k2 = k2
    k3 = k3
    w1 = w1
    w2 = w2
    s1 = s1
    NoOwner = NoOwner
    NoTrace = NoTrace
    NoLease = NoLease
    Traces = {t1, t2}
    Envelopes = {e1, e2, e3}
    Keys = {k1, k2, k3}
    TraceOf <- MCTraceOf
    KeyOf <- MCKeyOf
    ShardOf <- MCShardOf
    ShardCap = 1
    MaxSpans = 2
    MaxBatch = 2
    ErrorSpans = {e2}
    SlowSpans = {}
    SampledTraces = {t2}
    Workers = {w1, w2}
    OwnerOf <- MCOwnerOf
    BatchSize = 2
    MaxFaults = 2
    MaxRetention = 0
    MaxDeletes = 0
INVARIANTS
    TypeOK
    BuffersCounted
    ActiveBound
    LeaseFresh
    PublishedInTopic
PROPERTIES
    TailDecisionExact
    TracesDecided
    MessagesPublished
