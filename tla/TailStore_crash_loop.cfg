SPECIFICATION FairSpec
CONSTANTS
    t1 = t1
    t2 = t2
    e1 = e1
    e2 = e2
    e3 = e3
    k1 = k1
    k2 = k2
    k3 = k3
    w1 = w1
    w2 = w2
    s1 = s1
    NoOwner = NoOwner
    NoTrace = NoTrace
    NoLease = NoLease
    Traces = {t1}
    Envelopes = {e1, e2}
    Keys = {k1, k2, k3}
    TraceOf <- MCTraceOf
    KeyOf <- MCKeyOf
    ShardOf <- MCShardOf
    ShardCap = 1
    MaxSpans = 2
    MaxBatch = 2
    ErrorSpans = {e2}
    SlowSpans = {}
    SampledTraces = {}
    Workers = {w1}
    OwnerOf <- MCOwnerOf
    BatchSize = 1
    MaxFaults = 0
    MaxRetention = 0
    MaxDeletes = 1
PROPERTIES
    TracesDecided
