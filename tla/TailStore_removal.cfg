SPECIFICATION Spec
CONSTANTS
    t1 = t1
    t2 = t2
    e1 = e1
    e2 = e2
    e3 = e3
    k1 = k1
    k2 = k2
    k3 = k3
    w1 = w1
    w2 = w2
    s1 = s1
    NoOwner = NoOwner
    NoTrace = NoTrace
    NoLease = NoLease
    Traces = {t1, t2}
    Envelopes = {e1, e2, e3}
    Keys = {k1, k2, k3}
    TraceOf <- MCTraceOf
    KeyOf <- MCReusedKeyOf
    ShardOf <- MCShardOf
    ShardCap = 1
    MaxSpans = 1
    MaxBatch = 2
    ErrorSpans = {e1, e3}
    SlowSpans = {}
    SampledTraces = {}
    Workers = {w1}
    OwnerOf <- MCOwnerOf
    BatchSize = 1
    MaxFaults = 1
    MaxRetention = 1
    MaxDeletes = 1
INVARIANTS
    BuffersCounted
    DecisionsAgree
    
    LeaseInv
    PublishInv
PROPERTIES
    DecidedFinal
    UndeliveredKept
