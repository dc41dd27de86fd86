SPECIFICATION FairPipelineSpec
CONSTANTS
    t1 = t1
    t2 = t2
    e1 = e1
    e2 = e2
    k1 = k1
    k2 = k2
    w1 = w1
    s1 = s1
    p1 = p1
    NoOwner = NoOwner
    NoTrace = NoTrace
    NoLease = NoLease
    NoConsumer = NoConsumer
    NoPlace = NoPlace
    Traces = {t1, t2}
    Envelopes = {e1, e2}
    Keys = {k1, k2}
    TraceOf <- MCTraceOf
    KeyOf <- MCKeyOf
    ShardOf <- MCShardOf
    ShardCap = 1
    MaxSpans = 1
    MaxBatch = 1
    ErrorSpans = {e1}
    SlowSpans = {}
    SampledTraces = {}
    Workers = {w1}
    OwnerOf <- MCOwnerOf
    BatchSize = 2
    MaxFaults = 1
    MaxRetention = 1
    MaxDeletes = 1
    Partitions = {p1}
    PartitionOf <- MCPartitionOf
    Consumers = {c1}
    MaxLog = 4
    MaxRebalances = 1
    MaxRemovals = 1
INVARIANTS
    PipelineTypeOK
    NothingVanishes
    LedgerTrue
    NeverBoth
PROPERTIES
    Delivers
