SPECIFICATION FairSpec
CONSTANTS
    r1 = r1
    r2 = r2
    r3 = r3
    r4 = r4
    t1 = t1
    t2 = t2
    t3 = t3
    a = a
    b = b
    s1 = s1
    s2 = s2
    NoRequest = NoRequest
    NoTrace = NoTrace
    Requests = {r1, r2, r3, r4}
    Events <- MCEvents
    Payload <- MCPayload
    ShardOf <- MCShardOf
    Shards = {s1, s2}
    InvalidEvents <- MCInvalidEvents
    UnknownCallers = {}
    MaxEvents = 5
    ShardCap = 1
    MaxSpans = 2
    MaxFaults = 1
    MaxRetries = 1
INVARIANTS
    TypeOK
    WritesExclusive
    ShardBound
    SpansCounted
PROPERTIES
    AtomicRequests
    EventuallyAnswered
CHECK_DEADLOCK FALSE
