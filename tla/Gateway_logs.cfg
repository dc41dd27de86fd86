SPECIFICATION Spec
CONSTANTS
    r1 = r1
    r2 = r2
    r3 = r3
    r4 = r4
    t1 = t1
    t2 = t2
    t3 = t3
    a = a
    b = b
    s1 = s1
    s2 = s2
    NoRequest = NoRequest
    NoTrace = NoTrace
    Requests = {r1, r2}
    Events <- MCLogEvents
    Payload <- MCLogPayload
    ShardOf <- MCShardOf
    Shards = {s1, s2}
    InvalidEvents = {}
    UnknownCallers = {}
    MaxEvents = 5
    ShardCap = 1
    MaxSpans = 2
    MaxFaults = 0
    MaxRetries = 0
INVARIANTS
    AcceptedStaged
CHECK_DEADLOCK FALSE
