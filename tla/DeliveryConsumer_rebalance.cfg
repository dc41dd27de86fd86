SPECIFICATION FairSpec
CONSTANTS
    p1 = p1
    m1 = m1
    m2 = m2
    orphan = orphan
    bad = bad
    k1 = k1
    k2 = k2
    Partitions = {p1}
    Messages = {m1, m2, orphan, bad}
    Keys = {k1, k2}
    KindOf <- MCKindOf
    KeyOf <- MCKeyOf
    PartitionOf <- MCPartitionOf
    Consumers = {c1, c2}
    NoConsumer = NoConsumer
    NoMessage = NoMessage
    MaxLog = 3
    MaxFaults = 2
    MaxRebalances = 1
INVARIANTS
    TypeOK
    CommittedAccounted
    PersistedStored
    ConsumerInv
PROPERTIES
    EventuallyAccounted
CHECK_DEADLOCK FALSE
