SPECIFICATION Spec
CONSTANTS
    Requests = {r1, r2}
    KindOf <- MCKindOf
    Interval = 2
    MaxUpdates = 3
    MaxTime = 4
    NoEntry = NoEntry
INVARIANTS
    BoundedStaleness
    StalenessInv
    ServedValid
