\* Three threads on each primitive (two on the task queue, two cancellers); queues
\* of two; the identity space of the task queue runs out; a window draws three frames.
SPECIFICATION AnyFairSpec
CONSTANTS
    Wakers = {t1, t2, t3}
    Consumers = {c1, c2, c3}
    Drivers = {d1, d2}
    Cancellers = {k1, k2}
    Capacity = 2
    MaxCalls = 2
    MaxEvents = 4
    MaxId = 3
    MaxFrames = 3
    MaxMutations = 2
    MaxWork = 2
    MaxSlots = 2
    MaxGeneration = 2
    None = None
    Registries <- MCRegistries
    Allocators <- MCAllocators
    Standalone <- MCStandalone
    Services = {s1, s2}
    Record = Record
    MaxIssued = 4
INVARIANTS
    RacersAgree
    NoWakeupLost
    DrainsAreExact
    OneWakeOutstanding
    IdentityNamesOneValue
PROPERTIES
    KeepsPromise
    WaitsEnd
CHECK_DEADLOCK FALSE
