SPECIFICATION FairSpec
CONSTANTS
    None = None
    Events = {e1, e2}
    Aggregate <- OneAggregate
    Sweeps = {s1, s2}
    BatchSize = 3
    MaxAttempts = 2
    MaxFaults = 2
    MaxDeaths = 1
INVARIANTS
    TypeOK
    SeqsAreDense
    DeliveryBudget
PROPERTIES
    BoundedDelivery
    FailureBlocks
    EventsSettle
