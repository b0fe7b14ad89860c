SPECIFICATION FairSpec
CONSTANTS
    Rows = {1, 2}
    Workers = {w1, w2}
    BatchSize = 1
    MaxAttempts = 2
    MaxVersions = 2
    MaxFaults = 1
    SlowBatches = FALSE
    ReuseUnsettled = FALSE
INVARIANTS
    TypeOK
    OneDeliveryAtATime
    
    
    AttemptsBounded
PROPERTIES
    
    EventuallySettled
