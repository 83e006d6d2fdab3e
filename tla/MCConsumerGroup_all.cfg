CONSTANTS
    Consumers = {c1, c2}
    p1 = p1
    i1 = i1
    i2 = i2
    Partitions = {p1}
    Ids = {i1, i2}
    Versions = {v1, v2}
    PartitionOf <- Together
    NoUser = NoUser
    NoMessage = NoMessage
    Nobody = Nobody
    SilentRejects = TRUE
    MaxEvents = 3
    MaxFaults = 1
SPECIFICATION FairSpec
INVARIANTS
    TypeOK
    CommittedIsSettled
PROPERTIES
    StoreOnlyGrows
    ImplementsProjection
    EventuallySettled
    ShutdownEnds
CHECK_DEADLOCK FALSE
