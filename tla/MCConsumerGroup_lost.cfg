CONSTANTS
    Consumers = {c1}
    p1 = p1
    i1 = i1
    i2 = i2
    Partitions = {p1}
    Ids = {i1, i2}
    Versions = {v1}
    PartitionOf <- Together
    NoUser = NoUser
    NoMessage = NoMessage
    Nobody = Nobody
    SilentRejects = FALSE
    MaxEvents = 2
    MaxFaults = 1
SPECIFICATION Spec
INVARIANTS
    CommittedIsStored
CHECK_DEADLOCK FALSE
