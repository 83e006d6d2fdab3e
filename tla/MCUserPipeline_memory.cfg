CONSTANTS
    Requests = {r1}
    Queries = {q1}
    StorageType = "memory"
    NoVersion = NoVersion
    NoUser = NoUser
    MaxFaults = 1
SPECIFICATION Spec
PROPERTIES
    EventuallyServed
CHECK_DEADLOCK FALSE
