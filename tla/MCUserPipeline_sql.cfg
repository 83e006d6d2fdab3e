CONSTANTS
    Requests = {r1, r2}
    Queries = {q1}
    StorageType = "sql"
    NoVersion = NoVersion
    NoUser = NoUser
    MaxFaults = 3
SPECIFICATION Spec
INVARIANTS
    TypeOK
    RefusedIsNeverServed
    CreatedIsStored
    ServedIsStored
PROPERTIES
    ImplementsProjection
    EventuallyServed
    LateRowsAreServed
CHECK_DEADLOCK FALSE
