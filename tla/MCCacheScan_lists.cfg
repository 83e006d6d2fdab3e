SPECIFICATION Spec
CONSTANTS
    Users = {u1, u2, u3}
    Calls = {c1}
    Buckets = 3
    Empty = Empty
    MaxFaults = 2
INVARIANTS
    TypeOK
PROPERTIES
    ImplementsListing
    EveryListEnds
CHECK_DEADLOCK FALSE
