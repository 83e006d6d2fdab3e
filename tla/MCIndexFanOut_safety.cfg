CONSTANTS
    N = 3
SPECIFICATION Spec
INVARIANTS
    TypeOK
    NeverSendsOnClosed
    ReplyIsRight
PROPERTIES
    ImplementsStoreWrite
    EverythingEnds
CHECK_DEADLOCK FALSE
