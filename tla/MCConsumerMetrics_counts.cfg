CONSTANTS
    Num <- NumOfMC
    GroupID <- GroupIDOfMC
    MaxMessages = 2
    MaxFaults = 1
SPECIFICATION Spec
INVARIANTS
    TypeOK
    NothingUncounted
PROPERTIES
    ExportedIsCurrent
    EventuallyReported
CHECK_DEADLOCK FALSE
