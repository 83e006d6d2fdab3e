CONSTANTS
    Procs = {p1, p2}
    Envs <- EnvsOfMC
    Unset = Unset
    Malformed = Malformed
    Refused = Refused
    NoEnv = NoEnv
    MaxFaults = 2
    b1 = b1
SPECIFICATION Spec
INVARIANTS
    TypeOK
    PanicsForAReason
    ReadersCanWork
PROPERTIES
    Recovers
CHECK_DEADLOCK FALSE
