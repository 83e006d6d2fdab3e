CONSTANTS
    Consumers = {k1, k2}
    HTTPRequests = {h1, h2}
    GRPCRequests = {g1}
    StorageType = "sql"
    TelemetryEnabled = TRUE
    NilCloser = NilCloser
    Nobody = Nobody
SPECIFICATION Spec
INVARIANTS
    TypeOK
    ClosedAfterReturn
    ReadersAreClosed
PROPERTIES
    CancellationEnds
