SPECIFICATION Spec
CONSTANTS
    HTTPClients = {h1, h2}
    GRPCClients = {g1}
    Ids <- MCIds
    Inputs <- MCInputs
    Terms <- MCTerms
    Letters <- MCLetters
    MinLen = 2
    MaxLen = 3
    ColumnWidth = 3
    SearchTermMinLen = 2
    PageSize = 1
    PerSecond = 2
    ZeroTime <- MCZeroTime
    Start = 2
    End = 4
    h1 = h1
    h2 = h2
    g1 = g1
INVARIANTS
    TypeOK
    NoInputBreaksTheStore
    ServedNamesAreValid
    ServedAsAnswered
    SameEverywhere
    CreationsAreRecognised
CHECK_DEADLOCK FALSE
SYMMETRY ClientSymmetry
