SPECIFICATION HistorySpec
CONSTANTS
    a = a
    b = b
    Names = {a, b}
    Nested = {b}
    Handlers = {h1, h2}
    MaxFaults = 2
    Chunks = 2
    MaxExports = 1
    Permits = 1
    MaxList = 2
    Hosts <- MCHosts
SYMMETRY Symmetric
CHECK_DEADLOCK FALSE
INVARIANTS
    WholeOrRecoverable
    ResidueReported
    DigestIsOfFrames
    ScanTellsTruth
    AnswerTellsTruth
PROPERTIES
    NoOverwriteKeeps
