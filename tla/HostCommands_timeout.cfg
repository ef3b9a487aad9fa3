SPECIFICATION Spec
CONSTANTS
    Parts = {"run"}
    Root = r
    Procs = {r, a}
    Few = {r, a}
    MaxStarts = 2
    MaxWrites = 1
    Kinds <- MCKinds
    Workers = {u, v}
    MaxLines = 2
    TrimTrigger = 3
    CheckEvery = 3
    MaxRows = 8
    MaxTrouble = 1
    Endpoints <- MCEndpoints
    MaxCalls = 2
    MaxSays = 3
    MaxUpgrades = 1
    MaxSkipped = 1
    MaxRead = 3
    Alphabets <- MCAlphabets
    MaxText = 4
    MaxOutput = 6
    MaxChunk = 3
    Windows <- MCWindows
    Limits <- MCLimits
    Requests <- MCRequests
CHECK_DEADLOCK FALSE
INVARIANTS
    TimeoutKeepsOutput
