SPECIFICATION Spec
CONSTANTS
    MaxTurns = 2
    MaxCalls = 2
    MaxCancels = 1
    None = None
INVARIANTS
    RunIsAccounted
    NoStagingLeftBehind
PROPERTIES
    SuccessMeansWritten
    RunEnds
