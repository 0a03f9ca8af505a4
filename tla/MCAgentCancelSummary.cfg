SPECIFICATION Spec
CONSTANTS
    MaxTurns = 1
    MaxCalls = 1
    MaxCancels = 1
    None = None
INVARIANT CancelledHasSummary
