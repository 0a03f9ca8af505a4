SPECIFICATION Spec
CONSTANTS
    w1 = w1
    w2 = w2
    a = a
    b = b
    Workflows = {w1, w2}
    Blocks = {a, b}
    Arrival <- MCArrival
    TurnsOf <- MCTurnsOf
    FirstTurns <- MCFirstTurns
    LaterTurns <- MCLaterTurns
    Policies = {"off", "eager", "future_timing"}
    CacheBlocks = 3
    Budget = 3
    Chunk = 2
    PrefillMs = 1
    HorizonMs = 9
INVARIANTS
    BlocksAccounted
    FutureTimingNeverOvertaken
    NoLostWork
PROPERTIES
    RunSettles
