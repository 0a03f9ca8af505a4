\* One process: overflow, failing writes, a close that times out, late calls.
SPECIFICATION FairSpec
CONSTANTS
    QueueCapacity = 1
    MaxRecords = 3
    MaxProcesses = 1
INVARIANTS
    ValidatorAgreesWithClose
PROPERTY
    WriterEnds
