SPECIFICATION Spec
CONSTANTS
    Settings <- MCSettings
    MaxRestarts = 1
    MaxSamples = 1
    None = None
INVARIANTS
    ReportIsSound
    ValidDeltaIsTheWork
PROPERTY
    WindowCloses
