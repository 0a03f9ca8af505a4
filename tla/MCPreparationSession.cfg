SPECIFICATION SessionSpec
CONSTANTS
    Enabled = TRUE
    MaxAttempts = 2
    Tasks <- MCTasks
INVARIANTS
    BackgroundInOrder
    SessionRecordsAgree
    SavedIsFinal
PROPERTIES
    NeverSentAfterCancel
    PolicySpec
    SessionEnds
