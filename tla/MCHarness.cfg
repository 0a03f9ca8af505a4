CONSTANTS
  Runners = {"retention", "pilot", "replay"}
  Tasks = 2
  Planned = 2
  None = None
  Sessions = {s1, s2}
  Turns = 2
  MaxLogFailures = 2
  MaxChunks = 5
  Chunks <- MCChunks
SPECIFICATION HarnessSpec
INVARIANTS
  DiskTellsTruth
  SuccessIsWhole
  EpochRecordsAgree
  CompletionIsTheStream
PROPERTIES
  SavedStudyOnlyGrows
  ReplayEnds
