CONSTANTS
  Items <- MCItems
  MaxItems = 4
  Absent = Absent
  UserContents <- MCUserContents
  Assistants <- MCAssistants
  ToolContents <- MCToolContents
  Setups <- MCSetups
  MaxMessages = 6
  MaxChunks = 4
  MaxTokens = 1
  Indices <- MCIndices
  Requests <- MCRequests
  Texts <- MCTexts
  Textless <- MCTextless
  MaxOutputs = 3
SPECIFICATION Spec
CHECK_DEADLOCK FALSE
INVARIANTS
  SentIsWholeTurn
  WarmIsTheHistory
  MetadataConserved
  WireMatchesText
  EndsInOrder
  ReasoningIsCounted
