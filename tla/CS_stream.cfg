\* A well-behaved upstream: all the answers of up to five blocks.
CONSTANTS
  ContentDeltas <- MCContent
  ReasoningDelta <- MCReasoning
  ToolDeltas <- MCToolDeltas
  ToolIndexes <- MCToolIndexes
  CustomTools = {"patch"}
  BreaksAfterEnd = FALSE
  MaxBlocks = 5
  MaxPending = 2
SPECIFICATION Spec
INVARIANTS Inv StreamedAsWhole
PROPERTIES  ResponseEnds
