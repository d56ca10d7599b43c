SPECIFICATION Spec
CONSTANTS
  Node = {1, 2, 3}
  Type = {"p", "q"}
  MaxTokens = 7
  MaxChunks = 4
  MaxLength = 4
  MaxSize = 5
  MaxResults = 3
  MaxEdges = 3
  MaxDepth = 3
  DepthLimit = 2
  MaxPages = 2
  Weight <- MCWeight
  Threshold = 50
  RetryCount = 2
INVARIANTS
  ChunkingIsExact
  AnswersAreSound
  ReportsAreKnown
  SuccessesAreEarned
  SearchesAreExact
