SPECIFICATION FairSpec
CONSTANTS
  call1 = call1  call2 = call2
  Ids = {call1, call2}
  Backends <- AllBackends
  ToolNames = {"read", "list"}
  Fences = {"fenced", "broken"}
  FenceName <- FenceNames
  Tokens <- TokensOf
  MaxChunks <- ChunksOf
  MaxCalls = 2
  Conversations <- Histories
  PlainReplies <- Replies
CHECK_DEADLOCK FALSE
INVARIANTS StreamedIsWhole TextInOrder RequestsAreWellFormed OnePromptedCall
PROPERTIES ProducerEnds OutcomeComes
