SPECIFICATION FairSpec
CONSTANTS
  None = None
  Rounds <- AnyRounds
  SharedIds = FALSE
  MayCancel = TRUE
  MaxInputs = 2
  MaxRounds = 2
INVARIANTS
  BusyIffTurn
  UINeverBlocks
  ModalIsLive
  WaitersAreAsked
PROPERTIES
  CancelReturns
  PromptReturns
CHECK_DEADLOCK FALSE
