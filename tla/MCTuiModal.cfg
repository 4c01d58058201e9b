SPECIFICATION Spec
CONSTANTS
  None = None
  Rounds <- AnyRounds
  SharedIds = FALSE
  MayCancel = FALSE
  MaxInputs = 1
  MaxRounds = 1
INVARIANTS
  ModalSuspends
CHECK_DEADLOCK FALSE
