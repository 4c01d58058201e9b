SPECIFICATION FairSpec
CONSTANTS
  Boot = boot
  Nobody = nobody
  c1 = c1
  c2 = c2
  Callers <- TwoCallers
  PipeRoom = 1
  ServerTalks = TRUE
  MaxCalls = 4
INVARIANTS
  QuietResponsesMatch
PROPERTIES
  ReadersEnd
  CallsReturn
CHECK_DEADLOCK FALSE
