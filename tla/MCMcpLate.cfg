SPECIFICATION Spec
CONSTANTS
  Boot = boot
  Nobody = nobody
  c1 = c1
  c2 = c2
  Callers <- OneCaller
  PipeRoom = 1
  ServerTalks = FALSE
  MaxCalls = 4
INVARIANTS
  ResponseMatchesCall
CHECK_DEADLOCK FALSE
