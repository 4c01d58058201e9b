SPECIFICATION FairSpec
CONSTANTS
  Names = {a, b}
  NoName = NoName
  CommandLines <- Lines
  Models = {m1, m2}
  Chosen = m1
  Capable = {m1}
  MaxTurns = 2
  MaxStarts = 2
CHECK_DEADLOCK FALSE
INVARIANTS AckedTurnsKept ExitKeepsSession
PROPERTIES TwoSignalsEnd InterruptedTurnEnds
