SPECIFICATION Spec
CONSTANTS
  Names = {a, b}
  NoName = NoName
  CommandLines <- TuiLines
  Models = {m1}
  Chosen = m1
  Capable = {m1}
  MaxTurns = 2
  MaxStarts = 2
CHECK_DEADLOCK FALSE
INVARIANT CancelOnlyThatTurn
