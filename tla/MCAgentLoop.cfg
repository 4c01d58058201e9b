SPECIFICATION FairSpec
CONSTANTS
  read1 = read1
  read2 = read2
  write1 = write1
  Nil = Nil
  Ids = {read1, read2, write1}
  Replies <- WideReplies
  UsageSteps = {1, 2}
  Signature <- MCSignature
  Gated = {write1}
  Saved <- MCSaved
  MaxTurns = 4
  TokenBudget = 6
  WallClock = TRUE
  ToolTimeout = TRUE
  KeepTurns = 1
  Scripts <- MCScripts
  Positions = {1, 2}
INVARIANT TypeOK
INVARIANT AlwaysAnswered
INVARIANT GuardsBoundTheTurn
INVARIANT CompactionNeverRefused
PROPERTY TurnEnds
PROPERTY CancelEndsTurn
PROPERTY NoSilentEnd
PROPERTY WholeSteps
