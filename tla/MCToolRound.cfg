SPECIFICATION MCSpec
CONSTANTS
  e1 = e1  e2 = e2  w1 = w1  r1 = r1  s1 = s1  g1 = g1  l1 = l1  x1 = x1  x2 = x2  a1 = a1  a2 = a2
  Calls = {e1, e2, w1, r1, s1, g1, l1, x1, x2, a1, a2}
  None = None
  Missing = Missing
  Tool <- CallTools
  Input <- Inputs
  WellFormed = {e1, e2, w1, r1, s1, g1, l1, x1, x2, a1}
  Wanted = {e1, w1, x1, e2}
  Scenarios <- Rounds
  here = here  there = there
  Roots = {here, there}
  FileNames = {1, 2, 3}
  Denied = {3}
  Contents <- Workspaces
  MatchCap = 2
  MaxDiffLines = 3
  DefaultByteBudget = 5
  Samples <- SmallTexts
  ParentTurns = 3
  ParentBudget = 3
  Spents = {0, 4}
  Replies = {1, 2}
  MaxChildTurns = 2
CHECK_DEADLOCK FALSE
INVARIANTS AnswersAreTrue OnlyOverlapsLose
  PreviewsTellChange ApprovedIsDone WalkFindsAll QuietConsent DelegationBound
PROPERTY AbandonedToolsStop
