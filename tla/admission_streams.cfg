CONSTANTS
  s1 = s1
  s2 = s2
  p1 = p1
  p2 = p2
  p3 = p3
  NoPrompt = NoPrompt
  Sessions <- TwoSessions
  Prompts <- TwoPrompts
  Kinds <- PlainOnly
  AnswersGetLost = FALSE
  MaxCalls = 1
  MaxDisruptions = 1
SPECIFICATION FairSpec
CHECK_DEADLOCK FALSE
PROPERTIES
  MarkerReleased
