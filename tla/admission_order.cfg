CONSTANTS
  s1 = s1
  s2 = s2
  p1 = p1
  p2 = p2
  p3 = p3
  NoPrompt = NoPrompt
  Sessions <- OneSession
  Prompts <- ThreePrompts
  Kinds <- PlainAndConfig
  AnswersGetLost = TRUE
  MaxCalls = 1
  MaxDisruptions = 0
SPECIFICATION Spec
SYMMETRY ThreePromptSymmetry
CHECK_DEADLOCK FALSE
INVARIANTS
  ParkedConfigurationKept
  AppliedInFifoOrder
