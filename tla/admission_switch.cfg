CONSTANTS
  s1 = s1
  s2 = s2
  p1 = p1
  p2 = p2
  p3 = p3
  NoPrompt = NoPrompt
  Sessions <- TwoSessions
  Prompts <- TwoPrompts
  Kinds <- AllKinds
  AnswersGetLost = TRUE
  MaxCalls = 2
  MaxDisruptions = 0
SPECIFICATION Spec
SYMMETRY SessionAndPromptSymmetry
CHECK_DEADLOCK FALSE
INVARIANTS
  FailedPromptOwnsNoSlot
