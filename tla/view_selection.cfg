CONSTANTS
  s1 = s1
  s2 = s2
  c1 = c1
  c2 = c2
  NoSession = NoSession
  NoCall = NoCall
  Sessions <- TwoSessions
  Calls <- TwoCalls
  Window = 2
  MaxSeq = 3
  MaxLosses = 1
  OtherStreams = TRUE
SPECIFICATION Spec
SYMMETRY Symmetry
CHECK_DEADLOCK FALSE
INVARIANTS
  NoDuplicates
  CatalogOfSelection
  CaughtUp
PROPERTIES
  FramesNeverRemove
