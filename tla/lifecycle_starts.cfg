CONSTANTS
  NoOne = NoOne
  Calls = {c1, c2}
  Kinds = {"start", "restart", "mutation", "prompt"}
  Recoveries = {"modules"}
  MaxChanges = 1
SPECIFICATION Spec
INVARIANTS
  TypeOK
  MutationsExclusive
  NoWaitInVain
  SettledPhase
PROPERTY StreamsOfCurrentClient
CHECK_DEADLOCK FALSE
