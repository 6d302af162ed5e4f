CONSTANTS
  NoOne = NoOne
  Calls = {c1, c2}
  Kinds = {"mutation", "prompt"}
  Recoveries = {}
  MaxChanges = 0
SPECIFICATION FairSpec
PROPERTY CallsReturn
CHECK_DEADLOCK FALSE
