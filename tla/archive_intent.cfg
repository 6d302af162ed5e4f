SPECIFICATION Spec
CONSTANTS
  Sessions = {"a"}
  MaxUser = 1
  MaxFaults = 1
INVARIANT RestoreIntentKept
CHECK_DEADLOCK FALSE
