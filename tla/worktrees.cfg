CONSTANTS
  s1 = s1
  s2 = s2
  NoSession = NoSession
  User = User
  Sessions <- TwoSessions
  MaxEdits = 1
  Budgets <- Kinds
SPECIFICATION FairSpec
CHECK_DEADLOCK FALSE
INVARIANTS
  RegistryRestored
PROPERTIES
  ListedWorktreeKept
  

  OrphansSwept
