SPECIFICATION FullSpec
CONSTANTS
  MaxAttempts = 2
  MaxChunks = 2
  MaxLosses = 1
  JobSessions = {"s1", "s2"}
  Jobs = {"j1", "j2"}
  SessionOf <- JobOwners
  MaxOutput = 3
  Window = 2
  TextCap = 2
  MaxUserSteps = 3
  NoticeSessions = {"s1"}
  MaxNoticedTurns = 2
  MaxCancels = 2
  MaxEventLosses = 1
  Requests = {"c1"}
  MaxItems = 2
  Tools = {"c1"}
  MaxTurns = 2
  MaxSteps = 2
  MaxEvents = 5
  MaxOthers = 1
  PageSize = 2
  MaxLag = 1
  ShownSessions = {"s1", "s2"}
  Models = {"m1", "m2"}
  Prompts = {1, 2}
  MaxHost = 1
  Payloads <- Said
  Sources <- SourceList
  FallbackModels <- FirstModels
  FallbackTiers <- AllTiers
  BareName <- Bare
  SearchMatches <- Searched
  Width = 2
  MaxPayloads = 2
  MaxActs = 3
  MinimumStep = 1
  TargetFrames = 2
  Threshold = 2
  MaxLength = 3
  MaxRestarts = 1
  MaxFlips = 1
  MaxToggles = 1
  TodoLists = {"no todos", "l1", "l2"}
  CalledTodos = "l1"
  MaxChanges = 2
  MaxCardToggles = 2
  MaxLine = 5
  FirstLines = {1, 2, 4}
  Header = 2
  Body = {3}
  Views = {2}
  FirstView = 2
  MaxLayouts = 3
  MaxGestures = 2
  Official = "official"
  Custom = {"p", "q"}
  New = "new"
  MaxTexts = 1
  MaxFormSteps = 4
INVARIANTS
  LiveTextIsWriting
  JobsExact
  NoticesAreDue
  ClientSettles
  ScreenIsTrue
PROPERTIES
  NoFlicker
  RenderKeepsNodes
CHECK_DEADLOCK FALSE
