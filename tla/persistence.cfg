SPECIFICATION FullSpec
CONSTANTS
  Sessions = {"a"}
  MaxListUser = 1
  MaxListFaults = 1
  Runtimes = {"w1"}
  Homes <- OneHome
  Shared = "shared"
  Recovery = "recovery"
  MaxStarts = 2
  MaxWrites = 2
  MaxDeletes = 1
  MaxCrashes = 1
  Windows = {"w1", "w2"}
  Presets = {"a", "b"}
  Defaults = {"d1"}
  Injector = "injector"
  MaxOps = 2
  MaxEdits = 1
  MaxSuiteFaults = 1
  Routes = {"p", "relay"}
  Relay = "relay"
  Official = "official"
  Namespaces = {"llm-pi-ai", "llm-deepseek"}
  MaxConnects = 1
  MaxUser = 1
  MaxOthers = 1
  MaxFaults = 1
  SessionNames = {"session.jsonl", "a/session.jsonl"}
  ConversationNames = {"conversations.json", "b/conversations.json"}
  Archives <- Zips
  MaxEntrySize = 2
  MaxTotalSize = 3
  MaxImports = 2
  MaxImportFaults = 1
  Plugins = {"a", "b", "suite"}
  SourceOf <- Offers
  NewestIn = "topic"
  Suite = "suite"
  WebOnly = {}
  Matching = {"b"}
  MaxCenterOps = 2
  MaxInputs = 1
  MaxCenterFaults = 1
  CarrySessions = {"a", "b"}
  First = "a"
  FirstMode = "code"
  NoSession = "none"
  Modes = {"code", "plan"}
  AsIs = "as is"
  Prompts = {"p", "q"}
  Before = "before"
  MaxTurns = 1
  MaxText = 2
  MaxMoves = 2
  MaxCarryFaults = 1
  Queued = {"p"}
  Media = {}
  MaxCommands = 2
  MaxLosses = 1
  MaxWalks = 1
  MaxDockFaults = 1
  LinkSessions = {"s1", "s2"}
  Blocks = {"b1", "b2"}
  Keys = {"k1"}
  MaxOpens = 2
  MaxKeyOps = 1
  MaxLostChecks = 1
  Views = {"side", "panel"}
  Files = {"f1", "f2"}
  FirstFiles = {"f1"}
  Queries = {"qa", "qb"}
  Matches <- MatchesOf
  MaxTyped <- InputsOf
  MaxFileOps = 1
  MaxFailures = 1
  Selections = {"x1", "x2", "x3"}
  Attachments = {"f1"}
  MaxCached = 2
  MaxAttached = 1
  MaxEditorMoves = 3
  MaxClicks = 2
INVARIANTS
  ListsKept
  
  
  PluginsKept
  ArchivesImported
  CommandsKept
  
CHECK_DEADLOCK FALSE
