SPECIFICATION PartsSpec
CONSTANTS
  Parts = {"git"}
  None = None
  Loop = "loop"
  Cron = "cron"
  Runners = {"loop", "cron"}
  Summarizer = "summarizer"
  OldSessions <- OneExchangeTwice
  KeepLast = 2
  MaxCalls = 1
  MaxRounds <- OneEach
  MaxIterations = 1
  MaxRetries = 1
  BatchMax = 10
  MaxTroubles = 1
  MaxSummaries = 1
  Providers = {"openai", "google-antigravity"}
  Callers = {"call"}
  Shells = {"shell"}
  Keys = {"k"}
  MaxOps = 3
  MaxTokens = 3
  Rounds = {"loop", "cron"}
  Paths = {"notes"}
  Marks = {"a", "b"}
  MaxLen = 2
  MaxFileCalls = 3
  Committers = {"loop", "cron"}
  Tracked = {"f", "g"}
  AllowPush = TRUE
  MaxLog = 1
  MaxStash = 1
  NotePaths = {"MEMORY.md", "topic.md"}
  Tags = {"t"}
  NoteSavers = {"user"}
  Rebuilder = "heartbeat"
  NoNote = NoNote
  MaxNoteSaves = 3
  LastDay = 2
  Skills = {"weather"}
  InstallRounds = {"r1", "r2"}
  SkillShells = {"sh"}
  NoSkill = NoSkill
  MaxInstalls = 3
  Chats = {"telegram:A", "ssh:B"}
  NoChannel = NoChannel
  MaxUser = 2
  MaxBeats = 2
  MaxFailures = 1
  MaxDay = 1
  WorkspaceFiles <- TwoFiles
  MaxVersions = 2
  MaxRuns = 2
  Written <- WrittenConfigs
  Foreign <- ForeignConfigs
  ProviderOrder <- ThreeProviders
  Aliases <- TheirAliases
  ModelOf <- OwnModels
  DefaultList <- DefaultEntries
  DefaultModel = "glm-4.7"
  LoginModel <- LoginModels
  MaxCommands = 2
  GuardRounds = {1, 2}
  Tool <- GroupOf
  Keyworded = {"git"}
  Strangers = {"made_up"}
  MaxRequests = 2
  Policy <- TwoPerMinute
  Minute = 2
  MaxTime = 3
  HistoryCalls = 1
  MaxHistory = 6
  TelegramRounds = {1, 2}
  TelegramNotes = {}
  TelegramChunks = 2
  MaxFails = 1
  Conns = {1, 2}
  SshRounds = {1, 2}
  Items = {}
  SshChunks = 1
  OutCap = 1
  ChunkCap = 1
  Lines = {1, 2, 3}
  Extras = {11}
  MaxLineChunks = 1
  Queries = {"web", "webs", "db"}
  Trigrams <- QueryTrigrams
  Searchers = {1, 2}
  Registries = {"a", "b"}
  Best <- BestScore
  MaxEntries = 1
  Ttl = 2
  MaxConcurrent = 1
  MaxSearches = 3
  SearchTime = 2
  Configs <- RoutingConfigs
  Messages <- RoutingMessages
  Internal = {"cli", "system", "subagent"}
  LowerCase <- Lowered
  NoPeer = NoPeer
  MaxHeard = 2
INVARIANTS NothingIsNotCommitted
CHECK_DEADLOCK FALSE
