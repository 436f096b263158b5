SPECIFICATION RoundsSpec
CONSTANTS
  p = p
  q = q
  c1 = c1
  c2 = c2
  Providers <- TwoProviders
  Candidates <- TwoCandidates
  Callers <- TwoCallers
  Failures <- Three
  Modes = {"chat"}
  CanStream = FALSE
  MayCancel = TRUE
  Standard <- OneStep
  Billing <- ShortSteps
  Window = 2
  Loop = Loop
  Cron = Cron
  Heartbeat = Heartbeat
  Actors <- Goroutines
  Default = Default
  Agents <- TwoAgents
  Chats <- TwoChats
  Kinds <- AllKinds
  Targets <- Named
  NoChat = NoChat
  MaxRounds = 2
  MaxCalls <- OneOrTwo
SYMMETRY Symmetry
INVARIANTS WaitsAreServed NoLongerThanOwed  RepliesGoHome
