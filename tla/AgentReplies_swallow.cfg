SPECIFICATION RepliesSpec
CONSTANTS
  Loop = Loop
  Cron = Cron
  Heartbeat = Heartbeat
  Default = Default
  NoChat = NoChat
  Actors <- WithCron
  Agents <- OneAgent
  Kinds <- UserOnly
  Targets <- Unnamed
  Chats <- TwoChats
  MaxRounds = 2
  MaxCalls <- OneCall
INVARIANTS EveryUserIsAnswered
CHECK_DEADLOCK FALSE
