SPECIFICATION LiveSpec
CONSTANTS
  Loop = Loop
  Cron = Cron
  None = None
  a = a
  b = b
  Spawners <- LoopOnly
  MaxTasks = 2
  UserChats <- ChatA
  JobChats <- ChatB
  MaxConcurrent = 2
  Capacity = 1
  MaxSent = 2
  MaxJobs = 0
  MayCancel = FALSE
PROPERTIES EveryTaskReports
CHECK_DEADLOCK FALSE
