SPECIFICATION LiveSpec
CONSTANTS
  Loop = Loop
  Cron = Cron
  None = None
  a = a
  b = b
  Spawners <- Both
  MaxTasks = 3
  UserChats <- ChatA
  JobChats <- ChatB
  MaxConcurrent = 2
  Capacity = 1
  MaxSent = 1
  MaxJobs = 1
  MayCancel = TRUE
INVARIANTS SlotsMatchGoroutines LeftMeansReported
PROPERTIES ReportGoesHome LeavesUnlessCircle
CHECK_DEADLOCK FALSE
