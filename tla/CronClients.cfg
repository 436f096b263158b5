SPECIFICATION ClientsFairSpec
CONSTANTS
  NoJob = NoJob
  Schedules <- SchedulesTwo
  InitialFiles <- FilesEmpty
  MaxJobs = 1
  MaxTime = 3
  MaxCommands = 1
  MaxLoops = 1
  MaxCrashes = 1
  MaxFailures = 1
INVARIANTS GoneUnlessCommanded
PROPERTIES DueIsRun
CHECK_DEADLOCK FALSE
