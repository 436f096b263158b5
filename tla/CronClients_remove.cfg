SPECIFICATION ClientsSpec
CONSTANTS
  NoJob = NoJob
  Schedules <- SchedulesTwo
  InitialFiles <- FilesEmpty
  MaxJobs = 1
  MaxTime = 3
  MaxCommands = 1
  MaxLoops = 1
  MaxCrashes = 0
  MaxFailures = 0
CHECK_DEADLOCK FALSE
PROPERTIES RemoveIsFinal
