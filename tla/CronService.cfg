SPECIFICATION Spec
CONSTANTS
  NoJob = NoJob
  Schedules <- SchedulesAll
  InitialFiles <- FilesBoth
  MaxJobs = 2
  MaxTime = 3
  MaxLoops = 2
  MaxCrashes = 1
  MaxFailures = 1
INVARIANTS RecurringStaysArmed OneTimeAtMostOnce  GoneStaysGone
PROPERTIES NeverEarly
CHECK_DEADLOCK FALSE
