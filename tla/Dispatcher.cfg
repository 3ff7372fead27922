SPECIFICATION FairSpec
CONSTANTS
  Jobs = {j1, j2}
  Periods = {1}
  EventCap = 1
  MaxTime = 2
  MaxRuns = 2
  Nothing = Nothing
INVARIANTS
  TrackedIffScheduled
  OpenWhileEnabled
  NoMissedWakeup
PROPERTIES
  IsBusyList
  DueJobLaunched
  RunnersStop
