SPECIFICATION Spec
CONSTANTS
  auto = auto
  manual = manual
  endpoint = endpoint
  Threads = {auto, manual, endpoint}
  Automatic = auto
  Manual = {manual}
  Endpoints = {endpoint}
  Free = free
  NoReading = noreading
  GridStatuses = {"CONNECTED", "OUTAGE"}
  MaxRequests = 3
  MaxFailures = 1
INVARIANTS TypeOK CyclesExclude AloneReadsTheNewest AskedWhatIsRemembered
PROPERTIES StopIsFinal RequestsAreServed SchedulerSurvives RemembersTheGrid
CHECK_DEADLOCK FALSE
