CONSTANTS
  Service <- MCService
  Caller <- MCCaller
  Main = "main"
  Once = {}
  Every = {"every"}
  Delay <- MCDelay
  ProcessQueue = ProcessQueue
  None = None
  MaxCallbacks = 2
  MaxTime = 1
SPECIFICATION Spec
CHECK_DEADLOCK FALSE
INVARIANTS
  TypeOK
  NoLostSchedule
  ShutdownComplete
PROPERTIES
  OneAtATime
  ScheduledWorkRuns
  StopAndShutdownEnd
