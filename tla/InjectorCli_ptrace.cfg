CONSTANTS
  Devices <- MCDevices
  Threads = {m, a}
  Main = m
  MaxSignals = 1
  NoThread = none
  MaxRuns = 2
  MaxConts = 2
  MaxLocks = 1
  MaxClones = 1
  MaxEvents = 2
SPECIFICATION Spec
INVARIANTS LeavesAppAsFound AppSurvives PairsMatch
PROPERTIES RunsEnd AppRunsAlone
CHECK_DEADLOCK FALSE
