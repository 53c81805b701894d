CONSTANTS
  Callers = {c1, c2}
  Worker = w
  MaxJobs = 4
SPECIFICATION FairSpec
INVARIANTS WorkerInv InOrder ContextOfItsJob CallbackHasContext
PROPERTIES EveryJobRuns CallersComeBack
CHECK_DEADLOCK FALSE
