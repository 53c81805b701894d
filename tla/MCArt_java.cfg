CONSTANTS
  Methods = {f, g, h}
  App = {t1, t2}
  Worker = w
  MaxSlots = 2
  MaxHooks = 3
  MaxCalls = 2
  Tracees = {t1, t2, t3}
  Stubs = {s1, s2}
  Limits = {0, 1, 2}
  MaxStarts = 3
  MaxCount = 6
SPECIFICATION Spec
SYMMETRY Symmetry
INVARIANTS OwnHook OriginalRuns LimitHolds
CHECK_DEADLOCK FALSE
