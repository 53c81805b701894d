CONSTANTS
  Threads = {t1}
  Sites = {s1, s2}
  MaxHooks = 2
  MaxDepth = 3
  IdMod = 65536
SPECIFICATION Spec
INVARIANTS UnwindsToCaller SavedLrMatches
PROPERTY PlainCalls
CHECK_DEADLOCK FALSE
