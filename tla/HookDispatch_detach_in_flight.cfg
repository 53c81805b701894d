CONSTANTS
  Threads = {t1}
  Sites = {s1}
  MaxHooks = 1
  MaxDepth = 1
  IdMod = 65536
SPECIFICATION Spec
INVARIANT RedirectedCallCanUnwind
CHECK_DEADLOCK FALSE
