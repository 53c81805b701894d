CONSTANTS
  Threads = {t1, t2}
  Sites = {s1}
  MaxHooks = 1
  MaxDepth = 1
  IdMod = 65536
SPECIFICATION FairSpec
PROPERTY CallsFinish
CHECK_DEADLOCK FALSE
