CONSTANTS
  Threads = {t1, t2}
  Sites = {s1, s2}
  MaxHooks = 1
  MaxDepth = 2
  IdMod = 65536
SPECIFICATION Spec
SYMMETRY Symmetry
INVARIANTS TypeOK UnwindInv CallbackConserved
CHECK_DEADLOCK FALSE
