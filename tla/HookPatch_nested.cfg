CONSTANTS
  Targets = {f, g}
  MaxHooks = 4
SPECIFICATION Spec
INVARIANTS NestedRestores NestedInv
CHECK_DEADLOCK FALSE
