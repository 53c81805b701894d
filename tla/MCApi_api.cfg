CONSTANTS
  Arity <- MCArity
  ArgLists <- MCArgLists
  Original <- MCOriginal
  Pcs = {20, 30}
  Functions = {2, 70}
  Labels = {l}
  Immediates = {7}
  BranchReach = 32
  TestReach = 16
  MaxStmts = 4
  MaxRun = 7
  Top = 4
  MaxSize = 2
  MaxTimers = 2
  MaxPosts = 2
SPECIFICATION Spec
INVARIANTS DoesWhatItSays ClipExact TimersKept
CHECK_DEADLOCK FALSE
