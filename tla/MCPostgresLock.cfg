CONSTANTS
  p1 = p1
  p2 = p2
  t1 = t1
  t2 = t2
  kStr = kStr
  kUuid = kUuid
  NoKey = NoKey
  Proc <- MCProc
  Task <- MCTask
  ProcOf <- MCProcOf
  Keys <- MCKeys
  SaltedKeys <- MCSaltedKeys
  Adv <- MCAdv
  PoolSize = 1
  MaxCalls = 2
  MayFail = TRUE
  Nested = TRUE
  Modes = {"all", "iter", "one"}

SPECIFICATION Spec

INVARIANTS
  TypeOK
  StableKeyExclusion
  NoLockedConnectionInPool

\* The tasks stop after MaxCalls calls; a failed exit leaks the only
\* connection and a nested streaming call can wait forever (see the README).
CHECK_DEADLOCK FALSE
