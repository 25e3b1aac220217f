CONSTANTS
  p1 = p1
  p2 = p2
  t1 = t1
  t2 = t2
  kStr = kStr
  kUuid = kUuid
  NoKey = NoKey
  Proc <- MCProc
  Task <- MCTask
  ProcOf <- MCProcOf
  Keys <- MCKeys
  SaltedKeys <- MCSaltedKeys
  Adv <- MCAdv
  PoolSize = 1
  MaxCalls = 2
  MayFail = FALSE
  Nested = FALSE
  Modes = {"all", "iter", "one"}

SPECIFICATION Spec

INVARIANT
  KeyExclusion

CHECK_DEADLOCK FALSE
