CONSTANTS
  Car = Car
  Owner = Owner
  CREATE = CREATE
  UPDATE = UPDATE
  DELETE = DELETE
  u1 = u1
  u2 = u2
  Own = Own
  NoData = NoData
  repository = repository
  broker = broker
  p1 = p1
  p2 = p2
  t1 = t1
  t2 = t2
  kStr = kStr
  kUuid = kUuid
  NoKey = NoKey

SPECIFICATION Spec

INVARIANT TypeOK
INVARIANT CreationsStartLineages
INVARIANT LineageReadsInOrder
INVARIANT OffsetReadsSuffix
INVARIANT ExistingRefsResolved

PROPERTY LockCallsReturn

\* The repository stops at MaxEntries, the resolver when resolve() has
\* returned, the injector and the database after MaxCalls calls.
CHECK_DEADLOCK FALSE
