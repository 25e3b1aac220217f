CONSTANTS
  t1 = t1
  t2 = t2
  a1 = a1
  a2 = a2
  NoTx = NoTx
  Tx <- MCTx
  Agg <- MCOneAgg
  AutoCommit <- MCAutoCommit
  MaxStaged = 2

SPECIFICATION Spec

INVARIANT TypeOK
INVARIANT NoVersionConflict
INVARIANT PartialCommitRaised
PROPERTY LifecycleRefinement
PROPERTY InFlightCallsReturn

\* The system stops once every task has left its transaction scope.
CHECK_DEADLOCK FALSE
