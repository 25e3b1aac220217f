CONSTANTS
  t1 = t1
  t2 = t2
  a1 = a1
  a2 = a2
  NoTx = NoTx
  Tx <- MCTx
  Agg <- MCAgg
  AutoCommit <- MCAutoCommit
  MaxStaged = 2

SPECIFICATION Spec

INVARIANT ExclusiveClaims


\* The system stops once every task has left its transaction scope.
CHECK_DEADLOCK FALSE
