------------------------ MODULE MCTransactionProtocol ------------------------
(* Two transactions, one with autocommit, over two aggregates; each      *)
(* transaction stages at most two events, enough for one transaction to  *)
(* stage two versions of an aggregate or one version of each.            *)
EXTENDS TransactionProtocol

CONSTANTS t1, t2, a1, a2

MCTx == {t1, t2}
MCAgg == {a1, a2}
MCAutoCommit == {t1}

\* One aggregate: enough for two reserved transactions to claim one version.
MCOneAgg == {a1}
=============================================================================
