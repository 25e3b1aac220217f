---------------------------- MODULE MCPostgresLock ----------------------------
EXTENDS PostgresLock, TLC

CONSTANTS p1, p2, t1, t2, kStr, kUuid

\* One task in each of two processes.
MCProc == {p1, p2}
MCTask == {t1, t2}
MCProcOf == (t1 :> p1) @@ (t2 :> p2)

\* A str key (salted hash) and a uuid key (hash of its int).
MCKeys == {kStr, kUuid}
MCSaltedKeys == {kStr}

\* Two advisory ids, so two keys may or may not collide.
MCAdv == {1, 2}

\* One advisory id: every locked call contends for the same lock.
MCAdvOne == {1}
=============================================================================
