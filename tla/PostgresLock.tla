----------------------------- MODULE PostgresLock -----------------------------
(***************************************************************************)
(* Queries through PostgreSqlMinosDatabase (src/minos/common/database/     *)
(* abc.py): a pool of connections per Python process, and PostgreSQL      *)
(* session-level advisory locks shared by every process.                  *)
(*                                                                         *)
(* A call is submit_query(), or submit_query_and_iter() with or without   *)
(* streaming_mode.  With `lock=key` its context manager is a              *)
(* PostgreSqlLock, which (1) replaces a key that is not an int by         *)
(* hash(key) when it is built, (2) on enter takes a pool cursor and runs  *)
(* pg_advisory_lock, (3) on exit runs pg_advisory_unlock and then         *)
(* releases the cursor.  aiomisc's ContextManager runs the exit function  *)
(* only when the enter function returned.  Without `lock` the context     *)
(* manager is the pool cursor itself.                                     *)
(*                                                                         *)
(* In streaming mode the rows are yielded inside the `async with`, so the *)
(* caller's loop body runs while the connection and the lock are held; a  *)
(* call made from that body is a nested frame of the same task.           *)
(*                                                                         *)
(* submit_query_and_fetchone() awaits __anext__() of such a generator and *)
(* drops it: with streaming_mode the generator is left suspended inside   *)
(* the `async with`, and asyncio's async-generator finalizer hook         *)
(* schedules its aclose() as a new task, which runs the exit.             *)
(***************************************************************************)
EXTENDS Integers, Sequences, FiniteSets

CONSTANTS
  Proc,        \* Python processes sharing the database
  Task,        \* asyncio tasks making calls
  ProcOf,      \* the process each task runs in
  Keys,        \* lock keys passed by callers
  SaltedKeys,  \* keys whose hash() depends on the process (str, bytes)
  Adv,         \* the advisory lock ids the keys may hash to
  NoKey,       \* lock=None
  PoolSize,    \* connections of each process's pool
  MaxCalls,    \* top-level calls per task
  MayFail,     \* whether a lock or unlock query may raise
  Nested,      \* whether a streaming loop body makes a call of its own
  Modes        \* how calls consume their rows: "all" (submit_query, or an
               \* iteration without streaming), "iter" (streaming) and
               \* "one" (submit_query_and_fetchone with streaming)

ASSUME ProcOf \in [Task -> Proc]
ASSUME SaltedKeys \subseteq Keys /\ NoKey \notin Keys
ASSUME PoolSize \in Nat \ {0} /\ MaxCalls \in Nat
ASSUME MayFail \in BOOLEAN /\ Nested \in BOOLEAN
ASSUME Modes \subseteq {"all", "iter", "one"}

Conn == 1..PoolSize
NoConn == <<>>                  \* advisory lock not held by any session
Phases == {"acquire", "lock", "exec", "rows", "unlock", "release"}

Frame == [key : Keys \cup {NoKey}, adv : Adv \cup {0}, stream : BOOLEAN,
          one : BOOLEAN, conn : Conn \cup {0}, at : Phases]


VARIABLES
  salt,     \* hash() of a key's str form in each process (salted)
  stable,   \* hash() of an int or uuid key, the same in every process
  free,     \* the free connections of each process's pool
  held,     \* the session (<<process, connection>>) holding each lock id
  frames,   \* the calls in progress of each task, innermost last
  calls,    \* top-level calls each task has made
  closing   \* aclose() tasks of dropped generators: <<task, frame>>

vars == <<salt, stable, free, held, frames, calls, closing>>

-----------------------------------------------------------------------------
(* Helpers.                                                                *)

\* Mutant: the key is passed to pg_advisory_lock without hash().
AdvisoryKeyUnhashed(p, k) == k

\* Mutant: a key that is turned into a str before hashing (for instance
\* str(uuid)) is salted like every str.
AdvisoryKeySalted(p, k) == salt[p][k]

\* PostgreSqlLock.__init__: an int key is used as is, other keys by hash(),
\* which for a uuid is hash(uuid.int) and so the same in every process.
AdvisoryKey(p, k) == IF k \in SaltedKeys THEN salt[p][k] ELSE stable[k]

\* Mutant: the exit of the lock context manager forgets pg_advisory_unlock.
ExitPhaseNoUnlock(f) == "release"

\* The first step of the context manager's exit.
ExitPhase(f) == IF f.key = NoKey THEN "release" ELSE "unlock"

\* Mutant: releasing the cursor does not give the connection back.
PoolAfterReleaseLost(p, c) == free[p]

\* aiopg's cursor context manager returns the connection on exit.
PoolAfterRelease(p, c) == free[p] \cup {c}

Top(t) == frames[t][Len(frames[t])]

SetTop(t, f) == frames' = [frames EXCEPT ![t][Len(frames[t])] = f]

Pop(t) == frames' = [frames EXCEPT ![t] = SubSeq(@, 1, Len(@) - 1)]

\* pg_advisory_unlock from session <<p, f.conn>>: frees the id if it holds it.
Unlocked(p, f) == IF held[f.adv] = <<p, f.conn>> THEN [held EXCEPT ![f.adv] = NoConn]
                  ELSE held

-----------------------------------------------------------------------------
(* Actions.                                                                *)

\* Each process draws its hash salt when it starts.
Init ==
  /\ salt \in [Proc -> [Keys -> Adv]]
  /\ stable \in [Keys -> Adv]
  /\ free = [p \in Proc |-> Conn]
  /\ held = [a \in Adv |-> NoConn]
  /\ frames = [t \in Task |-> <<>>]
  /\ calls = [t \in Task |-> 0]
  /\ closing = {}

\* submit_query / submit_query_and_iter: choose the context manager, and
\* for a lock build the PostgreSqlLock (hashing the key).  A call is
\* top-level, or made from the loop body of a streaming frame.
Call(t, key, mode) ==
  /\ \/ /\ frames[t] = <<>>
        /\ calls[t] < MaxCalls
        /\ calls' = [calls EXCEPT ![t] = @ + 1]
     \/ /\ Nested
        /\ Len(frames[t]) = 1
        /\ Top(t).at = "rows"
        /\ UNCHANGED calls
  /\ frames' = [frames EXCEPT ![t] = Append(@,
                  [key |-> key, stream |-> mode # "all", one |-> mode = "one",
                   conn |-> 0, at |-> "acquire",
                   adv |-> IF key = NoKey THEN 0
                           ELSE AdvisoryKey(ProcOf[t], key)])]
  /\ UNCHANGED <<salt, stable, free, held, closing>>

\* pool.cursor().__aenter__: wait for a free connection of the process.
Acquire(t) ==
  LET f == Top(t)  p == ProcOf[t] IN
  /\ frames[t] # <<>>
  /\ f.at = "acquire"
  /\ \E c \in free[p] :
       /\ free' = [free EXCEPT ![p] = @ \ {c}]
       /\ SetTop(t, [f EXCEPT !.conn = c,
                       !.at = IF f.key = NoKey THEN "exec" ELSE "lock"])
  /\ UNCHANGED <<salt, stable, held, calls, closing>>

\* _fn_enter: pg_advisory_lock blocks until no other session holds the id
\* (the holding session itself may take it again).
Lock(t) ==
  LET f == Top(t) IN
  /\ frames[t] # <<>>
  /\ f.at = "lock"
  /\ held[f.adv] \in {NoConn, <<ProcOf[t], f.conn>>}
  /\ held' = [held EXCEPT ![f.adv] = <<ProcOf[t], f.conn>>]
  /\ SetTop(t, [f EXCEPT !.at = "exec"])
  /\ UNCHANGED <<salt, stable, free, calls, closing>>

\* _fn_enter raises at pg_advisory_lock (connection error, cancellation):
\* ContextManager.__aenter__ propagates it and no exit runs, so the cursor
\* taken just before is never released.
LockFails(t) ==
  /\ MayFail
  /\ frames[t] # <<>>
  /\ Top(t).at = "lock"
  /\ Pop(t)
  /\ UNCHANGED <<salt, stable, free, held, calls, closing>>

\* cursor.execute of the query; without streaming also fetchall(), after
\* which the context manager exits before the first row is yielded.
Exec(t) ==
  LET f == Top(t) IN
  /\ frames[t] # <<>>
  /\ f.at = "exec"
  /\ SetTop(t, [f EXCEPT !.at = IF f.stream THEN "rows" ELSE ExitPhase(f)])
  /\ UNCHANGED <<salt, stable, free, held, calls, closing>>

\* Streaming: the loop over the cursor ends (or the caller leaves it and the
\* generator is closed), and the context manager exits.
EndRows(t) ==
  LET f == Top(t) IN
  /\ frames[t] # <<>>
  /\ f.at = "rows"
  /\ SetTop(t, [f EXCEPT !.at = ExitPhase(f)])
  /\ UNCHANGED <<salt, stable, free, held, calls, closing>>

\* _fn_exit: pg_advisory_unlock releases the id if this session holds it.
Unlock(t) ==
  LET f == Top(t) IN
  /\ frames[t] # <<>>
  /\ f.at = "unlock"
  /\ held' = Unlocked(ProcOf[t], f)
  /\ SetTop(t, [f EXCEPT !.at = "release"])
  /\ UNCHANGED <<salt, stable, free, calls, closing>>

\* _fn_exit raises at pg_advisory_unlock: the wrapped cursor's __aexit__
\* after it never runs.  Whether the server released the lock before the
\* error reached the client is not known.
UnlockFails(t) ==
  LET f == Top(t) IN
  /\ MayFail
  /\ frames[t] # <<>>
  /\ f.at = "unlock"
  /\ \E released \in BOOLEAN :
       held' = IF released THEN [held EXCEPT ![f.adv] = NoConn] ELSE held
  /\ Pop(t)
  /\ UNCHANGED <<salt, stable, free, calls, closing>>

\* The cursor context manager exits: the connection goes back to the pool.
Release(t) ==
  LET f == Top(t)  p == ProcOf[t] IN
  /\ frames[t] # <<>>
  /\ f.at = "release"
  /\ free' = [free EXCEPT ![p] = PoolAfterRelease(p, f.conn)]
  /\ Pop(t)
  /\ UNCHANGED <<salt, stable, held, calls, closing>>

\* Mutant: the dropped generator is never finalized.
ClosingAfterFirstRowNone(t, f) == closing

\* The generator object is freed when __anext__() returns; the finalizer
\* hook creates the aclose() task, which resumes the generator at its yield
\* with GeneratorExit and so runs the exit of the `async with`.
ClosingAfterFirstRow(t, f) == closing \cup {<<t, [f EXCEPT !.at = ExitPhase(f)]>>}

\* submit_query_and_fetchone: the first row of a streaming call reaches the
\* caller, which returns with it.  (A call without rows ends as EndRows.)
FirstRow(t) ==
  LET f == Top(t) IN
  /\ frames[t] # <<>>
  /\ f.at = "rows"
  /\ f.one
  /\ Pop(t)
  /\ closing' = ClosingAfterFirstRow(t, f)
  /\ UNCHANGED <<salt, stable, free, held, calls>>

\* The aclose() task runs _fn_exit's pg_advisory_unlock for the dropped
\* generator, on the connection the generator still holds.
CloseUnlock(c) ==
  /\ c \in closing
  /\ c[2].at = "unlock"
  /\ held' = Unlocked(ProcOf[c[1]], c[2])
  /\ closing' = (closing \ {c}) \cup {<<c[1], [c[2] EXCEPT !.at = "release"]>>}
  /\ UNCHANGED <<salt, stable, free, frames, calls>>

\* pg_advisory_unlock raises inside aclose(): the task ends with the error
\* (reported by the event loop) and the cursor is not released.
CloseUnlockFails(c) ==
  /\ MayFail
  /\ c \in closing
  /\ c[2].at = "unlock"
  /\ \E released \in BOOLEAN :
       held' = IF released THEN [held EXCEPT ![c[2].adv] = NoConn] ELSE held
  /\ closing' = closing \ {c}
  /\ UNCHANGED <<salt, stable, free, frames, calls>>

\* The aclose() task releases the cursor: the connection is back.
CloseRelease(c) ==
  /\ c \in closing
  /\ c[2].at = "release"
  /\ free' = [free EXCEPT ![ProcOf[c[1]]] = PoolAfterRelease(ProcOf[c[1]], c[2].conn)]
  /\ closing' = closing \ {c}
  /\ UNCHANGED <<salt, stable, held, frames, calls>>

\* The steps the event loop and the database take for a call in progress.
Internal(t) == Acquire(t) \/ Lock(t) \/ Exec(t) \/ EndRows(t) \/ Unlock(t)
               \/ Release(t)

Next ==
  \E t \in Task :
    \/ \E key \in Keys \cup {NoKey}, mode \in Modes : Call(t, key, mode)
    \/ Internal(t)
    \/ FirstRow(t)
    \/ LockFails(t)
    \/ UnlockFails(t)
  \/ \E c \in closing : CloseUnlock(c) \/ CloseRelease(c) \/ CloseUnlockFails(c)

\* Waiters for a pool connection (aiopg's Condition) and for an advisory
\* lock (PostgreSQL's lock queue) are served in order, so a waiter whose
\* resource is freed again and again is eventually served: strong
\* fairness.  The other steps only need the event loop to run the task,
\* and the aclose() tasks it creates.  A fetchone caller returns with the
\* first row, so FirstRow is as fair as the rest of the call.
Fairness ==
  /\ \A t \in Task :
       /\ SF_vars(Acquire(t))
       /\ SF_vars(Lock(t))
       /\ WF_vars(Exec(t) \/ EndRows(t) \/ FirstRow(t) \/ Unlock(t) \/ Release(t))
  /\ WF_vars(\E c \in closing : CloseUnlock(c) \/ CloseRelease(c))

Spec == Init /\ [][Next]_vars /\ Fairness

-----------------------------------------------------------------------------
(* Properties.                                                             *)

Session == {<<p, c>> : p \in Proc, c \in Conn}

TypeOK ==
  /\ salt \in [Proc -> [Keys -> Adv]] /\ stable \in [Keys -> Adv]
  /\ free \in [Proc -> SUBSET Conn]
  /\ held \in [Adv -> Session \cup {NoConn}]
  /\ frames \in [Task -> Seq(Frame)]
  /\ calls \in [Task -> 0..MaxCalls]
  /\ closing \subseteq Task \X Frame

\* The frames that are inside `async with self.lock(key)`: past
\* pg_advisory_lock and not yet past pg_advisory_unlock, those of dropped
\* generators included.
Holders(k) ==
  {<<t, f>> \in UNION {{<<u, frames[u][j]>> : j \in 1..Len(frames[u])} : u \in Task} :
     f.key = k /\ f.at \in {"exec", "rows", "unlock"}}
  \cup {c \in closing : c[2].key = k /\ c[2].at = "unlock"}

\* Calls that pass the same lock key run their query one at a time, across
\* every task and process, for keys whose hash() does not depend on the
\* process (int and uuid keys): the key to advisory id mapping of
\* PostgreSqlLock.__init__ together with the lock/unlock pairing of
\* _fn_enter/_fn_exit.
StableKeyExclusion ==
  \A k \in Keys \ SaltedKeys : Cardinality(Holders(k)) <= 1

\* The same for every key, str keys included.
KeyExclusion == \A k \in Keys : Cardinality(Holders(k)) <= 1

\* A connection that is back in a pool never carries an advisory lock: the
\* exit of PostgreSqlLock unlocks before it releases the cursor, so the
\* next call that draws the connection cannot find a lock it never took.
NoLockedConnectionInPool ==
  \A a \in Adv : held[a] # NoConn => held[a][2] \notin free[held[a][1]]

\* When no call is in progress and no aclose() is pending, every connection
\* is back in its pool and no advisory lock is held.
QuiescentPoolsFull ==
  (\A t \in Task : frames[t] = <<>>) /\ closing = {} =>
     /\ \A p \in Proc : free[p] = Conn
     /\ \A a \in Adv : held[a] = NoConn

\* Every call that starts returns: no task waits forever for a pool
\* connection or an advisory lock.
CallsReturn == \A t \in Task : frames[t] # <<>> ~> frames[t] = <<>>
=============================================================================
