------------------------- MODULE TransactionProtocol -------------------------
(***************************************************************************)
(* The optimistic transaction protocol of the minos event repository.     *)
(*                                                                         *)
(* Each transaction is driven by its own asyncio task.  Inside the scope  *)
(* of the transaction (`async with Transaction()`) the task stages events *)
(* tagged with the transaction's uuid; it then calls `reserve()`,         *)
(* `commit()`, `reject()` or leaves the scope (autocommit).  Every await  *)
(* on the event or transaction repository is a point where another task   *)
(* may run, so `reserve()` and `commit()` are split into one step per     *)
(* await, with the task's program counter `pc` remembering where it is.   *)
(*                                                                         *)
(* The event log is one sequence: an entry's global `id` is its index.    *)
(* A staged entry carries `tx = t`; a committed one carries `tx = NoTx`.  *)
(* The field `from` is a history field (not in the table): the            *)
(* transaction whose commit appended the committed entry.                 *)
(***************************************************************************)
EXTENDS Integers, Sequences, FiniteSets, SequencesExt

CONSTANTS
  Tx,          \* transaction uuids, one task per transaction
  Agg,         \* aggregate uuids; each starts with a committed version 1
  AutoCommit,  \* the transactions constructed with autocommit=True
  NoTx,        \* transaction_uuid = NULL: the entry is committed
  MaxStaged    \* bound on the entries one transaction stages

ASSUME AutoCommit \subseteq Tx
ASSUME NoTx \notin Tx
ASSUME MaxStaged \in Nat \ {0}

PENDING    == "pending"
RESERVING  == "reserving"
RESERVED   == "reserved"
COMMITTING == "committing"
COMMITTED  == "committed"
REJECTED   == "rejected"

Statuses == {PENDING, RESERVING, RESERVED, COMMITTING, COMMITTED, REJECTED}
Terminal == {COMMITTED, REJECTED}

\* The status_in filter of the validator's transaction query.
LiveStatuses == {RESERVING, RESERVED, COMMITTING, COMMITTED}

\* Where a task is: in the transaction scope, inside reserve(), inside
\* commit(), or out of the scope.
Scope      == "scope"
RsvAggs    == "rsv_aggs"     \* validate(): its event and transaction queries
RsvSave    == "rsv_save"     \* reserve(): read offset, save outcome
CmtBegin   == "cmt_begin"    \* commit() after its own reserve()
CmtSubmit  == "cmt_submit"   \* _commit() and the final save of commit()
Done       == "done"
InFlight   == {RsvAggs, RsvSave, CmtBegin, CmtSubmit}

Errors == {"none", "RepositoryConflict", "VersionConflict", "Timeout"}

VARIABLES
  log,          \* the event table, ordered by id
  status,       \* persisted status of each transaction
  eventOffset,  \* persisted event_offset of each transaction (0 = None)
  pc,           \* where each task is
  cont,         \* who called reserve(): the caller or commit()
  exiting,      \* the call was made by __aexit__ (autocommit)
  todo,         \* validate(): aggregates whose query is still to be made
  others,       \* validate(): other transactions claiming a checked version
  verdict,      \* validate(): its result, read by reserve()
  cursor,       \* _commit(): number of staged entries already submitted
  raised        \* the last exception raised to each task

vars == <<log, status, eventOffset, pc, cont, exiting, todo, others,
          verdict, cursor, raised>>

Entry == [agg : Agg, version : Nat, tx : Tx \cup {NoTx}, from : Tx \cup {NoTx}]

-----------------------------------------------------------------------------
(* The event repository seen by the protocol.                             *)

\* EventRepository.offset: the greatest id, ids being 1, 2, ...
Offset == Len(log)

MaxOf(S) == IF S = {} THEN 0 ELSE Max(S)

\* Ids of the entries staged by t, ascending: select(transaction_uuid=t).
StagedIds(t) == {i \in DOMAIN log : log[i].tx = t}

\* Mutant: _commit() re-appends the staged entries newest first.
NextToSubmitNewestFirst(t, k) ==
  CHOOSE i \in StagedIds(t) :
    Cardinality({j \in StagedIds(t) : j >= i}) = k

\* The k-th staged entry of t in id order (k starts at 1).
NextToSubmit(t, k) ==
  CHOOSE i \in StagedIds(t) :
    Cardinality({j \in StagedIds(t) : j <= i}) = k

\* Versions of aggregate a visible to t: the main line plus t's own entries.
ViewVersion(t, a) ==
  MaxOf({log[i].version : i \in {j \in DOMAIN log :
                                   log[j].agg = a /\ log[j].tx \in {NoTx, t}}})

\* Greatest committed version of aggregate a.
CommittedVersion(a) ==
  MaxOf({log[i].version : i \in {j \in DOMAIN log :
                                   log[j].agg = a /\ log[j].tx = NoTx}})

\* Greatest version t staged for aggregate a: validate() queries only it.
MaxOwnVersion(t, a) ==
  MaxOf({log[i].version : i \in {j \in StagedIds(t) : log[j].agg = a}})

OwnAggs(t) == {log[i].agg : i \in StagedIds(t)}

\* select(aggregate_uuid=a, version=v)
EntriesAt(a, v) == {i \in DOMAIN log : log[i].agg = a /\ log[i].version = v}

\* Mutant: validate() does not stop at a committed entry.
FoundCommittedIgnored(a, v) == FALSE

\* validate(): a committed entry at (a, v) makes it return False at once.
FoundCommitted(a, v) == \E i \in EntriesAt(a, v) : log[i].tx = NoTx

\* Outcome of submit(entry, transaction_uuid_ne=t) for a staged entry e
\* re-appended with transaction_uuid = NULL.
SubmitOutcome(t, e) ==
  IF \E i \in EntriesAt(e.agg, e.version) : log[i].tx = NoTx
  THEN "RepositoryConflict"
  ELSE IF e.version # CommittedVersion(e.agg) + 1
       THEN "VersionConflict"
       ELSE "none"

\* Mutant: the submit loop stops one entry short.
AllSubmittedButLast(t) == cursor[t] >= Cardinality(StagedIds(t)) - 1

\* All staged entries of t have been submitted.
AllSubmitted(t) == cursor[t] = Cardinality(StagedIds(t))

\* Control goes back to the caller of the operation.
Return(t) == pc' = [pc EXCEPT ![t] = IF exiting[t] THEN Done ELSE Scope]

-----------------------------------------------------------------------------
InitLog ==
  LET as == SetToSeq(Agg)
  IN [i \in 1..Len(as) |-> [agg |-> as[i], version |-> 1,
                            tx |-> NoTx, from |-> NoTx]]

Init ==
  /\ log = InitLog
  /\ status = [t \in Tx |-> PENDING]
  /\ eventOffset = [t \in Tx |-> 0]
  /\ pc = [t \in Tx |-> Scope]
  /\ cont = [t \in Tx |-> "caller"]
  /\ exiting = [t \in Tx |-> FALSE]
  /\ todo = [t \in Tx |-> {}]
  /\ others = [t \in Tx |-> {}]
  /\ verdict = [t \in Tx |-> FALSE]
  /\ cursor = [t \in Tx |-> 0]
  /\ raised = [t \in Tx |-> "none"]

\* An aggregate operation inside the scope submits an event tagged with t
\* at the next version of t's view.
Stage(t, a) ==
  /\ pc[t] = Scope
  /\ status[t] = PENDING
  /\ Cardinality(StagedIds(t)) < MaxStaged
  /\ log' = Append(log, [agg |-> a, version |-> ViewVersion(t, a) + 1,
                         tx |-> t, from |-> t])
  /\ UNCHANGED <<status, eventOffset, pc, cont, exiting, todo, others,
                 verdict, cursor, raised>>

\* reserve(): valid only from PENDING; saves RESERVING, then validates.
BeginReserve(t, caller) ==
  /\ status[t] = PENDING
  /\ status' = [status EXCEPT ![t] = RESERVING]
  /\ pc' = [pc EXCEPT ![t] = RsvAggs]
  /\ cont' = [cont EXCEPT ![t] = caller]
  /\ todo' = [todo EXCEPT ![t] = OwnAggs(t)]
  /\ others' = [others EXCEPT ![t] = {}]
  /\ raised' = [raised EXCEPT ![t] = "none"]

\* commit() from RESERVED: saves COMMITTING and starts _commit().
BeginCommit(t) ==
  /\ status[t] = RESERVED
  /\ status' = [status EXCEPT ![t] = COMMITTING]
  /\ pc' = [pc EXCEPT ![t] = CmtSubmit]
  /\ cursor' = [cursor EXCEPT ![t] = 0]

CallReserve(t) ==
  /\ pc[t] = Scope
  /\ BeginReserve(t, "caller")
  /\ UNCHANGED <<log, eventOffset, exiting, verdict, cursor>>

\* commit(): from PENDING it first reserves, from RESERVED it commits.
StartCommit(t) ==
  \/ /\ BeginReserve(t, "commit")
     /\ UNCHANGED <<log, eventOffset, verdict, cursor>>
  \/ /\ BeginCommit(t)
     /\ raised' = [raised EXCEPT ![t] = "none"]
     /\ UNCHANGED <<log, eventOffset, cont, todo, others, verdict>>

CallCommit(t) ==
  /\ pc[t] = Scope
  /\ StartCommit(t)
  /\ UNCHANGED exiting

\* Mutant: reject() without its status check.
RejectAnyStatus(t) ==
  /\ pc[t] = Scope
  /\ status' = [status EXCEPT ![t] = REJECTED]
  /\ eventOffset' = [eventOffset EXCEPT ![t] = Offset + 1]
  /\ UNCHANGED <<log, pc, cont, exiting, todo, others, verdict, cursor,
                 raised>>

\* reject(): invalid from COMMITTED and REJECTED.
Reject(t) ==
  /\ pc[t] = Scope
  /\ status[t] \notin Terminal
  /\ status' = [status EXCEPT ![t] = REJECTED]
  /\ eventOffset' = [eventOffset EXCEPT ![t] = Offset + 1]
  /\ UNCHANGED <<log, pc, cont, exiting, todo, others, verdict, cursor,
                 raised>>

\* __aexit__: commits when autocommit is set and the transaction is still
\* PENDING or RESERVED; otherwise only leaves the scope.
Exit(t) ==
  /\ pc[t] = Scope
  /\ exiting' = [exiting EXCEPT ![t] = TRUE]
  /\ IF t \in AutoCommit /\ status[t] \in {PENDING, RESERVED}
     THEN StartCommit(t)
     ELSE /\ pc' = [pc EXCEPT ![t] = Done]
          /\ UNCHANGED <<log, status, eventOffset, cont, todo, others,
                         verdict, cursor, raised>>

\* Mutant: an aggregate found free is queried again and again.
ValidateAggKeepsTodo(t, a) ==
  /\ pc[t] = RsvAggs
  /\ a \in todo[t]
  /\ LET found == EntriesAt(a, MaxOwnVersion(t, a))
     IN IF FoundCommitted(a, MaxOwnVersion(t, a))
        THEN /\ verdict' = [verdict EXCEPT ![t] = FALSE]
             /\ pc' = [pc EXCEPT ![t] = RsvSave]
             /\ UNCHANGED <<todo, others>>
        ELSE /\ others' = [others EXCEPT ![t] =
                   @ \cup ({log[i].tx : i \in found} \ {t})]
             /\ UNCHANGED <<todo, verdict, pc>>
  /\ UNCHANGED <<log, status, eventOffset, cont, exiting, cursor, raised>>

\* validate(): select(aggregate_uuid=a, version=<t's greatest version of a>).
\* A committed entry there makes validate() return False at once; entries
\* of other transactions are collected for the transaction query.
ValidateAgg(t, a) ==
  /\ pc[t] = RsvAggs
  /\ a \in todo[t]
  /\ LET found == EntriesAt(a, MaxOwnVersion(t, a))
     IN IF FoundCommitted(a, MaxOwnVersion(t, a))
        THEN /\ verdict' = [verdict EXCEPT ![t] = FALSE]
             /\ pc' = [pc EXCEPT ![t] = RsvSave]
             /\ UNCHANGED <<todo, others>>
        ELSE /\ others' = [others EXCEPT ![t] =
                   @ \cup ({log[i].tx : i \in found} \ {t})]
             /\ todo' = [todo EXCEPT ![t] = @ \ {a}]
             /\ UNCHANGED <<verdict, pc>>
  /\ UNCHANGED <<log, status, eventOffset, cont, exiting, cursor, raised>>

\* validate(): select(uuid_in=others, status_in=LiveStatuses); any row
\* found makes it return False.
ValidateStatuses(t) ==
  /\ pc[t] = RsvAggs
  /\ todo[t] = {}
  /\ verdict' = [verdict EXCEPT ![t] =
                   ~\E u \in others[t] : status[u] \in LiveStatuses]
  /\ pc' = [pc EXCEPT ![t] = RsvSave]
  /\ UNCHANGED <<log, status, eventOffset, cont, exiting, todo, others,
                 cursor, raised>>

\* reserve(): save(event_offset=offset+1, status=RESERVED or REJECTED);
\* on REJECTED raise RepositoryConflict, on RESERVED return to the caller
\* or go on with commit().
ReserveSave(t) ==
  /\ pc[t] = RsvSave
  /\ status' = [status EXCEPT ![t] = IF verdict[t] THEN RESERVED ELSE REJECTED]
  /\ eventOffset' = [eventOffset EXCEPT ![t] = Offset + 1]
  /\ IF verdict[t] /\ cont[t] = "commit"
     THEN /\ pc' = [pc EXCEPT ![t] = CmtBegin]
          /\ UNCHANGED raised
     ELSE /\ Return(t)
          /\ raised' = [raised EXCEPT ![t] =
                          IF verdict[t] THEN "none" ELSE "RepositoryConflict"]
  /\ UNCHANGED <<log, cont, exiting, todo, others, verdict, cursor>>

\* commit() after its reserve() succeeded: save(status=COMMITTING).
CommitAfterReserve(t) ==
  /\ pc[t] = CmtBegin
  /\ BeginCommit(t)
  /\ UNCHANGED <<log, eventOffset, cont, exiting, todo, others, verdict,
                 raised>>

\* _commit(): submit the next staged entry with transaction_uuid=NULL and
\* transaction_uuid_ne=t.  A RepositoryConflict rejects the transaction and
\* leaves the entries already submitted in place; a VersionConflict
\* propagates without any save.
CommitSubmit(t) ==
  /\ pc[t] = CmtSubmit
  /\ ~AllSubmitted(t)
  /\ LET e == log[NextToSubmit(t, cursor[t] + 1)]
         outcome == SubmitOutcome(t, e)
     IN IF outcome = "none"
        THEN /\ log' = Append(log, [e EXCEPT !.tx = NoTx])
             /\ cursor' = [cursor EXCEPT ![t] = @ + 1]
             /\ UNCHANGED <<status, eventOffset, pc, raised>>
        ELSE /\ status' = IF outcome = "RepositoryConflict"
                          THEN [status EXCEPT ![t] = REJECTED]
                          ELSE status
             /\ eventOffset' = IF outcome = "RepositoryConflict"
                               THEN [eventOffset EXCEPT ![t] = Offset + 1]
                               ELSE eventOffset
             /\ Return(t)
             /\ raised' = [raised EXCEPT ![t] = outcome]
             /\ UNCHANGED <<log, cursor>>
  /\ UNCHANGED <<cont, exiting, todo, others, verdict>>

\* commit(): save(event_offset=offset+1, status=COMMITTED).
CommitSave(t) ==
  /\ pc[t] = CmtSubmit
  /\ AllSubmitted(t)
  /\ status' = [status EXCEPT ![t] = COMMITTED]
  /\ eventOffset' = [eventOffset EXCEPT ![t] = Offset + 1]
  /\ Return(t)
  /\ UNCHANGED <<log, cont, exiting, todo, others, verdict, cursor, raised>>

\* A storage timeout at any await of reserve() or commit() propagates to
\* the caller unchanged and leaves the persisted status as it was.
Timeout(t) ==
  /\ pc[t] \in InFlight
  /\ Return(t)
  /\ raised' = [raised EXCEPT ![t] = "Timeout"]
  /\ UNCHANGED <<log, status, eventOffset, cont, exiting, todo, others,
                 verdict, cursor>>

-----------------------------------------------------------------------------
\* Steps the task takes of its own accord once a call is in progress.
Internal(t) ==
  \/ \E a \in Agg : ValidateAgg(t, a)
  \/ ValidateStatuses(t)
  \/ ReserveSave(t)
  \/ CommitAfterReserve(t)
  \/ CommitSubmit(t)
  \/ CommitSave(t)

\* Calls the application makes on the transaction.
Caller(t) ==
  \/ \E a \in Agg : Stage(t, a)
  \/ CallReserve(t)
  \/ CallCommit(t)
  \/ Reject(t)
  \/ Exit(t)

Next ==
  \E t \in Tx : Caller(t) \/ Internal(t) \/ Timeout(t)

\* The event loop runs every ready task: a call in progress is not
\* abandoned unless storage times out.  The application is not fair.
Fairness == \A t \in Tx : WF_vars(Internal(t))

Spec == Init /\ [][Next]_vars /\ Fairness

\* The same behaviours without fairness, for the safety properties.
SafetySpec == Init /\ [][Next]_vars

-----------------------------------------------------------------------------
(* Properties                                                              *)

TypeOK ==
  /\ log \in Seq(Entry)
  /\ status \in [Tx -> Statuses]
  /\ eventOffset \in [Tx -> Nat]
  /\ pc \in [Tx -> {Scope, Done} \cup InFlight]
  /\ cont \in [Tx -> {"caller", "commit"}]
  /\ exiting \in [Tx -> BOOLEAN]
  /\ todo \in [Tx -> SUBSET Agg]
  /\ others \in [Tx -> SUBSET Tx]
  /\ verdict \in [Tx -> BOOLEAN]
  /\ cursor \in [Tx -> Nat]
  /\ raised \in [Tx -> Errors]

\* submit() raises VersionConflict only on a caller bug: the commit
\* protocol (reserve, then _commit re-appending the staged entries in id
\* order) never re-appends an entry whose version is not the next one of
\* its aggregate, whatever the other transactions do.
NoVersionConflict == \A t \in Tx : raised[t] # "VersionConflict"

\* The committed entries t's commit appended.
CommittedBy(t) == {j \in DOMAIN log : log[j].tx = NoTx /\ log[j].from = t}

\* Some, not all, of t's staged entries are in the main line.
PartlyCommitted(t) ==
  CommittedBy(t) # {} /\ Cardinality(CommittedBy(t)) < Cardinality(StagedIds(t))

\* _commit() undoes nothing (spec section 7), so a caller must learn of a
\* partial commit from commit() itself: once its call has returned, a
\* transaction whose entries are only partly in the main line is never
\* COMMITTED (nor back in a status that could reserve or commit again),
\* and the call raised the RepositoryConflict or timeout that cut the
\* submit loop short.  Reaching it takes a staged pair of versions, the
\* first submit, and a competing commit or a timeout before the second.
PartialCommitRaised ==
  \A t \in Tx : PartlyCommitted(t) /\ pc[t] \notin InFlight =>
    /\ status[t] \in {COMMITTING, REJECTED}
    /\ raised[t] \in {"RepositoryConflict", "Timeout"}

\* The conflict validator's promise: two transactions that both passed
\* reservation (RESERVED, COMMITTING or COMMITTED) never staged the same
\* version of the same aggregate; the second to reserve is rejected.
ExclusiveClaims ==
  \A t, u \in Tx :
    (t # u /\ status[t] \in {RESERVED, COMMITTING, COMMITTED}
           /\ status[u] \in {RESERVED, COMMITTING, COMMITTED}) =>
      \A i \in StagedIds(t), j \in StagedIds(u) :
        ~(log[i].agg = log[j].agg /\ log[i].version = log[j].version)

-----------------------------------------------------------------------------
(* Refinement of the transaction lifecycle.                              *)

Lifecycle == INSTANCE TransactionLifecycle

\* Under every interleaving, timeout and conflict, each transaction's row
\* only follows the status graph of spec section 4.2 (no reject of a
\* COMMITTED transaction, no commit that skips RESERVED) and its
\* event_offset never goes back.
LifecycleRefinement == Lifecycle!Spec

-----------------------------------------------------------------------------
(* Liveness, under the fairness of the event loop.                         *)

\* Every reserve() or commit() in progress returns to its caller (with a
\* result, RepositoryConflict, VersionConflict or a timeout): validate()
\* runs out of aggregates to query and _commit() out of entries to
\* submit, whatever the other transaction appends meanwhile.
InFlightCallsReturn == \A t \in Tx : (pc[t] \in InFlight) ~> (pc[t] \notin InFlight)
=============================================================================
