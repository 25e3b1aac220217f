# TLA+ models of the minos consistency core

These modules model the consistency core of minos, as described in `spec.md`
and implemented by the files under `src/`. The core is the event repository,
the optimistic transaction protocol, and the snapshots built from the events.
Each module is translated from the code. Where the code is not under `src/`,
it is translated from the tests under `src/tests/` that fix its calls, or
from the spec. `PROJECT.json` lists, for every definition, the lines it
models (`map`). It also lists each run, each mutant and each finding, plus
the hazards the properties are meant to catch.

## 1. Inventory

### Components, their state and operations

| Component | Source | State | Operations |
|---|---|---|---|
| Event Log Store (in-memory repository) | `src/minos/common/repository/memory.py` | `_storage` (list of entries), `_id_generator` (a `count()`) | `_submit` assigns the aggregate id (when it is 0), the version and the global id, then appends. `_select` filters by aggregate id or name, by version (exact, `lt`, `gt`, `le`, `ge`) and by id. |
| Transaction Manager (`Transaction`) | not under `src/`; fixed by `src/tests/test_common/test_transactions/test_models.py` and spec §4.2 | persisted `status` and `event_offset` per transaction; `autocommit`; `TRANSACTION_CONTEXT_VAR` | `reserve`, `validate`, `commit` / `_commit`, `reject`, `save`, `__aenter__` / `__aexit__` |
| Conflict Validator (`Transaction.validate`) | same test file, lines 153-286 | none (reads the event and transaction repositories) | for each aggregate, one event query at the transaction's greatest staged version, then one query for the statuses of the competing transactions |
| Snapshot Materializer | `.../snapshots/database/factories/abc.py` (query builders only); `test_with_posgres.py` | snapshot rows per (aggregate, transaction); offset | fold the visible entries; `DeletedAggregate` after a delete |
| Repository Query Engine | `memory.py` `_select` | none | filter predicates over entries |
| PostgreSQL database and advisory lock | `src/minos/common/database/abc.py` | pool (lazy, owned or injected), cursors, `pg_advisory_lock` keys | `submit_query`, `submit_query_and_iter` (streaming or fetch-all), `lock`, `PostgreSqlLock` enter/exit, `_destroy` |
| Dependency injection | `src/minos/common/injectors.py`, `.../injections/decorators.py` | cached injections, container | `wire` / `unwire` (with `gather` of `setup` / `destroy`), `Inject.resolve` |
| Model diffs | `src/minos/common/model/dynamic/diff.py` | none (pure) | `FieldDiffContainer.from_difference`, `_diff`, the name mapper |
| Model references | `src/minos/aggregate/models/refs.py` | `ModelRef.data` (a uuid or the resolved model) | `resolve` (a broker round trip); extractor and injector (recursive walks) |
| Broker and handler glue | `networks/brokers/events.py`, `handlers/entries.py`, consumers, messages, the RabbitMQ builder, the duplicate-detector interface | none of their own | encode a message and call the broker; build entries from rows |
| Fields, Avro schema, exports, import helpers | `fields.py`, `avro_schema_encoder.py`, the `__init__.py` files, `importlib.py` | none | type and format conversion, re-exports |

### How the components interact

An application task opens `async with Transaction()`. Aggregate operations
inside the scope submit events to the event repository. Each event is tagged
with the transaction's uuid, taken from `TRANSACTION_CONTEXT_VAR`. The task
then calls `reserve()` and `commit()`, or leaves the scope with autocommit
on.

`reserve()` saves `RESERVING` in the transaction repository and runs
`validate()`. `validate()` queries the event repository and then the
transaction repository. `reserve()` finally saves `RESERVED` or `REJECTED`,
together with `event_offset = offset + 1`.

`commit()` saves `COMMITTING`. It then re-submits each staged entry with
`transaction_uuid = NULL` and `transaction_uuid_ne = uuid`, and saves
`COMMITTED`.

Other tasks run the same protocol at the same time. They share the event
table and the transaction table. The only points where one task can run
between another's steps are the awaits on those repositories.

### What is hard

- Interleaving. Two transactions validate at the same time. Each one reads
  the other's entries and statuses, in separate queries.
- Partial failure. `_commit` appends the entries one submit at a time. A
  conflict or a timeout in the middle leaves the first entries committed.
- Timeouts. A timed-out `reserve()` leaves the transaction `RESERVING`,
  `reserve()` cannot be retried, and every competitor's validation treats
  `RESERVING` as a live claim.
- Ordering. `_commit` submits the entries in the order the event query
  returns them (by id), not by version.
- Numeric edges in the in-memory store. Aggregate ids come from counting
  entries. They are unique but not dense.
- Locks across processes. `PostgreSqlLock` replaces a non-int key by
  `hash(key)`, and the hash of a `str` differs from one Python process to
  the next.

### Properties that make each component correct

- Event log: creating an aggregate starts a new lineage at version 1. The
  committed versions of an aggregate are 1..n. Ids grow strictly.
- Transaction manager:
  - A `COMMITTED` transaction's entries are all in the main line.
  - `submit` never raises `VersionConflict` along the protocol.
  - A `REJECTED` transaction left nothing in the main line.
  - A transaction stuck in `RESERVING` is eventually released.
- Conflict validator: two transactions that both pass reservation never
  claim the same version of the same aggregate.
- Snapshot materializer: the snapshot equals the fold of the visible
  entries. Replaying the log is idempotent. A delete makes reads fail.
- Advisory lock: two holders of the same key never overlap, including
  across processes. Every lock taken is released. The pool is never
  exhausted by tasks that wait on each other.

## 2. Plan

Modules, in order. The most important behaviour comes first.

1. **`TransactionProtocol`** (done). The transaction state machine, the
   validator and the commit loop over a shared event log. Several tasks run
   concurrently, every await is its own step, and timeouts are modelled.
2. **`MemoryRepository`** (done). `_submit` of the in-memory store.
3. **`EventLog`** (withdrawn). An abstract main line with contiguous
   versions, refined by `TransactionProtocol`. The refinement held only
   because `submit()`'s version check, which is modelled from the spec,
   admits nothing else, so it said nothing about the code and was removed.
4. **Query engine** (done, in `MemoryRepository`). `_fn_filter` of
   `_select` as the operators `Keeps`, `FnFilter` and `Select`, checked
   over every reachable storage.
5. **`SnapshotMaterializer`** (not modelled; see §5). Its code is not in
   the repository.
6. **`PostgresLock`** (done). Pool, cursors and advisory locks for tasks in two
   processes, including the per-process `hash()` of `str` keys, streaming
   mode, and unlock failure.
7. **Liveness and the lifecycle for `TransactionProtocol`** (done):
   every in-flight call returns (`InFlightCallsReturn`), and the rows
   refine the abstract `TransactionLifecycle`. A transaction stranded in
   `RESERVING` after a timeout leaves it only if the application rejects
   it, which the code does not guarantee, so no liveness property claims
   it.
8. **`FieldDiff`**, **`ModelRefs`**, **`ModelRefResolver`** (done):
   `_diff` and the ref extractor/injector as operators checked against
   references, and the resolver's broker round trip. **`InjectDecorator`**
   (done): `Inject`'s choice of the parameters to inject.
   **`DependencyInjector`** (done): `wire`/`unwire` with the `gather` of
   `setup()`/`destroy()` tasks that may raise.
9. **`ModelField`**, **`ModelFieldEq`**, **`AvroSchema`** (done): the field
   value setter, field equality, and the schema encoder as recursive
   operators.
10. **`HandlerEntry`** (withdrawn): `from_raw` only sets a failed flag in
    two `except` branches, so every property of it held by construction.

## 3. Modules

### `TransactionProtocol` (with `MCTransactionProtocol`)

State:

- `log` is the event table. The id of an entry is its index. A staged entry
  has `tx = t`; a committed entry has `tx = NoTx`. `from` is a history field
  that records which commit appended the entry.
- `status` and `eventOffset` are the persisted transaction rows.
- `pc` is where each task is.
- `todo`, `others`, `verdict` and `cursor` are the local variables of
  `validate()` and `_commit()` that live across awaits.
- `raised` is the last exception the task saw.

Actions. Each action is one step between two awaits:

- `Stage`: an aggregate operation inside the scope.
- `CallReserve` and `CallCommit`: the calls, including their first save.
- `ValidateAgg`: one event query per aggregate.
- `ValidateStatuses`: the transaction query.
- `ReserveSave`: reads the offset and saves `RESERVED` or `REJECTED`.
- `CommitAfterReserve`: `commit()` going on after its own `reserve()`.
- `CommitSubmit`: one submit of `_commit`.
- `CommitSave`: the final save of `commit()`.
- `Reject` and `Exit` (`__aexit__` with autocommit).
- `Timeout`: a storage timeout at any await.

Assumptions, each of which widens or matches the code:

- Staging is allowed only while the transaction is `PENDING`. That is the
  protocol's documented order; nothing in the code prevents a later stage.
- The aggregates of a validation are queried in any order. The code uses the
  order in which each aggregate was first staged; the model's orders include
  it.
- Each aggregate starts with a committed version 1. Creating a new uuid is
  out of scope, because two transactions never create the same uuid.

`CommittedBy(t)` is the set of main-line entries that `t`'s commit
appended (the `from` field). `PartialCommitRaised` is about the partial
commits the spec leaves open (section 9). `_commit()` undoes nothing, so
the caller must learn of a partial commit from `commit()` itself. Once the
call has returned, a transaction whose entries are only partly in the main
line is `COMMITTING` or `REJECTED`, and the call raised a
`RepositoryConflict` or a timeout. A submit loop that stops one entry
short (`AllSubmittedButLast`) breaks it.

### `TransactionLifecycle`, refined by `TransactionProtocol`

The abstract promise of spec section 4.2 for the persisted rows: `status`
moves only along the documented transitions (`Succ`), `COMMITTED` and
`REJECTED` are terminal, `eventOffset` never goes back, and one row
changes at a time. `Save(t)` states what one step may do with primed
conditions (the offset is any value no smaller than the old one).
`LifecycleRefinement` is `Lifecycle!Spec` with the protocol's own
`status` and `eventOffset`: every step of the protocol is a `Save` or
leaves the rows alone. A `reject()` that skipped its terminal-status
check (`RejectAnyStatus`) is caught.

### `MemoryRepository` (in `MCComponents`)

- `storage` and `ids` are `_storage` and the `count()`.
- `Submit` is `_submit`. It has no await, so it is atomic.
- `Create(name)` submits with `aggregate_id = 0`. Update and delete submit
  with an id the store already holds, which is the only id a caller can get.
- `Select(q)` is `_select`: a query `q` is a record of the keywords given
  (`aggregate_id`, `version_lt`, `id_gt`, ...), `Bounds` maps each keyword
  to the entry field and comparison it tests, `Keeps` is one `if` of
  `_fn_filter` read positively, and `Select` keeps the matching entries in
  storage order. `LineageReadsInOrder` and `OffsetReadsSuffix` compare it
  with the lineage prefix and the log suffix that the transaction code
  and the offset watermark rely on.

### `PostgresLock` (with `MCPostgresLock`)

`src/minos/common/database/abc.py`. Tasks in two processes (`Proc`, `Task`,
`ProcOf`) call `submit_query` / `submit_query_and_iter` with or without a
lock key and in streaming mode or not. Each call is a frame on its task's
stack `frames[t]` and goes through the phases of the code: `Acquire` (wait for
a free connection of the process's pool, `free[p]`), `Lock`
(`pg_advisory_lock`, which blocks while another session holds the id and is
reentrant for the holder; `held` maps an advisory id to its session), `Exec`
(the query, plus `fetchall` when not streaming), `EndRows` (the caller's loop
over a streaming cursor ends), `Unlock` and `Release`. `LockFails` and
`UnlockFails` are the errors of `_fn_enter` and `_fn_exit`; the
`ContextManager` then skips the cursor's exit, and the connection is lost.
A nested call (`Nested`) is a query issued from the loop body of a streaming
call, the only way the code holds two frames in one task.

`submit_query_and_fetchone` (`Modes` contains "one") returns the first row
of a streaming call and drops the generator while it is suspended inside
`async with` (`FirstRow`). The frame moves to `closing`, the aclose() tasks
that asyncio's async-generator finalizer hook creates. They run the exit of
the context manager later: `CloseUnlock`, `CloseUnlockFails` and
`CloseRelease`. Until then the call has returned, but its connection and
advisory lock are still held.

`PostgreSqlLock.__init__` turns a key into an id with `hash()`. For an `int`
it is the int, for a `uuid` `hash(uuid.int)`, the same in every process
(`stable`), and for a `str` a per-process salted value (`salt[p]`, drawn in
`Init`). `Adv` has two ids, so keys may collide.

### `ModelRefs` (with `MCModelRefs`)

`src/minos/aggregate/models/refs.py`: `ModelRefExtractor` (`Extract`,
`Missing`) and `ModelRefInjector` (`Inject`) as RECURSIVE operators over
values made of plain UUIDs, references, models and lists. A field that
`Inject` rewrites goes through `ModelField`'s setter, whose decoding is
outside `src/`. The model writes the result as it is, which is what the
setter stores for a `ModelRef`-typed field. It leaves open what a plain
`UUID`-typed field does with a model, and no property is about that case.
`MCModelRefs`
enumerates 9604 values up to three levels deep, and compares both walks with
a reference built from the positions (paths) of the sub-values.

### `ModelRefResolver` (in `MCComponents`, inputs from `MCModelRefResolver`)

`ModelRefResolver.resolve`: `Start` extracts the missing references, `Send`
publishes one `Get<name>s` query per class, `Reply` is the broker's answer
(with `Dup`, possibly twice), and `GetMany` collects
`len(missing)` answers and injects them.

### `FieldDiff` (with `MCFieldDiff`)

`src/minos/common/model/dynamic/diff.py`: `_diff` (`DiffLoop`),
`from_difference`, `from_model`, the name mapper, `get_one` and `get_all`.
`SetDiff` (the `EntitySetDiff` of a set field) and `Apply` (an update merged
into the old state, spec §4.3) come from outside `src/` and are modelled from
the spec. `MCFieldDiff` enumerates every pair of models over three fields,
one of them a set, where the older model may lack fields.

### `InjectDecorator` (with `MCInjectDecorator`)

`Inject` of `.../injections/decorators.py`: `_build_type_hints`
(`TypeHints`), `resolve` (`Resolvable`) and `_inject_on_kwargs`
(`InjectOnKwargs`). A parameter is named by its index in the signature.
`MCInjectDecorator` enumerates every signature of the form
`f([self,] [p, [q,]] [*args,] [*, r])` with hints drawn from an injectable
class, a `Union`, an `Optional`, a plain class and no hint, and every call
Python accepts. It checks the decorator against Python's own binding of the
call's arguments (`Bound`).

### `ModelField`, `ModelFieldEq` (with `MCModelField`, `MCModelFieldEq`)

`src/minos/common/model/fields/fields.py`. `SetValue(d)` is the value
setter: parse (`Parsed`), decode (`Decode`, the `AvroDataDecoder` outside
`src/`, fixed by the MC), validate (`Rejects`), store (`Stored`). `error`
records the exception raised, if any. `Created` is every field a successful
construction gives, with the parser and validator drawn from every function
of the small domain (`Blank`), because a constructor that raises leaves no
field. All of it is operators; `MCModelField` checks one field per state.
`ModelFieldEq` has `_parser_function`, `_validator_function` and `__eq__`
over callables that are `None`, plain functions or bound methods.

### `AvroSchema` (with `MCAvroSchema`)

`src/minos/common/model/serializers/avro_schema_encoder.py`: `build`,
`_build_schema`, `_build_union_schema`, `_build_single_schema` with its
ordered `issubclass` checks (`Chain`), `_build_composed_schema` and
`_build_model_type_schema`, as mutually RECURSIVE operators. A type is
described by the built-in classes it subclasses. A record's namespace
records whether the random suffix was added, since uuid4 values are
distinct. `MCAvroSchema` enumerates 1938 hints: 8 classes and `Any`, model
types, `list`/`set`/`dict` of them, two-member unions, and a model type with
two fields of the same model.

### `DependencyInjector` (in `MCComponents`)

`src/minos/common/injectors.py`. `injections` and `container` are the two
cached properties (`<<>>` and `{}` before first use); an injection is
named `<<key, n>>`, the n-th object built for that key, so a class built
twice by `from_config` gives two names. `Call` is `wire()` or `unwire()`:
the container call, then one task per injection and the `gather` over
them; `Finish(tk, ok)` is one `setup()`/`destroy()` returning or raising,
which resumes the caller when it was the last awaited task or when it
raised (gather without `return_exceptions`). `GetAttr` is `__getattr__`.
`setupOn` is a history variable: the objects a `setup()` was started on.
Only the type invariant is checked. Earlier properties only restated the
model of `asyncio.gather` and `@cached_property`, and were removed. The
hazard this code has is `unwire()` starting `destroy()` on an object whose
`setup()` has not returned. Whether that is harmful depends on
`MinosSetup`, which is not in the repository.

### `MCComponents`: four stateful components in one run

`MemoryRepository`, `ModelRefResolver`, `DependencyInjector` and the
liveness instance of `PostgresLock` share no state. `MCComponents`
instantiates all four with their constants, and a variable `which`, chosen
in `Init`, names the one a behaviour runs; the others stay in their initial
state. The states of the run are the sum of the four state spaces (23304
for the first three, 18988 for the lock), not their product, and each
property is that of its module for the behaviours of its kind. The
injector's and the lock's fairness only constrain their own steps, which are
enabled only in behaviours of their kind.

The lock instance has no failures and no nested calls, a pool of one
connection per process, one advisory id (every locked call contends for
the same lock) and every call mode, fetchone included.

### `MCOperators`: the pure operators in one run

`MCModelRefs`, `MCFieldDiff`, `MCInjectDecorator`, `MCModelField`,
`MCModelFieldEq` and `MCAvroSchema` each fix their input
as a variable that never changes. `MCOperators` instantiates all six, substituting a field of one
record variable `input` for each, and tags the input with the code it is for
(`input.of`). `Init` is the disjunction of the six input sets, so a state is
one input, and each property is that of its module for the inputs of its
kind. The model values of the six modules are declared once here.

## 4. Runs

| Run | Module / cfg | Expect | What it shows |
|---|---|---|---|
| `tx_safety` | `MCTransactionProtocol.cfg` | pass | Two concurrent transactions (one with autocommit) on one aggregate, with a timeout possible at every await. `NoVersionConflict` holds. A commit that leaves the main line partly applied has raised to its caller and is never `COMMITTED` (`PartialCommitRaised`). The rows implement `TransactionLifecycle`. Under the fairness of §4, every started repository call returns (255k distinct states, about 70 s). |
| `tx_exclusive_claims` | `MCTransactionProtocol_ExclusiveClaims.cfg` | violation | T2 stages v2 and T1 stages v2 and v3 of the same aggregate. T1's validation queries only v3, T2's finds T1 still `PENDING`, and both reach `RESERVED`. |
| `components` | `MCComponents.cfg` | pass | In-memory store: every creation starts a fresh aggregate at version 1, `version_lt` reads a lineage prefix in order, and `id_gt` reads exactly the suffix after an offset. Resolver: with one reply per query, every reference to an existing model is resolved. Database: every call returns under the pool's and PostgreSQL's FIFO waiting, including a fetchone call whose connection and lock are freed by the aclose() task of its dropped generator. The injector runs with only its type invariant (42k states, about 25 s). |
| `lock_safety` | `MCPostgresLock.cfg` | pass | Two processes with one connection each, two calls per task, failures and nested calls, in every call mode: calls with an `int`/`uuid` key run one at a time (a dropped fetchone generator still holding its lock counts), and no pooled connection keeps a lock (4.3M states, about 2.5 min). |
| `lock_str_key_exclusion` | `MCPostgresLock_KeyExclusion.cfg` | violation | Two processes salt the same `str` key differently and lock different ids, so both run "under the lock" at once. |
| `lock_failed_exit_leaks` | `MCPostgresLock_Quiescent.cfg` | violation | `pg_advisory_lock` or `pg_advisory_unlock` raises. The cursor is never released, and the pool stays one connection short for good. |
| `operators` | `MCOperators.cfg` | pass | Every input of the bounded grammars of the pure operators (242k states, about 15 s). The reference walks find and replace every `ModelRef` in place. A diff applied through `get_all` rebuilds the newer model. `Inject` never rebinds a bound parameter. A field only stores validated values. The Avro encoder picks the most specific built-in class and keeps unions flat. |
| `diff_missing_set_field` | `MCOperators_DiffTotal.cfg` | violation | `_diff` raises `KeyError` when the old model lacks a set field the new one has. |
| `inject_keyword_only_after_varargs` | `MCOperators_KeywordOnly.cfg` | violation | `def f(*args, a: A)` called as `f(x, y)`: the index of `a` (1) is below `len(args)`, so `a` is not injected, although `A` is provided. |
| `avro_union_duplicate_branches` | `MCOperators_UnionBranches.cfg` | violation | `Optional[Any]` is encoded as `["null", "null"]`; TLC's inputs also give `Union[str, UUID]`, `Union[int, date]` and a list with a set two branches of one unnamed Avro type, which Avro forbids. |
| `avro_record_redefined` | `MCOperators_RecordNames.cfg` | violation | A `ModelType` with an empty namespace, as `ModelType.build` gives and the `test_dto` schemas show, used twice in `Union[set[Foo], list[Foo]]`: the two `Foo` records get no random suffix and define one name twice, which Avro forbids. |
| `fieldeq_validator_ignored` | `MCOperators_FieldEq.cfg` | violation | `__eq__` compares `_validator_function` as it compares `_parser_function`, but the former has no final `return`. A field validated by a plain function therefore equals the same field with no validator. |

### Disagreements found while modelling, without a run of their own

Each was shown by TLC on a configuration of the modules above. They are
listed as hazards in `PROJECT.json` and not kept as runs.

- `MemoryRepository`: aggregate ids are not dense. After a create and an
  update of car 1 the next car gets id 3 (`_submit` counts entries, not
  aggregates); the contract test expects 2.
- `PostgresLock` with `Nested = TRUE` and a pool of two: a query made from the
  loop body of a locked streaming query, with a key that hashes to the same
  advisory id, waits forever on its own lock held by the other session.
- `DependencyInjector`: when a `setup()` raises, `wire()` raises at once,
  the container stays wired and the other setups keep running; a later
  `unwire()` can start `destroy()` on an object whose `setup()` has not
  returned. Whether that is harmful is up to `MinosSetup`, which is not in
  the repository.
- `ModelRefResolver` with `Dup = TRUE`: a duplicated reply is counted twice
  towards `len(missing)`, so `resolve()` stops early and leaves a reference
  unresolved.

### Bounds

The transaction model has 2 transactions (one with autocommit), 2
aggregates, and at most 2 staged entries per transaction. That is the
smallest size in which:

- a transaction can stage two versions of one aggregate (needed for the
  greatest-version-only validation to matter and for an id-order/version
  question in `_commit`);
- or it can stage one version of each aggregate (needed for a partial commit
  across aggregates);
- while the other transaction competes for the same version.

The passing run `tx_safety` uses a single aggregate. That is enough for the
case the refinement mapping is about, two reserved transactions committing
the same version, and for a transaction staging two versions of it. With two
aggregates, the temporal check of every transition takes close to the time
limit; the violation runs use two aggregates where their trace needs them.

The in-memory store model has 2 names and 5 entries. That is enough for two
lineages per name, interleaved with updates.

The lock model has two processes with one task each and a pool of one
connection (two in the nested-streaming configuration of the disagreements above, so
that the counterexample is the lock and not the pool). Each task makes two calls, drawn from two keys
(one `str`, one `uuid`) and two advisory ids. That is enough for a key
shared across processes, a collision between keys, and a second call
drawing a connection the first may have left locked. Calls take every mode
(fetch-all, streaming, fetchone), so a fetchone call's lock can still be
held by its aclose() task when the next call of its task begins. The
liveness instance in `MCComponents` has one advisory id: that keeps one
salt assignment in `Init` and every locked call on one queue, which is the
contention liveness is about.

The injector model has two injections, one an instance and one a class
built by `from_config`, setups and destroys that may raise, and three
`wire()`/`unwire()` calls: enough for a wire, a failed wire followed by an
unwire with setups still running, and a second wire.

The pure operators are checked over every input of a bounded grammar: values
three levels deep for the reference walks, three fields with two values and
two entities for diffs, signatures of up to five parameters for `Inject`,
and one level of containers and unions for the schema encoder. Each bound
is the smallest that still has the case a property is about (a reference
inside a list inside a model, a set field the old model lacks, a keyword-only
parameter after `*args`, a model inside a union).

### Fairness

In `TransactionProtocol`, the steps of a call in progress (`Internal(t)`) are
weakly fair. The asyncio event loop runs every ready task, so a started
`reserve()` or `commit()` continues until it returns or storage times out.
The application's calls (`Stage`, `CallReserve`, `CallCommit`, `Reject`,
`Exit`) are not fair, because an application may never make them. Deadlock
checking is off in the transaction runs. Once every task has left its scope
the system has stopped, and no other state lacks a successor: a task inside
a call can always time out, and a task in its scope can always exit.


In `PostgresLock`, `Acquire` and `Lock` are strongly fair. aiopg's pool
serves waiters in order, and so does PostgreSQL's lock queue: a task whose
connection or lock becomes free again and again is eventually served.
`Exec`, `EndRows`, `Unlock` and `Release` are weakly fair: the event loop
runs the task, and the caller's loop over a streaming cursor is assumed to
finish. The steps of an aclose() task (`CloseUnlock`, `CloseRelease`) are
weakly fair: CPython frees the dropped generator as soon as `__anext__`
returns, and the finalizer hook schedules its aclose() on the event loop. `Call` and the failures are not fair. The lock runs do not check
deadlock, because the tasks stop after `MaxCalls` calls.
`ModelRefResolver` claims no liveness and assumes no fairness.

`DependencyInjector` defines `Finish` as weakly fair, because the event loop
runs every ready task. The components run checks no liveness of the
injector and does not assume that fairness.

## 5. Not modelled, and why

- The broker and handler glue, `HandlerEntry.from_raw` included (it only
  sets a failed flag in two `except` branches), the package exports and
  `importlib`. They are one-call wrappers or re-exports
  with no state of their own, and the spec places them outside the core.
- `ModelField.avro_data`, `from_avro` and `real_type`, which only delegate
  to encoders and builders outside `src/`. Plain `Enum` classes, which the
  encoder rejects with `ValueError`. Models that refer to themselves, on
  which `_build_model_type_schema` recurses without end; the recursive
  operators need finite hints.
- Inside `setup()` and `destroy()` of the injections (`MinosSetup`, not in
  this repository): the model treats each as one await that returns or
  raises.
- `ModelRef.__eq__`/`__hash__` and `ModelField.__hash__`, which compare
  through `Model` and `TypeHintComparator`, defined outside `src/`.
- `PostgreSqlMinosDatabase._destroy`, and `ModelRef.resolve` for a single
  reference (the same round trip as `ModelRefResolver`).
- The `__aenter__` check against nested transactions. Each task runs one
  transaction, so the context variable is never shared.
- The snapshot materializer. The factory under `src/` only declares
  abstract query builders, and the Postgres test drives a class defined
  outside the repository; a module of it would model the spec, not code.
