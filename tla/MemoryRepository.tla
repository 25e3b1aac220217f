--------------------------- MODULE MemoryRepository ---------------------------
(***************************************************************************)
(* MinosInMemoryRepository (src/minos/common/repository/memory.py): the   *)
(* in-memory event store.  `_submit` has no await, so each submission is  *)
(* one atomic step even when several aggregates submit concurrently.      *)
(* An entry submitted with aggregate_id = 0 is a creation: the store      *)
(* picks the id from the number of entries of that aggregate name.  Every *)
(* entry gets version = number of earlier entries of the same aggregate   *)
(* plus one, and id = a global counter plus one.                          *)
(***************************************************************************)
EXTENDS Integers, Sequences, FiniteSets

CONSTANTS
  Names,       \* aggregate names (classes)
  Actions,     \* the actions an entry may carry
  Create,      \* the action of a submission with aggregate_id = 0
  MaxEntries   \* bound on the entries stored

ASSUME Create \in Actions
ASSUME MaxEntries \in Nat \ {0}

VARIABLES
  storage,     \* self._storage
  ids          \* the count() behind self._id_generator

vars == <<storage, ids>>

Entry == [aggregate_name : Names, aggregate_id : Nat \ {0}, version : Nat,
          id : Nat, action : Actions]

-----------------------------------------------------------------------------
\* Entries of storage satisfying P, counted as len(list(filter(...))).
CountWhere(P(_)) == Cardinality({i \in DOMAIN storage : P(storage[i])})

\* Mutant: the counter of entries is used without the + 1.
NextAggregateIdFromZero(name) ==
  CountWhere(LAMBDA e : e.aggregate_name = name)

\* _generate_next_aggregate_id: entries of that name, plus one.
NextAggregateId(name) ==
  CountWhere(LAMBDA e : e.aggregate_name = name) + 1

\* Mutant: the version counter ignores the aggregate name.
NextVersionAnyName(name, aid) ==
  CountWhere(LAMBDA e : e.aggregate_id = aid) + 1

\* _get_next_version_id: entries of that aggregate, plus one.
NextVersion(name, aid) ==
  CountWhere(LAMBDA e : e.aggregate_name = name /\ e.aggregate_id = aid) + 1

\* Aggregate ids of a name that callers can hold: those of stored entries.
KnownIds(name) ==
  {storage[i].aggregate_id : i \in {j \in DOMAIN storage :
                                     storage[j].aggregate_name = name}}

\* _select's keyword arguments: each names the entry attribute it bounds
\* and how.  A query is a function from the arguments that are not None
\* to their values.
Bounds ==
  [aggregate_id |-> <<"aggregate_id", "eq">>, aggregate_name |-> <<"aggregate_name", "eq">>,
   version |-> <<"version", "eq">>, version_lt |-> <<"version", "lt">>,
   version_gt |-> <<"version", "gt">>, version_le |-> <<"version", "le">>,
   version_ge |-> <<"version", "ge">>, id |-> <<"id", "eq">>, id_lt |-> <<"id", "lt">>,
   id_gt |-> <<"id", "gt">>, id_le |-> <<"id", "le">>, id_ge |-> <<"id", "ge">>]

\* Mutant: `version_lt <= entry.version` written as `<`, and likewise for
\* the other strict bounds.
KeepsStrictAsLoose(op, arg, x) ==
  CASE op = "eq" -> arg = x
    [] op = "lt" -> x <= arg
    [] op = "gt" -> x >= arg
    [] op = "le" -> x <= arg
    [] op = "ge" -> x >= arg

\* One test of _fn_filter: the entry is kept unless the test returns False
\* (`version_lt <= entry.version` drops it, so it keeps x < arg).
Keeps(op, arg, x) ==
  CASE op = "eq" -> arg = x
    [] op = "lt" -> x < arg
    [] op = "gt" -> x > arg
    [] op = "le" -> x <= arg
    [] op = "ge" -> x >= arg

\* _fn_filter(entry): every argument given holds of the entry.
FnFilter(q, e) == \A k \in DOMAIN q : Keeps(Bounds[k][2], q[k], e[Bounds[k][1]])

\* _select(**q): the stored entries the filter keeps, in storage order.
Select(q) == SelectSeq(storage, LAMBDA e : FnFilter(q, e))

Init ==
  /\ storage = << >>
  /\ ids = 0

\* _submit(entry): assign the aggregate id (on creation), the version and
\* the global id, then append.
Submit(name, aid, action) ==
  /\ Len(storage) < MaxEntries
  /\ LET newId == IF aid = 0 THEN NextAggregateId(name) ELSE aid
     IN storage' = Append(storage,
                          [aggregate_name |-> name, aggregate_id |-> newId,
                           version |-> NextVersion(name, newId),
                           id |-> ids + 1, action |-> action])
  /\ ids' = ids + 1

\* Aggregate.create submits with id 0; update and delete submit with the
\* id the aggregate was created with.
Next ==
  \E name \in Names :
    \/ Submit(name, 0, Create)
    \/ \E aid \in KnownIds(name), action \in Actions \ {Create} :
         Submit(name, aid, action)

Spec == Init /\ [][Next]_vars

-----------------------------------------------------------------------------
(* Properties                                                              *)

TypeOK ==
  /\ storage \in Seq(Entry)
  /\ ids \in Nat

\* Creating an aggregate (aggregate_id = 0) always starts a new lineage:
\* the id it gets is unused by any earlier entry of that name, so it is
\* stored at version 1; every later entry of the lineage, made by update or
\* delete, has a version above 1.
CreationsStartLineages ==
  \A i \in DOMAIN storage :
    (storage[i].action = Create) <=>
       /\ storage[i].version = 1
       /\ \A j \in 1..(i - 1) :
            storage[j].aggregate_name = storage[i].aggregate_name =>
              storage[j].aggregate_id # storage[i].aggregate_id

\* Reading an aggregate up to a version, as a snapshot is rebuilt from
\* _select(aggregate_id, aggregate_name, version_lt=v), returns its versions
\* 1, 2, ..., v - 1 in order, whatever other aggregates' entries are
\* interleaved with it in storage.
LineageReadsInOrder ==
  \A i \in DOMAIN storage, v \in 1..(MaxEntries + 1) :
    LET e == storage[i]
        rd == Select([aggregate_id |-> e.aggregate_id, aggregate_name |-> e.aggregate_name,
                      version_lt |-> v])
        n == Cardinality({j \in DOMAIN storage : storage[j].aggregate_name = e.aggregate_name
                                              /\ storage[j].aggregate_id = e.aggregate_id})
    IN [j \in DOMAIN rd |-> rd[j].version] = [j \in 1..(IF v - 1 < n THEN v - 1 ELSE n) |-> j]

\* The entries a reader has not seen since offset o are exactly those
\* appended after the o-th: _select(id_gt=o) is the suffix of storage, so
\* a reader that stores the offset it read up to never misses an entry.
OffsetReadsSuffix ==
  \A o \in 0..Len(storage) : Select([id_gt |-> o]) = SubSeq(storage, o + 1, Len(storage))
=============================================================================
