------------------------------- MODULE ModelRefs -------------------------------
(***************************************************************************)
(* The model reference walks of src/minos/aggregate/models/refs.py:       *)
(* ModelRefExtractor, which collects the ModelRef values of a value, and  *)
(* ModelRefInjector, which replaces identifiers by the models a broker    *)
(* query returned.                                                         *)
(*                                                                         *)
(* A value is a record with a `kind`:                                      *)
(*   "uuid"  a plain UUID;                                                 *)
(*   "ref"   a ModelRef (itself a UUID); `data` is the referenced model    *)
(*           once resolved, NoData before;                                 *)
(*   "model" a model (entity or value object) and its field values;        *)
(*   "list"  a list, tuple or set.                                         *)
(* The class of a reference is the one its uuid belongs to (ClassOf): the  *)
(* extractor takes it from the ModelRef's data_cls or from the field type  *)
(* argument, which name the same class in a well-typed model.             *)
(***************************************************************************)
EXTENDS Integers, Sequences, FiniteSets

CONSTANTS
  Uuids,     \* identifiers of remote models
  Names,     \* their class names
  ClassOf,   \* the class of the model with each identifier
  NoData     \* ModelRef.data of an unresolved reference is its uuid

ASSUME ClassOf \in [Uuids -> Names]

\* The model a "Get<name>s" query returns for an identifier.
Fetched(u) == [kind |-> "model", cls |-> ClassOf[u], uuid |-> u, fields |-> <<>>]

PlainUuid(u) == [kind |-> "uuid", uuid |-> u]
Ref(u) == [kind |-> "ref", cls |-> ClassOf[u], uuid |-> u, data |-> NoData]
ResolvedRef(u) == [Ref(u) EXCEPT !.data = Fetched(u)]

\* The sub-values a walk goes into: list items and model fields.
Parts(v) == CASE v.kind = "list"  -> v.items
              [] v.kind = "model" -> v.fields
              [] OTHER            -> <<>>

-----------------------------------------------------------------------------
(* ModelRefExtractor.                                                      *)

\* Mutant: _build misses the list branch.
RECURSIVE ExtractSkippingLists(_)
ExtractSkippingLists(v) ==
  CASE v.kind = "ref"   -> {<<v.cls, v.uuid>>}
    [] v.kind = "model" ->
         UNION {ExtractSkippingLists(v.fields[i]) : i \in DOMAIN v.fields}
    [] OTHER            -> {}

\* _build / _build_iterable: the (class name, reference) pairs found in v.
\* A ModelRef is collected whether it is resolved or not, and the walk does
\* not go into it.
RECURSIVE Extract(_)
Extract(v) ==
  CASE v.kind = "ref"              -> {<<v.cls, v.uuid>>}
    [] v.kind \in {"list", "model"} ->
         UNION {Extract(Parts(v)[i]) : i \in DOMAIN Parts(v)}
    [] OTHER                        -> {}

\* build() with as_uuids=True: class name -> set of identifiers.
Missing(v) ==
  LET pairs == Extract(v) IN
  [n \in {p[1] : p \in pairs} |-> {p[2] : p \in {q \in pairs : q[1] = n}}]

-----------------------------------------------------------------------------
(* ModelRefInjector.                                                       *)

\* Mutant: _build does not go into the fields of a model.
RECURSIVE InjectShallow(_, _)
InjectShallow(v, mapper) ==
  CASE v.kind = "list" ->
         [v EXCEPT !.items = [i \in DOMAIN v.items |-> InjectShallow(v.items[i], mapper)]]
    [] v.kind \in {"uuid", "ref"} /\ v.uuid \in DOMAIN mapper -> mapper[v.uuid]
    [] OTHER -> v

\* _build: lists are rebuilt item by item; any UUID (a ModelRef is one)
\* whose identifier the mapper holds becomes the model; a model (a ModelRef
\* not in the mapper is one too) has its fields rebuilt in place.  Each
\* field is written through ModelField's value setter, whose decoding
\* (AvroDataDecoder) is not under src/: the model writes the result as it
\* is, which is what the setter stores for a ModelRef-typed field.  What it
\* does with a model given to a plain UUID-typed field is left open, and no
\* property here is about that case.
RECURSIVE Inject(_, _)
Inject(v, mapper) ==
  CASE v.kind = "list" ->
         [v EXCEPT !.items = [i \in DOMAIN v.items |-> Inject(v.items[i], mapper)]]
    [] v.kind \in {"uuid", "ref"} /\ v.uuid \in DOMAIN mapper -> mapper[v.uuid]
    [] v.kind = "model" ->
         [v EXCEPT !.fields = [i \in DOMAIN v.fields |-> Inject(v.fields[i], mapper)]]
    [] v.kind = "ref" /\ v.data # NoData -> [v EXCEPT !.data = Inject(v.data, mapper)]
    [] OTHER -> v

\* ModelRefResolver._query: the mapper {model.uuid: model} of the replies.
MapperOf(models) == [u \in {m.uuid : m \in models} |-> CHOOSE m \in models : m.uuid = u]

-----------------------------------------------------------------------------
(* Positions, for the properties: the path of list-item and field        *)
(* indexes from the root to a sub-value (values are at most 3 deep).     *)

Paths == {<<>>} \cup [1..1 -> 1..2] \cup [1..2 -> 1..2] \cup [1..3 -> 1..2]

RECURSIVE Valid(_, _)
Valid(x, p) == p = <<>> \/ (Head(p) \in DOMAIN Parts(x) /\ Valid(Parts(x)[Head(p)], Tail(p)))

RECURSIVE At(_, _)
At(x, p) == IF p = <<>> THEN x ELSE At(Parts(x)[Head(p)], Tail(p))

Positions(x) == {p \in Paths : Valid(x, p)}

PositionsOf(x, k) == {p \in Positions(x) : At(x, p).kind = k}
=============================================================================
