------------------------------- MODULE FieldDiff -------------------------------
(***************************************************************************)
(* FieldDiffContainer (src/minos/common/model/dynamic/diff.py): the        *)
(* difference between two versions of a model, as the event data of an   *)
(* update, and the by-name access its consumers use.                       *)
(*                                                                         *)
(* A model is a function from field names to values; Absent marks a field *)
(* the model does not have (an older class of the aggregate).  A field in *)
(* SetFields holds an EntitySet (a set of entities); its difference is a   *)
(* list of incremental diffs, one per created or deleted entity.          *)
(* A diff is [name, value, action]: action "set" for a FieldDiff, and      *)
(* "create" or "delete" for an IncrementalFieldDiff.                      *)
(***************************************************************************)
EXTENDS Integers, Sequences, FiniteSets, SequencesExt

CONSTANTS
  FieldOrder,  \* the fields of the latest class, in declaration order
  SetFields,   \* the fields that hold an EntitySet
  Vals,        \* values of the other fields
  Entities,    \* entities an EntitySet may hold
  Absent,      \* the model has no such field
  KeyErr       \* _diff raised KeyError

Names == Range(FieldOrder)

ASSUME SetFields \subseteq Names

Diff == [name : Names, value : Vals \cup Entities \cup SUBSET Entities,
         action : {"set", "create", "delete"}]

\* EntitySetDiff.from_difference(new, old).diffs (outside src/): a creation
\* for each entity only in the new set, a deletion for each only in the old.
SetDiff(f, new, old) ==
  [i \in 1..Cardinality(new \ old) |->
     [name |-> f, value |-> SetToSeq(new \ old)[i], action |-> "create"]]
  \o [i \in 1..Cardinality(old \ new) |->
        [name |-> f, value |-> SetToSeq(old \ new)[i], action |-> "delete"]]

\* Mutant: a field the old model lacks is taken as unchanged.
RECURSIVE DiffLoopMissingIsEqual(_, _, _, _)
DiffLoopMissingIsEqual(a, b, fs, acc) ==
  IF fs = <<>> THEN acc
  ELSE LET f == Head(fs) IN
       IF a[f] = Absent \/ b[f] = Absent \/ a[f] = b[f]
         THEN DiffLoopMissingIsEqual(a, b, Tail(fs), acc)
       ELSE IF f \in SetFields
         THEN DiffLoopMissingIsEqual(a, b, Tail(fs), acc \o SetDiff(f, a[f], b[f]))
       ELSE DiffLoopMissingIsEqual(a, b, Tail(fs),
                                   acc \o <<[name |-> f, value |-> a[f], action |-> "set"]>>)

\* _diff(a.fields, b.fields): over the fields of a in order, a field that b
\* lacks or holds with another value gives its diffs; for a set field the
\* old set is read as b[a_name] even when b lacks the field.
RECURSIVE DiffLoop(_, _, _, _)
DiffLoop(a, b, fs, acc) ==
  IF fs = <<>> THEN acc
  ELSE LET f == Head(fs) IN
       IF a[f] = Absent \/ (b[f] # Absent /\ a[f] = b[f])
         THEN DiffLoop(a, b, Tail(fs), acc)
       ELSE IF f \in SetFields
         THEN IF b[f] = Absent THEN KeyErr
              ELSE DiffLoop(a, b, Tail(fs), acc \o SetDiff(f, a[f], b[f]))
       ELSE DiffLoop(a, b, Tail(fs), acc \o <<[name |-> f, value |-> a[f], action |-> "set"]>>)

\* from_difference(a, b, ignore): the diffs of the fields not ignored.
FromDifference(a, b, ignore) ==
  LET d == DiffLoop(a, b, FieldOrder, <<>>) IN
  IF d = KeyErr THEN KeyErr ELSE SelectSeq(d, LAMBDA x : x.name \notin ignore)

\* from_model(model, ignore): one FieldDiff per field, whatever its kind.
FromModel(m, ignore) ==
  SelectSeq([i \in 1..Len(FieldOrder) |->
               [name |-> FieldOrder[i], value |-> m[FieldOrder[i]], action |-> "set"]],
            LAMBDA x : m[x.name] # Absent /\ x.name \notin ignore)

\* __init__: the name mapper, name -> the positions of its diffs in order.
NameMapper(c) ==
  [n \in {c[i].name : i \in DOMAIN c} |->
     SelectSeq([i \in DOMAIN c |-> i], LAMBDA i : c[i].name = n)]

\* get_one(name): the first diff with that name.
GetOne(c, n) == c[NameMapper(c)[n][1]]

\* Mutant: get_all returns only the first diff of the name.
GetAllFirstOnly(c, n) == <<GetOne(c, n)>>

\* get_all(name): every diff with that name, in order.
GetAll(c, n) == [k \in DOMAIN NameMapper(c)[n] |-> c[NameMapper(c)[n][k]]]

\* Applying a container to the old model, name by name through get_all
\* (spec section 4.3: an UPDATE merges a partial diff into the state).
ApplyOne(value, d) ==
  CASE d.action = "set"    -> d.value
    [] d.action = "create" -> value \cup {d.value}
    [] d.action = "delete" -> value \ {d.value}

Apply(b, c) ==
  [f \in Names |->
     IF f \notin DOMAIN NameMapper(c) THEN b[f]
     ELSE FoldLeft(ApplyOne, b[f], GetAll(c, f))]
=============================================================================
