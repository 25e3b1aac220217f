------------------------------ MODULE MCOperators ------------------------------
(***************************************************************************)
(* The pure operators of the project, each applied to every input of its  *)
(* bounded grammar: a state is one input, tagged with the code it is for. *)
(*   "refs"    ModelRefExtractor and ModelRefInjector     (MCModelRefs)    *)
(*   "diff"    FieldDiffContainer                         (MCFieldDiff)    *)
(*   "inject"  Inject._inject_on_kwargs         (MCInjectDecorator)        *)
(*   "field"   the ModelField value setter                (MCModelField)   *)
(*   "fieldeq" ModelField.__eq__                          (MCModelFieldEq) *)
(*   "schema"  AvroSchemaEncoder                          (MCAvroSchema)   *)
(***************************************************************************)
EXTENDS TLC

CONSTANTS
  u1, u2, Car, Owner, Own, NoData,               \* references
  x, y, s, e1, e2, v0, v1, Absent, KeyErr,       \* diffs
  Missing, d1, d2, d3, w1, w2, None, TypeErr,    \* field values
  ParseErr, NoParser, NoValidator

VARIABLE input

Refs == INSTANCE MCModelRefs
          WITH v <- input.v, Uuids <- {u1, u2}, Names <- {Car, Owner},
               ClassOf <- (u1 :> Car) @@ (u2 :> Owner)
Diffs == INSTANCE MCFieldDiff
           WITH a <- input.a, b <- input.b, ignore <- input.ignore,
                FieldOrder <- <<x, y, s>>, SetFields <- {s}, Entities <- {e1, e2},
                Vals <- {v0, v1}
Calls == INSTANCE MCInjectDecorator WITH call <- input.call
FieldSets == INSTANCE MCModelField
               WITH f <- input.f, Data <- {Missing, d1, d2, d3}, Vals <- {None, w1, w2},
                    Decode <- (Missing :> None) @@ (d1 :> w1) @@ (d2 :> w2) @@ (d3 :> TypeErr)
FieldPairs == INSTANCE MCModelFieldEq WITH pair <- input.pair
Schemas == INSTANCE MCAvroSchema WITH t <- input.t

Init ==
  \/ \E r \in Refs!Roots : input = [of |-> "refs", v |-> r]
  \/ \E q \in Diffs!Latest \X Diffs!Older \X SUBSET Diffs!Names :
       input = [of |-> "diff", a |-> q[1], b |-> q[2], ignore |-> q[3]]
  \/ \E c \in Calls!Calls : input = [of |-> "inject", call |-> c]
  \/ \E g \in FieldSets!Created : input = [of |-> "field", f |-> g]
  \/ \E p \in FieldPairs!Fields \X FieldPairs!Fields : input = [of |-> "fieldeq", pair |-> p]
  \/ \E h \in Schemas!Hints : input = [of |-> "schema", t |-> h]

Next == UNCHANGED input

-----------------------------------------------------------------------------
(* Properties: those of the modules named above, for the inputs of their   *)
(* kind.                                                                   *)

\* The extractor finds every ModelRef of a value, through lists and model
\* fields, with its class.
ExtractFindsEveryRef == input.of = "refs" => Refs!ExtractFindsEveryRef

\* The injector puts each fetched model exactly where its reference was.
RefsReplacedInPlace == input.of = "refs" => Refs!RefsReplacedInPlace

\* A diff (from_difference or from_model) applied through get_all rebuilds
\* the newer model.
DiffRoundTrip == input.of = "diff" => Diffs!DiffRoundTrip

\* from_difference never raises KeyError, whatever fields the older model
\* lacks.
DiffTotal == input.of = "diff" => Diffs!DiffTotal

\* Inject never passes a keyword for a parameter the call already bound.
InjectionNeverRebinds == input.of = "inject" => Calls!InjectionNeverRebinds

\* Inject fills every parameter the call leaves unbound and the container
\* provides.
InjectsEveryUnboundParam == input.of = "inject" => Calls!InjectsEveryUnboundParam

\* A field only ever stores values its validator accepts.
StoredValueValid == input.of = "field" => FieldSets!StoredValueValid

\* Fields that __eq__ finds equal validate alike.
EqualFieldsValidateAlike == input.of = "fieldeq" => FieldPairs!EqualFieldsValidateAlike

\* A class is encoded by its most specific built-in class.
MostSpecificClassSchema == input.of = "schema" => Schemas!MostSpecificClassSchema

\* No union schema has a union as a direct branch.
UnionsFlat == input.of = "schema" => Schemas!UnionsFlat

\* No two records of one schema have the same full name.
RecordNamesUnique == input.of = "schema" => Schemas!RecordNamesUnique

\* No encoded union repeats an unnamed branch type.
UnionBranchesDistinct == input.of = "schema" => Schemas!UnionBranchesDistinct
=============================================================================
