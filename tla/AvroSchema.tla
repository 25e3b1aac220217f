------------------------------- MODULE AvroSchema -------------------------------
(***************************************************************************)
(* AvroSchemaEncoder (src/minos/common/model/serializers/                  *)
(* avro_schema_encoder.py): the Avro schema of a type hint.               *)
(*                                                                         *)
(* A type is a record with a `kind`:                                       *)
(*   "any"        typing.Any;                                              *)
(*   "class"      a class, with `bases` the names of the built-in classes  *)
(*                it is a subclass of ("enum" for an Enum, "model" for a   *)
(*                Model subclass, which also has name, ns and fields);     *)
(*   "modeltype"  a ModelType: name, namespace ns and fields <<[name,      *)
(*                type]>>;                                                 *)
(*   "list", "set", "dict" with the argument `arg` (dict: the value type); *)
(*   "union"      with `args`, which Python never nests or repeats.        *)
(* A schema is a record whose `type` is a string: the string "int" of the  *)
(* code is [type |-> "int"], and a list (a union) is [type |-> "union",    *)
(* branches |-> <<...>>].  A record's namespace carries `random`: whether  *)
(* generate_random_str() appended a fresh uuid4 to it.                     *)
(***************************************************************************)
EXTENDS Integers, Sequences, FiniteSets, SequencesExt

Null == [type |-> "null"]
Logical(t, l) == [type |-> t, logicalType |-> l]

\* The issubclass checks of _build_single_schema, in order, and the
\* constants they return (AVRO_TIMEDELTA as defined in the serializers'
\* constants module).
Prim == ("none" :> Null) @@ ("bool" :> [type |-> "boolean"]) @@ ("int" :> [type |-> "int"])
        @@ ("float" :> [type |-> "double"]) @@ ("str" :> [type |-> "string"])
        @@ ("bytes" :> [type |-> "bytes"])
        @@ ("datetime" :> Logical("long", "timestamp-micros"))
        @@ ("timedelta" :> Logical("long", "timedelta-micros"))
        @@ ("date" :> Logical("int", "date")) @@ ("time" :> Logical("int", "time-micros"))
        @@ ("uuid" :> Logical("string", "uuid"))

\* Mutant: int is checked before its subclass bool.
ChainIntFirst == <<"none", "int", "bool", "float", "str", "bytes", "datetime", "timedelta",
                   "date", "time", "uuid">>

Chain == <<"none", "bool", "int", "float", "str", "bytes", "datetime", "timedelta",
           "date", "time", "uuid">>

\* The first check of the chain a class passes.
FirstBase(t) == SelectSeq(Chain, LAMBDA c : c \in t.bases)[1]

\* _build_model_type_schema: a non-empty namespace gets a random suffix.
RecordNamespace(t) ==
  IF t.ns = "" THEN [ns |-> "", random |-> FALSE] ELSE [ns |-> t.ns, random |-> TRUE]

\* Mutant: a step that is a list is appended as one branch.
FlattenIntoNested(ans, step) == Append(ans, step)

\* _build_union_schema: a step that is itself a list is spliced in.
FlattenInto(ans, step) == IF step.type = "union" THEN ans \o step.branches ELSE Append(ans, step)

RECURSIVE Build(_, _), Single(_, _), ModelTypeSchema(_)

\* _build_schema(type_, allow_enum).
Build(t, allowEnum) ==
  IF t.kind = "union"
    THEN [type |-> "union",
          branches |-> FoldLeft(LAMBDA ans, a : FlattenInto(ans, Single(a, TRUE)), <<>>, t.args)]
    ELSE Single(t, allowEnum)

\* _build_single_schema and _build_composed_schema.
Single(t, allowEnum) ==
  CASE t.kind = "any" -> Null
    [] t.kind = "class" /\ allowEnum /\ "enum" \in t.bases ->
         Logical(Build(t, FALSE).type, t.name)
    [] t.kind = "class" /\ \E c \in t.bases : c \in Range(Chain) -> Prim[FirstBase(t)]
    [] t.kind = "modeltype" -> ModelTypeSchema(t)
    [] t.kind = "class" /\ "model" \in t.bases ->
         [type |-> "union", branches |-> <<ModelTypeSchema(t)>>]
    [] t.kind = "list" -> [type |-> "array", items |-> Build(t.arg, TRUE)]
    [] t.kind = "set"  -> [type |-> "array", items |-> Build(t.arg, TRUE), logicalType |-> "set"]
    [] t.kind = "dict" -> [type |-> "map", values |-> Build(t.arg, TRUE)]

ModelTypeSchema(t) ==
  [type |-> "record", name |-> t.name, namespace |-> RecordNamespace(t),
   fields |-> [i \in DOMAIN t.fields |->
                 [name |-> t.fields[i].name, type |-> Build(t.fields[i].type, TRUE)]]]

\* build(): the schema of a field's type hint.
Schema(t) == Build(t, TRUE)
=============================================================================
