----------------------------- MODULE MCAvroSchema -----------------------------
(***************************************************************************)
(* The schemas of every type hint built from a few classes, model types,  *)
(* containers and two-member unions.                                      *)
(***************************************************************************)
EXTENDS AvroSchema

\* The namespaces of the model types: a module's, and the empty one a
\* ModelType built without a namespace has (the schemas in
\* tests/test_common/test_model/test_dynamic/test_dto.py).
ModelNamespaces == {"pkg", ""}

Cls(n, bs) == [kind |-> "class", name |-> n, bases |-> bs]
IntField == <<[name |-> "x", type |-> Cls("int", {"int"})]>>

\* NoneType, bool, int, str, datetime, date, UUID, an IntEnum and Any.
Classes == {Cls("NoneType", {"none"}), Cls("bool", {"bool", "int"}), Cls("int", {"int"}),
            Cls("str", {"str"}), Cls("datetime", {"datetime", "date"}), Cls("date", {"date"}),
            Cls("UUID", {"uuid"}), Cls("Color", {"enum", "int"})}
Leaves == Classes \cup {[kind |-> "any"]}
\* The ModelType Foo, and the Model subclass Bar.
Models == {[kind |-> "modeltype", name |-> "Foo", ns |-> n, fields |-> IntField] : n \in ModelNamespaces}
          \cup {[kind |-> "class", bases |-> {"model"}, name |-> "Bar", ns |-> "app", fields |-> IntField]}
Containers == {[kind |-> k, arg |-> a] : k \in {"list", "set", "dict"}, a \in Leaves \cup Models}
Singles == Leaves \cup Models \cup Containers
Unions == {[kind |-> "union", args |-> <<a, b>>] : a, b \in Singles} \ {[kind |-> "union", args |-> <<a, a>>] : a \in Singles}
\* A model type with two fields of the same model.
Pairs == {[kind |-> "modeltype", name |-> "Pair", ns |-> "app",
           fields |-> <<[name |-> "first", type |-> m], [name |-> "second", type |-> m]>>] : m \in Models}

Hints == Singles \cup Unions \cup Pairs

VARIABLE t  \* one of Hints

\* The sub-schemas of a schema, itself first.
Children(s) == CASE s.type = "union"  -> s.branches
                 [] s.type = "array"  -> <<s.items>>
                 [] s.type = "map"    -> <<s.values>>
                 [] s.type = "record" -> [i \in DOMAIN s.fields |-> s.fields[i].type]
                 [] OTHER             -> <<>>
RECURSIVE Nodes(_)
Nodes(s) == <<s>> \o FlattenSeq([i \in DOMAIN Children(s) |-> Nodes(Children(s)[i])])

S == Schema(t)
UnionNodes == {n \in Range(Nodes(S)) : n.type = "union"}
Records == SelectSeq(Nodes(S), LAMBDA n : n.type = "record")

\* Python's subclass relation among the built-in classes.
SubclassOf == {<<"bool", "int">>, <<"datetime", "date">>}
MostSpecific(c) == CHOOSE b \in c.bases \cap Range(Chain) : ~\E d \in c.bases : <<d, b>> \in SubclassOf

\* A class is encoded by its most specific built-in class (bool as boolean,
\* not int; datetime as a timestamp, not a date), and an enum by the type
\* it mixes in, whatever order the issubclass checks take.
MostSpecificClassSchema ==
  t.kind = "class" /\ t.bases \cap Range(Chain) # {} =>
    S.type = Prim[MostSpecific(t)].type
    /\ ("enum" \notin t.bases => S = Prim[MostSpecific(t)])

\* No union schema has a union as a direct branch (Avro forbids it): the
\* list a Model subclass is encoded as is spliced into the union.
UnionsFlat == \A u \in UnionNodes : \A i \in DOMAIN u.branches : u.branches[i].type # "union"

\* No union has two branches of one unnamed type (Avro forbids it: only
\* records, enums and fixed may repeat, under distinct names).  A type
\* hint Python accepts as a union should give a schema Avro accepts.
UnionBranchesDistinct ==
  \A u \in UnionNodes : \A i, j \in DOMAIN u.branches :
    i # j /\ u.branches[i].type \notin {"record", "enum", "fixed"}
      => u.branches[i].type # u.branches[j].type

\* No two records of one schema have the same full name (Avro forbids
\* redefining a named type): a model type used twice, as two fields of one
\* model type, must not give two records of one name.  Only records
\* without the random namespace suffix can clash.
RecordNamesUnique ==
  \A i, j \in DOMAIN Records :
    i # j /\ ~Records[i].namespace.random /\ ~Records[j].namespace.random
      => <<Records[i].namespace.ns, Records[i].name>> # <<Records[j].namespace.ns, Records[j].name>>
=============================================================================
