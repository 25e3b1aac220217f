------------------------------ MODULE MCModelRefs ------------------------------
(***************************************************************************)
(* The extractor and the injector applied to every value of a bounded     *)
(* shape, compared with definitions by position: a position is the path   *)
(* of list-item and field indexes from the root to a sub-value.           *)
(***************************************************************************)
EXTENDS ModelRefs, Functions, TLC

CONSTANTS u1, u2, Car, Owner, Own

\* Leaves, lists of up to two leaves, a local model with one field, and the
\* aggregate (the root) with two fields.
Leaves == UNION {{PlainUuid(u), Ref(u), ResolvedRef(u)} : u \in Uuids}
Lists == {[kind |-> "list", items |-> s] :
            s \in {<<>>} \cup [1..1 -> Leaves] \cup [1..2 -> Leaves]}
Local(fs) == [kind |-> "model", cls |-> "local", uuid |-> Own, fields |-> fs]
Inner == {Local(<<x>>) : x \in Leaves \cup Lists}
Roots == {Local(<<a, b>>) : a, b \in Leaves \cup Lists \cup Inner}

VARIABLE v  \* the value both walks are applied to, one of Roots

-----------------------------------------------------------------------------
\* The answer of the remote services when every referenced model exists.
FullMapper(x) == MapperOf({Fetched(u) : u \in UNION Range(Missing(x))})

-----------------------------------------------------------------------------
(* Properties.                                                             *)

\* ModelRefExtractor.build() collects exactly the references at the
\* positions of the value, with their class, through lists and fields.
ExtractFindsEveryRef ==
  Extract(v) = {<<At(v, p).cls, At(v, p).uuid>> : p \in PositionsOf(v, "ref")}

\* ModelRefInjector.build() with the models of every extracted identifier
\* puts, at the position of each reference, the model it identifies.
RefsReplacedInPlace ==
  LET r == Inject(v, FullMapper(v)) IN
  \A p \in PositionsOf(v, "ref") : Valid(r, p) /\ At(r, p) = Fetched(At(v, p).uuid)

=============================================================================
