--------------------------- MODULE MCModelRefResolver ---------------------------
EXTENDS ModelRefResolver, TLC

CONSTANTS u1, u2, Car, Owner, Own

MCUuids == {u1, u2}
MCNames == {Car, Owner}
MCClassOf == (u1 :> Car) @@ (u2 :> Owner)

\* An aggregate with two fields, each a leaf or a list of up to two leaves.
Leaves == UNION {{PlainUuid(u), Ref(u), ResolvedRef(u)} : u \in Uuids}
Lists == {[kind |-> "list", items |-> s] :
            s \in {<<>>} \cup [1..1 -> Leaves] \cup [1..2 -> Leaves]}
MCInputs == {[kind |-> "model", cls |-> "local", uuid |-> Own, fields |-> <<a, b>>] :
               a, b \in Leaves \cup Lists}
=============================================================================
