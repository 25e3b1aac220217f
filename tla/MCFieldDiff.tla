------------------------------ MODULE MCFieldDiff ------------------------------
(***************************************************************************)
(* from_difference(a, b, ignore) for every latest model a, every older    *)
(* model b (which may lack fields of a) and every set of ignored fields.  *)
(***************************************************************************)
EXTENDS FieldDiff, TLC

CONSTANTS x, y, s, e1, e2, v0, v1

MCFieldOrder == <<x, y, s>>
MCSetFields == {s}
MCEntities == {e1, e2}
MCVals == {v0, v1}

\* The latest class has every field; an older one may lack any of them.
Latest == {(x :> vx) @@ (y :> vy) @@ (s :> es) :
             vx \in Vals, vy \in Vals, es \in SUBSET Entities}
Older == {(x :> vx) @@ (y :> vy) @@ (s :> es) :
            vx \in Vals \cup {Absent}, vy \in Vals \cup {Absent},
            es \in SUBSET Entities \cup {Absent}}

VARIABLES a, b, ignore  \* one of Latest, one of Older, a set of Names

-----------------------------------------------------------------------------
(* Properties.                                                             *)

\* Applying from_difference(a, b, ignore) to b, through the container's
\* get_all, rebuilds a on every field not ignored and keeps b on the
\* ignored ones: the diff drops no change, in particular no field b lacks,
\* and no incremental diff of an EntitySet.  The same holds of
\* from_model(a, ignore), the data of a creation, applied to any b.
DiffRoundTrip ==
  LET c == FromDifference(a, b, ignore)
      expected == [f \in Names |-> IF f \in ignore THEN b[f] ELSE a[f]]
  IN /\ c # KeyErr => Apply(b, c) = expected
     /\ Apply(b, FromModel(a, ignore)) = expected

\* from_difference never raises: a field the older model lacks gives a
\* diff, whatever its kind (line 223 of _diff tests `a_name not in b`).
DiffTotal == FromDifference(a, b, ignore) # KeyErr
=============================================================================
