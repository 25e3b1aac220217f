----------------------------- MODULE MCModelField -----------------------------
(***************************************************************************)
(* A field whose type decodes d1 to w1 and d2 to w2, rejects d3 and lets  *)
(* a missing value be None (an Optional type), with every parser and      *)
(* validator over these values, assigned every datum.                      *)
(***************************************************************************)
EXTENDS ModelField

VARIABLE f  \* one of Created

\* Every assignment to a field stores a value the validator accepts (None,
\* which the setter does not validate, aside), so no sequence of
\* assignments leaves an invalid value.
StoredValueValid ==
  \A d \in Data :
    LET g == SetValue(f, d).field IN
    g.validator = NoValidator \/ g.value = None \/ g.value \in g.validator

=============================================================================
