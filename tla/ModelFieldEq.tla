------------------------------ MODULE ModelFieldEq ------------------------------
(***************************************************************************)
(* ModelField.__eq__ (src/minos/common/model/fields/fields.py).  A        *)
(* callable (parser or validator) is a record [id, func]: None has id    *)
(* "None", a plain function's id is the function, and a bound method's id  *)
(* is the method object, whose __func__ is func.                          *)
(***************************************************************************)

IsMethod(c) == c.id \notin {"None", c.func}

\* _parser_function.
ParserFunction(c) == IF IsMethod(c) THEN c.func ELSE c.id

\* _validator_function: a plain function falls through and gives None.
ValidatorFunction(c) == IF c.id = "None" \/ IsMethod(c) THEN c.func ELSE "None"

\* __eq__ (types compared by TypeHintComparator, here equal).
FieldEq(f, g) ==
  /\ f.name = g.name
  /\ f.value = g.value
  /\ ParserFunction(f.parser) = ParserFunction(g.parser)
  /\ ValidatorFunction(f.validator) = ValidatorFunction(g.validator)
=============================================================================
