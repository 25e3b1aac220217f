------------------------------- MODULE ModelField -------------------------------
(***************************************************************************)
(* ModelField (src/minos/common/model/fields/fields.py): a field's value  *)
(* setter, which parses, decodes and validates before it stores.         *)
(* Its equality is in ModelFieldEq.                                       *)
(*                                                                         *)
(* The decoding of AvroDataDecoder (outside src/) is the fixed function   *)
(* Decode from the parser's output to a value of the field's type, or      *)
(* TypeErr.  A parser is a function from the raw data to the parsed data,  *)
(* or ParseErr where it raises; a validator is the set of values it        *)
(* accepts.  A field is a record [parser, validator, value]; every value  *)
(* a field can hold is that of some successful construction.             *)
(***************************************************************************)
EXTENDS Integers, FiniteSets

CONSTANTS
  Data,         \* what a caller may assign (MissingSentinel included)
  Vals,         \* decoded values (None included)
  None,
  Decode,       \* AvroDataDecoder.from_field(field).build
  TypeErr,
  ParseErr,
  NoParser,
  NoValidator

ASSUME Decode \in [Data -> Vals \cup {TypeErr}]

\* A field: its parser and validator, fixed at construction, and its value.
Parsers == {NoParser} \cup [Data -> Data \cup {ParseErr}]
Validators == {NoValidator} \cup SUBSET ((Data \cup Vals) \ {None})
Errors == {"none", "parse", "type", "validation"}

\* `data = self.parser(data)` when there is a parser.
Parsed(f, d) == IF f.parser = NoParser THEN d ELSE f.parser[d]

\* Mutant: the validator is applied to the parsed data, not the value.
RejectsData(f, p, v) == f.validator # NoValidator /\ v # None /\ p \notin f.validator

\* `self.validator is not None and value is not None and not
\* self.validator(value)`.
Rejects(f, p, v) == f.validator # NoValidator /\ v # None /\ v \notin f.validator

\* The exception the setter raises for data d, or "none".
SetError(f, d) ==
  LET p == Parsed(f, d) IN
  CASE p = ParseErr                 -> "parse"
    [] Decode[p] = TypeErr          -> "type"
    [] Rejects(f, p, Decode[p])     -> "validation"
    [] OTHER                        -> "none"

\* `self._value = value` runs only when nothing raised.
Stored(f, d) == IF SetError(f, d) = "none" THEN Decode[Parsed(f, d)] ELSE f.value

\* The value setter: the field after `field.value = d`, and the exception.
SetValue(f, d) == [field |-> [f EXCEPT !.value = Stored(f, d)], error |-> SetError(f, d)]

\* __init__: the fields whose construction (setting the first value)
\* succeeds; a constructor that raises leaves no field.
Blank == [parser : Parsers, validator : Validators, value : {None}]
Created ==
  {SetValue(q[1], q[2]).field : q \in {r \in Blank \X Data : SetError(r[1], r[2]) = "none"}}
=============================================================================
