---------------------------- MODULE MCModelFieldEq ----------------------------
(***************************************************************************)
(* Every pair of fields with the same name and value, and None, plain     *)
(* functions or bound methods as parser and validator.                    *)
(***************************************************************************)
EXTENDS ModelFieldEq

\* None, two functions, and f1 bound to two instances.
Callables == {[id |-> "None", func |-> "None"], [id |-> "f1", func |-> "f1"], [id |-> "f2", func |-> "f2"],
              [id |-> "o1.f1", func |-> "f1"], [id |-> "o2.f1", func |-> "f1"]}
Fields == [name : {"id"}, value : {3}, parser : Callables, validator : Callables]

\* What a callable does when the field calls it: a bound method runs its
\* function, whichever instance it is bound to.
Behaviour(c) == c.func

VARIABLE pair  \* two of Fields

\* __eq__ compares the validators' functions, as it compares the parsers'
\* (and __hash__ hashes both): two fields it finds equal validate their
\* values alike, the same function whether bound to one instance or
\* another.
EqualFieldsValidateAlike ==
  FieldEq(pair[1], pair[2]) => Behaviour(pair[1].validator) = Behaviour(pair[2].validator)
=============================================================================
