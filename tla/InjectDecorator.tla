---------------------------- MODULE InjectDecorator ----------------------------
(***************************************************************************)
(* The Inject decorator of                                                 *)
(* src/packages/core/minos-microservice-common/minos/common/injections/    *)
(* decorators.py: which parameters of a call it fills from the container. *)
(*                                                                         *)
(* A function's parameters are a sequence; the index of a parameter is    *)
(* its position in signature(func).parameters, `self` included, and a     *)
(* parameter's name is its index.  Its type hint is one of:                *)
(*   "A", "B"    an injectable class (an InjectableMixin subclass);        *)
(*   "AorB"      Union[A, B];  "AorNone" Optional[A];                      *)
(*   "plain"     a class that is not injectable;  "none" no annotation.    *)
(* A call passes `nargs` positional arguments (self included for a bound   *)
(* method) and the keyword arguments `kw`.  `provided` is the set of       *)
(* injectable classes the container provides.                             *)
(***************************************************************************)
EXTENDS Integers, Sequences, FiniteSets

Kinds == {"self", "positional", "var_positional", "keyword_only"}
HintKinds == {"A", "B", "AorB", "AorNone", "plain", "none"}

\* The injectable classes a hint names, in the order of get_args.
InjectableArgs(h) == CASE h = "AorB"    -> <<"A", "B">>
                       [] h = "AorNone" -> <<"A">>
                       [] h \in {"A", "B"} -> <<h>>
                       [] OTHER         -> <<>>

\* _build_type_hints: the parameters to inject, skipping self, those
\* without a hint, and those whose hint names no injectable class.
TypeHints(ps) == {i \in DOMAIN ps : ps[i].kind # "self" /\ InjectableArgs(ps[i].hint) # <<>>}

\* resolve(type_): the first class of the hint that the container provides
\* (resolve_by_name raises NotProvidedException for the others).
Resolvable(h, provided) == \E k \in 1..Len(InjectableArgs(h)) : InjectableArgs(h)[k] \in provided

\* Mutant: the check against the positional arguments is dropped.
SkippedNoPositional(ps, i, nargs) == FALSE

\* `if type_hints_[name][0] < len(args): continue` (indexes from 0).
Skipped(ps, i, nargs) == i - 1 < nargs

\* `if not type_hints_[name][2]: raise exc`: no default value.
Raises(ps, i) == ~ps[i].default

\* _inject_on_kwargs: for each hinted name not in kwargs and not covered by
\* the positional arguments, the resolved value, or NotProvidedException
\* if it cannot be resolved and has no default.
InjectOnKwargs(ps, nargs, kw, provided) ==
  LET todo == {i \in TypeHints(ps) \ kw : ~Skipped(ps, i, nargs)}
  IN [raised   |-> \E i \in todo : ~Resolvable(ps[i].hint, provided) /\ Raises(ps, i),
      injected |-> {i \in todo : Resolvable(ps[i].hint, provided)}]
=============================================================================
