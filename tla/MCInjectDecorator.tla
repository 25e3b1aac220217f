--------------------------- MODULE MCInjectDecorator ---------------------------
(***************************************************************************)
(* Every call of a small decorated function, checked against the way      *)
(* Python binds the arguments of a call to its parameters.                *)
(***************************************************************************)
EXTENDS InjectDecorator

\* Hints of the parameters (Union[B, ...] behaves like Union[A, ...]).
MCHints == {"A", "AorB", "AorNone", "plain", "none"}
Classes == {"A", "B"}

Param(k) == [kind : {k}, hint : MCHints, default : BOOLEAN]
NoHint(k) == [kind |-> k, hint |-> "none", default |-> FALSE]

\* Positional parameters: a parameter without a default never follows one
\* with a default.
PosLists == {<<>>} \cup [1..1 -> Param("positional")]
            \cup {s \in [1..2 -> Param("positional")] : s[1].default => s[2].default}

\* def f([self,] [p, [q,]] [*args,] [*, r]): a keyword-only parameter
\* follows *args or a bare `*`, which is not a parameter.
Signatures ==
  {s \o p \o v \o k : s \in {<<>>, <<NoHint("self")>>}, p \in PosLists,
                      v \in {<<>>, <<NoHint("var_positional")>>},
                      k \in {<<>>} \cup [1..1 -> Param("keyword_only")]}

\* The parameters Python binds from the call itself: the first `nargs`
\* positional ones (surplus arguments go to *args) and the keywords.
Bound(ps, nargs, kw) ==
  {i \in DOMAIN ps : ps[i].kind \in {"self", "positional"} /\ i <= nargs} \cup kw

Positional(ps) == {i \in DOMAIN ps : ps[i].kind \in {"self", "positional"}}
HasVarArgs(ps) == \E i \in DOMAIN ps : ps[i].kind = "var_positional"
Named(ps) == {i \in DOMAIN ps : ps[i].kind \in {"positional", "keyword_only"}}

\* The calls Python accepts: self always passed to a method, no more
\* positional arguments than parameters unless there is *args, and no
\* keyword for a parameter already given positionally.
ValidCall(ps, nargs, kw) ==
  /\ (ps # <<>> /\ ps[1].kind = "self") => nargs >= 1
  /\ ~HasVarArgs(ps) => nargs <= Cardinality(Positional(ps))
  /\ kw \subseteq Named(ps) \ Bound(ps, nargs, {})

Calls == {c \in [ps : Signatures, nargs : 0..3, kw : SUBSET (1..4), provided : SUBSET Classes] :
            c.kw \subseteq DOMAIN c.ps /\ ValidCall(c.ps, c.nargs, c.kw)}

VARIABLE call  \* one of Calls

Result == InjectOnKwargs(call.ps, call.nargs, call.kw, call.provided)
Unbound == TypeHints(call.ps) \ Bound(call.ps, call.nargs, call.kw)
Required(i) == ~call.ps[i].default

\* _inject_on_kwargs never passes a keyword for a parameter the caller
\* already bound, which would make the call fail with "got multiple values
\* for argument".
InjectionNeverRebinds == Result.injected \cap Bound(call.ps, call.nargs, call.kw) = {}

\* Every injectable parameter the call leaves unbound and the container
\* provides is injected (the purpose of the decorator).
InjectsEveryUnboundParam ==
  ~Result.raised => \A i \in Unbound : Resolvable(call.ps[i].hint, call.provided) => i \in Result.injected
=============================================================================
