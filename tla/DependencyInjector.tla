--------------------------- MODULE DependencyInjector ---------------------------
(***************************************************************************)
(* DependencyInjector (src/minos/common/injectors.py): the injections of  *)
(* a service, each a MinosSetup instance or a class built with            *)
(* from_config, put into a dependency_injector container; wire() wires    *)
(* the container and sets every injection up, unwire() unwires it and     *)
(* destroys every injection.                                               *)
(*                                                                         *)
(* `await gather(...)` over the coroutines wraps each in a task: they run *)
(* concurrently, gather returns once all have returned, and when one      *)
(* raises, gather raises at once while the other tasks go on running.     *)
(* setup() and destroy() (MinosSetup, not in this repository) are one     *)
(* await each, which returns or, when MayFail, raises.  An instance is    *)
(* named <<key, n>>: the n-th object built for the injection key.         *)
(***************************************************************************)
EXTENDS Integers, FiniteSets

CONSTANTS
  Keys,       \* the keyword names of the injections
  Classes,    \* the keys whose raw value is a class, built by from_config
  MayFail,    \* whether setup() and destroy() may raise
  MaxCalls    \* bound on the wire() and unwire() calls of the service

ASSUME Classes \subseteq Keys /\ MayFail \in BOOLEAN /\ MaxCalls \in Nat

VARIABLES
  injections,  \* the cached `injections` dict, or <<>> before first use
  built,       \* objects built so far per key (from_config calls + 1 given)
  container,   \* the cached container's providers, or {} before first use
  wired,       \* whether the container is wired
  tasks,       \* the setup()/destroy() tasks running: [op, inst, call]
  setUp,       \* instances whose last finished setup() returned, with no
               \* destroy() returned since
  pc,          \* the caller: "idle", or awaiting gather in "wire"/"unwire"
  mine,        \* the tasks the caller's last call started
  awaited,     \* those its gather still waits for
  outcome,     \* how the caller's last call ended: "none", "ok", "raised"
  calls,       \* wire() and unwire() calls made
  setupOn      \* history: the instances a setup() was ever started on

vars == <<injections, built, container, wired, tasks, setUp, pc, mine, awaited,
          outcome, calls, setupOn>>

-----------------------------------------------------------------------------
\* The cached `injections`: an instance is kept, a class is built once.
Injections ==
  IF injections # <<>> THEN injections
  ELSE [k \in Keys |-> IF k \in Classes THEN <<k, built[k] + 1>> ELSE <<k, 1>>]

\* Objects built by evaluating Injections: one more per class when built.
BuiltAfter(inj) ==
  [k \in Keys |-> IF inj[k][2] > built[k] THEN inj[k][2] ELSE built[k]]

\* The cached `container`: config and one provider per injection.
Container(inj) == IF container # {} THEN container ELSE {"config"} \cup DOMAIN inj

\* gather has returned: no awaited task is left.
GatherDone(left, all) == left = {}

Init ==
  /\ injections = <<>>
  /\ built = [k \in Keys |-> IF k \in Classes THEN 0 ELSE 1]
  /\ container = {}
  /\ wired = FALSE
  /\ tasks = {}
  /\ setUp = {}
  /\ pc = "idle"
  /\ mine = {}
  /\ awaited = {}
  /\ outcome = "none"
  /\ calls = 0
  /\ setupOn = {}

\* wire() and unwire(): the container call, then a task per injection and
\* the gather over them.
Call(op, wire) ==
  LET inj == Injections
      started == {[op |-> op, inst |-> inj[k], call |-> calls + 1] : k \in Keys}
  IN /\ pc = "idle"
     /\ calls < MaxCalls
     /\ injections' = inj
     /\ built' = BuiltAfter(inj)
     /\ container' = Container(inj)
     /\ wired' = wire
     /\ tasks' = tasks \cup started
     /\ mine' = started
     /\ awaited' = started
     /\ pc' = IF wire THEN "wire" ELSE "unwire"
     /\ calls' = calls + 1
     /\ setupOn' = IF wire THEN setupOn \cup {inj[k] : k \in Keys} ELSE setupOn
     /\ UNCHANGED <<setUp, outcome>>

Wire == Call("setup", TRUE)
Unwire == Call("destroy", FALSE)

\* __getattr__(item): the injection of that name, building the cache.
GetAttr(k) ==
  LET inj == Injections
  IN /\ injections = <<>>
     /\ injections' = inj
     /\ built' = BuiltAfter(inj)
     /\ UNCHANGED <<container, wired, tasks, setUp, pc, mine, awaited, outcome, calls,
                    setupOn>>

\* A task's setup() or destroy() returns (ok) or raises.  The caller's
\* gather resumes it when this was the last task it awaited, or at once
\* when the task raised.
Finish(tk, ok) ==
  LET left == awaited \ {tk}
      waiting == tk \in awaited /\ pc # "idle"
  IN /\ tk \in tasks
     /\ tasks' = tasks \ {tk}
     /\ setUp' = IF ~ok THEN setUp
                 ELSE IF tk.op = "setup" THEN setUp \cup {tk.inst} ELSE setUp \ {tk.inst}
     /\ IF waiting /\ ~ok
          THEN pc' = "idle" /\ awaited' = {} /\ outcome' = "raised"
        ELSE IF waiting /\ GatherDone(left, awaited)
          THEN pc' = "idle" /\ awaited' = {} /\ outcome' = "ok"
        ELSE awaited' = (IF waiting THEN left ELSE awaited) /\ UNCHANGED <<pc, outcome>>
     /\ UNCHANGED <<injections, built, container, wired, mine, calls, setupOn>>

Next ==
  \/ Wire \/ Unwire
  \/ \E k \in Keys : GetAttr(k)
  \/ \E tk \in tasks, ok \in (IF MayFail THEN BOOLEAN ELSE {TRUE}) : Finish(tk, ok)

\* The tasks' awaits return: the event loop runs them, and setup() and
\* destroy() are assumed to end.  The service's calls are not fair.
Fairness == WF_vars(\E tk \in tasks, ok \in BOOLEAN : Finish(tk, ok))

Spec == Init /\ [][Next]_vars /\ Fairness

-----------------------------------------------------------------------------
(* Properties                                                              *)

TypeOK ==
  /\ pc \in {"idle", "wire", "unwire"}
  /\ outcome \in {"none", "ok", "raised"}
  /\ awaited \subseteq mine /\ awaited \subseteq tasks
  /\ wired \in BOOLEAN
=============================================================================
