--------------------------- MODULE ModelRefResolver ---------------------------
(***************************************************************************)
(* ModelRefResolver.resolve (src/minos/aggregate/models/refs.py): extract *)
(* the references of a value, and if there are any, acquire a broker, send *)
(* one "Get<name>s" request per class name (gathered), wait with          *)
(* get_many(len(references)) for that many replies on the broker's reply  *)
(* queue, build {uuid: model} from them and inject it.                    *)
(*                                                                         *)
(* The services answering the requests are part of the environment: each *)
(* answers a request with the models it holds among the identifiers       *)
(* asked for.  When Dup is TRUE a reply may be delivered twice, as an     *)
(* at-least-once broker does.                                              *)
(***************************************************************************)
EXTENDS ModelRefs

CONSTANTS
  Inputs,    \* the values resolve() may be called with
  Exists,    \* the identifiers whose model the remote services hold
  Dup        \* whether a reply may be delivered twice

ASSUME Exists \subseteq Uuids /\ Dup \in BOOLEAN

VARIABLES
  phase,     \* "start", "send" (inside gather), "wait" (get_many), "done"
  value,     \* the argument of resolve()
  sent,      \* the class names whose request was sent
  answered,  \* replies delivered for each class name
  queue,     \* the replies on the acquired broker, in arrival order
  result     \* what resolve() returned

vars == <<phase, value, sent, answered, queue, result>>

\* Mutant: waits for one reply fewer than the requests it sent.
ReplyCountShort(x) == Cardinality(DOMAIN Missing(x)) - 1

\* _get_response(broker, len(references)): one reply per requested name.
ReplyCount(x) == Cardinality(DOMAIN Missing(x))

\* The reply of the service for class n's request.
ReplyTo(x, n) == [name |-> n, models |-> {Fetched(u) : u \in Missing(x)[n] \cap Exists}]

Init ==
  /\ phase = "start"
  /\ value \in Inputs
  /\ sent = {}
  /\ answered = [n \in Names |-> 0]
  /\ queue = <<>>
  /\ result = NoData

\* missing = ModelRefExtractor(data).build(); nothing missing: return data.
Start ==
  /\ phase = "start"
  /\ IF DOMAIN Missing(value) = {}
       THEN phase' = "done" /\ result' = value
       ELSE phase' = "send" /\ UNCHANGED result
  /\ UNCHANGED <<value, sent, answered, queue>>

\* One broker.send of the gather; the gather returns after the last one.
Send(n) ==
  /\ phase = "send"
  /\ n \in DOMAIN Missing(value) \ sent
  /\ sent' = sent \cup {n}
  /\ phase' = IF sent' = DOMAIN Missing(value) THEN "wait" ELSE "send"
  /\ UNCHANGED <<value, answered, queue, result>>

\* A service delivers its reply to the request for class n.
Reply(n) ==
  /\ n \in sent
  /\ answered[n] < IF Dup THEN 2 ELSE 1
  /\ answered' = [answered EXCEPT ![n] = @ + 1]
  /\ queue' = Append(queue, ReplyTo(value, n))
  /\ UNCHANGED <<phase, value, sent, result>>

\* get_many returns the first ReplyCount replies; their models are chained
\* into the mapper, which the injector applies to the value.
GetMany ==
  LET k == ReplyCount(value)
      models == UNION {queue[i].models : i \in 1..k}
  IN /\ phase = "wait"
     /\ Len(queue) >= k
     /\ phase' = "done"
     /\ queue' = SubSeq(queue, k + 1, Len(queue))
     /\ result' = Inject(value, MapperOf(models))
     /\ UNCHANGED <<value, sent, answered>>

Next == Start \/ (\E n \in Names : Send(n) \/ Reply(n)) \/ GetMany

Spec == Init /\ [][Next]_vars

-----------------------------------------------------------------------------
(* Properties.                                                             *)

\* When resolve() returns, every reference of its argument to a model the
\* services hold has been replaced, at its position, by that model: the
\* count passed to get_many matches the requests gather sent.
ExistingRefsResolved ==
  phase = "done" =>
    \A p \in PositionsOf(value, "ref") :
      At(value, p).uuid \in Exists => At(result, p) = Fetched(At(value, p).uuid)
=============================================================================
