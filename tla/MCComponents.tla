---------------------------- MODULE MCComponents ----------------------------
(***************************************************************************)
(* Four components checked in one run: the in-memory event repository,    *)
(* the reference resolver, the dependency injector and the database's     *)
(* pool and advisory locks (for liveness).  They share no                 *)
(* state, so a behaviour runs one of them, named by `which` and chosen    *)
(* in the initial state, and leaves the others in their initial state:   *)
(* the states of the run are the union of theirs, not the product.       *)
(***************************************************************************)
EXTENDS Naturals, TLC

CONSTANTS Car, Owner, CREATE, UPDATE, DELETE,   \* repository and resolver
          u1, u2, Own, NoData,                  \* resolver
          repository, broker,                   \* injector
          p1, p2, t1, t2, kStr, kUuid, NoKey    \* database

VARIABLES which,
          storage, ids,                                      \* repository
          phase, value, sent, answered, queue, result,       \* resolver
          injections, built, container, wired, tasks, setUp, \* injector
          pc, mine, awaited, outcome, calls, setupOn,
          salt, stable, free, held, frames, lockCalls, closing  \* database

repoVars == <<storage, ids>>
resVars == <<phase, value, sent, answered, queue, result>>
injVars == <<injections, built, container, wired, tasks, setUp, pc, mine, awaited,
             outcome, calls, setupOn>>
lockVars == <<salt, stable, free, held, frames, lockCalls, closing>>
vars == <<which, repoVars, resVars, injVars, lockVars>>

\* Two aggregate classes, at most five events.
Repo == INSTANCE MemoryRepository
          WITH Names <- {Car, Owner}, Actions <- {CREATE, UPDATE, DELETE},
               Create <- CREATE, MaxEntries <- 5

\* Two remote models, one held by the services; an aggregate whose two
\* fields are each a leaf or a list of up to two leaves; no duplicates.
RefsMC == INSTANCE MCModelRefResolver
            WITH Uuids <- {u1, u2}, Names <- {Car, Owner},
                 ClassOf <- (u1 :> Car) @@ (u2 :> Owner),
                 Inputs <- {}, Exists <- {u1}, Dup <- FALSE
Res == INSTANCE ModelRefResolver
         WITH Uuids <- {u1, u2}, Names <- {Car, Owner},
              ClassOf <- (u1 :> Car) @@ (u2 :> Owner),
              Inputs <- RefsMC!MCInputs, Exists <- {u1}, Dup <- FALSE

\* An injected MinosSetup instance and an injected class; setups and
\* destroys may raise; three wire()/unwire() calls.
Inj == INSTANCE DependencyInjector
         WITH Keys <- {repository, broker}, Classes <- {broker},
              MayFail <- TRUE, MaxCalls <- 3

\* The argument the resolver's variables hold when it is not the one run.
IdleInput == CHOOSE x \in RefsMC!MCInputs : TRUE

\* Two tasks in two processes, a pool of one connection, a str and a uuid
\* key that hash to one advisory id (so every locked call contends for
\* it), two calls per task in every mode, no failures or nested calls.
Lk == INSTANCE PostgresLock
        WITH Proc <- {p1, p2}, Task <- {t1, t2}, ProcOf <- (t1 :> p1) @@ (t2 :> p2),
             Keys <- {kStr, kUuid}, SaltedKeys <- {kStr}, Adv <- {1},
             PoolSize <- 1, MaxCalls <- 2, MayFail <- FALSE, Nested <- FALSE,
             Modes <- {"all", "iter", "one"}, calls <- lockCalls

Init ==
  /\ which \in {"repo", "resolver", "injector", "lock"}
  /\ Repo!Init /\ Res!Init /\ Inj!Init /\ Lk!Init
  /\ which # "resolver" => value = IdleInput

Next ==
  \/ which = "repo" /\ Repo!Next /\ UNCHANGED <<which, resVars, injVars, lockVars>>
  \/ which = "resolver" /\ Res!Next /\ UNCHANGED <<which, repoVars, injVars, lockVars>>
  \/ which = "injector" /\ Inj!Next /\ UNCHANGED <<which, repoVars, resVars, lockVars>>
  \/ which = "lock" /\ Lk!Next /\ UNCHANGED <<which, repoVars, resVars, injVars>>

\* The database's fairness (PostgresLock's Fairness): its steps are enabled
\* only in the behaviours that run it, where a call is in progress.
Spec == Init /\ [][Next]_vars /\ Lk!Fairness

-----------------------------------------------------------------------------
(* Properties of each component, for the behaviours that run it.          *)

TypeOK ==
  /\ which = "repo" => Repo!TypeOK
  /\ which = "injector" => Inj!TypeOK

\* Repository: every lineage starts with its creation (see MemoryRepository).
CreationsStartLineages == which = "repo" => Repo!CreationsStartLineages

\* Repository: a version_lt query over a lineage returns its prefix in order.
LineageReadsInOrder == which = "repo" => Repo!LineageReadsInOrder

\* Repository: an id_gt query returns exactly the suffix after the offset.
OffsetReadsSuffix == which = "repo" => Repo!OffsetReadsSuffix

\* Resolver: every reference to a held model is replaced when resolve()
\* returns.
ExistingRefsResolved == which = "resolver" => Res!ExistingRefsResolved

\* Database: every call returns, fetchone calls whose dropped generator is
\* closed by its aclose() task included; no task waits forever for the
\* pool's connection or an advisory lock.
LockCallsReturn == which = "lock" => Lk!CallsReturn
=============================================================================
