-------------------------------- MODULE Pool --------------------------------
(***************************************************************************)
(* promised/src/Pool.ts: a pool of shared objects handed out first come,   *)
(* first served.  A client is one chain "await acquires(); ...; release()" *)
(* of the code that uses the pool.  Between the step that settles the      *)
(* promise acquires() returned and the microtask that resumes the client   *)
(* the object belongs to nobody who runs: that is the state "granted".     *)
(* The methods themselves are synchronous, so each is one step.            *)
(***************************************************************************)
EXTENDS Sequences, Functions

CONSTANTS Objects,         \* everything that may ever be released into the pool
          Clients,         \* the concurrent users of the pool
          None,            \* "no object"
          InitialObjects   \* the constructor's argument, in order

ASSUME PoolAssumption == /\ None \notin Objects
                         /\ InitialObjects \in Seq(Objects)
                         /\ IsInjective(InitialObjects)

VARIABLES disposed,   \* Pool.disposed
          waiters,    \* Pool.waiters: the clients whose Deferred is queued
          pool,       \* Pool.pool: the idle objects
          stage,      \* stage[c]: where c stands in its chain
          object      \* object[c]: what its promise resolved to and c must release

vars == <<disposed, waiters, pool, stage, object>>

Stages == {"out",       \* has no object and asks for none
           "waiting",   \* awaits a Deferred of waiters
           "granted",   \* its promise is resolved, it has not resumed
           "refused",   \* its promise is rejected, it has not resumed
           "using"}     \* resumed with an object it has not released

Init == /\ disposed = FALSE
        /\ waiters = <<>>
        /\ pool = InitialObjects
        /\ stage = [c \in Clients |-> "out"]
        /\ object = [c \in Clients |-> None]

-----------------------------------------------------------------------------
\* The objects the pool and its clients have between them.
Circulating == Range(pool) \cup ({object[c] : c \in Clients} \ {None})

\* A slip: the Deferred is queued in front of the others.
AcquiresLastInFirstOut(c) ==
    /\ stage[c] = "out"
    /\ \/ /\ pool = <<>>
          /\ waiters' = <<c>> \o waiters
          /\ stage' = [stage EXCEPT ![c] = "waiting"]
          /\ UNCHANGED <<pool, object>>
       \/ /\ pool # <<>>
          /\ pool' = Tail(pool)
          /\ stage' = [stage EXCEPT ![c] = "granted"]
          /\ object' = [object EXCEPT ![c] = Head(pool)]
          /\ UNCHANGED waiters
    /\ UNCHANGED disposed

\* acquires(): take the oldest idle object, or queue a Deferred.
Acquires(c) ==
    /\ stage[c] = "out"
    /\ \/ /\ pool = <<>>
          /\ waiters' = Append(waiters, c)
          /\ stage' = [stage EXCEPT ![c] = "waiting"]
          /\ UNCHANGED <<pool, object>>
       \/ /\ pool # <<>>
          /\ pool' = Tail(pool)
          /\ stage' = [stage EXCEPT ![c] = "granted"]
          /\ object' = [object EXCEPT ![c] = Head(pool)]
          /\ UNCHANGED waiters
    /\ UNCHANGED disposed

\* The await of acquires() goes on: with the object, or throwing.
Resume(c) ==
    /\ \/ stage[c] = "granted" /\ stage' = [stage EXCEPT ![c] = "using"]
       \/ stage[c] = "refused" /\ stage' = [stage EXCEPT ![c] = "out"]
    /\ UNCHANGED <<disposed, waiters, pool, object>>

\* Slips: release() looks at no waiter; release() pushes o even if one took it.
HandOverToPool(o, stageOf, objectOf) ==
    /\ pool' = Append(pool, o)
    /\ stage' = stageOf
    /\ object' = objectOf
    /\ UNCHANGED waiters

HandOverTwice(o, stageOf, objectOf) ==
    /\ pool' = Append(pool, o)
    /\ \/ waiters = <<>> /\ stage' = stageOf /\ object' = objectOf /\ UNCHANGED waiters
       \/ /\ waiters # <<>>
          /\ waiters' = Tail(waiters)
          /\ stage' = [stageOf EXCEPT ![Head(waiters)] = "granted"]
          /\ object' = [objectOf EXCEPT ![Head(waiters)] = o]

\* release(o), given the clients' states once the caller has let go of o:
\* queue o, or resolve the oldest waiter with it.
HandOver(o, stageOf, objectOf) ==
    \/ /\ waiters = <<>>
       /\ pool' = Append(pool, o)
       /\ stage' = stageOf
       /\ object' = objectOf
       /\ UNCHANGED waiters
    \/ /\ waiters # <<>>
       /\ waiters' = Tail(waiters)
       /\ stage' = [stageOf EXCEPT ![Head(waiters)] = "granted"]
       /\ object' = [objectOf EXCEPT ![Head(waiters)] = o]
       /\ UNCHANGED pool

\* A slip: the user still holds what it released.
ReleaseAndKeep(c) ==
    /\ stage[c] = "using"
    /\ HandOver(object[c], [stage EXCEPT ![c] = "out"], object)
    /\ UNCHANGED disposed

\* A user hands back what it acquired.  A disposed pool accepts it too.
Release(c) ==
    /\ stage[c] = "using"
    /\ HandOver(object[c], [stage EXCEPT ![c] = "out"], [object EXCEPT ![c] = None])
    /\ UNCHANGED disposed

\* release() of an object the pool does not know, as an empty pool is filled.
Offer(o) ==
    /\ o \notin Circulating
    /\ HandOver(o, stage, object)
    /\ UNCHANGED disposed

\* A slip: the list of rejected waiters is not emptied.
DisposeKeepsWaiters ==
    /\ ~disposed
    /\ disposed' = TRUE
    /\ stage' = [c \in Clients |-> IF c \in Range(waiters) THEN "refused" ELSE stage[c]]
    /\ pool' = <<>>
    /\ UNCHANGED <<waiters, object>>

\* dispose(): reject every waiter, forget the idle objects.
Dispose ==
    /\ ~disposed
    /\ disposed' = TRUE
    /\ stage' = [c \in Clients |-> IF c \in Range(waiters) THEN "refused" ELSE stage[c]]
    /\ waiters' = <<>>
    /\ pool' = <<>>
    /\ UNCHANGED object

Next == \/ \E c \in Clients : Acquires(c) \/ Resume(c) \/ Release(c)
        \/ \E o \in Objects : Offer(o)
        \/ Dispose

\* A promise that is settled resumes its client, and a user finishes: the
\* first is the event loop's doing, the second is asked of the pool's users.
Fairness == \A c \in Clients : WF_vars(Resume(c)) /\ WF_vars(Release(c))

Spec == Init /\ [][Next]_vars
FairSpec == Spec /\ Fairness
-----------------------------------------------------------------------------
\* Type correctness, with what ties a client's stage to its object.
TypeOK == /\ disposed \in BOOLEAN
          /\ waiters \in Seq(Clients)
          /\ pool \in Seq(Objects)
          /\ stage \in [Clients -> Stages]
          /\ object \in [Clients -> Objects \cup {None}]
          /\ \A c \in Clients : object[c] # None <=> stage[c] \in {"granted", "using"}

\* A client awaits a Deferred exactly while that Deferred is queued, once: no
\* waiter is lost by release(), by dispose() or by another acquires().
WaitersQueuedOnce == /\ IsInjective(waiters)
                     /\ \A c \in Clients : stage[c] = "waiting" <=> c \in Range(waiters)

\* Every object is in one place: once among the idle ones, or with one client,
\* even when release() passes it on without returning it to the pool, and
\* when it comes back after dispose().
OnePlace == /\ IsInjective(pool)
            /\ \A c \in Clients : object[c] \notin Range(pool)
            /\ \A c, d \in Clients : object[c] = object[d] /\ object[c] # None => c = d

\* No lost wake-up: nobody waits while an object lies idle.
NoIdleWhileWaiting == waiters # <<>> => pool = <<>>

\* c asked before d, and neither has been answered.
Before(c, d) == \E i, j \in DOMAIN waiters : i < j /\ waiters[i] = c /\ waiters[j] = d

\* First come, first served: who starts to wait does so behind those who wait,
\* who waits keeps its place, and no client is granted an object while one
\* before it goes on waiting, whoever releases and whoever acquires.
InTurn(c, d) ==
    /\ stage[c] = "waiting" /\ stage[d] # "waiting" /\ stage'[d] = "waiting" => Before(c, d)'
    /\ Before(c, d) /\ stage'[c] = "waiting" /\ stage'[d] = "waiting" => Before(c, d)'
    /\ Before(c, d) /\ stage'[d] = "granted" => stage'[c] # "waiting"
FirstComeFirstServed == [][\A c, d \in Clients : InTurn(c, d)]_vars

\* A request is answered as long as some object is still around, whatever the
\* other clients do.  (A disposed pool answers one only if a user brings an
\* object back: acquires() does not look at disposed.)
ServedWhileCirculating ==
    \A c \in Clients :
        (stage[c] = "waiting" /\ Circulating # {}) ~> (stage[c] # "waiting")

\* A client that has not resumed has not been answered, and the object its
\* promise holds is still free.
Wants == {c \in Clients : stage[c] \in {"waiting", "granted", "refused"}}
Lease == [c \in Clients |-> IF stage[c] = "using" THEN object[c] ELSE None]
Free == Range(pool) \cup {o \in Objects : \E c \in Clients : stage[c] = "granted" /\ object[c] = o}

AbstractPool == INSTANCE Leasing WITH closed <- disposed, wants <- Wants,
                                      lease <- Lease, free <- Free

\* The pool keeps the promise of Leasing, although release() may answer a
\* request on the spot and dispose() overtakes the promises already resolved.
LeasesObjects == AbstractPool!Spec
=============================================================================
