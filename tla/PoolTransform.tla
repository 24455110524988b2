--------------------------- MODULE PoolTransform ---------------------------
(***************************************************************************)
(* Pool.transform(): object streams that run a callback on every chunk     *)
(* with an object leased from one shared Pool.  A stream takes its next    *)
(* chunk as soon as the previous one has got its object, so the callbacks  *)
(* ("workers") of one stream overlap; flush() awaits them all.  The        *)
(* promise a worker is wrapped in is settled by the callback's success     *)
(* only: the catch() that precedes the release is never reached.           *)
(***************************************************************************)
EXTENDS Integers, Sequences, Functions

CONSTANTS Objects, NoObject, InitialObjects,
          Streams,     \* the transforms made by one pool
          ChunkCount   \* how many chunks are written to each of them

ASSUME TransformAssumption == /\ ChunkCount \in Nat \ {0}
                              /\ NoObject \notin Objects
                              /\ InitialObjects \in Seq(Objects)
                              /\ IsInjective(InitialObjects)

VARIABLES poolDisposed, chunkWaiters, idleObjects, chunkStage, chunkObject,
                    \* Pool's: disposed, waiters, pool, stage and object
          written,  \* written[s]: chunks whose transform() was called
          phase,    \* phase[s]: where the stream stands
          worker    \* worker[k]: the worker of chunk k

chunkPoolVars == <<poolDisposed, chunkWaiters, idleObjects, chunkStage, chunkObject>>
transformVars == <<poolDisposed, chunkWaiters, idleObjects, chunkStage, chunkObject, written, phase, worker>>

Chunks == Streams \X (1 .. ChunkCount)

\* Each call of transform() is one client of the pool.
ChunkPool == INSTANCE Pool WITH Clients <- Chunks, None <- NoObject, disposed <- poolDisposed,
                 waiters <- chunkWaiters, pool <- idleObjects, stage <- chunkStage, object <- chunkObject

Phases == {"ready",      \* done() was called: transform() or flush() is next
           "acquiring",  \* transform() awaits pool.acquires()
           "stalled",    \* acquires() threw in transform(): done() is never called
           "flushing",   \* flush() awaits the workers
           "ended"}      \* flush() called done()

Workers == {"none", "running", "settled",
            "stuck"}     \* the callback threw: its promise never settles

TransformInit == /\ ChunkPool!Init
                 /\ written = [s \in Streams |-> 0]
                 /\ phase = [s \in Streams |-> "ready"]
                 /\ worker = [k \in Chunks |-> "none"]

-----------------------------------------------------------------------------
\* transform(chunk) runs up to the await of pool.acquires().
Transform(s) ==
    /\ phase[s] = "ready"
    /\ written[s] < ChunkCount
    /\ ChunkPool!Acquires(<<s, written[s] + 1>>)
    /\ written' = [written EXCEPT ![s] = @ + 1]
    /\ phase' = [phase EXCEPT ![s] = "acquiring"]
    /\ UNCHANGED worker

\* The rest of transform(): start the worker and call done(), or throw.
ChunkAcquired(s) ==
    LET k == <<s, written[s]>> IN
    /\ phase[s] = "acquiring"
    /\ ChunkPool!Resume(k)
    /\ \/ /\ chunkStage[k] = "granted"
          /\ worker' = [worker EXCEPT ![k] = "running"]
          /\ phase' = [phase EXCEPT ![s] = "ready"]
       \/ /\ chunkStage[k] = "refused"
          /\ phase' = [phase EXCEPT ![s] = "stalled"]
          /\ UNCHANGED worker
    /\ UNCHANGED written

\* A slip: the release after the callback is forgotten.
SucceedWithoutRelease(k) == /\ worker[k] = "running"
                            /\ worker' = [worker EXCEPT ![k] = "settled"]
                            /\ UNCHANGED <<chunkPoolVars, written, phase>>

\* The callback succeeds: resolve(), then release the object.
Succeed(k) == /\ worker[k] = "running"
              /\ ChunkPool!Release(k)
              /\ worker' = [worker EXCEPT ![k] = "settled"]
              /\ UNCHANGED <<written, phase>>

\* The callback throws inside the async executor: neither resolve nor reject.
Fail(k) == /\ worker[k] = "running"
           /\ worker' = [worker EXCEPT ![k] = "stuck"]
           /\ UNCHANGED <<chunkPoolVars, written, phase>>

\* The input ended: flush() awaits Promise.all(workers) ...
Flush(s) == /\ phase[s] = "ready"
            /\ written[s] = ChunkCount
            /\ phase' = [phase EXCEPT ![s] = "flushing"]
            /\ UNCHANGED <<chunkPoolVars, written, worker>>

\* ... and ends the output.
End(s) == /\ phase[s] = "flushing"
          /\ \A k \in Chunks : k[1] = s => worker[k] = "settled"
          /\ phase' = [phase EXCEPT ![s] = "ended"]
          /\ UNCHANGED <<chunkPoolVars, written, worker>>

DisposePool == ChunkPool!Dispose /\ UNCHANGED <<written, phase, worker>>

TransformNext == \/ \E s \in Streams : Transform(s) \/ ChunkAcquired(s) \/ Flush(s) \/ End(s)
                 \/ \E k \in Chunks : Succeed(k) \/ Fail(k)
                 \/ DisposePool

\* Streams are pumped by their writer and by the event loop; callbacks end.
TransformFairness == /\ \A s \in Streams : WF_transformVars(Transform(s) \/ ChunkAcquired(s) \/ Flush(s) \/ End(s))
                     /\ \A k \in Chunks : WF_transformVars(Succeed(k) \/ Fail(k))

TransformSpec == TransformInit /\ [][TransformNext]_transformVars
FairTransformSpec == TransformSpec /\ TransformFairness
-----------------------------------------------------------------------------
\* Type correctness; the callbacks that have an object are the unsettled ones.
TransformTypeOK == /\ ChunkPool!TypeOK
                   /\ written \in [Streams -> 0 .. ChunkCount]
                   /\ phase \in [Streams -> Phases]
                   /\ worker \in [Chunks -> Workers]
                   /\ \A k \in Chunks : chunkStage[k] = "using" <=> worker[k] \in {"running", "stuck"}

\* Types hold, and what a failed callback costs is its object, for ever, and
\* nothing else: until the pool is disposed every object is idle, on its way to
\* a chunk, with a running callback or lost to a failed one.
LostToFailureOnly ==
    TransformTypeOK /\ (~poolDisposed =>
        Range(InitialObjects) =
            Range(idleObjects) \cup {chunkObject[k] : k \in {m \in Chunks :
                chunkStage[m] = "granted" \/ worker[m] \in {"running", "stuck"}}})

\* Every object is in the hands of a callback that threw.
Exhausted == Range(InitialObjects) \subseteq {chunkObject[k] : k \in {m \in Chunks : worker[m] = "stuck"}}

\* Every stream ends, unless one of its own callbacks throws, failures (of any
\* stream) have used up all the objects, or the pool is disposed.
EveryStreamEnds ==
    \A s \in Streams : <>(\/ phase[s] = "ended"
                          \/ \E k \in Chunks : k[1] = s /\ worker[k] = "stuck"
                          \/ Exhausted
                          \/ poolDisposed)
=============================================================================
