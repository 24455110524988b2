--------------------------- MODULE FileSystemPool ---------------------------
(***************************************************************************)
(* fs/src/FileSystem.ts, class FileSystemPool: every call leases one of    *)
(* the file systems from a Pool.  stat, exists, unlink, copy, rename,      *)
(* readDirectory and createDirectory give it back when their operation     *)
(* settles; createReadStream and createWriteStream give it back in         *)
(* listeners of the stream they return, one for its end (finish) and one   *)
(* for its error.  dispose() drops the pool while calls are in flight:     *)
(* a later "this.pool.release" is a TypeError, which a call turns into its *)
(* rejection and a listener leaves uncaught, ending the process.           *)
(***************************************************************************)
EXTENDS Naturals, Sequences, Functions, FiniteSets

CONSTANTS FileSystems, None,
          Fss,       \* the constructor's argument
          Calls,     \* the calls made, each once
          Endings    \* what a stream may emit, in order, of "end" and "error"

ASSUME FileSystemPoolAssumption ==
    /\ Fss \in Seq(FileSystems) \ {<<>>} /\ IsInjective(Fss)
    /\ None \notin FileSystems /\ IsFiniteSet(Calls)
    /\ Endings \subseteq Seq({"end", "error"}) \ {<<>>}

VARIABLES disposed, waiters, pool, stage, object,   \* Pool
          call,     \* call[c]: where the call stands
          lent,     \* lent[c]: the file system its closures refer to
          stream,   \* stream[c]: what the stream it returned has yet to emit
          again,    \* again[f]: how often a stream of f released it once more
          crashed   \* an exception nobody catches ended the process

poolVars == <<disposed, waiters, pool, stage, object>>
vars == <<disposed, waiters, pool, stage, object, call, lent, stream, again, crashed>>

P == INSTANCE Pool WITH Objects <- FileSystems, Clients <- Calls, InitialObjects <- Fss

Progress == {"idle", "acquiring", "plain", "opening",   \* not settled
             "streaming",                               \* resolved with a live stream
             "resolved", "rejected"}

Init == /\ P!Init
        /\ call = [c \in Calls |-> "idle"]
        /\ lent = [c \in Calls |-> None]
        /\ stream = [c \in Calls |-> <<>>]
        /\ again = [f \in FileSystems |-> 0]
        /\ crashed = FALSE

-----------------------------------------------------------------------------
\* Any method, up to the await of acquires(): once disposed, this.pool is gone.
Call(c) ==
    /\ ~crashed /\ call[c] = "idle"
    /\ \/ ~disposed /\ P!Acquires(c) /\ call' = [call EXCEPT ![c] = "acquiring"]
       \/ disposed /\ call' = [call EXCEPT ![c] = "rejected"] /\ UNCHANGED poolVars
    /\ UNCHANGED <<lent, stream, again, crashed>>

\* acquires() settles: the operation starts on the file system, even if
\* dispose() came in between, or the call rejects.
Acquired(c) ==
    /\ ~crashed /\ call[c] = "acquiring"
    /\ P!Resume(c)
    /\ \/ /\ stage[c] = "granted"
          /\ \E k \in {"plain", "opening"} : call' = [call EXCEPT ![c] = k]
          /\ lent' = [lent EXCEPT ![c] = object[c]]
       \/ /\ stage[c] = "refused"
          /\ call' = [call EXCEPT ![c] = "rejected"]
          /\ UNCHANGED lent
    /\ UNCHANGED <<stream, again, crashed>>

\* A slip: no catch block, so only a success releases.
SettleWithoutCatch(c) ==
    /\ ~crashed /\ call[c] \in {"plain", "opening"}
    /\ \/ /\ ~disposed /\ call[c] = "plain"
          /\ P!Release(c)
          /\ call' = [call EXCEPT ![c] = "resolved"]
       \/ call' = [call EXCEPT ![c] = "rejected"] /\ UNCHANGED poolVars
    /\ UNCHANGED <<lent, stream, again, crashed>>

\* The operation settles and the file system goes back: in the try block or in
\* the catch block, both of which throw once the pool is gone.
Settle(c) ==
    /\ ~crashed /\ call[c] \in {"plain", "opening"}
    /\ \/ /\ ~disposed
          /\ P!Release(c)
          /\ \/ call[c] = "plain" /\ call' = [call EXCEPT ![c] = "resolved"]
             \/ call' = [call EXCEPT ![c] = "rejected"]
       \/ /\ disposed
          /\ call' = [call EXCEPT ![c] = "rejected"]
          /\ UNCHANGED poolVars
    /\ UNCHANGED <<lent, stream, again, crashed>>

\* The stream is open: two listeners, and the file system stays leased.
Open(c) ==
    /\ ~crashed /\ call[c] = "opening"
    /\ call' = [call EXCEPT ![c] = "streaming"]
    /\ \E e \in Endings : stream' = [stream EXCEPT ![c] = e]
    /\ UNCHANGED <<poolVars, lent, again, crashed>>

\* The stream emits its end or its error, and the listener for it releases.
Emit(c) ==
    /\ ~crashed /\ stream[c] # <<>>
    /\ \/ /\ disposed
          /\ crashed' = TRUE
          /\ UNCHANGED <<poolVars, call, stream, again>>
       \/ /\ ~disposed
          /\ stream' = [stream EXCEPT ![c] = Tail(@)]
          /\ call' = [call EXCEPT ![c] = "resolved"]
          /\ \/ call[c] = "streaming" /\ P!Release(c) /\ UNCHANGED again
             \/ /\ call[c] = "resolved"
                /\ P!HandOver(lent[c], stage, object)
                /\ again' = [again EXCEPT ![lent[c]] = @ + 1]
                /\ UNCHANGED disposed
          /\ UNCHANGED crashed
    /\ UNCHANGED lent

Dispose == /\ ~crashed
           /\ P!Dispose
           /\ UNCHANGED <<call, lent, stream, again, crashed>>

Next == \/ \E c \in Calls : \/ Call(c) \/ Acquired(c) \/ Settle(c)
                            \/ Open(c) \/ Emit(c)
        \/ Dispose

\* The operations of a file system settle and its streams come to their end.
Fairness == \A c \in Calls : WF_vars(Acquired(c) \/ Settle(c) \/ Open(c) \/ Emit(c))

Spec == Init /\ [][Next]_vars
FairSpec == Spec /\ Fairness
-----------------------------------------------------------------------------
\* Type correctness, with the calls that have a file system to give back.
TypeOK == /\ P!TypeOK
          /\ call \in [Calls -> Progress]
          /\ stream \in [Calls -> Seq({"end", "error"})]
          /\ again \in [FileSystems -> Nat]
          /\ crashed \in BOOLEAN
          /\ ~disposed => \A c \in Calls :
                stage[c] = "using" <=> call[c] \in {"plain", "opening", "streaming"}

\* The places where f is: slots of the idle list and calls that will release it.
Copies(f) == Cardinality({i \in DOMAIN pool : pool[i] = f})
             + Cardinality({c \in Calls : /\ object[c] = f
                                          /\ call[c] \notin {"resolved", "rejected"}})

\* Types hold.  Until dispose() no file system is lost, whichever operations
\* fail, and one is multiplied exactly by the streams that emitted their end and
\* then an error; operations in flight and live streams are on different file
\* systems but for such releases, also while dispose() lets them run out.
Conservation ==
    /\ TypeOK
    /\ ~disposed => \A f \in Range(Fss) : Copies(f) = 1 + again[f]
    /\ \A f \in FileSystems :
          Cardinality({c \in Calls : /\ lent[c] = f
                                     /\ call[c] \in {"plain", "opening", "streaming"}})
              <= 1 + again[f]

\* Every call settles, whatever fails and whenever the pool is disposed, and so
\* does every stream, unless the process ended.
EveryCallSettles ==
    \A c \in Calls :
        call[c] = "acquiring" ~> call[c] \in {"resolved", "rejected"} \/ crashed
=============================================================================
