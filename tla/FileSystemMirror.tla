-------------------------- MODULE FileSystemMirror --------------------------
(***************************************************************************)
(* fs/src/FileSystem.ts, class FileSystemMirror: replicas that should hold *)
(* the same files.  A reading call leases one replica from a Pool and,     *)
(* having no try block, gives it back only if its operation succeeds; a    *)
(* read stream gives it back in two listeners, one for its end and one for *)
(* its error, both of which may be called.  A writing call bypasses the    *)
(* pool, starts on every replica at once and rejects at the first failure, *)
(* the other replicas going on.  rename() calls copy() on the replicas.    *)
(* createWriteStream() opens the file on one replica after the other       *)
(* before it returns.                                                      *)
(***************************************************************************)
EXTENDS Naturals, Sequences, Functions, FiniteSets

CONSTANTS Replicas, None,
          Fss,       \* the constructor's argument
          Readers,   \* reading calls, each made once
          Writers,   \* writing calls, each made once
          Paths

ASSUME MirrorAssumption == /\ None \notin Replicas
                           /\ Fss \in Seq(Replicas) /\ Len(Fss) > 1
                           /\ IsInjective(Fss) /\ Range(Fss) = Replicas
                           /\ IsFiniteSet(Readers)

VARIABLES disposed, waiters, pool, stage, object,   \* Pool
          files,    \* files[f][p]: what the file p of replica f holds, or None
          reader,   \* reader[r]: where the reading call stands
          lent,     \* lent[r]: the replica its closures refer to
          again,    \* again[f]: how often a stream of f released it once more
          processEnded,   \* a listener threw
          writer,   \* writer[w]: the writing call, see Idle
          clean     \* no replica failed a write, and no two writes overlapped

poolVars == <<disposed, waiters, pool, stage, object>>
readerVars == <<reader, lent, again, processEnded>>
writerVars == <<files, writer, clean>>
vars == <<disposed, waiters, pool, stage, object, reader, lent, again, processEnded,
          files, writer, clean>>

P == INSTANCE Pool WITH Objects <- Replicas, Clients <- Readers, InitialObjects <- Fss

UnderWay == {"acquiring", "reading", "streaming"}
ReaderStates == UnderWay \cup {"idle", "resolved", "rejected",
                              "ended"}   \* a stream that emitted its end

\* A writing call: what it does to which paths, the replicas that have yet to
\* do it, and how it stands.  A write stream opens, then carries its data.
Idle == [kind |-> "none", source |-> None, target |-> None, todo |-> {}, status |-> "idle"]
WriterStates == {"idle", "pending", "opening", "streaming", "resolved", "rejected"}

\* A file holds what it held at first, what a writer put into it, or no more
\* than what an opened stream has written so far.
Contents == Writers \cup {None, "old", "partial"}

Init == /\ P!Init
        /\ \E initial \in [Paths -> {None, "old"}] : files = [f \in Replicas |-> initial]
        /\ reader = [r \in Readers |-> "idle"]
        /\ lent = [r \in Readers |-> None]
        /\ again = [f \in Replicas |-> 0]
        /\ processEnded = FALSE
        /\ writer = [w \in Writers |-> Idle]
        /\ clean = TRUE

-----------------------------------------------------------------------------
\* stat, exists, readDirectory, createReadStream up to the await of acquires().
Read(r) ==
    /\ reader[r] = "idle"
    /\ \/ ~disposed /\ P!Acquires(r) /\ reader' = [reader EXCEPT ![r] = "acquiring"]
       \/ disposed /\ reader' = [reader EXCEPT ![r] = "rejected"] /\ UNCHANGED poolVars
    /\ UNCHANGED <<lent, again, processEnded, writerVars>>

Acquired(r) ==
    /\ reader[r] = "acquiring"
    /\ P!Resume(r)
    /\ reader' = [reader EXCEPT ![r] = IF stage[r] = "granted" THEN "reading" ELSE "rejected"]
    /\ lent' = [lent EXCEPT ![r] = object[r]]
    /\ UNCHANGED <<again, processEnded, writerVars>>

\* A slip: a call returns what it read and keeps the replica.
ReadSucceedsKeeping(r) ==
    /\ reader[r] = "reading"
    /\ reader' = [reader EXCEPT ![r] = "resolved"]
    /\ UNCHANGED <<poolVars, lent, again, processEnded, writerVars>>

\* The operation succeeds: release, which rejects the call once this.pool is gone.
ReadSucceeds(r) ==
    /\ reader[r] = "reading"
    /\ \/ ~disposed /\ P!Release(r) /\ reader' = [reader EXCEPT ![r] = "resolved"]
       \/ disposed /\ reader' = [reader EXCEPT ![r] = "rejected"] /\ UNCHANGED poolVars
    /\ UNCHANGED <<lent, again, processEnded, writerVars>>

\* The operation fails: nothing releases the replica.
ReadFails(r) == /\ reader[r] = "reading"
                /\ reader' = [reader EXCEPT ![r] = "rejected"]
                /\ UNCHANGED <<poolVars, lent, again, processEnded, writerVars>>

ReadStreamOpens(r) == /\ reader[r] = "reading"
                      /\ reader' = [reader EXCEPT ![r] = "streaming"]
                      /\ UNCHANGED <<poolVars, lent, again, processEnded, writerVars>>

\* The stream emits its end, after which an error may still follow, or its error:
\* the listener releases, each time.
StreamEmits(r) ==
    /\ ~disposed
    /\ \/ /\ reader[r] = "streaming"
          /\ P!Release(r)
          /\ \E s \in {"ended", "resolved"} : reader' = [reader EXCEPT ![r] = s]
          /\ UNCHANGED again
       \/ /\ reader[r] = "ended"
          /\ P!HandOver(lent[r], stage, object) /\ UNCHANGED disposed
          /\ reader' = [reader EXCEPT ![r] = "resolved"]
          /\ again' = [again EXCEPT ![lent[r]] = @ + 1]
    /\ UNCHANGED <<lent, processEnded, writerVars>>

\* Once this.pool is gone the listener throws, with nobody to catch it.
ListenerThrows(r) == /\ disposed /\ reader[r] \in {"streaming", "ended"}
                     /\ processEnded' = TRUE
                     /\ UNCHANGED <<poolVars, reader, lent, again, writerVars>>

-----------------------------------------------------------------------------
AtRest(w) == writer[w].status \notin {"opening", "streaming"} /\ writer[w].todo = {}

\* unlink, copy, rename, createWriteStream: all replicas are asked, none once
\* dispose() has emptied fss.
Write(w, kind, p, q) ==
    /\ writer[w] = Idle
    /\ writer' = [writer EXCEPT ![w] =
          [kind |-> kind, source |-> p, target |-> q,
           todo |-> IF disposed THEN {} ELSE Replicas,
           status |-> IF disposed THEN "resolved"
                      ELSE IF kind = "write" THEN "opening" ELSE "pending"]]
    /\ clean' = (clean /\ \A v \in Writers : AtRest(v))
    /\ UNCHANGED <<poolVars, readerVars, files>>

\* The file tree after one replica did what w asks of it; rename() is copy().
Done(f, w) ==
    IF writer[w].kind = "unlink" THEN [files EXCEPT ![f][writer[w].source] = None]
    ELSE [files EXCEPT ![f][writer[w].target] = files[f][writer[w].source]]

\* A slip: the call awaits the first replica to answer and forgets the others.
AppliedByOne(w, f) ==
    /\ f \in writer[w].todo /\ writer[w].kind # "write"
    /\ files[f][writer[w].source] # None
    /\ files' = Done(f, w)
    /\ writer' = [writer EXCEPT ![w].todo = {}, ![w].status = "resolved"]
    /\ UNCHANGED <<poolVars, readerVars, clean>>

\* Replica f does its part: Promise.all resolves with the last one.
Applied(w, f) ==
    /\ f \in writer[w].todo /\ writer[w].kind # "write"
    /\ files[f][writer[w].source] # None
    /\ files' = Done(f, w)
    /\ writer' = [writer EXCEPT
          ![w].todo = @ \ {f},
          ![w].status = IF writer[w].todo = {f} /\ @ = "pending" THEN "resolved" ELSE @]
    /\ UNCHANGED <<poolVars, readerVars, clean>>

\* Replica f fails, for want of the file or for a reason of its own.
Failed(w, f) ==
    /\ f \in writer[w].todo /\ writer[w].kind # "write"
    /\ writer' = [writer EXCEPT ![w].todo = @ \ {f}, ![w].status = "rejected"]
    /\ clean' = (clean /\ files[f][writer[w].source] = None)
    /\ UNCHANGED <<poolVars, readerVars, files>>

\* createWriteStream awaits the replicas in the order of fss ...
NextToOpen(w) == Fss[CHOOSE i \in DOMAIN Fss :
                        /\ Fss[i] \in writer[w].todo
                        /\ \A j \in DOMAIN Fss : j < i => Fss[j] \notin writer[w].todo]

\* ... pipes into each as it opens; the first failure abandons those opened.
Opened(w) ==
    LET f == NextToOpen(w)
        last == writer[w].todo = {f}
    IN  /\ writer[w].status = "opening"
        /\ \/ /\ files' = [files EXCEPT ![f][writer[w].target] = "partial"]
              /\ writer' = [writer EXCEPT
                    ![w].todo = IF last THEN Replicas ELSE @ \ {f},
                    ![w].status = IF last THEN "streaming" ELSE @]
              /\ UNCHANGED clean
           \/ /\ writer' = [writer EXCEPT ![w].todo = {}, ![w].status = "rejected"]
              /\ clean' = FALSE
              /\ UNCHANGED files
        /\ UNCHANGED <<poolVars, readerVars>>

\* The data written to the returned stream reaches the end of f's file.
Flushed(w, f) ==
    /\ writer[w].status = "streaming" /\ f \in writer[w].todo
    /\ files' = [files EXCEPT ![f][writer[w].target] = w]
    /\ writer' = [writer EXCEPT
          ![w].todo = @ \ {f},
          ![w].status = IF writer[w].todo = {f} THEN "resolved" ELSE @]
    /\ UNCHANGED <<poolVars, readerVars, clean>>

Dispose == P!Dispose /\ UNCHANGED <<readerVars, writerVars>>

Next == /\ ~processEnded
        /\ \/ \E r \in Readers : \/ Read(r) \/ Acquired(r) \/ ReadSucceeds(r) \/ ReadFails(r)
                                 \/ ReadStreamOpens(r) \/ StreamEmits(r) \/ ListenerThrows(r)
           \/ \E w \in Writers : \/ \E p, q \in Paths : \/ Write(w, "unlink", p, p)
                                                        \/ p # q /\ Write(w, "copy", p, q)
                                                        \/ p # q /\ Write(w, "rename", p, q)
                                                        \/ Write(w, "write", p, p)
                                 \/ Opened(w)
                                 \/ \E f \in Replicas : Applied(w, f) \/ Failed(w, f) \/ Flushed(w, f)
           \/ Dispose

Spec == Init /\ [][Next]_vars
-----------------------------------------------------------------------------
TypeOK == /\ P!TypeOK
          /\ files \in [Replicas -> [Paths -> Contents]]
          /\ reader \in [Readers -> ReaderStates]
          /\ lent \in [Readers -> Replicas \cup {None}]
          /\ again \in [Replicas -> Nat]
          /\ processEnded \in BOOLEAN
          /\ clean \in BOOLEAN
          /\ \A w \in Writers :
                /\ writer[w].status \in WriterStates
                /\ writer[w].todo \subseteq Replicas
                /\ writer[w].status \in {"pending", "opening", "streaming"} => writer[w].todo # {}

\* What the mirror is for: as long as no replica failed a write on its own and
\* the writes came one after another, the replicas hold the same files whenever
\* no write is under way, streams included, whatever the outcome of the writes.
ReplicasAgree == clean /\ (\A w \in Writers : AtRest(w)) =>
                     \A f, g \in Replicas : files[f] = files[g]

Holders(f) == {r \in Readers : object[r] = f}

\* Types hold.  Until dispose(), a replica is in one place, idle or with one reading
\* call, and in one more for every stream of it that emitted its end and then an
\* error; the call is under way, or it is one that failed and took the replica with
\* it.  No more calls than that have the replica, also while dispose() lets them
\* run out.
LostToFailedReads ==
    /\ TypeOK
    /\ \A f \in Replicas :
          /\ ~disposed => Cardinality({i \in DOMAIN pool : pool[i] = f})
                            + Cardinality(Holders(f)) = 1 + again[f]
          /\ Cardinality(Holders(f)) <= 1 + again[f]
          /\ \A r \in Holders(f) : reader[r] \in UnderWay \cup {"rejected"}
=============================================================================
