------------------------- MODULE PoolClientsProofs -------------------------
(* What the clients of a pool guarantee: the mirror, for every number of      *)
(* replicas and of calls, and below it the transforms and the remote file     *)
(* systems.  What PoolProofs says of a pool's methods is cited for each.  A    *)
(* stream that releases once more puts its object in two places: where there   *)
(* are streams, places are counted.                                            *)
EXTENDS FileSystemMirror, PoolTransform, RemoteConnection, FiniteSetTheorems, SequenceTheorems,
    WellFoundedInduction, TLAPS

PP == INSTANCE PoolProofs WITH Objects <- Replicas, Clients <- Readers, InitialObjects <- Fss

-----------------------------------------------------------------------------
(* The places of an object o: slots of the idle list, and the clients C whose   *)
(* object it is.                                                                *)
Slots(list, o) == {i \in DOMAIN list : list[i] = o}
With(C, obj, o) == {c \in C : obj[c] = o}
Places(C, list, obj, o) == Cardinality(Slots(list, o)) + Cardinality(With(C, obj, o))

LEMMA SlotsCount ==
    ASSUME NEW S, NEW list \in Seq(S), NEW o
    PROVE  IsFiniteSet(Slots(list, o)) /\ Cardinality(Slots(list, o)) \in Nat
<1>1. IsFiniteSet(DOMAIN list) /\ Slots(list, o) \subseteq DOMAIN list
  BY FS_Interval DEF Slots
<1>2. QED BY <1>1, FS_Subset, FS_CardinalityType

LEMMA WithCount ==
    ASSUME NEW C, IsFiniteSet(C), NEW obj, NEW o
    PROVE  IsFiniteSet(With(C, obj, o)) /\ Cardinality(With(C, obj, o)) \in Nat
<1>1. With(C, obj, o) \subseteq C
  BY DEF With
<1>2. QED BY <1>1, FS_Subset, FS_CardinalityType

LEMMA AppendSlots ==
    ASSUME NEW S, NEW list \in Seq(S), NEW e \in S, NEW o
    PROVE  Cardinality(Slots(Append(list, e), o)) = Cardinality(Slots(list, o)) + (IF e = o THEN 1 ELSE 0)
<1> DEFINE n == Len(list)
           longer == Append(list, e)
<1>1. /\ DOMAIN list = 1 .. n /\ DOMAIN longer = (1 .. n) \cup {n + 1} /\ n + 1 \notin 1 .. n
      /\ \A i \in 1 .. n : longer[i] = list[i]
      /\ longer[n + 1] = e
  BY AppendProperties
<1> HIDE DEF n, longer
<1>2. CASE e = o
  <2>1. Slots(longer, o) = Slots(list, o) \cup {n + 1} /\ n + 1 \notin Slots(list, o)
    BY <1>1, <1>2 DEF Slots
  <2>2. QED BY <1>2, <2>1, SlotsCount, FS_AddElement DEF longer
<1>3. CASE e # o
  <2>1. Slots(longer, o) = Slots(list, o)
    BY <1>1, <1>3 DEF Slots
  <2>2. QED BY <1>3, <2>1, SlotsCount DEF longer
<1>4. QED BY <1>2, <1>3

LEMMA TailSlots ==
    ASSUME NEW S, NEW list \in Seq(S), list # <<>>, NEW o
    PROVE  /\ Head(list) \in S /\ Tail(list) \in Seq(S)
           /\ Cardinality(Slots(list, o)) = Cardinality(Slots(Tail(list), o)) + (IF Head(list) = o THEN 1 ELSE 0)
<1> DEFINE n == Len(list)
           rest == {i \in 2 .. n : list[i] = o}
           h == [i \in Slots(Tail(list), o) |-> i + 1]
<1>1. /\ n \in Nat /\ n > 0 /\ DOMAIN list = 1 .. n /\ Head(list) = list[1] /\ Head(list) \in S
      /\ Tail(list) \in Seq(S) /\ DOMAIN Tail(list) = 1 .. n - 1
      /\ \A i \in 1 .. n - 1 : Tail(list)[i] = list[i + 1]
  OBVIOUS
<1> HIDE DEF n
<1>2. h \in Bijection(Slots(Tail(list), o), rest)
  <2>1. \A i \in Slots(Tail(list), o) : i \in 1 .. n - 1 /\ i + 1 \in rest
    BY <1>1 DEF Slots
  <2>2. \A j \in rest : j - 1 \in Slots(Tail(list), o) /\ (j - 1) + 1 = j
    <3> SUFFICES ASSUME NEW j \in rest PROVE j - 1 \in Slots(Tail(list), o) /\ (j - 1) + 1 = j
      OBVIOUS
    <3>1. j - 1 \in 1 .. n - 1 /\ (j - 1) + 1 = j /\ list[j] = o
      BY <1>1
    <3>2. Tail(list)[j - 1] = o
      BY <1>1, <3>1
    <3>3. QED BY <1>1, <3>1, <3>2 DEF Slots
  <2>3. h \in [Slots(Tail(list), o) -> rest]
    BY <2>1
  <2>4. \A i, j \in Slots(Tail(list), o) : h[i] = h[j] => i = j
    BY <2>1
  <2>5. \A j \in rest : \E i \in Slots(Tail(list), o) : h[i] = j
    BY <2>2
  <2> HIDE DEF h, rest
  <2>6. QED BY <2>3, <2>4, <2>5 DEF Bijection, Injection, Surjection, IsInjective
<1>3. IsFiniteSet(Slots(Tail(list), o)) /\ Cardinality(Slots(Tail(list), o)) \in Nat
  BY <1>1, SlotsCount
<1>4. IsFiniteSet(rest) /\ Cardinality(rest) = Cardinality(Slots(Tail(list), o))
  <2>1. ExistsBijection(Slots(Tail(list), o), rest)
    BY <1>2 DEF ExistsBijection
  <2>2. QED BY <1>3, <2>1, FS_Bijection
<1>5. (1 .. n) = (2 .. n) \cup {1} /\ 1 \notin 2 .. n
  BY <1>1
<1>6. CASE list[1] = o
  <2>1. Slots(list, o) = rest \cup {1} /\ 1 \notin rest
    BY <1>1, <1>5, <1>6 DEF Slots
  <2>2. QED BY <1>1, <1>3, <1>4, <1>6, <2>1, FS_AddElement
<1>7. CASE list[1] # o
  <2>1. Slots(list, o) = rest
    BY <1>1, <1>5, <1>7 DEF Slots
  <2>2. QED BY <1>1, <1>3, <1>4, <1>7, <2>1
<1>8. QED BY <1>6, <1>7

LEMMA InjectiveSlots ==
    ASSUME NEW list, IsInjective(list), NEW o \in Range(list)
    PROVE  Cardinality(Slots(list, o)) = 1
<1>1. PICK i \in DOMAIN list : list[i] = o
  BY DEF Range
<1>2. Slots(list, o) = {i}
  BY <1>1 DEF Slots, IsInjective
<1>3. QED BY <1>2, FS_Singleton

\* Of C, client c alone gets another object.
Changes(C, obj, obj2, c) == \A d \in C : d # c => obj2[d] = obj[d]

LEMMA GetsCount ==
    ASSUME NEW C, IsFiniteSet(C), NEW obj, NEW obj2, NEW c \in C, NEW o, obj[c] # o,
           Changes(C, obj, obj2, c)
    PROVE  Cardinality(With(C, obj2, o)) = Cardinality(With(C, obj, o)) + (IF obj2[c] = o THEN 1 ELSE 0)
<1>1. CASE obj2[c] = o
  <2>1. With(C, obj2, o) = With(C, obj, o) \cup {c} /\ c \notin With(C, obj, o)
    BY <1>1 DEF With, Changes
  <2>2. QED BY <1>1, <2>1, WithCount, FS_AddElement
<1>2. CASE obj2[c] # o
  <2>1. With(C, obj2, o) = With(C, obj, o)
    BY <1>2 DEF With, Changes
  <2>2. QED BY <1>2, <2>1, WithCount
<1>3. QED BY <1>1, <1>2

\* acquires(): the head of the idle list changes its place.
LEMMA AcquiresPlaces ==
    ASSUME NEW C, IsFiniteSet(C), NEW S, NEW list \in Seq(S), list # <<>>, NEW obj, NEW obj2, NEW c \in C,
           NEW o, obj[c] # o, obj2[c] = Head(list), Changes(C, obj, obj2, c)
    PROVE  Places(C, Tail(list), obj2, o) = Places(C, list, obj, o)
<1>1. /\ Tail(list) \in Seq(S)
      /\ Cardinality(Slots(list, o)) = Cardinality(Slots(Tail(list), o)) + (IF Head(list) = o THEN 1 ELSE 0)
  BY TailSlots
<1>2. Cardinality(With(C, obj2, o)) = Cardinality(With(C, obj, o)) + (IF obj2[c] = o THEN 1 ELSE 0)
  BY GetsCount
<1>3. Cardinality(Slots(Tail(list), o)) \in Nat /\ Cardinality(With(C, obj, o)) \in Nat
  BY <1>1, SlotsCount, WithCount
<1>4. QED BY <1>1, <1>2, <1>3 DEF Places

\* release() of x, to the idle list or to a client that has nothing: one more place.
LEMMA HandOverPlaces ==
    ASSUME NEW C, IsFiniteSet(C), NEW S, NEW list \in Seq(S), NEW x \in S, NEW list2, NEW obj, NEW obj2, NEW o,
           \/ list2 = Append(list, x) /\ obj2 = obj
           \/ \E w \in C : /\ obj[w] # o /\ list2 = list /\ obj2[w] = x /\ Changes(C, obj, obj2, w)
    PROVE  Places(C, list2, obj2, o) = Places(C, list, obj, o) + (IF x = o THEN 1 ELSE 0)
<1>1. Cardinality(Slots(list, o)) \in Nat /\ Cardinality(With(C, obj, o)) \in Nat
  BY SlotsCount, WithCount
<1>2. CASE list2 = Append(list, x) /\ obj2 = obj
  BY <1>1, <1>2, AppendSlots DEF Places
<1>3. CASE \E w \in C : /\ obj[w] # o /\ list2 = list /\ obj2[w] = x /\ Changes(C, obj, obj2, w)
  <2>1. PICK w \in C : /\ obj[w] # o /\ list2 = list /\ obj2[w] = x /\ Changes(C, obj, obj2, w)
    BY <1>3
  <2>2. Cardinality(With(C, obj2, o)) = Cardinality(With(C, obj, o)) + (IF obj2[w] = o THEN 1 ELSE 0)
    BY <2>1, GetsCount
  <2>3. QED BY <1>1, <2>1, <2>2 DEF Places
<1>4. QED BY <1>2, <1>3

\* A client that lets go of its object x, which is then released.
LEMMA ReleasePlaces ==
    ASSUME NEW C, IsFiniteSet(C), NEW S, NEW list \in Seq(S), NEW obj, NEW left, NEW list2, NEW obj2, NEW o,
           NEW c \in C, obj[c] \in S, left[c] # o, Changes(C, left, obj, c),
           \/ list2 = Append(list, obj[c]) /\ obj2 = left
           \/ \E w \in C : /\ left[w] # o /\ list2 = list /\ obj2[w] = obj[c] /\ Changes(C, left, obj2, w)
    PROVE  Places(C, list2, obj2, o) = Places(C, list, obj, o)
<1>1. Places(C, list2, obj2, o) = Places(C, list, left, o) + (IF obj[c] = o THEN 1 ELSE 0)
  BY HandOverPlaces
<1>2. Cardinality(With(C, obj, o)) = Cardinality(With(C, left, o)) + (IF obj[c] = o THEN 1 ELSE 0)
  BY GetsCount
<1>3. Cardinality(Slots(list, o)) \in Nat /\ Cardinality(With(C, left, o)) \in Nat
  BY SlotsCount, WithCount
<1>4. QED BY <1>1, <1>2, <1>3 DEF Places

-----------------------------------------------------------------------------
(* The inductive invariant.                                                   *)
WriterKinds == {"none", "unlink", "copy", "rename", "write"}
WriterRecords == [kind : WriterKinds, source : Paths \cup {None}, target : Paths \cup {None},
                  todo : SUBSET Replicas, status : WriterStates]

ReadersTyped == /\ reader \in [Readers -> ReaderStates]
                /\ lent \in [Readers -> Replicas \cup {None}]
                /\ again \in [Replicas -> Nat]
                /\ processEnded \in BOOLEAN

WritersTyped ==
    /\ files \in [Replicas -> [Paths -> Contents]]
    /\ clean \in BOOLEAN
    /\ writer \in [Writers -> WriterRecords]
    /\ \A w \in Writers :
          /\ writer[w].kind # "none" => writer[w].source \in Paths /\ writer[w].target \in Paths
          /\ writer[w].kind = "none" => writer[w].todo = {}
          /\ writer[w].status \in {"opening", "streaming"} => writer[w].kind = "write"
          /\ writer[w].status \in {"pending", "opening", "streaming"} => writer[w].todo # {}
          /\ writer[w].kind = "write" /\ writer[w].todo # {} => writer[w].status \in {"opening", "streaming"}

\* Where a reading call is in the pool.
Leased ==
    \A r \in Readers :
        /\ reader[r] \in {"idle", "ended", "resolved"} => stage[r] = "out"
        /\ reader[r] = "acquiring" => stage[r] \in {"waiting", "granted", "refused"}
        /\ reader[r] \in {"reading", "streaming"} => stage[r] = "using"
        /\ reader[r] = "rejected" => stage[r] \in {"out", "using"}
        /\ reader[r] \in {"reading", "streaming", "ended"} => lent[r] \in Replicas

\* Until dispose(), the pool and the calls have every replica between them, once and
\* once more for each repeated release.
Accounted ==
    \A f \in Replicas :
        /\ ~disposed => Places(Readers, pool, object, f) = 1 + again[f]
        /\ Cardinality(With(Readers, object, f)) <= 1 + again[f]

\* What a replica that held tree holds once it has done its part of w, the call c.
After(w, c, tree) ==
    CASE c.kind = "unlink" -> [tree EXCEPT ![c.source] = None]
      [] c.kind \in {"copy", "rename"} ->
            IF tree[c.source] = None THEN tree ELSE [tree EXCEPT ![c.target] = tree[c.source]]
      [] OTHER -> [tree EXCEPT ![c.target] = IF c.status = "opening" THEN "partial" ELSE w]

\* The replicas that have done their part of w agree, those that have not do so
\* too, and w is what lies between them.
Halfway(w) ==
    \A f, g \in Replicas :
        /\ f \in writer[w].todo /\ g \in writer[w].todo => files[f] = files[g]
        /\ f \notin writer[w].todo /\ g \notin writer[w].todo => files[f] = files[g]
        /\ f \in writer[w].todo /\ g \notin writer[w].todo => files[g] = After(w, writer[w], files[f])

Agreement ==
    clean =>
        /\ \A v, w \in Writers : writer[v].todo # {} /\ writer[w].todo # {} => v = w
        /\ \A w \in Writers : writer[w].todo # {} => Halfway(w)
        /\ (\A w \in Writers : writer[w].todo = {}) => \A f, g \in Replicas : files[f] = files[g]

ReadersInv == PP!Fits /\ ReadersTyped /\ Leased /\ Accounted
WritersInv == WritersTyped /\ Agreement

Inv == ReadersInv /\ WritersInv

-----------------------------------------------------------------------------
LEMMA PoolConstants ==
    /\ None \notin Replicas /\ Fss \in Seq(Replicas) /\ Range(Fss) = Replicas
    /\ PP!IsInjective(Fss) /\ \A f : PP!Range(f) = Range(f) /\ P!Range(f) = Range(f)
BY MirrorAssumption DEF IsInjective, PP!IsInjective, Range, PP!Range, P!Range

\* The two instances of Pool are one.
LEMMA SamePool ==
    /\ P!Init <=> PP!Init
    /\ \A r \in Readers : /\ P!Acquires(r) <=> PP!Acquires(r)
                          /\ P!Resume(r) <=> PP!Resume(r)
                          /\ P!Release(r) <=> PP!Release(r)
    /\ \A f, S, O : P!HandOver(f, S, O) <=> PP!HandOver(f, S, O)
    /\ P!Dispose <=> PP!Dispose
    /\ P!TypeOK <=> PP!TypeOK
BY PoolConstants DEF P!Init, PP!Init, P!Acquires, PP!Acquires, P!Resume, PP!Resume, P!Release, PP!Release,
    P!HandOver, PP!HandOver, P!Dispose, PP!Dispose, P!TypeOK, PP!TypeOK, P!Stages, PP!Stages

PoolUnchanged == UNCHANGED disposed /\ UNCHANGED waiters /\ UNCHANGED pool /\ UNCHANGED stage /\ UNCHANGED object

LEMMA PoolRests ==
    ASSUME PP!Fits, PoolUnchanged
    PROVE  PP!Fits' /\ stage' = stage /\ object' = object
BY DEF PoolUnchanged, PP!Fits, PP!TypeOK, PP!WaitersQueuedOnce

\* Nobody gets a replica after dispose(): until then it is enough to count.
LEMMA StillAccounted ==
    ASSUME ReadersInv, again' \in [Replicas -> Nat],
           \A f \in Replicas :
              \/ disposed' /\ object' = object /\ again' = again
              \/ /\ pool' \in Seq(Replicas) /\ ~disposed
                 /\ Places(Readers, pool', object', f) = Places(Readers, pool, object, f) + again'[f] - again[f]
    PROVE  Accounted'
<1> SUFFICES ASSUME NEW f \in Replicas
             PROVE  /\ ~disposed' => Places(Readers, pool', object', f) = 1 + again'[f]
                    /\ Cardinality(With(Readers, object, f))' <= 1 + again'[f]
  BY DEF Accounted
<1>1. again[f] \in Nat /\ again'[f] \in Nat
  BY DEF ReadersInv, ReadersTyped
<1>2. CASE disposed' /\ object' = object /\ again' = again
  BY <1>2 DEF ReadersInv, Accounted, With
<1>3. CASE /\ pool' \in Seq(Replicas) /\ ~disposed
           /\ Places(Readers, pool', object', f) = Places(Readers, pool, object, f) + again'[f] - again[f]
  <2>1. Places(Readers, pool, object, f) = 1 + again[f]
    BY <1>3 DEF ReadersInv, Accounted
  <2>2. Places(Readers, pool', object', f) = 1 + again'[f]
    BY <1>1, <1>3, <2>1
  <2>3. Cardinality(Slots(pool', f)) \in Nat /\ Cardinality(With(Readers, object', f)) \in Nat
    BY <1>3, SlotsCount, WithCount, MirrorAssumption
  <2>4. Cardinality(With(Readers, object', f)) <= 1 + again'[f]
    BY <1>1, <2>2, <2>3 DEF Places
  <2>5. QED BY <2>2, <2>4
<1>4. QED BY <1>2, <1>3

LEMMA AccountsRest ==
    ASSUME ReadersInv, disposed => disposed', object' = object, again' = again, disposed' \/ pool' = pool
    PROVE  Accounted'
BY DEF ReadersInv, Accounted, Places, With

\* What a reading call does to the pool.
LEMMA ReaderAcquires ==
    ASSUME ReadersInv, ~disposed, NEW r \in Readers, P!Acquires(r), again' = again
    PROVE  PP!Fits' /\ Accounted' /\ stage'[r] \in {"waiting", "granted"}
           /\ \A q \in Readers \ {r} : stage'[q] = stage[q]
<1>1. /\ PP!Fits' /\ object[r] = None
      /\ \A q \in Readers : q # r => stage'[q] = stage[q]
      /\ \/ stage'[r] = "waiting" /\ pool' = pool /\ object' = object
         \/ /\ stage'[r] = "granted" /\ pool # <<>> /\ pool' = Tail(pool)
            /\ object' = [object EXCEPT ![r] = Head(pool)]
  BY SamePool, PoolConstants, PP!AcquiresFits DEF ReadersInv
<1>2. pool \in Seq(Replicas) /\ pool' \in Seq(Replicas) /\ object \in [Readers -> Replicas \cup {None}]
  BY <1>1 DEF ReadersInv, PP!Fits, PP!TypeOK
<1>3. ASSUME NEW f \in Replicas
      PROVE  Places(Readers, pool', object', f) = Places(Readers, pool, object, f) + again'[f] - again[f]
  <2>1. Places(Readers, pool', object', f) = Places(Readers, pool, object, f)
    <3>1. CASE stage'[r] = "waiting"
      BY <1>1, <3>1
    <3>2. CASE stage'[r] = "granted"
      <4>1. pool # <<>> /\ pool' = Tail(pool) /\ object[r] # f
        BY <1>1, <3>2, PoolConstants
      <4>2. object'[r] = Head(pool) /\ Changes(Readers, object, object', r)
        BY <1>1, <1>2, <3>2 DEF Changes
      <4>3. QED BY <1>2, <4>1, <4>2, AcquiresPlaces, MirrorAssumption
    <3>3. QED BY <1>1, <3>1, <3>2
  <2>2. Places(Readers, pool, object, f) = 1 + again[f] /\ again[f] \in Nat
    BY DEF ReadersInv, ReadersTyped, Accounted
  <2>3. QED BY <2>1, <2>2
<1>4. again' \in [Replicas -> Nat]
  BY DEF ReadersInv, ReadersTyped
<1>5. Accounted'
  BY <1>2, <1>3, <1>4, StillAccounted
<1>6. QED BY <1>1, <1>5

LEMMA ReaderReleases ==
    ASSUME ReadersInv, ~disposed, NEW r \in Readers, P!Release(r), again' = again
    PROVE  PP!Fits' /\ Accounted' /\ stage[r] = "using" /\ stage'[r] = "out"
           /\ \A q \in Readers \ {r} : stage'[q] = stage[q] \/ (stage[q] = "waiting" /\ stage'[q] = "granted")
<1> DEFINE left == [object EXCEPT ![r] = None]
<1>1. /\ PP!Fits' /\ stage[r] = "using" /\ object[r] \in Replicas /\ stage'[r] = "out"
      /\ \A q \in Readers : q # r => stage'[q] = stage[q] \/ (stage[q] = "waiting" /\ stage'[q] = "granted")
      /\ \/ pool' = Append(pool, object[r]) /\ object' = left
         \/ \E w \in Readers : left[w] = None /\ pool' = pool /\ object' = [left EXCEPT ![w] = object[r]]
  BY SamePool, PoolConstants, PP!ReleaseFits DEF ReadersInv
<1>2. pool \in Seq(Replicas) /\ pool' \in Seq(Replicas) /\ object \in [Readers -> Replicas \cup {None}]
  BY <1>1 DEF ReadersInv, PP!Fits, PP!TypeOK
<1> HIDE DEF left
<1>3. ASSUME NEW f \in Replicas
      PROVE  Places(Readers, pool', object', f) = Places(Readers, pool, object, f) + again'[f] - again[f]
  <2>1. Places(Readers, pool', object', f) = Places(Readers, pool, object, f)
    <3>1. left[r] # f /\ Changes(Readers, left, object, r)
      BY <1>2, PoolConstants DEF left, Changes
    <3>2. \/ pool' = Append(pool, object[r]) /\ object' = left
          \/ \E w \in Readers : /\ left[w] # f /\ pool' = pool /\ object'[w] = object[r]
                               /\ Changes(Readers, left, object', w)
      BY <1>1, <1>2, PoolConstants DEF left, Changes
    <3>3. QED BY <1>1, <1>2, <3>1, <3>2, ReleasePlaces, MirrorAssumption
  <2>2. Places(Readers, pool, object, f) = 1 + again[f] /\ again[f] \in Nat
    BY DEF ReadersInv, ReadersTyped, Accounted
  <2>3. QED BY <2>1, <2>2
<1>4. again' \in [Replicas -> Nat]
  BY DEF ReadersInv, ReadersTyped
<1>5. Accounted'
  BY <1>2, <1>3, <1>4, StillAccounted
<1>6. QED BY <1>1, <1>5

\* The error of a stream that had ended: one more place for the replica.
LEMMA ReleasedAgain ==
    ASSUME ReadersInv, ~disposed, NEW f \in Replicas, P!HandOver(f, stage, object), disposed' = disposed,
           again' = [again EXCEPT ![f] = @ + 1]
    PROVE  PP!Fits' /\ Accounted'
           /\ \A q \in Readers : stage'[q] = stage[q] \/ (stage[q] = "waiting" /\ stage'[q] = "granted")
<1>1. /\ stage \in [Readers -> PP!Stages] /\ object \in [Readers -> Replicas \cup {None}]
      /\ pool \in Seq(Replicas)
      /\ \A d \in Readers : object[d] # None <=> stage[d] \in {"granted", "using"}
  BY DEF ReadersInv, PP!Fits, PP!TypeOK
<1>2. /\ PP!Fits'
      /\ \A q \in Readers : stage'[q] = stage[q] \/ (stage[q] = "waiting" /\ stage'[q] = "granted")
      /\ \/ pool' = Append(pool, f) /\ object' = object
         \/ \E w \in Readers : object[w] = None /\ pool' = pool /\ object' = [object EXCEPT ![w] = f]
  <2>1. PP!HandOver(f, stage, object) /\ PP!Fits
    BY SamePool DEF ReadersInv
  <2>2. QED BY <1>1, <2>1, PoolConstants, PP!HandOverFits
<1>3. pool' \in Seq(Replicas)
  BY <1>2 DEF PP!Fits, PP!TypeOK
<1>4. again \in [Replicas -> Nat] /\ again' \in [Replicas -> Nat]
  BY DEF ReadersInv, ReadersTyped
<1>5. ASSUME NEW g \in Replicas
      PROVE  Places(Readers, pool', object', g) = Places(Readers, pool, object, g) + again'[g] - again[g]
  <2>1. Places(Readers, pool', object', g) = Places(Readers, pool, object, g) + (IF f = g THEN 1 ELSE 0)
    <3>1. \/ pool' = Append(pool, f) /\ object' = object
          \/ \E w \in Readers : /\ object[w] # g /\ pool' = pool /\ object'[w] = f
                               /\ Changes(Readers, object, object', w)
      BY <1>1, <1>2, PoolConstants DEF Changes
    <3>2. QED BY <1>1, <3>1, HandOverPlaces, MirrorAssumption
  <2>2. Places(Readers, pool, object, g) = 1 + again[g] /\ again[g] \in Nat
    BY DEF ReadersInv, ReadersTyped, Accounted
  <2>3. again'[g] = again[g] + (IF f = g THEN 1 ELSE 0)
    BY <1>4
  <2>4. QED BY <2>1, <2>2, <2>3
<1>6. Accounted'
  BY <1>3, <1>4, <1>5, StillAccounted
<1>7. QED BY <1>2, <1>6

LEMMA InitInv == Init => Inv
<1> SUFFICES ASSUME Init PROVE Inv
  OBVIOUS
<1>1. /\ PP!Init /\ disposed = FALSE /\ pool = Fss
      /\ stage = [r \in Readers |-> "out"] /\ object = [r \in Readers |-> None]
  BY SamePool DEF Init, P!Init
<1>2. PP!Fits
  BY <1>1, PoolConstants, PP!InitFits
<1>3. Accounted
  <2> SUFFICES ASSUME NEW f \in Replicas
               PROVE  /\ Places(Readers, pool, object, f) = 1 + again[f]
                      /\ Cardinality(With(Readers, object, f)) <= 1 + again[f]
    BY DEF Accounted
  <2>1. With(Readers, object, f) = {}
    BY <1>1, MirrorAssumption DEF With
  <2>2. Cardinality(With(Readers, object, f)) = 0 /\ again[f] = 0
    BY <2>1, FS_EmptySet DEF Init
  <2>3. Cardinality(Slots(pool, f)) = 1
    BY <1>1, InjectiveSlots, MirrorAssumption
  <2>4. QED BY <2>2, <2>3 DEF Places
<1>4. ReadersInv
  BY <1>1, <1>2, <1>3 DEF Init, ReadersInv, ReadersTyped, ReaderStates, UnderWay, Leased
<1>5. WritersTyped
  BY DEF Init, WritersTyped, WriterRecords, WriterKinds, WriterStates, Idle, Contents
<1>6. Agreement
  BY DEF Init, Agreement, Idle
<1>7. QED BY <1>4, <1>5, <1>6 DEF Inv, WritersInv

ReaderSteps(r) == \/ Read(r) \/ Acquired(r) \/ ReadSucceeds(r) \/ ReadFails(r)
                  \/ ReadStreamOpens(r) \/ StreamEmits(r) \/ ListenerThrows(r)

\* The reading calls and the pool.
LEMMA ReadersStep == ASSUME ReadersInv, NEW r \in Readers, ReaderSteps(r) PROVE ReadersInv'
<1> USE DEF ReadersInv
<1>1. CASE Read(r) /\ ~disposed
  <2>1. /\ reader[r] = "idle" /\ P!Acquires(r) /\ reader' = [reader EXCEPT ![r] = "acquiring"]
        /\ UNCHANGED <<lent, again, processEnded>>
    BY <1>1 DEF Read
  <2>2. PP!Fits' /\ Accounted' /\ stage'[r] \in {"waiting", "granted"}
        /\ \A q \in Readers \ {r} : stage'[q] = stage[q]
    BY <1>1, <2>1, ReaderAcquires
  <2>3. QED BY <2>1, <2>2 DEF ReadersTyped, ReaderStates, UnderWay, Leased
<1>2. CASE Acquired(r)
  <2>1. /\ reader[r] = "acquiring" /\ P!Resume(r)
        /\ reader' = [reader EXCEPT ![r] = IF stage[r] = "granted" THEN "reading" ELSE "rejected"]
        /\ lent' = [lent EXCEPT ![r] = object[r]] /\ UNCHANGED <<again, processEnded>>
    BY <1>2 DEF Acquired
  <2>2. /\ PP!Fits' /\ disposed' = disposed /\ pool' = pool /\ object' = object
        /\ \A q \in Readers : q # r => stage'[q] = stage[q]
        /\ \/ stage[r] = "granted" /\ stage'[r] = "using"
           \/ stage[r] = "refused" /\ stage'[r] = "out"
    BY <2>1, SamePool, PoolConstants, PP!ResumeFits
  <2>3. Accounted'
    BY <2>1, <2>2, AccountsRest
  <2>4. object[r] \in Replicas \cup {None} /\ (stage[r] = "granted" => object[r] \in Replicas)
    BY DEF PP!Fits, PP!TypeOK
  <2>5. ReadersTyped' /\ Leased'
    BY <2>1, <2>2, <2>4 DEF ReadersTyped, ReaderStates, UnderWay, Leased
  <2>6. QED BY <2>2, <2>3, <2>5
<1>3. CASE (ReadSucceeds(r) \/ StreamEmits(r)) /\ ~disposed /\ reader[r] # "ended"
  <2>1. /\ P!Release(r) /\ reader[r] \in {"reading", "streaming"} /\ UNCHANGED <<lent, again, processEnded>>
        /\ \E s \in {"ended", "resolved"} :
              reader' = [reader EXCEPT ![r] = s] /\ (s = "ended" => reader[r] = "streaming")
    BY <1>3 DEF ReadSucceeds, StreamEmits
  <2>2. PP!Fits' /\ Accounted' /\ stage[r] = "using" /\ stage'[r] = "out"
        /\ \A q \in Readers \ {r} : stage'[q] = stage[q] \/ (stage[q] = "waiting" /\ stage'[q] = "granted")
    BY <1>3, <2>1, ReaderReleases
  <2>3. QED BY <2>1, <2>2 DEF ReadersTyped, ReaderStates, UnderWay, Leased
<1>4. CASE StreamEmits(r) /\ reader[r] = "ended"
  <2>1. /\ ~disposed /\ P!HandOver(lent[r], stage, object) /\ disposed' = disposed
        /\ reader' = [reader EXCEPT ![r] = "resolved"] /\ again' = [again EXCEPT ![lent[r]] = @ + 1]
        /\ UNCHANGED <<lent, processEnded>>
    BY <1>4 DEF StreamEmits
  <2>2. lent[r] \in Replicas /\ stage[r] = "out"
    BY <1>4 DEF Leased
  <2>3. PP!Fits' /\ Accounted'
        /\ \A q \in Readers : stage'[q] = stage[q] \/ (stage[q] = "waiting" /\ stage'[q] = "granted")
    BY <2>1, <2>2, ReleasedAgain
  <2>4. ReadersTyped' /\ Leased'
    BY <2>1, <2>2, <2>3 DEF ReadersTyped, ReaderStates, UnderWay, Leased
  <2>5. QED BY <2>3, <2>4
<1>5. CASE \/ Read(r) /\ disposed
           \/ ReadSucceeds(r) /\ disposed
           \/ ReadStreamOpens(r)
           \/ ReadFails(r)
           \/ ListenerThrows(r)
  <2>1. PoolUnchanged /\ UNCHANGED <<lent, again>> /\ processEnded' \in {processEnded, TRUE}
    BY <1>5 DEF Read, ReadSucceeds, ReadStreamOpens, ReadFails, ListenerThrows, poolVars, PoolUnchanged
  <2>2. \/ reader[r] \in {"idle", "reading"} /\ reader' = [reader EXCEPT ![r] = "rejected"]
        \/ reader[r] = "reading" /\ reader' = [reader EXCEPT ![r] = "streaming"]
        \/ reader' = reader
    BY <1>5 DEF Read, ReadSucceeds, ReadStreamOpens, ReadFails, ListenerThrows
  <2>3. PP!Fits' /\ stage' = stage /\ Accounted'
    BY <2>1, PoolRests, AccountsRest DEF PoolUnchanged
  <2>4. ReadersTyped'
    BY <2>1, <2>2 DEF ReadersTyped, ReaderStates, UnderWay
  <2>5. Leased'
    BY <2>1, <2>2, <2>3 DEF ReadersTyped, Leased
  <2>6. QED BY <2>3, <2>4, <2>5
<1>6. ReadSucceeds(r) \/ StreamEmits(r) => ~disposed \/ ReadSucceeds(r)
  BY DEF StreamEmits
<1>7. ReadSucceeds(r) => reader[r] # "ended"
  BY DEF ReadSucceeds
<1>8. QED BY <1>1, <1>2, <1>3, <1>4, <1>5, <1>6, <1>7 DEF ReaderSteps

LEMMA DisposeStep == ASSUME ReadersInv, Dispose PROVE ReadersInv'
<1> USE DEF ReadersInv
<1>1. PP!Dispose /\ UNCHANGED <<reader, lent, again, processEnded>>
  BY SamePool DEF Dispose, readerVars
<1>2. /\ PP!Fits' /\ disposed' /\ object' = object
      /\ \A q \in Readers : stage'[q] = stage[q] \/ (stage[q] = "waiting" /\ stage'[q] = "refused")
  BY <1>1, PoolConstants, PP!DisposeFits
<1>3. Accounted'
  BY <1>1, <1>2, AccountsRest
<1>4. QED BY <1>1, <1>2, <1>3 DEF ReadersTyped, Leased

-----------------------------------------------------------------------------
\* The writing calls and the files.
LEMMA LeastIndex ==
    ASSUME NEW T, T \subseteq Nat, T # {}
    PROVE  \E i \in T : \A j \in T : ~ j < i
<1>1. PICK i \in T : \A j \in T : ~ (<<j, i>> \in OpToRel(<, Nat))
  BY NatLessThanWellFounded, WFMin
<1>2. ASSUME NEW j \in T, j < i PROVE FALSE
  <2>1. <<j, i>> \in OpToRel(<, Nat)
    BY <1>2 DEF OpToRel
  <2>2. QED BY <1>1, <2>1
<1>3. QED BY <1>2

\* createWriteStream has a replica to open as long as one is left.
LEMMA OpensOneLeft ==
    ASSUME NEW w \in Writers, writer[w].todo \subseteq Replicas, writer[w].todo # {}
    PROVE  NextToOpen(w) \in writer[w].todo
<1> DEFINE left == {i \in DOMAIN Fss : Fss[i] \in writer[w].todo}
<1>1. left \subseteq Nat /\ DOMAIN Fss \subseteq Nat
  BY MirrorAssumption
<1>2. left # {}
  BY MirrorAssumption DEF Range
<1>3. PICK i \in left : \A j \in left : ~ j < i
  BY <1>1, <1>2, LeastIndex
<1>4. /\ i \in DOMAIN Fss /\ Fss[i] \in writer[w].todo
      /\ \A j \in DOMAIN Fss : j < i => Fss[j] \notin writer[w].todo
  BY <1>3
<1>5. QED BY <1>4 DEF NextToOpen

\* A record that changes keeps its kind and its paths.
LEMMA WriteTyped ==
    ASSUME WritersTyped, NEW w \in Writers, NEW p \in Paths, NEW q \in Paths,
           NEW how \in WriterKinds \ {"none"}, Write(w, how, p, q)
    PROVE  WritersTyped'
<1>1. \E r \in Replicas : TRUE
  BY MirrorAssumption DEF Range
<1>2. QED
  BY <1>1 DEF Write, WritersTyped, WriterRecords, WriterKinds, WriterStates, Idle

\* A writing call keeps its kind and its paths as its replicas do their part.
Progressed(w, todo, status) ==
    /\ writer' \in [Writers -> WriterRecords]
    /\ \A v \in Writers \ {w} : writer'[v] = writer[v]
    /\ writer'[w].kind = writer[w].kind
    /\ writer'[w].source = writer[w].source
    /\ writer'[w].target = writer[w].target
    /\ writer'[w].todo = todo
    /\ writer'[w].status = status

LEMMA PartProgresses ==
    ASSUME WritersTyped, NEW w \in Writers, NEW f \in Replicas
    PROVE  /\ Applied(w, f) => Progressed(w, writer[w].todo \ {f},
                  IF writer[w].todo = {f} /\ writer[w].status = "pending" THEN "resolved" ELSE writer[w].status)
           /\ Failed(w, f) => Progressed(w, writer[w].todo \ {f}, "rejected")
           /\ Flushed(w, f) => Progressed(w, writer[w].todo \ {f},
                  IF writer[w].todo = {f} THEN "resolved" ELSE writer[w].status)
<1> USE DEF WriterRecords, WriterStates, Progressed
<1>1. writer \in [Writers -> WriterRecords]
  BY DEF WritersTyped
<1>2. ASSUME Applied(w, f)
      PROVE  Progressed(w, writer[w].todo \ {f},
                  IF writer[w].todo = {f} /\ writer[w].status = "pending" THEN "resolved" ELSE writer[w].status)
  <2> DEFINE status == IF writer[w].todo = {f} /\ writer[w].status = "pending" THEN "resolved" ELSE writer[w].status
  <2>1. status \in WriterStates
    BY <1>1
  <2>2. writer' = [writer EXCEPT ![w].todo = @ \ {f}, ![w].status = status]
    BY <1>1, <1>2 DEF Applied
  <2> HIDE DEF status
  <2>3. Progressed(w, writer[w].todo \ {f}, status)
    BY <1>1, <2>1, <2>2
  <2>4. QED BY <2>3 DEF status
<1>3. ASSUME Failed(w, f) PROVE Progressed(w, writer[w].todo \ {f}, "rejected")
  BY <1>1, <1>3 DEF Failed
<1>4. ASSUME Flushed(w, f)
      PROVE  Progressed(w, writer[w].todo \ {f}, IF writer[w].todo = {f} THEN "resolved" ELSE writer[w].status)
  BY <1>1, <1>4 DEF Flushed
<1>5. QED BY <1>2, <1>3, <1>4

LEMMA OpenedProgresses ==
    ASSUME WritersTyped, NEW w \in Writers, Opened(w)
    PROVE  LET f == NextToOpen(w)
           IN  /\ f \in writer[w].todo /\ writer[w].status = "opening" /\ writer[w].kind = "write"
               /\ \/ /\ files' = [files EXCEPT ![f][writer[w].target] = "partial"] /\ clean' = clean
                     /\ writer[w].todo = {f} => Progressed(w, Replicas, "streaming")
                     /\ writer[w].todo # {f} => Progressed(w, writer[w].todo \ {f}, "opening")
                  \/ clean' = FALSE /\ files' = files /\ Progressed(w, {}, "rejected")
<1> DEFINE f == NextToOpen(w)
<1> USE DEF WriterRecords, WriterStates, Progressed
<1>1. writer \in [Writers -> WriterRecords]
  BY DEF WritersTyped
<1>2. /\ writer[w].status = "opening" /\ writer[w].todo \subseteq Replicas /\ writer[w].todo # {}
      /\ writer[w].kind = "write"
  BY DEF Opened, WritersTyped
<1>3. f \in writer[w].todo
  BY <1>2, OpensOneLeft
<1>4. \/ /\ files' = [files EXCEPT ![f][writer[w].target] = "partial"] /\ clean' = clean
         /\ writer' = [writer EXCEPT
                ![w].todo = IF writer[w].todo = {f} THEN Replicas ELSE @ \ {f},
                ![w].status = IF writer[w].todo = {f} THEN "streaming" ELSE @]
      \/ /\ clean' = FALSE /\ files' = files
         /\ writer' = [writer EXCEPT ![w].todo = {}, ![w].status = "rejected"]
  BY DEF Opened
<1> HIDE DEF f
<1>5. ASSUME writer' = [writer EXCEPT ![w].todo = {}, ![w].status = "rejected"]
      PROVE  Progressed(w, {}, "rejected")
  BY <1>1, <1>5
<1>6. ASSUME writer' = [writer EXCEPT
                ![w].todo = IF writer[w].todo = {f} THEN Replicas ELSE @ \ {f},
                ![w].status = IF writer[w].todo = {f} THEN "streaming" ELSE @]
      PROVE  /\ writer[w].todo = {f} => Progressed(w, Replicas, "streaming")
             /\ writer[w].todo # {f} => Progressed(w, writer[w].todo \ {f}, "opening")
  <2>1. CASE writer[w].todo = {f}
    <3>1. writer' = [writer EXCEPT ![w].todo = Replicas, ![w].status = "streaming"]
      BY <1>6, <2>1
    <3>2. Progressed(w, Replicas, "streaming")
      BY <1>1, <3>1
    <3>3. QED BY <2>1, <3>2
  <2>2. CASE writer[w].todo # {f}
    <3>1. Progressed(w, writer[w].todo \ {f}, "opening")
      BY <1>1, <1>2, <1>6, <2>2
    <3>2. QED BY <2>2, <3>1
  <2>3. QED BY <2>1, <2>2
<1> HIDE DEF Progressed
<1>7. QED BY <1>2, <1>3, <1>4, <1>5, <1>6 DEF f

LEMMA FilesTyped ==
    ASSUME files \in [Replicas -> [Paths -> Contents]], NEW f \in Replicas, NEW p \in Paths, NEW x \in Contents
    PROVE  [files EXCEPT ![f][p] = x] \in [Replicas -> [Paths -> Contents]]
OBVIOUS

LEMMA PartTyped ==
    ASSUME WritersTyped, NEW w \in Writers, NEW f \in Replicas,
           Applied(w, f) \/ Failed(w, f) \/ Flushed(w, f)
    PROVE  WritersTyped'
<1>1. /\ f \in writer[w].todo /\ writer[w].kind # "none"
      /\ writer[w].source \in Paths /\ writer[w].target \in Paths /\ clean' \in BOOLEAN
  BY DEF Applied, Failed, Flushed, WritersTyped
<1>2. files \in [Replicas -> [Paths -> Contents]] /\ w \in Contents /\ None \in Contents
  BY DEF WritersTyped, Contents
<1>3. files[f][writer[w].source] \in Contents
  BY <1>1, <1>2
<1>4. files' \in [Replicas -> [Paths -> Contents]]
  <2>1. \/ files' = [files EXCEPT ![f][writer[w].source] = None]
        \/ files' = [files EXCEPT ![f][writer[w].target] = files[f][writer[w].source]]
        \/ files' = [files EXCEPT ![f][writer[w].target] = w]
        \/ files' = files
    BY DEF Applied, Failed, Flushed, Done
  <2>2. /\ [files EXCEPT ![f][writer[w].source] = None] \in [Replicas -> [Paths -> Contents]]
        /\ [files EXCEPT ![f][writer[w].target] = w] \in [Replicas -> [Paths -> Contents]]
        /\ [files EXCEPT ![f][writer[w].target] = files[f][writer[w].source]] \in [Replicas -> [Paths -> Contents]]
    BY <1>1, <1>2, <1>3, FilesTyped
  <2>3. QED BY <1>2, <2>1, <2>2
<1>5. \/ Applied(w, f) /\ Progressed(w, writer[w].todo \ {f},
             IF writer[w].todo = {f} /\ writer[w].status = "pending" THEN "resolved" ELSE writer[w].status)
      \/ Failed(w, f) /\ Progressed(w, writer[w].todo \ {f}, "rejected")
      \/ Flushed(w, f) /\ Progressed(w, writer[w].todo \ {f},
             IF writer[w].todo = {f} THEN "resolved" ELSE writer[w].status)
  BY PartProgresses
<1>6. CASE Applied(w, f) \/ Failed(w, f)
  <2>1. writer[w].kind # "write" /\ writer[w].status \notin {"opening", "streaming"}
    BY <1>6 DEF Applied, Failed, WritersTyped
  <2>2. PICK status \in WriterStates :
               /\ Progressed(w, writer[w].todo \ {f}, status)
               /\ status \notin {"opening", "streaming"}
               /\ status = "pending" => writer[w].todo \ {f} # {}
    <3>1. CASE Applied(w, f)
      <4>1. writer[w].status \in WriterStates
        BY DEF WritersTyped, WriterRecords
      <4> DEFINE s == IF writer[w].todo = {f} /\ writer[w].status = "pending" THEN "resolved" ELSE writer[w].status
      <4>2. Progressed(w, writer[w].todo \ {f}, s)
        BY <3>1, PartProgresses
      <4>3. s \in WriterStates /\ s \notin {"opening", "streaming"}
        BY <2>1, <4>1 DEF WriterStates
      <4>4. s = "pending" => writer[w].todo \ {f} # {}
        BY <1>1, <1>6
      <4> HIDE DEF s
      <4>5. QED BY <4>2, <4>3, <4>4
    <3>2. CASE Failed(w, f)
      BY <3>2, PartProgresses DEF WriterStates
    <3>3. QED BY <1>6, <3>1, <3>2
  <2>3. /\ writer' \in [Writers -> WriterRecords] /\ \A v \in Writers \ {w} : writer'[v] = writer[v]
        /\ writer'[w].kind = writer[w].kind
        /\ writer'[w].source = writer[w].source /\ writer'[w].target = writer[w].target
        /\ writer'[w].todo = writer[w].todo \ {f} /\ writer'[w].status = status
    BY <2>2 DEF Progressed
  <2>4. \A v \in Writers \ {w} :
          /\ writer'[v].kind # "none" => writer'[v].source \in Paths /\ writer'[v].target \in Paths
          /\ writer'[v].kind = "none" => writer'[v].todo = {}
          /\ writer'[v].status \in {"opening", "streaming"} => writer'[v].kind = "write"
          /\ writer'[v].status \in {"pending", "opening", "streaming"} => writer'[v].todo # {}
          /\ writer'[v].kind = "write" /\ writer'[v].todo # {} => writer'[v].status \in {"opening", "streaming"}
    BY <2>3 DEF WritersTyped
  <2>5. QED BY <1>1, <1>4, <2>1, <2>2, <2>3, <2>4 DEF WritersTyped
<1>7. CASE Flushed(w, f)
  <2>1. writer[w].kind = "write" /\ writer[w].status = "streaming"
    BY <1>7 DEF Flushed, WritersTyped
  <2>2. QED BY <1>1, <1>4, <1>5, <1>7, <2>1 DEF WritersTyped, Progressed, Applied, Failed
<1>8. QED BY <1>6, <1>7

LEMMA OpenedTyped == ASSUME WritersTyped, NEW w \in Writers, Opened(w) PROVE WritersTyped'
<1> DEFINE f == NextToOpen(w)
<1>1. /\ f \in writer[w].todo /\ writer[w].status = "opening" /\ writer[w].kind = "write"
      /\ \/ /\ files' = [files EXCEPT ![f][writer[w].target] = "partial"] /\ clean' = clean
            /\ writer[w].todo = {f} => Progressed(w, Replicas, "streaming")
            /\ writer[w].todo # {f} => Progressed(w, writer[w].todo \ {f}, "opening")
         \/ clean' = FALSE /\ files' = files /\ Progressed(w, {}, "rejected")
  BY OpenedProgresses
<1> HIDE DEF f
<1>2. /\ writer[w].todo \subseteq Replicas /\ writer[w].target \in Paths /\ "partial" \in Contents
      /\ files \in [Replicas -> [Paths -> Contents]]
  BY <1>1 DEF WritersTyped, WriterRecords, Contents
<1>3. f \in Replicas /\ [files EXCEPT ![f][writer[w].target] = "partial"] \in [Replicas -> [Paths -> Contents]]
  BY <1>1, <1>2, FilesTyped
<1>4. files' \in [Replicas -> [Paths -> Contents]] /\ clean' \in BOOLEAN
  BY <1>1, <1>2, <1>3 DEF WritersTyped
<1>5. QED BY <1>1, <1>2, <1>4 DEF WritersTyped, Progressed

\* A call whose paths and kind stay, and which is not opening or stays so, has
\* the same effect.
LEMMA SameEffect ==
    ASSUME NEW w, NEW c, NEW d, c.kind = d.kind, c.source = d.source, c.target = d.target,
           c.kind = "write" => (c.status = "opening" <=> d.status = "opening"),
           c.kind \in WriterKinds \ {"none"}
    PROVE  \A tree : After(w, c, tree) = After(w, d, tree)
BY DEF After, WriterKinds

\* One more replica does its part of w.
LEMMA OneMore ==
    ASSUME Agreement, clean, NEW w \in Writers, NEW f \in Replicas, f \in writer[w].todo, NEW status,
           Progressed(w, writer[w].todo \ {f}, status),
           \A tree : After(w, writer'[w], tree) = After(w, writer[w], tree),
           files'[f] = After(w, writer[w], files[f]),
           \A g \in Replicas \ {f} : files'[g] = files[g]
    PROVE  Agreement'
<1>1. /\ \A v \in Writers \ {w} : writer[v].todo = {} /\ writer'[v].todo = {}
      /\ writer'[w].todo = writer[w].todo \ {f}
  BY DEF Agreement, Progressed
<1>2. Halfway(w)
  BY DEF Agreement
<1>3. Halfway(w)'
  <2> SUFFICES ASSUME NEW g \in Replicas, NEW h \in Replicas
               PROVE  /\ g \in writer'[w].todo /\ h \in writer'[w].todo => files'[g] = files'[h]
                      /\ g \notin writer'[w].todo /\ h \notin writer'[w].todo => files'[g] = files'[h]
                      /\ g \in writer'[w].todo /\ h \notin writer'[w].todo
                            => files'[h] = After(w, writer'[w], files'[g])
    BY DEF Halfway
  <2>1. g \in writer'[w].todo \/ h \in writer'[w].todo \/ g = f \/ h = f
           \/ (g \notin writer[w].todo /\ h \notin writer[w].todo)
    BY <1>1
  <2>2. QED BY <1>1, <1>2 DEF Halfway
<1>4. writer'[w].todo = {} => \A g, h \in Replicas : files'[g] = files'[h]
  BY <1>3 DEF Halfway
<1>5. QED BY <1>1, <1>3, <1>4 DEF Agreement

LEMMA PartAgrees ==
    ASSUME WritersInv, NEW w \in Writers, NEW f \in Replicas,
           Applied(w, f) \/ Failed(w, f) \/ Flushed(w, f)
    PROVE  Agreement'
<1> SUFFICES ASSUME clean' PROVE Agreement'
  BY DEF Agreement
<1>1. /\ clean /\ WritersTyped /\ Agreement
      /\ f \in writer[w].todo /\ writer[w].kind \in WriterKinds \ {"none"}
      /\ writer[w].source \in Paths /\ writer[w].target \in Paths
      /\ files \in [Replicas -> [Paths -> Contents]]
  BY DEF WritersInv, WritersTyped, WriterRecords, Applied, Failed, Flushed
<1>2. CASE Applied(w, f)
  <2> DEFINE status == IF writer[w].todo = {f} /\ writer[w].status = "pending" THEN "resolved" ELSE writer[w].status
  <2>1. Progressed(w, writer[w].todo \ {f}, status)
    BY <1>1, <1>2, PartProgresses
  <2>2. \A tree : After(w, writer'[w], tree) = After(w, writer[w], tree)
    <3>1. /\ writer[w].kind # "write" /\ writer'[w].kind = writer[w].kind
          /\ writer'[w].source = writer[w].source /\ writer'[w].target = writer[w].target
      BY <1>2, <2>1 DEF Applied, Progressed
    <3>2. QED BY <1>1, <3>1, SameEffect
  <2>3. /\ files'[f] = After(w, writer[w], files[f])
        /\ \A g \in Replicas \ {f} : files'[g] = files[g]
    BY <1>1, <1>2 DEF Applied, Done, After, WriterKinds
  <2>4. QED BY <1>1, <2>1, <2>2, <2>3, OneMore
<1>3. CASE Failed(w, f)
  <2>1. Progressed(w, writer[w].todo \ {f}, "rejected")
    BY <1>1, <1>3, PartProgresses
  <2>2. \A tree : After(w, writer'[w], tree) = After(w, writer[w], tree)
    <3>1. /\ writer[w].kind # "write" /\ writer'[w].kind = writer[w].kind
          /\ writer'[w].source = writer[w].source /\ writer'[w].target = writer[w].target
      BY <1>3, <2>1 DEF Failed, Progressed
    <3>2. QED BY <1>1, <3>1, SameEffect
  <2>3. files' = files /\ files[f][writer[w].source] = None /\ writer[w].kind # "write"
    BY <1>3 DEF Failed
  <2>4. files[f] = After(w, writer[w], files[f])
    <3>1. [files[f] EXCEPT ![writer[w].source] = None] = files[f]
      BY <1>1, <2>3
    <3>2. QED BY <1>1, <2>3, <3>1 DEF After, WriterKinds
  <2>5. QED BY <1>1, <2>1, <2>2, <2>3, <2>4, OneMore
<1>4. CASE Flushed(w, f)
  <2> DEFINE status == IF writer[w].todo = {f} THEN "resolved" ELSE writer[w].status
  <2>1. Progressed(w, writer[w].todo \ {f}, status)
    BY <1>1, <1>4, PartProgresses
  <2>2. writer[w].status = "streaming" /\ writer[w].kind = "write"
    BY <1>1, <1>4 DEF Flushed, WritersTyped
  <2>3. \A tree : After(w, writer'[w], tree) = After(w, writer[w], tree)
    BY <1>1, <2>1, <2>2, SameEffect DEF Progressed
  <2>4. /\ files'[f] = After(w, writer[w], files[f])
        /\ \A g \in Replicas \ {f} : files'[g] = files[g]
    BY <1>1, <1>4, <2>2 DEF Flushed, After
  <2>5. QED BY <1>1, <2>1, <2>3, <2>4, OneMore
<1>5. QED BY <1>2, <1>3, <1>4

LEMMA OpenedAgrees == ASSUME WritersInv, NEW w \in Writers, Opened(w) PROVE Agreement'
<1> SUFFICES ASSUME clean' PROVE Agreement'
  BY DEF Agreement
<1> DEFINE f == NextToOpen(w)
<1>1. /\ f \in writer[w].todo /\ writer[w].status = "opening" /\ writer[w].kind = "write"
      /\ files' = [files EXCEPT ![f][writer[w].target] = "partial"] /\ clean
      /\ writer[w].todo = {f} => Progressed(w, Replicas, "streaming")
      /\ writer[w].todo # {f} => Progressed(w, writer[w].todo \ {f}, "opening")
  BY OpenedProgresses DEF WritersInv
<1> HIDE DEF f
<1>2. /\ Agreement /\ f \in Replicas /\ writer[w].target \in Paths
      /\ files \in [Replicas -> [Paths -> Contents]]
  BY <1>1 DEF WritersInv, WritersTyped, WriterRecords
<1>3. /\ files'[f] = After(w, writer[w], files[f])
      /\ \A g \in Replicas \ {f} : files'[g] = files[g]
  BY <1>1, <1>2 DEF After
<1>4. CASE writer[w].todo = {f}
  <2>1. Halfway(w) /\ \A v \in Writers \ {w} : writer[v].todo = {}
    BY <1>1, <1>2 DEF Agreement
  <2>2. \A g \in Replicas \ {f} : files[g] = After(w, writer[w], files[f])
    BY <1>2, <1>4, <2>1 DEF Halfway
  <2>3. \A g, h \in Replicas : files'[g] = files'[h]
    BY <1>3, <2>2
  <2>4. Progressed(w, Replicas, "streaming")
    BY <1>1, <1>4
  <2>5. /\ writer'[w].todo = Replicas
        /\ \A v \in Writers \ {w} : writer'[v].todo = {}
    BY <2>1, <2>4 DEF Progressed
  <2>6. Halfway(w)'
    BY <2>3, <2>5 DEF Halfway
  <2>7. QED BY <2>3, <2>5, <2>6 DEF Agreement
<1>5. CASE writer[w].todo # {f}
  <2>1. Progressed(w, writer[w].todo \ {f}, "opening")
    BY <1>1, <1>5
  <2>2. \A tree : After(w, writer'[w], tree) = After(w, writer[w], tree)
    BY <1>1, <2>1, SameEffect DEF Progressed, WriterKinds
  <2>3. QED BY <1>1, <1>2, <1>3, <2>1, <2>2, OneMore
<1>6. QED BY <1>4, <1>5

LEMMA WriteAgrees ==
    ASSUME WritersInv, NEW w \in Writers, NEW how, NEW p \in Paths, NEW q \in Paths, Write(w, how, p, q)
    PROVE  Agreement'
<1> SUFFICES ASSUME clean' PROVE Agreement'
  BY DEF Agreement
<1>1. clean /\ files' = files /\ \A v \in Writers : writer[v].todo = {}
  BY DEF Write, AtRest
<1>2. \A g, h \in Replicas : files'[g] = files'[h]
  BY <1>1 DEF WritersInv, Agreement
<1>3. /\ \A v \in Writers \ {w} : writer'[v].todo = {}
      /\ writer'[w].todo \in {{}, Replicas}
  BY <1>1 DEF Write, WritersInv, WritersTyped
<1>4. writer'[w].todo # {} => Halfway(w)'
  BY <1>2, <1>3 DEF Halfway
<1>5. QED BY <1>2, <1>3, <1>4 DEF Agreement

\* A step of the calls that read leaves the writing ones alone, and the other
\* way about.
LEMMA WritersRest == ASSUME WritersInv, UNCHANGED <<files, writer, clean>> PROVE WritersInv'
BY DEF WritersInv, WritersTyped, Agreement, Halfway

LEMMA ReadersRest == ASSUME ReadersInv, UNCHANGED <<poolVars, readerVars>> PROVE ReadersInv'
<1>1. PoolUnchanged /\ UNCHANGED <<reader, lent, again, processEnded>>
  BY DEF poolVars, readerVars, PoolUnchanged
<1>2. PP!Fits' /\ stage' = stage /\ Accounted'
  BY <1>1, PoolRests, AccountsRest DEF PoolUnchanged, ReadersInv
<1>3. QED BY <1>1, <1>2 DEF ReadersInv, ReadersTyped, Leased

LEMMA NextInv == Inv /\ [Next]_vars => Inv'
<1> SUFFICES ASSUME Inv, [Next]_vars PROVE Inv'
  OBVIOUS
<1>1. ReadersInv /\ WritersInv /\ WritersTyped
  BY DEF Inv, WritersInv
<1>2. ASSUME NEW r \in Readers, ReaderSteps(r) PROVE Inv'
  <2>1. UNCHANGED <<files, writer, clean>>
    BY <1>2 DEF ReaderSteps, Read, Acquired, ReadSucceeds, ReadStreamOpens, ReadFails, StreamEmits, ListenerThrows,
       writerVars
  <2>2. QED BY <1>1, <1>2, <2>1, ReadersStep, WritersRest DEF Inv
<1>3. ASSUME NEW w \in Writers, NEW p \in Paths, NEW q \in Paths, NEW how \in WriterKinds \ {"none"},
             Write(w, how, p, q)
      PROVE  Inv'
  <2>1. UNCHANGED <<poolVars, readerVars>>
    BY <1>3 DEF Write
  <2>2. WritersTyped' /\ Agreement'
    BY <1>1, <1>3, WriteTyped, WriteAgrees
  <2>3. QED BY <1>1, <2>1, <2>2, ReadersRest DEF Inv, WritersInv
<1>4. ASSUME NEW w \in Writers, Opened(w) PROVE Inv'
  <2>1. UNCHANGED <<poolVars, readerVars>>
    BY <1>4 DEF Opened
  <2>2. WritersTyped' /\ Agreement'
    BY <1>1, <1>4, OpenedTyped, OpenedAgrees
  <2>3. QED BY <1>1, <2>1, <2>2, ReadersRest DEF Inv, WritersInv
<1>5. ASSUME NEW w \in Writers, NEW f \in Replicas, Applied(w, f) \/ Failed(w, f) \/ Flushed(w, f)
      PROVE  Inv'
  <2>1. UNCHANGED <<poolVars, readerVars>>
    BY <1>5 DEF Applied, Failed, Flushed
  <2>2. WritersTyped' /\ Agreement'
    BY <1>1, <1>5, PartTyped, PartAgrees
  <2>3. QED BY <1>1, <2>1, <2>2, ReadersRest DEF Inv, WritersInv
<1>6. CASE Dispose
  BY <1>1, <1>6, DisposeStep, WritersRest DEF Inv, Dispose, writerVars
<1>7. CASE UNCHANGED vars
  BY <1>1, <1>7, ReadersRest, WritersRest DEF Inv, vars, poolVars, readerVars
<1>8. QED BY <1>2, <1>3, <1>4, <1>5, <1>6, <1>7 DEF Next, ReaderSteps, WriterKinds

-----------------------------------------------------------------------------
LEMMA Invariance == Spec => []Inv
BY InitInv, NextInv, PTL DEF Spec

\* As long as no replica failed a write on its own and the writes came one after
\* another, the replicas hold the same files whenever no write is under way.
THEOREM ReplicasAlwaysAgree == Spec => []ReplicasAgree
<1>1. Inv => ReplicasAgree
  BY DEF Inv, WritersInv, Agreement, ReplicasAgree, AtRest
<1>2. QED BY <1>1, Invariance, PTL

\* Until dispose(), a replica is in one place, idle or with one reading call, and in
\* one more for each stream of it that ended and then failed; who has it is under way
\* or failed.
THEOREM OnlyFailedReadsLoseReplicas == Spec => []LostToFailedReads
<1>1. ASSUME Inv PROVE LostToFailedReads
  <2>1. PP!Fits /\ ReadersTyped /\ Leased /\ Accounted
    BY <1>1 DEF Inv, ReadersInv
  <2>2. TypeOK
    <3>1. P!TypeOK
      BY <2>1, SamePool DEF PP!Fits
    <3>2. QED BY <1>1, <2>1, <3>1 DEF Inv, ReadersTyped, WritersInv, WritersTyped, WriterRecords, TypeOK
  <2>3. ASSUME NEW f \in Replicas
        PROVE  /\ ~disposed => Cardinality({i \in DOMAIN pool : pool[i] = f}) + Cardinality(Holders(f)) = 1 + again[f]
               /\ Cardinality(Holders(f)) <= 1 + again[f]
    BY <2>1 DEF Accounted, Places, Slots, With, Holders
  <2>4. ASSUME NEW f \in Replicas, NEW r \in Holders(f) PROVE reader[r] \in UnderWay \cup {"rejected"}
    <3>1. stage[r] \in {"granted", "using"} /\ reader[r] \in ReaderStates
      BY <2>1, MirrorAssumption DEF Holders, PP!Fits, PP!TypeOK, ReadersTyped
    <3>2. QED BY <2>1, <3>1 DEF Holders, Leased, ReaderStates
  <2>5. QED BY <2>2, <2>3, <2>4 DEF LostToFailedReads
<1>2. QED BY <1>1, Invariance, PTL

\* As long as no stream of the mirror emitted its end and then an error, what the
\* reading calls do to the pool is what its clients may do: all that PoolProofs says
\* of a pool holds of the replicas.
OneReleaseEach == \A f \in Replicas : again[f] = 0

THEOREM ReadingCallsUseThePool == Spec /\ []OneReleaseEach => PP!Spec
<1>1. Init => PP!Init
  BY SamePool DEF Init
<1>2. ASSUME Inv, OneReleaseEach', [Next]_vars PROVE [PP!Next]_(PP!vars)
  <2> SUFFICES PP!Next \/ UNCHANGED PP!vars
    OBVIOUS
  <2> USE DEF PP!vars
  <2>1. ASSUME NEW r \in Readers, ReaderSteps(r) PROVE PP!Next \/ UNCHANGED PP!vars
    <3>1. ~ (StreamEmits(r) /\ reader[r] = "ended")
      <4> SUFFICES ASSUME StreamEmits(r), reader[r] = "ended" PROVE FALSE
        OBVIOUS
      <4>1. again' = [again EXCEPT ![lent[r]] = @ + 1]
        BY DEF StreamEmits
      <4>2. lent[r] \in Replicas /\ again \in [Replicas -> Nat]
        BY <1>2 DEF Inv, ReadersInv, ReadersTyped, Leased
      <4>3. again'[lent[r]] = again[lent[r]] + 1 /\ again[lent[r]] \in Nat
        BY <4>1, <4>2
      <4>4. again'[lent[r]] = 0
        BY <1>2, <4>2 DEF OneReleaseEach
      <4>5. QED BY <4>3, <4>4
    <3>2. P!Acquires(r) \/ P!Resume(r) \/ P!Release(r) \/ UNCHANGED PP!vars
      BY <2>1, <3>1 DEF ReaderSteps, Read, Acquired, ReadSucceeds, ReadStreamOpens, ReadFails, StreamEmits,
         ListenerThrows, poolVars
    <3>3. QED BY <3>2, SamePool DEF PP!Next
  <2>2. ASSUME NEW w \in Writers, NEW p \in Paths, NEW q \in Paths,
               NEW how \in WriterKinds \ {"none"}, Write(w, how, p, q)
        PROVE  UNCHANGED PP!vars
    BY <2>2 DEF Write, poolVars
  <2>3. ASSUME NEW w \in Writers, Opened(w) PROVE UNCHANGED PP!vars
    BY <2>3 DEF Opened, poolVars
  <2>4. ASSUME NEW w \in Writers, NEW f \in Replicas, Applied(w, f) \/ Failed(w, f) \/ Flushed(w, f)
        PROVE  UNCHANGED PP!vars
    BY <2>4 DEF Applied, Failed, Flushed, poolVars
  <2>5. CASE Dispose
    BY <2>5, SamePool DEF Dispose, PP!Next
  <2>6. CASE UNCHANGED vars
    BY <2>6 DEF vars
  <2> HIDE DEF PP!vars
  <2>7. QED BY <1>2, <2>1, <2>2, <2>3, <2>4, <2>5, <2>6 DEF Next, ReaderSteps, WriterKinds
<1>3. Spec => []Inv
  BY Invariance
<1>4. QED BY <1>1, <1>2, <1>3, PTL DEF Spec, PP!Spec

-----------------------------------------------------------------------------
(* Pool.transform(): what it makes of the pool it is given, for every number of *)
(* streams, chunks and objects.                                                *)
TP == INSTANCE PoolProofs WITH Clients <- Chunks, None <- NoObject, disposed <- poolDisposed,
          waiters <- chunkWaiters, pool <- idleObjects, stage <- chunkStage, object <- chunkObject

\* The two instances of Pool are one.
LEMMA StreamPoolConstants ==
    /\ NoObject \notin Objects /\ InitialObjects \in Seq(Objects)
    /\ TP!IsInjective(InitialObjects)
    /\ \A f : TP!Range(f) = Range(f) /\ ChunkPool!Range(f) = Range(f)
BY TransformAssumption DEF IsInjective, TP!IsInjective, Range, TP!Range, ChunkPool!Range

LEMMA StreamSamePool ==
    /\ ChunkPool!Init <=> TP!Init
    /\ \A k \in Chunks : /\ ChunkPool!Acquires(k) <=> TP!Acquires(k)
                         /\ ChunkPool!Resume(k) <=> TP!Resume(k)
                         /\ ChunkPool!Release(k) <=> TP!Release(k)
    /\ ChunkPool!Dispose <=> TP!Dispose
    /\ ChunkPool!TypeOK <=> TP!TypeOK
BY StreamPoolConstants DEF ChunkPool!Init, TP!Init, ChunkPool!Acquires, TP!Acquires, ChunkPool!Resume, TP!Resume,
    ChunkPool!Release, TP!Release,
    ChunkPool!HandOver, TP!HandOver, ChunkPool!Dispose, TP!Dispose, ChunkPool!TypeOK, TP!TypeOK,
    ChunkPool!Stages, TP!Stages
-----------------------------------------------------------------------------
\* The inductive invariant: the pool's own, the types, and that the chunk whose
\* transform() awaits an object has been counted.
StreamCounted == \A s \in Streams : phase[s] = "acquiring" => written[s] >= 1

\* Until the pool is disposed, it and the chunks have the objects it began with.
StreamAccounted == ~poolDisposed => TP!Circulating = Range(InitialObjects)

StreamInv == TP!Inv /\ TransformTypeOK /\ StreamCounted /\ StreamAccounted

LEMMA StreamInitInv == TransformInit => StreamInv
<1> SUFFICES ASSUME TransformInit PROVE StreamInv
  OBVIOUS
<1>1. TP!Init /\ ChunkPool!Init
  BY StreamSamePool DEF TransformInit
<1>2. TP!Inv
  BY <1>1, StreamPoolConstants, TP!InitInv
<1>3. ChunkPool!TypeOK
  BY <1>2, StreamSamePool DEF TP!Inv
<1>4. TransformTypeOK
  BY <1>1, <1>3, TransformAssumption DEF TransformInit, TransformTypeOK, Phases, Workers, TP!Init
<1>5. StreamCounted /\ StreamAccounted
  BY <1>1, StreamPoolConstants DEF TransformInit, StreamCounted, StreamAccounted, TP!Circulating, TP!Init
<1>6. QED BY <1>2, <1>4, <1>5 DEF StreamInv

\* The chunk that a stream is about, and what a step of it does to the pool.
LEMMA StreamStep ==
    ASSUME StreamInv, NEW k \in Chunks, ChunkPool!Acquires(k) \/ ChunkPool!Resume(k) \/ ChunkPool!Release(k)
    PROVE  TP!Inv' /\ ChunkPool!TypeOK' /\ poolDisposed' = poolDisposed /\ StreamAccounted'
<1>1. TP!Acquires(k) \/ TP!Resume(k) \/ TP!Release(k)
  BY StreamSamePool
<1>2. TP!Inv
  BY DEF StreamInv
<1>3. TP!Inv'
  BY <1>1, <1>2, StreamPoolConstants, TP!AcquiresInv, TP!ResumeInv, TP!ReleaseInv
<1>4. TP!Circulating' = TP!Circulating
  BY <1>1, <1>2, StreamPoolConstants, TP!CirculatingKept
<1>5. poolDisposed' = poolDisposed
  BY <1>1 DEF TP!Acquires, TP!Resume, TP!Release
<1>6. ChunkPool!TypeOK'
  BY <1>3, StreamSamePool DEF TP!Inv, TP!TypeOK, ChunkPool!TypeOK, TP!Stages, ChunkPool!Stages
<1>7. QED BY <1>3, <1>4, <1>5, <1>6 DEF StreamInv, StreamAccounted

\* A stream that releases has no object; the chunk that gets it has not resumed.
LEMMA StreamReleaseStops ==
    ASSUME StreamInv, NEW k \in Chunks, ChunkPool!Release(k)
    PROVE  \A m \in Chunks : chunkStage'[m] = "using" <=> m # k /\ chunkStage[m] = "using"
<1>1. /\ chunkStage \in [Chunks -> ChunkPool!Stages] /\ chunkWaiters \in Seq(Chunks)
      /\ \A m \in Chunks : m \in Range(chunkWaiters) => chunkStage[m] = "waiting"
  BY StreamPoolConstants DEF StreamInv, TransformTypeOK, ChunkPool!TypeOK, TP!Inv, TP!WaitersQueuedOnce
<1>2. CASE chunkWaiters = <<>>
  BY <1>1, <1>2 DEF ChunkPool!Release, ChunkPool!HandOver
<1>3. CASE chunkWaiters # <<>>
  <2>1. Head(chunkWaiters) \in Chunks /\ chunkStage[Head(chunkWaiters)] = "waiting"
    BY <1>1, <1>3 DEF Range
  <2>2. chunkStage' = [[chunkStage EXCEPT ![k] = "out"] EXCEPT ![Head(chunkWaiters)] = "granted"]
    BY <1>3 DEF ChunkPool!Release, ChunkPool!HandOver
  <2>3. QED BY <1>1, <2>1, <2>2 DEF ChunkPool!Release
<1>4. QED BY <1>2, <1>3

StreamPoolUnchanged == UNCHANGED poolDisposed /\ UNCHANGED chunkWaiters /\ UNCHANGED idleObjects /\ UNCHANGED chunkStage /\ UNCHANGED chunkObject

LEMMA StreamPoolRests ==
    ASSUME StreamInv, StreamPoolUnchanged
    PROVE  TP!Inv' /\ ChunkPool!TypeOK' /\ StreamAccounted'
BY DEF StreamInv, TransformTypeOK, StreamPoolUnchanged, TP!Inv, TP!TypeOK, TP!WaitersQueuedOnce, TP!OnePlace,
    TP!NoIdleWhileWaiting, ChunkPool!TypeOK, StreamAccounted, TP!Circulating

LEMMA StreamNextInv == StreamInv /\ [TransformNext]_transformVars => StreamInv'
<1> SUFFICES ASSUME StreamInv, [TransformNext]_transformVars PROVE StreamInv'
  OBVIOUS
<1> USE DEF StreamInv
<1>1. ASSUME NEW s \in Streams, Transform(s) PROVE StreamInv'
  <2> DEFINE k == <<s, written[s] + 1>>
  <2>1. /\ phase[s] = "ready" /\ ChunkPool!Acquires(k) /\ k \in Chunks
        /\ written' = [written EXCEPT ![s] = @ + 1] /\ written[s] + 1 \in 1 .. ChunkCount
        /\ phase' = [phase EXCEPT ![s] = "acquiring"] /\ worker' = worker
    BY <1>1, TransformAssumption DEF Transform, TransformTypeOK, Chunks
  <2> HIDE DEF k
  <2>2. TP!Inv' /\ ChunkPool!TypeOK' /\ StreamAccounted'
    BY <2>1, StreamStep
  <2>3. \A m \in Chunks : chunkStage'[m] = "using" <=> chunkStage[m] = "using"
    BY <2>1 DEF ChunkPool!Acquires, TransformTypeOK, ChunkPool!TypeOK
  <2>4. TransformTypeOK'
    BY <2>1, <2>2, <2>3, TransformAssumption DEF TransformTypeOK, Phases
  <2>5. StreamCounted'
    BY <2>1 DEF StreamCounted, TransformTypeOK
  <2>6. QED BY <2>2, <2>4, <2>5
<1>2. ASSUME NEW s \in Streams, ChunkAcquired(s) PROVE StreamInv'
  <2> DEFINE k == <<s, written[s]>>
  <2>1. phase[s] = "acquiring" /\ ChunkPool!Resume(k) /\ written' = written
    BY <1>2 DEF ChunkAcquired
  <2>2. k \in Chunks
    BY <2>1, TransformAssumption DEF StreamCounted, TransformTypeOK, Chunks
  <2>3. \/ /\ chunkStage[k] = "granted"
           /\ worker' = [worker EXCEPT ![k] = "running"]
           /\ phase' = [phase EXCEPT ![s] = "ready"]
        \/ /\ chunkStage[k] = "refused"
           /\ phase' = [phase EXCEPT ![s] = "stalled"] /\ worker' = worker
    BY <1>2 DEF ChunkAcquired
  <2> HIDE DEF k
  <2>4. TP!Inv' /\ ChunkPool!TypeOK' /\ StreamAccounted'
    BY <2>1, <2>2, StreamStep
  <2>5. \A m \in Chunks : chunkStage'[m] = "using" <=> worker'[m] \in {"running", "stuck"}
    BY <2>1, <2>2, <2>3 DEF ChunkPool!Resume, TransformTypeOK, ChunkPool!TypeOK
  <2>6. TransformTypeOK'
    BY <2>1, <2>3, <2>4, <2>5, ZenonT(60) DEF TransformTypeOK, Phases, Workers
  <2>7. StreamCounted'
    BY <2>1, <2>3 DEF StreamCounted, TransformTypeOK
  <2>8. QED BY <2>4, <2>6, <2>7
<1>3. ASSUME NEW k \in Chunks, Succeed(k) PROVE StreamInv'
  <2>1. /\ worker[k] = "running" /\ ChunkPool!Release(k)
        /\ worker' = [worker EXCEPT ![k] = "settled"] /\ UNCHANGED <<written, phase>>
    BY <1>3 DEF Succeed
  <2>2. TP!Inv' /\ ChunkPool!TypeOK' /\ StreamAccounted'
    BY <2>1, StreamStep
  <2>3. \A m \in Chunks : chunkStage'[m] = "using" <=> m # k /\ chunkStage[m] = "using"
    BY <2>1, StreamReleaseStops
  <2>4. TransformTypeOK'
    BY <2>1, <2>2, <2>3 DEF TransformTypeOK, Workers
  <2>5. StreamCounted'
    BY <2>1 DEF StreamCounted
  <2>6. QED BY <2>2, <2>4, <2>5
<1>4. ASSUME NEW k \in Chunks, Fail(k) PROVE StreamInv'
  <2>1. /\ worker[k] = "running" /\ worker' = [worker EXCEPT ![k] = "stuck"]
        /\ UNCHANGED <<chunkPoolVars, written, phase>>
    BY <1>4 DEF Fail
  <2>2. StreamPoolUnchanged
    BY <2>1 DEF StreamPoolUnchanged, chunkPoolVars
  <2>3. TransformTypeOK'
    BY <2>1, <2>2, StreamPoolRests DEF TransformTypeOK, Workers, StreamPoolUnchanged
  <2>4. QED BY <2>1, <2>2, <2>3, StreamPoolRests DEF StreamCounted
<1>5. ASSUME NEW s \in Streams, Flush(s) \/ End(s) PROVE StreamInv'
  <2>1. /\ phase' \in {[phase EXCEPT ![s] = "flushing"], [phase EXCEPT ![s] = "ended"]}
        /\ UNCHANGED <<chunkPoolVars, written, worker>>
    BY <1>5 DEF Flush, End
  <2>2. StreamPoolUnchanged
    BY <2>1 DEF StreamPoolUnchanged, chunkPoolVars
  <2>3. TransformTypeOK'
    BY <2>1, <2>2, StreamPoolRests DEF TransformTypeOK, Phases, StreamPoolUnchanged
  <2>4. QED BY <2>1, <2>2, <2>3, StreamPoolRests DEF StreamCounted, TransformTypeOK
<1>6. CASE DisposePool
  <2>1. TP!Dispose /\ UNCHANGED <<written, phase, worker>>
    BY <1>6, StreamSamePool DEF DisposePool
  <2>2. TP!Inv'
    BY <2>1, StreamPoolConstants, TP!DisposeInv
  <2>3. ChunkPool!TypeOK'
    BY <2>2, StreamSamePool DEF TP!Inv, TP!TypeOK, ChunkPool!TypeOK, TP!Stages, ChunkPool!Stages
  <2>4. poolDisposed' /\ \A m \in Chunks : chunkStage'[m] = "using" <=> chunkStage[m] = "using"
    <3>1. \A m \in Chunks : m \in TP!Range(chunkWaiters) => chunkStage[m] = "waiting"
      BY DEF TP!Inv, TP!WaitersQueuedOnce
    <3>2. QED BY <2>1, <3>1 DEF TP!Dispose
  <2>5. TransformTypeOK'
    BY <2>1, <2>3, <2>4 DEF TransformTypeOK
  <2>6. QED BY <2>1, <2>2, <2>4, <2>5 DEF StreamCounted, StreamAccounted
<1>7. CASE UNCHANGED transformVars
  <2>1. StreamPoolUnchanged /\ UNCHANGED <<written, phase, worker>>
    BY <1>7 DEF transformVars, StreamPoolUnchanged
  <2>2. QED BY <2>1, StreamPoolRests DEF TransformTypeOK, StreamCounted, StreamPoolUnchanged
<1>8. QED BY <1>1, <1>2, <1>3, <1>4, <1>5, <1>6, <1>7 DEF TransformNext
-----------------------------------------------------------------------------
\* Until the pool is disposed, an object that is neither idle, nor on its way to a
\* chunk, nor with a running callback, is lost to a callback that threw.
THEOREM ObjectsAreAccountedFor == TransformSpec => []LostToFailureOnly
<1>1. ASSUME StreamInv PROVE LostToFailureOnly
  <2> DEFINE with == {m \in Chunks : chunkStage[m] = "granted" \/ worker[m] \in {"running", "stuck"}}
  <2>1. \A m \in Chunks : chunkObject[m] # NoObject <=> m \in with
    BY <1>1 DEF StreamInv, TransformTypeOK, ChunkPool!TypeOK
  <2>2. {chunkObject[m] : m \in Chunks} \ {NoObject} = {chunkObject[m] : m \in with}
    BY <2>1
  <2>3. QED BY <1>1, <2>2, StreamPoolConstants DEF StreamInv, StreamAccounted, TP!Circulating, LostToFailureOnly
<1>2. QED BY <1>1, StreamInitInv, StreamNextInv, PTL DEF TransformSpec

\* What the streams do to the pool is what its clients may do: all that PoolProofs
\* says of a pool holds of this one.
THEOREM StreamsUseThePool == TransformSpec => TP!Spec
<1>1. TransformInit => TP!Init
  BY StreamSamePool DEF TransformInit
<1>2. StreamInv /\ [TransformNext]_transformVars => [TP!Next]_(TP!vars)
  <2> SUFFICES ASSUME StreamInv, [TransformNext]_transformVars PROVE TP!Next \/ UNCHANGED TP!vars
    OBVIOUS
  <2> USE DEF TP!Next
  <2>1. ASSUME NEW s \in Streams, Transform(s) PROVE TP!Next
    <3>1. <<s, written[s] + 1>> \in Chunks
      BY <2>1, TransformAssumption DEF Transform, StreamInv, TransformTypeOK, Chunks
    <3>2. QED BY <2>1, <3>1, StreamSamePool DEF Transform
  <2>2. ASSUME NEW s \in Streams, ChunkAcquired(s) PROVE TP!Next
    <3>1. <<s, written[s]>> \in Chunks
      BY <2>2, TransformAssumption DEF ChunkAcquired, StreamInv, StreamCounted, TransformTypeOK, Chunks
    <3>2. QED BY <2>2, <3>1, StreamSamePool DEF ChunkAcquired
  <2>3. ASSUME NEW k \in Chunks, Succeed(k) PROVE TP!Next
    BY <2>3, StreamSamePool DEF Succeed
  <2>4. CASE DisposePool
    BY <2>4, StreamSamePool DEF DisposePool
  <2>5. CASE UNCHANGED chunkPoolVars
    BY <2>5 DEF chunkPoolVars, TP!vars
  <2>6. QED
    BY <2>1, <2>2, <2>3, <2>4, <2>5 DEF TransformNext, Fail, Flush, End, transformVars, chunkPoolVars
<1>3. QED BY <1>1, <1>2, StreamInitInv, StreamNextInv, PTL DEF TransformSpec, TP!Spec

-----------------------------------------------------------------------------
(* The remote file systems: what their one token and one connection guarantee, *)
(* for every number of operations and of connection attempts.                  *)
RP == INSTANCE PoolProofs WITH Objects <- {Token}, Clients <- Leases, InitialObjects <- <<Token>>,
          None <- NoToken, disposed <- fsDisposed, waiters <- tokenWaiters, pool <- idleToken,
          stage <- leaseStage, object <- leaseToken

-----------------------------------------------------------------------------
(* The inductive invariant.                                                     *)
ClientStates == {"connecting", "mute", "ready", "failed", "ended"}
LeaseStates == Settled \cup {"idle", "acquiring", "connecting", "operating", "streaming", "ended"}

\* Until dispose(), the pool and the calls have the token between them once, and once
\* more for each repeated release.
TokensFit ==
    /\ twice \in Nat
    /\ ~fsDisposed => Places(Leases, idleToken, leaseToken, Token) = 1 + twice
    /\ Cardinality(With(Leases, leaseToken, Token)) <= 1 + twice

PoolFits == RP!Fits /\ TokenPool!TypeOK /\ TokensFit

RemoteTyped ==
    /\ connectionState \in {"Disconnecting", "Closed", "Connecting", "Ready"}
    /\ clients \in Seq(ClientStates) /\ Len(clients) <= MaxClients
    /\ lease \in [Leases -> LeaseStates]
    /\ kind \in [Leases -> Kinds]
    /\ via \in [Leases -> 0 .. MaxClients]
    /\ crashed \in BOOLEAN

\* Where an operation is in the pool, and the client it goes by.
LeasesFit ==
    \A c \in Leases :
        /\ lease[c] = "idle" => leaseStage[c] = "out"
        /\ lease[c] = "ended" => leaseStage[c] = "out" \/ crashed
        /\ lease[c] = "acquiring" => leaseStage[c] \in {"waiting", "granted", "refused"}
        /\ lease[c] \in {"connecting", "operating", "streaming"} => leaseStage[c] = "using"
        /\ lease[c] \in Settled => leaseStage[c] \in {"out", "using"}
        /\ lease[c] \in {"connecting", "operating", "streaming"} => via[c] \in DOMAIN clients
        /\ lease[c] = "connecting" => clients[via[c]] # "ready"

\* All clients but the last have ended, and connectionState is that of the last.
ClientsFit ==
    /\ \A i \in DOMAIN clients : i < Len(clients) => clients[i] = "ended"
    /\ connectionState = "Closed" => fsDisposed \/ \A i \in DOMAIN clients : clients[i] = "ended"
    /\ connectionState = "Ready" => Len(clients) > 0 /\ (clients[Len(clients)] = "ready" \/ crashed)
    /\ connectionState = "Connecting" =>
          Len(clients) > 0 /\ clients[Len(clients)] \in {"connecting", "mute", "failed"}

\* dispose() leaves nobody to make a connection once the state is Closed again.
DisposedFits ==
    /\ connectionState = "Disconnecting" => fsDisposed
    /\ fsDisposed => connectionState \in {"Disconnecting", "Closed"}
    /\ fsDisposed /\ connectionState = "Closed" => \A c \in Leases : leaseStage[c] # "granted"

\* A call that settled and kept the token did so for one of the causes.
KeepersFit ==
    ~fsDisposed =>
        \A c \in Keepers :
           \/ lease[c] = "rejected" /\ via[c] \in DOMAIN clients /\ clients[via[c]] \in {"failed", "ended"}
           \/ lease[c] = "rejected" /\ kind[c] = "awaited"
           \/ kind[c] = "forgotten"

RemoteInv == PoolFits /\ RemoteTyped /\ LeasesFit /\ ClientsFit /\ DisposedFits /\ KeepersFit

-----------------------------------------------------------------------------
LEMMA RemotePoolConstants ==
    /\ NoToken \notin {Token} /\ <<Token>> \in Seq({Token})
    /\ RP!IsInjective(<<Token>>) /\ \A f : RP!Range(f) = Range(f) /\ TokenPool!Range(f) = Range(f)
BY RemoteAssumption DEF RP!IsInjective, Range, RP!Range, TokenPool!Range

\* The two instances of Pool are one.
LEMMA RemoteSamePool ==
    /\ TokenPool!Init <=> RP!Init
    /\ \A c \in Leases : /\ TokenPool!Acquires(c) <=> RP!Acquires(c)
                         /\ TokenPool!Resume(c) <=> RP!Resume(c)
                         /\ TokenPool!Release(c) <=> RP!Release(c)
    /\ \A o, S, O : TokenPool!HandOver(o, S, O) <=> RP!HandOver(o, S, O)
    /\ TokenPool!Dispose <=> RP!Dispose
    /\ TokenPool!TypeOK <=> RP!TypeOK
BY RemotePoolConstants DEF TokenPool!Init, RP!Init, TokenPool!Acquires, RP!Acquires, TokenPool!Resume, RP!Resume,
    TokenPool!Release, RP!Release,
    TokenPool!HandOver, RP!HandOver, TokenPool!Dispose, RP!Dispose, TokenPool!TypeOK, RP!TypeOK,
    TokenPool!Stages, RP!Stages

LEMMA RemotePoolRests ==
    ASSUME PoolFits, UNCHANGED tokenVars, twice' = twice
    PROVE  PoolFits' /\ UNCHANGED <<leaseStage, fsDisposed>>
<1>1. UNCHANGED fsDisposed /\ UNCHANGED tokenWaiters /\ UNCHANGED idleToken /\ UNCHANGED leaseStage /\ UNCHANGED leaseToken
  BY DEF tokenVars
<1>2. TokensFit'
  BY <1>1 DEF PoolFits, TokensFit, Places, With
<1>3. QED
  BY <1>1, <1>2 DEF PoolFits, RP!Fits, RP!TypeOK, RP!WaitersQueuedOnce, TokenPool!TypeOK

LEMMA SameTypes == RP!Fits' => TokenPool!TypeOK' /\ idleToken' \in Seq({Token})
BY RemoteSamePool DEF RP!Fits, RP!TypeOK, TokenPool!TypeOK, RP!Stages, TokenPool!Stages

\* Nobody releases or gets the token after dispose(): until then it is enough to count.
LEMMA TokensCounted ==
    ASSUME PoolFits, ~fsDisposed, twice' \in Nat, idleToken' \in Seq({Token}),
           Places(Leases, idleToken', leaseToken', Token) = Places(Leases, idleToken, leaseToken, Token) + twice' - twice
    PROVE  TokensFit'
<1>1. Places(Leases, idleToken, leaseToken, Token) = 1 + twice /\ twice \in Nat
  BY DEF PoolFits, TokensFit
<1>2. Places(Leases, idleToken', leaseToken', Token) = 1 + twice'
  BY <1>1
<1>3. Cardinality(Slots(idleToken', Token)) \in Nat /\ Cardinality(With(Leases, leaseToken', Token)) \in Nat
  BY SlotsCount, WithCount, RemoteAssumption
<1>4. Cardinality(With(Leases, leaseToken', Token)) <= 1 + twice'
  BY <1>2, <1>3 DEF Places
<1>5. QED BY <1>2, <1>4 DEF TokensFit

LEMMA AcquiresToken ==
    ASSUME PoolFits, NEW c \in Leases, TokenPool!Acquires(c), ~fsDisposed, twice' = twice
    PROVE  PoolFits' /\ fsDisposed' = fsDisposed
<1>1. /\ RP!Fits' /\ fsDisposed' = fsDisposed /\ leaseToken[c] = NoToken
      /\ \/ leaseStage'[c] = "waiting" /\ idleToken' = idleToken /\ leaseToken' = leaseToken
         \/ /\ leaseStage'[c] = "granted" /\ idleToken # <<>> /\ idleToken' = Tail(idleToken)
            /\ leaseToken' = [leaseToken EXCEPT ![c] = Head(idleToken)]
  BY RemoteSamePool, RemotePoolConstants, RP!AcquiresFits DEF PoolFits
<1>2. idleToken \in Seq({Token}) /\ idleToken' \in Seq({Token}) /\ leaseToken \in [Leases -> {Token, NoToken}]
  BY <1>1, SameTypes DEF PoolFits, TokenPool!TypeOK
<1>3. Places(Leases, idleToken', leaseToken', Token) = Places(Leases, idleToken, leaseToken, Token)
  <2>1. CASE leaseStage'[c] = "waiting"
    BY <1>1, <2>1
  <2>2. CASE leaseStage'[c] = "granted"
    <3>1. idleToken # <<>> /\ idleToken' = Tail(idleToken) /\ leaseToken[c] # Token
      BY <1>1, <2>2, RemotePoolConstants
    <3>2. leaseToken'[c] = Head(idleToken) /\ Changes(Leases, leaseToken, leaseToken', c)
      BY <1>1, <1>2, <2>2 DEF Changes
    <3>3. QED BY <1>2, <3>1, <3>2, AcquiresPlaces, RemoteAssumption
  <2>3. QED BY <1>1, <2>1, <2>2
<1>4. Places(Leases, idleToken, leaseToken, Token) = 1 + twice /\ twice \in Nat
  BY DEF PoolFits, TokensFit
<1>5. TokensFit'
  BY <1>2, <1>3, <1>4, TokensCounted
<1>6. QED BY <1>1, <1>5, SameTypes DEF PoolFits

LEMMA ResumesToken ==
    ASSUME PoolFits, NEW c \in Leases, TokenPool!Resume(c), twice' = twice
    PROVE  PoolFits' /\ fsDisposed' = fsDisposed
<1>1. RP!Fits' /\ fsDisposed' = fsDisposed /\ idleToken' = idleToken /\ leaseToken' = leaseToken
  BY RemoteSamePool, RemotePoolConstants, RP!ResumeFits DEF PoolFits
<1>2. TokensFit'
  BY <1>1 DEF PoolFits, TokensFit, Places, With
<1>3. QED BY <1>1, <1>2, SameTypes DEF PoolFits

LEMMA ReleasesToken ==
    ASSUME PoolFits, NEW c \in Leases, TokenPool!Release(c), ~fsDisposed, twice' = twice
    PROVE  PoolFits' /\ fsDisposed' = fsDisposed
<1> DEFINE left == [leaseToken EXCEPT ![c] = NoToken]
<1>1. /\ RP!Fits' /\ fsDisposed' = fsDisposed /\ leaseToken[c] \in {Token}
      /\ \/ idleToken' = Append(idleToken, leaseToken[c]) /\ leaseToken' = left
         \/ \E w \in Leases : /\ left[w] = NoToken /\ idleToken' = idleToken
                              /\ leaseToken' = [left EXCEPT ![w] = leaseToken[c]]
  BY RemoteSamePool, RemotePoolConstants, RP!ReleaseFits DEF PoolFits
<1>2. idleToken \in Seq({Token}) /\ idleToken' \in Seq({Token}) /\ leaseToken \in [Leases -> {Token, NoToken}]
  BY <1>1, SameTypes DEF PoolFits, TokenPool!TypeOK
<1> HIDE DEF left
<1>3. Places(Leases, idleToken', leaseToken', Token) = Places(Leases, idleToken, leaseToken, Token)
  <2>1. left[c] # Token /\ Changes(Leases, left, leaseToken, c)
    BY <1>2, RemotePoolConstants DEF left, Changes
  <2>2. \/ idleToken' = Append(idleToken, leaseToken[c]) /\ leaseToken' = left
        \/ \E w \in Leases : /\ left[w] # Token /\ idleToken' = idleToken /\ leaseToken'[w] = leaseToken[c]
                             /\ Changes(Leases, left, leaseToken', w)
    BY <1>1, <1>2, RemotePoolConstants DEF left, Changes
  <2>3. QED BY <1>1, <1>2, <2>1, <2>2, ReleasePlaces, RemoteAssumption
<1>4. Places(Leases, idleToken, leaseToken, Token) = 1 + twice /\ twice \in Nat
  BY DEF PoolFits, TokensFit
<1>5. TokensFit'
  BY <1>2, <1>3, <1>4, TokensCounted
<1>6. QED BY <1>1, <1>5, SameTypes DEF PoolFits

\* The other event of a stream: one more place for the token.
LEMMA ReleasedTwice ==
    ASSUME PoolFits, TokenPool!HandOver(Token, leaseStage, leaseToken), ~fsDisposed, fsDisposed' = fsDisposed,
           twice' = twice + 1
    PROVE  /\ PoolFits'
           /\ \A d \in Leases : leaseStage'[d] = leaseStage[d] \/ (leaseStage[d] = "waiting" /\ leaseStage'[d] = "granted")
<1>1. /\ leaseStage \in [Leases -> RP!Stages] /\ leaseToken \in [Leases -> {Token} \cup {NoToken}]
      /\ idleToken \in Seq({Token})
      /\ \A d \in Leases : leaseToken[d] # NoToken <=> leaseStage[d] \in {"granted", "using"}
  BY DEF PoolFits, RP!Fits, RP!TypeOK
<1>2. /\ RP!Fits'
      /\ \A d \in Leases : leaseStage'[d] = leaseStage[d] \/ (leaseStage[d] = "waiting" /\ leaseStage'[d] = "granted")
      /\ \/ idleToken' = Append(idleToken, Token) /\ leaseToken' = leaseToken
         \/ \E w \in Leases : /\ leaseToken[w] = NoToken /\ idleToken' = idleToken
                              /\ leaseToken' = [leaseToken EXCEPT ![w] = Token]
  <2>1. RP!HandOver(Token, leaseStage, leaseToken) /\ RP!Fits /\ Token \in {Token}
    BY RemoteSamePool DEF PoolFits
  <2>2. QED BY <1>1, <2>1, RemotePoolConstants, RP!HandOverFits
<1>3. idleToken' \in Seq({Token})
  BY <1>2, SameTypes
<1>4. Places(Leases, idleToken', leaseToken', Token) = Places(Leases, idleToken, leaseToken, Token) + 1
  <2>1. \/ idleToken' = Append(idleToken, Token) /\ leaseToken' = leaseToken
        \/ \E w \in Leases : /\ leaseToken[w] # Token /\ idleToken' = idleToken /\ leaseToken'[w] = Token
                             /\ Changes(Leases, leaseToken, leaseToken', w)
    BY <1>1, <1>2, RemotePoolConstants DEF Changes
  <2>2. PICK S : Token \in S /\ idleToken \in Seq(S)
    BY <1>1
  <2>3. QED BY <2>1, <2>2, HandOverPlaces, RemoteAssumption
<1>5. Places(Leases, idleToken, leaseToken, Token) = 1 + twice /\ twice \in Nat
  BY DEF PoolFits, TokensFit
<1>6. TokensFit'
  BY <1>3, <1>4, <1>5, TokensCounted
<1>7. QED BY <1>2, <1>6, SameTypes DEF PoolFits

\* What the steps of the pool make of the stages.
LEMMA AcquiresStage ==
    ASSUME PoolFits, NEW c \in Leases, TokenPool!Acquires(c)
    PROVE  /\ leaseStage[c] = "out" /\ leaseStage'[c] \in {"waiting", "granted"}
           /\ \A d \in Leases \ {c} : leaseStage'[d] = leaseStage[d]
BY DEF PoolFits, TokenPool!Acquires, TokenPool!TypeOK

LEMMA ResumeStage ==
    ASSUME PoolFits, NEW c \in Leases, TokenPool!Resume(c)
    PROVE  /\ (leaseStage[c] = "granted" /\ leaseStage'[c] = "using") \/ (leaseStage[c] = "refused" /\ leaseStage'[c] = "out")
           /\ \A d \in Leases \ {c} : leaseStage'[d] = leaseStage[d]
BY DEF PoolFits, TokenPool!Resume, TokenPool!TypeOK

LEMMA ReleaseStage ==
    ASSUME PoolFits, NEW c \in Leases, TokenPool!Release(c)
    PROVE  /\ leaseStage[c] = "using" /\ leaseStage'[c] = "out"
           /\ \A d \in Leases \ {c} : leaseStage'[d] = leaseStage[d] \/ (leaseStage[d] = "waiting" /\ leaseStage'[d] = "granted")
BY RemoteSamePool, RemotePoolConstants, RP!ReleaseFits DEF PoolFits

LEMMA DisposeStage ==
    ASSUME PoolFits, TokenPool!Dispose, twice' = twice
    PROVE  /\ PoolFits' /\ fsDisposed'
           /\ \A c \in Leases : leaseStage'[c] = leaseStage[c] \/ (leaseStage[c] = "waiting" /\ leaseStage'[c] = "refused")
<1>1. /\ RP!Fits' /\ fsDisposed' /\ leaseToken' = leaseToken
      /\ \A c \in Leases : leaseStage'[c] = leaseStage[c] \/ (leaseStage[c] = "waiting" /\ leaseStage'[c] = "refused")
  BY RemoteSamePool, RemotePoolConstants, RP!DisposeFits DEF PoolFits
<1>2. TokensFit'
  BY <1>1 DEF PoolFits, TokensFit, With
<1>3. QED BY <1>1, <1>2, SameTypes DEF PoolFits

LEMMA RemoteInitInv == RemoteInit => RemoteInv
<1> SUFFICES ASSUME RemoteInit PROVE RemoteInv
  OBVIOUS
<1>1. RP!Init /\ TokenPool!Init
  BY RemoteSamePool DEF RemoteInit
<1>2. RP!Fits
  BY <1>1, RemotePoolConstants, RP!InitFits
<1>3. PoolFits
  <2>1. idleToken = <<Token>> /\ leaseToken = [c \in Leases |-> NoToken] /\ twice = 0
    BY <1>1 DEF RP!Init, RemoteInit
  <2>2. With(Leases, leaseToken, Token) = {}
    BY <2>1, RemotePoolConstants DEF With
  <2>3. Cardinality(With(Leases, leaseToken, Token)) = 0
    BY <2>2, FS_EmptySet
  <2>4. Slots(idleToken, Token) = {1}
    BY <2>1 DEF Slots
  <2>5. TokensFit
    BY <2>1, <2>3, <2>4, FS_Singleton DEF TokensFit, Places
  <2>6. QED BY <1>2, <2>5, RemoteSamePool DEF RP!Fits, PoolFits
<1>4. RemoteTyped
  <2>1. clients \in Seq(ClientStates) /\ Len(clients) = 0
    BY DEF RemoteInit
  <2>2. 0 \in 0 .. MaxClients /\ 0 <= MaxClients
    BY RemoteAssumption
  <2>3. QED BY <2>1, <2>2 DEF RemoteInit, RemoteTyped, LeaseStates
<1>5. LeasesFit /\ ClientsFit /\ DisposedFits /\ KeepersFit
  BY <1>1 DEF RemoteInit, LeasesFit, ClientsFit, DisposedFits, KeepersFit, Keepers, Settled, TokenPool!Init
<1>6. QED BY <1>3, <1>4, <1>5 DEF RemoteInv

-----------------------------------------------------------------------------
LEMMA CallInv == ASSUME RemoteInv, NEW c \in Leases, Call(c) PROVE RemoteInv'
<1> USE DEF RemoteInv
<1>1. CASE ~fsDisposed
  <2>1. /\ lease[c] = "idle" /\ TokenPool!Acquires(c) /\ lease' = [lease EXCEPT ![c] = "acquiring"]
        /\ UNCHANGED <<connectionState, clients, kind, via, twice, crashed>>
    BY <1>1 DEF Call, Set
  <2>2. PoolFits' /\ fsDisposed' = fsDisposed
    BY <1>1, <2>1, AcquiresToken
  <2>3. /\ leaseStage[c] = "out" /\ leaseStage'[c] \in {"waiting", "granted"}
        /\ \A d \in Leases \ {c} : leaseStage'[d] = leaseStage[d]
    BY <2>1, AcquiresStage
  <2>4. RemoteTyped'
    BY <2>1 DEF RemoteTyped, LeaseStates
  <2>5. LeasesFit' /\ KeepersFit' /\ ClientsFit' /\ DisposedFits'
    <3>1. LeasesFit'
      BY <1>1, <2>1, <2>2, <2>3 DEF RemoteTyped, LeasesFit, Settled
    <3>2. KeepersFit'
      BY <1>1, <2>1, <2>2, <2>3 DEF RemoteTyped, LeasesFit, KeepersFit, Keepers, Settled
    <3>3. ClientsFit' /\ DisposedFits'
      BY <1>1, <2>1, <2>2, <2>3 DEF RemoteTyped, ClientsFit, DisposedFits
    <3>4. QED BY <3>1, <3>2, <3>3
  <2>6. QED BY <2>2, <2>4, <2>5
<1>2. CASE fsDisposed
  <2>1. /\ lease[c] = "idle" /\ lease' = [lease EXCEPT ![c] = "rejected"]
        /\ UNCHANGED <<tokenVars, connectionState, clients, kind, via, twice, crashed>>
    BY <1>2 DEF Call, Set
  <2>2. PoolFits' /\ fsDisposed' = fsDisposed /\ leaseStage' = leaseStage
    BY <2>1, RemotePoolRests
  <2>3. RemoteTyped'
    BY <2>1 DEF RemoteTyped, LeaseStates, Settled
  <2>4. LeasesFit' /\ KeepersFit' /\ ClientsFit' /\ DisposedFits'
    <3>1. LeasesFit'
      BY <1>2, <2>1, <2>2 DEF RemoteTyped, LeasesFit, Settled
    <3>2. KeepersFit'
      BY <1>2, <2>1, <2>2 DEF RemoteTyped, LeasesFit, KeepersFit, Keepers, Settled
    <3>3. ClientsFit' /\ DisposedFits'
      BY <1>2, <2>1, <2>2 DEF RemoteTyped, ClientsFit, DisposedFits
    <3>4. QED BY <3>1, <3>2, <3>3
  <2>5. QED BY <2>2, <2>3, <2>4
<1>3. QED BY <1>1, <1>2

LEMMA RefusedInv == ASSUME RemoteInv, NEW c \in Leases, Refused(c) PROVE RemoteInv'
<1> USE DEF RemoteInv
<1>1. /\ leaseStage[c] = "refused" /\ TokenPool!Resume(c) /\ lease' = [lease EXCEPT ![c] = "rejected"]
      /\ UNCHANGED <<connectionState, clients, kind, via, twice, crashed>>
  BY DEF Refused, Set
<1>2. PoolFits' /\ fsDisposed' = fsDisposed
  BY <1>1, ResumesToken
<1>3. /\ leaseStage'[c] = "out"
      /\ \A d \in Leases \ {c} : leaseStage'[d] = leaseStage[d]
  BY <1>1, ResumeStage
<1>4. RemoteTyped'
  BY <1>1 DEF RemoteTyped, LeaseStates, Settled
<1>5. LeasesFit' /\ KeepersFit' /\ ClientsFit' /\ DisposedFits'
  <2>1. LeasesFit'
    BY <1>1, <1>2, <1>3 DEF RemoteTyped, LeasesFit, Settled
  <2>2. KeepersFit'
    BY <1>1, <1>2, <1>3 DEF RemoteTyped, LeasesFit, KeepersFit, Keepers, Settled
  <2>3. ClientsFit' /\ DisposedFits'
    BY <1>1, <1>2, <1>3 DEF RemoteTyped, ClientsFit, DisposedFits
  <2>4. QED BY <2>1, <2>2, <2>3
<1>6. QED BY <1>2, <1>4, <1>5

LEMMA GetConnectionInv ==
    ASSUME RemoteInv, NEW c \in Leases, GetConnection(c)
    PROVE  RemoteInv'
<1> USE DEF RemoteInv
<1>1. leaseStage[c] = "granted" /\ TokenPool!Resume(c) /\ kind' = kind /\ twice' = twice /\ crashed' = crashed
  BY DEF GetConnection
<1>2. PoolFits' /\ fsDisposed' = fsDisposed
  BY <1>1, ResumesToken
<1>3. /\ leaseStage'[c] = "using"
      /\ \A d \in Leases \ {c} : leaseStage'[d] = leaseStage[d]
  BY <1>1, ResumeStage
<1>4. CASE connectionState = "Disconnecting"
  <2>1. lease' = [lease EXCEPT ![c] = "rejected"] /\ UNCHANGED <<connectionState, clients, via>>
    BY <1>4 DEF GetConnection, IsReady, Set
  <2>2. RemoteTyped'
    BY <1>1, <2>1 DEF RemoteTyped, LeaseStates, Settled
  <2>3. LeasesFit' /\ KeepersFit' /\ ClientsFit' /\ DisposedFits'
    <3>1. LeasesFit'
      BY <1>1, <1>2, <1>3, <1>4, <2>1 DEF RemoteTyped, LeasesFit, Settled
    <3>2. KeepersFit'
      BY <1>2, <1>4 DEF DisposedFits, KeepersFit
    <3>3. ClientsFit' /\ DisposedFits'
      BY <1>1, <1>2, <1>3, <1>4, <2>1 DEF RemoteTyped, ClientsFit, DisposedFits
    <3>4. QED BY <3>1, <3>2, <3>3
  <2>4. QED BY <1>2, <2>2, <2>3
<1>5. CASE connectionState = "Ready"
  <2>1. /\ lease' = [lease EXCEPT ![c] = "operating"] /\ via' = [via EXCEPT ![c] = Len(clients)]
        /\ UNCHANGED <<connectionState, clients>>
    BY <1>5 DEF GetConnection, IsReady, Set
  <2>2. RemoteTyped' /\ Len(clients) \in DOMAIN clients
    BY <1>1, <1>5, <2>1, RemoteAssumption DEF RemoteTyped, LeaseStates, ClientsFit
  <2>3. LeasesFit' /\ KeepersFit' /\ ClientsFit' /\ DisposedFits'
    <3>1. LeasesFit'
      BY <1>1, <1>2, <1>3, <1>5, <2>1, <2>2 DEF RemoteTyped, LeasesFit, Settled
    <3>2. KeepersFit'
      BY <1>1, <1>2, <1>3, <1>5, <2>1, <2>2 DEF RemoteTyped, LeasesFit, KeepersFit, Keepers, Settled
    <3>3. ClientsFit' /\ DisposedFits'
      BY <1>1, <1>2, <1>3, <1>5, <2>1, <2>2 DEF RemoteTyped, ClientsFit, DisposedFits
    <3>4. QED BY <3>1, <3>2, <3>3
  <2>4. QED BY <1>2, <2>2, <2>3
<1>6. CASE connectionState = "Connecting"
  <2>1. /\ lease' = [lease EXCEPT ![c] = "connecting"] /\ via' = [via EXCEPT ![c] = Len(clients)]
        /\ UNCHANGED <<connectionState, clients>>
    BY <1>6 DEF GetConnection, IsReady, Set
  <2>2. RemoteTyped' /\ Len(clients) \in DOMAIN clients
    BY <1>1, <1>6, <2>1, RemoteAssumption DEF RemoteTyped, LeaseStates, ClientsFit
  <2>3. LeasesFit' /\ KeepersFit' /\ ClientsFit' /\ DisposedFits'
    <3>1. LeasesFit'
      BY <1>1, <1>2, <1>3, <1>6, <2>1, <2>2 DEF RemoteTyped, LeasesFit, ClientsFit, Settled
    <3>2. KeepersFit'
      BY <1>1, <1>2, <1>3, <1>6, <2>1, <2>2 DEF RemoteTyped, LeasesFit, KeepersFit, Keepers, Settled
    <3>3. ClientsFit' /\ DisposedFits'
      BY <1>1, <1>2, <1>3, <1>6, <2>1, <2>2 DEF RemoteTyped, ClientsFit, DisposedFits
    <3>4. QED BY <3>1, <3>2, <3>3
  <2>4. QED BY <1>2, <2>2, <2>3
<1>7. CASE connectionState = "Closed"
  <2>1. /\ lease' = [lease EXCEPT ![c] = "connecting"] /\ via' = [via EXCEPT ![c] = Len(clients) + 1]
        /\ clients' = Append(clients, "connecting") /\ connectionState' = "Connecting"
        /\ Len(clients) < MaxClients
    BY <1>7 DEF GetConnection, IsReady, Set
  <2>2. ~fsDisposed /\ \A i \in DOMAIN clients : clients[i] = "ended"
    BY <1>1, <1>7 DEF DisposedFits, ClientsFit
  <2>3. /\ DOMAIN clients' = DOMAIN clients \cup {Len(clients) + 1} /\ Len(clients') = Len(clients) + 1
        /\ \A i \in DOMAIN clients : clients'[i] = clients[i] /\ i < Len(clients) + 1
        /\ clients'[Len(clients) + 1] = "connecting"
    BY <2>1 DEF RemoteTyped
  <2>4. RemoteTyped'
    BY <1>1, <2>1, RemoteAssumption DEF RemoteTyped, LeaseStates, ClientStates
  <2>5. ClientsFit' /\ DisposedFits'
    BY <1>2, <2>1, <2>2, <2>3 DEF RemoteTyped, ClientsFit, DisposedFits
  <2>6. LeasesFit' /\ KeepersFit'
    <3>1. LeasesFit'
      BY <1>1, <1>2, <1>3, <2>1, <2>3 DEF RemoteTyped, LeasesFit, Settled
    <3>2. KeepersFit'
      BY <1>1, <1>2, <1>3, <2>1, <2>3 DEF RemoteTyped, LeasesFit, KeepersFit, Keepers, Settled
    <3>3. QED BY <3>1, <3>2
  <2>7. QED BY <1>2, <2>4, <2>5, <2>6
<1>8. QED BY <1>4, <1>5, <1>6, <1>7 DEF RemoteTyped

\* What an event does to the client that emits it.
LEMMA Becoming ==
    ASSUME RemoteTyped, NEW i \in DOMAIN clients, NEW s \in ClientStates, Becomes(i, s)
    PROVE  /\ clients' \in Seq(ClientStates) /\ Len(clients') = Len(clients)
           /\ DOMAIN clients' = DOMAIN clients /\ clients'[i] = s
           /\ \A j \in DOMAIN clients : j # i => clients'[j] = clients[j]
BY DEF RemoteTyped, Becomes

\* The calls that wait for a client are moved, the others not.
LEMMA Moving ==
    ASSUME RemoteTyped, NEW S, NEW s \in LeaseStates, Moves(S, s)
    PROVE  /\ lease' \in [Leases -> LeaseStates]
           /\ \A c \in Leases : lease'[c] = IF c \in S THEN s ELSE lease[c]
BY DEF RemoteTyped, Moves

LEMMA ClientReadyInv == ASSUME RemoteInv, NEW i \in DOMAIN clients, ClientReady(i) PROVE RemoteInv'
<1> USE DEF RemoteInv
<1>1. /\ ~fsDisposed /\ ~crashed /\ clients[i] = "connecting" /\ Becomes(i, "ready")
      /\ connectionState' = "Ready" /\ Moves(WaitingFor(i), "operating")
      /\ UNCHANGED <<tokenVars, kind, via, twice, crashed>>
  BY DEF ClientReady, Quiet
<1>2. PoolFits' /\ fsDisposed' = fsDisposed /\ leaseStage' = leaseStage
  BY <1>1, RemotePoolRests
<1>3. /\ clients' \in Seq(ClientStates) /\ Len(clients') = Len(clients)
      /\ DOMAIN clients' = DOMAIN clients /\ clients'[i] = "ready"
      /\ \A j \in DOMAIN clients : j # i => clients'[j] = clients[j]
  BY <1>1, Becoming DEF ClientStates
<1>4. /\ lease' \in [Leases -> LeaseStates]
      /\ \A c \in Leases : lease'[c] = IF lease[c] = "connecting" /\ via[c] = i THEN "operating" ELSE lease[c]
  BY <1>1, Moving DEF LeaseStates, WaitingFor
<1>5. RemoteTyped'
  BY <1>1, <1>3, <1>4 DEF RemoteTyped
<1>6. i = Len(clients) /\ Len(clients) > 0
  BY <1>1 DEF ClientsFit, RemoteTyped
<1>7. ClientsFit' /\ DisposedFits'
  BY <1>1, <1>2, <1>3, <1>6 DEF ClientsFit, DisposedFits
<1>8. LeasesFit'
  BY <1>1, <1>2, <1>3, <1>4 DEF LeasesFit, Settled
<1>9. KeepersFit'
  BY <1>1, <1>2, <1>3, <1>4 DEF KeepersFit, Keepers, Settled
<1>10. QED BY <1>2, <1>5, <1>7, <1>8, <1>9

LEMMA SubsystemRefusedInv == ASSUME RemoteInv, NEW i \in DOMAIN clients, SubsystemRefused(i) PROVE RemoteInv'
<1> USE DEF RemoteInv
<1>1. /\ ~fsDisposed /\ ~crashed /\ clients[i] = "connecting" /\ Becomes(i, "mute")
      /\ UNCHANGED <<tokenVars, connectionState, lease, kind, via, twice, crashed>>
  BY DEF SubsystemRefused, Quiet
<1>2. PoolFits' /\ fsDisposed' = fsDisposed /\ leaseStage' = leaseStage
  BY <1>1, RemotePoolRests
<1>3. /\ clients' \in Seq(ClientStates) /\ Len(clients') = Len(clients)
      /\ DOMAIN clients' = DOMAIN clients /\ clients'[i] = "mute"
      /\ \A j \in DOMAIN clients : j # i => clients'[j] = clients[j]
  BY <1>1, Becoming DEF ClientStates
<1>4. RemoteTyped'
  BY <1>1, <1>3 DEF RemoteTyped
<1>5. i = Len(clients) /\ Len(clients) > 0
  BY <1>1 DEF ClientsFit, RemoteTyped
<1>6. ClientsFit' /\ DisposedFits'
  BY <1>1, <1>2, <1>3, <1>5 DEF ClientsFit, DisposedFits
<1>7. LeasesFit' /\ KeepersFit'
  <2>1. LeasesFit'
    BY <1>1, <1>2, <1>3 DEF RemoteTyped, LeasesFit, Settled
  <2>2. KeepersFit'
    BY <1>1, <1>2, <1>3 DEF RemoteTyped, LeasesFit, KeepersFit, Keepers, Settled
  <2>3. QED BY <2>1, <2>2
<1>8. QED BY <1>2, <1>4, <1>6, <1>7

LEMMA ClientFailsInv == ASSUME RemoteInv, NEW i \in DOMAIN clients, ClientFails(i) PROVE RemoteInv'
<1> USE DEF RemoteInv
<1>1. /\ ~fsDisposed /\ ~crashed /\ clients[i] \in {"connecting", "mute", "ready"} /\ Becomes(i, "failed")
      /\ crashed' = (WaitingFor(i) = {}) /\ Moves(WaitingFor(i), "rejected")
      /\ UNCHANGED <<tokenVars, connectionState, kind, via, twice>>
  BY DEF ClientFails, Quiet, Alive
<1>2. PoolFits' /\ fsDisposed' = fsDisposed /\ leaseStage' = leaseStage
  BY <1>1, RemotePoolRests
<1>3. /\ clients' \in Seq(ClientStates) /\ Len(clients') = Len(clients)
      /\ DOMAIN clients' = DOMAIN clients /\ clients'[i] = "failed"
      /\ \A j \in DOMAIN clients : j # i => clients'[j] = clients[j]
  BY <1>1, Becoming DEF ClientStates
<1>4. /\ lease' \in [Leases -> LeaseStates]
      /\ \A c \in Leases : lease'[c] = IF lease[c] = "connecting" /\ via[c] = i THEN "rejected" ELSE lease[c]
  <2>1. /\ lease' \in [Leases -> LeaseStates]
        /\ \A c \in Leases : lease'[c] = IF c \in WaitingFor(i) THEN "rejected" ELSE lease[c]
    BY <1>1, Moving DEF LeaseStates, Settled
  <2>2. \A c \in Leases : c \in WaitingFor(i) <=> lease[c] = "connecting" /\ via[c] = i
    BY DEF WaitingFor
  <2>3. QED BY <2>1, <2>2
<1>5. crashed' \in BOOLEAN
  BY <1>1
<1>6. RemoteTyped'
  BY <1>1, <1>3, <1>4, <1>5 DEF RemoteTyped
<1>7. i = Len(clients) /\ Len(clients) > 0
  BY <1>1 DEF ClientsFit, RemoteTyped
<1>8. clients[i] = "ready" => crashed'
  BY <1>1 DEF LeasesFit, WaitingFor
<1>9. ClientsFit'
  <2>1. connectionState' = "Ready" => crashed'
    BY <1>1, <1>7, <1>8 DEF ClientsFit
  <2>2. QED BY <1>1, <1>2, <1>3, <1>7, <2>1 DEF ClientsFit
<1>10. LeasesFit' /\ DisposedFits'
  BY <1>1, <1>2, <1>3, <1>4 DEF LeasesFit, Settled, DisposedFits
<1>11. KeepersFit'
  <2>1. ASSUME NEW c \in Keepers'
        PROVE  \/ lease'[c] = "rejected" /\ via'[c] \in DOMAIN clients' /\ clients'[via'[c]] \in {"failed", "ended"}
               \/ lease'[c] = "rejected" /\ kind'[c] = "awaited"
               \/ kind'[c] = "forgotten"
    <3>1. CASE lease[c] = "connecting" /\ via[c] = i
      BY <1>1, <1>3, <1>4, <2>1, <3>1 DEF Keepers
    <3>2. CASE ~(lease[c] = "connecting" /\ via[c] = i)
      BY <1>1, <1>2, <1>3, <1>4, <2>1, <3>2 DEF Keepers, KeepersFit
    <3>3. QED BY <3>1, <3>2
  <2>2. QED BY <2>1 DEF KeepersFit
<1>12. QED BY <1>2, <1>6, <1>9, <1>10, <1>11

LEMMA ClientEndsInv == ASSUME RemoteInv, NEW i \in DOMAIN clients, ClientEnds(i) PROVE RemoteInv'
<1> USE DEF RemoteInv
<1>1. /\ clients[i] # "ended" /\ Becomes(i, "ended") /\ connectionState' = "Closed"
      /\ UNCHANGED <<tokenVars, lease, kind, via, twice, crashed>> /\ \A c \in Leases : leaseStage[c] # "granted"
  BY DEF ClientEnds, Quiet
<1>2. PoolFits' /\ fsDisposed' = fsDisposed /\ leaseStage' = leaseStage
  BY <1>1, RemotePoolRests
<1>3. /\ clients' \in Seq(ClientStates) /\ Len(clients') = Len(clients)
      /\ DOMAIN clients' = DOMAIN clients /\ clients'[i] = "ended"
      /\ \A j \in DOMAIN clients : j # i => clients'[j] = clients[j]
  BY <1>1, Becoming DEF ClientStates
<1>4. RemoteTyped'
  BY <1>1, <1>3 DEF RemoteTyped
<1>5. i = Len(clients)
  BY <1>1 DEF ClientsFit, RemoteTyped
<1>6. ClientsFit' /\ DisposedFits'
  <2>1. \A j \in DOMAIN clients : clients'[j] = "ended"
    BY <1>3, <1>5 DEF ClientsFit, RemoteTyped
  <2>2. QED BY <1>1, <1>2, <1>3, <2>1 DEF ClientsFit, DisposedFits
<1>7. LeasesFit' /\ KeepersFit'
  <2>1. LeasesFit'
    BY <1>1, <1>2, <1>3 DEF RemoteTyped, LeasesFit, Settled
  <2>2. KeepersFit'
    BY <1>1, <1>2, <1>3 DEF RemoteTyped, LeasesFit, KeepersFit, Keepers, Settled
  <2>3. QED BY <2>1, <2>2
<1>8. QED BY <1>2, <1>4, <1>6, <1>7

\* An operation that gives the token back settles; so does one that keeps it for
\* a cause, and one that finds the pool gone.
LEMMA ReleasesInv ==
    ASSUME RemoteInv, NEW c \in Leases, NEW s \in Settled \cup {"ended"}, lease[c] \in {"operating", "streaming"},
           TokenPool!Release(c), Set(c, s), ~fsDisposed, UNCHANGED <<connectionState, clients, kind, via, twice, crashed>>
    PROVE  RemoteInv'
<1> USE DEF RemoteInv
<1>1. PoolFits' /\ fsDisposed' = fsDisposed
  BY ReleasesToken
<1>2. /\ leaseStage[c] = "using" /\ leaseStage'[c] = "out"
      /\ \A d \in Leases \ {c} : leaseStage'[d] = leaseStage[d] \/ (leaseStage[d] = "waiting" /\ leaseStage'[d] = "granted")
  BY ReleaseStage
<1>3. lease' = [lease EXCEPT ![c] = s] /\ lease \in [Leases -> LeaseStates]
  BY DEF Set, RemoteTyped
<1>4. RemoteTyped'
  BY <1>3 DEF RemoteTyped, LeaseStates
<1>5. LeasesFit' /\ KeepersFit' /\ ClientsFit' /\ DisposedFits'
  <2>1. LeasesFit'
    BY <1>1, <1>2, <1>3 DEF RemoteTyped, LeasesFit, Settled
  <2>2. KeepersFit'
    BY <1>1, <1>2, <1>3 DEF RemoteTyped, LeasesFit, KeepersFit, Keepers, Settled
  <2>3. ClientsFit' /\ DisposedFits'
    BY <1>1, <1>2, <1>3 DEF RemoteTyped, ClientsFit, DisposedFits
  <2>4. QED BY <2>1, <2>2, <2>3
<1>6. QED BY <1>1, <1>4, <1>5

LEMMA KeepsInv ==
    ASSUME RemoteInv, NEW c \in Leases, NEW s \in Settled \cup {"streaming", "ended"}, lease[c] \in {"operating", "streaming"},
           UNCHANGED tokenVars, Set(c, s), UNCHANGED <<connectionState, clients, kind, via, twice>>,
           crashed' \in BOOLEAN, crashed => crashed', s = "ended" => crashed',
           \/ fsDisposed
           \/ s = "streaming"
           \/ s = "rejected" /\ kind[c] = "awaited"
           \/ kind[c] = "forgotten"
    PROVE  RemoteInv'
<1> USE DEF RemoteInv
<1>1. PoolFits' /\ fsDisposed' = fsDisposed /\ leaseStage' = leaseStage
  BY RemotePoolRests
<1>2. lease' = [lease EXCEPT ![c] = s] /\ lease \in [Leases -> LeaseStates]
  BY DEF Set, RemoteTyped
<1>3. RemoteTyped'
  BY <1>2 DEF RemoteTyped, LeaseStates
<1>4. LeasesFit' /\ ClientsFit' /\ DisposedFits'
  BY <1>1, <1>2 DEF RemoteTyped, LeasesFit, ClientsFit, DisposedFits, Settled
<1>5. KeepersFit'
  BY <1>1, <1>2 DEF KeepersFit, Keepers, Settled
<1>6. QED BY <1>1, <1>3, <1>4, <1>5

LEMMA SettleInv ==
    ASSUME RemoteInv, NEW c \in Leases, Settle(c) \/ StreamEnds(c)
    PROVE  RemoteInv'
<1>1. /\ lease[c] \in {"operating", "streaming"}
      /\ UNCHANGED <<connectionState, clients, kind, via, twice>>
  BY DEF Settle, StreamEnds
<1>2. crashed \in BOOLEAN
  BY DEF RemoteInv, RemoteTyped
<1>3. ASSUME NEW s \in Settled \cup {"ended"}, SettleAndRelease(c, s) PROVE RemoteInv'
  BY <1>1, <1>2, <1>3, ReleasesInv, KeepsInv DEF SettleAndRelease
<1>4. CASE kind[c] = "stream" /\ Set(c, "streaming") /\ UNCHANGED <<tokenVars, crashed>>
  BY <1>1, <1>2, <1>4, KeepsInv
<1>5. CASE ~fsDisposed /\ TokenPool!Release(c) /\ Set(c, "resolved") /\ UNCHANGED crashed
  BY <1>1, <1>5, ReleasesInv DEF Settled
<1>6. CASE kind[c] = "awaited" /\ Set(c, "rejected") /\ UNCHANGED <<tokenVars, crashed>>
  BY <1>1, <1>2, <1>6, KeepsInv DEF Settled
<1>7. CASE kind[c] = "forgotten" /\ Set(c, "resolved") /\ UNCHANGED <<tokenVars, crashed>>
  BY <1>1, <1>2, <1>7, KeepsInv DEF Settled
<1>8. QED BY <1>3, <1>4, <1>5, <1>6, <1>7 DEF Settle, StreamEnds, Settled

\* The other event of a stream that had released the token.
LEMMA StreamFailsInv == ASSUME RemoteInv, NEW c \in Leases, StreamFails(c) PROVE RemoteInv'
<1> USE DEF RemoteInv
<1>1. lease[c] = "ended" /\ ~crashed /\ UNCHANGED <<connectionState, clients, kind, via>>
  BY DEF StreamFails, Quiet
<1>2. CASE ~fsDisposed
  <2>1. /\ TokenPool!HandOver(Token, leaseStage, leaseToken) /\ fsDisposed' = fsDisposed /\ crashed' = crashed
        /\ lease' = [lease EXCEPT ![c] = "resolved"] /\ twice' = twice + 1
    BY <1>2 DEF StreamFails, Set
  <2>2. /\ PoolFits'
        /\ \A d \in Leases : leaseStage'[d] = leaseStage[d] \/ (leaseStage[d] = "waiting" /\ leaseStage'[d] = "granted")
    BY <1>2, <2>1, ReleasedTwice
  <2>3. leaseStage[c] = "out" /\ leaseStage'[c] = "out"
    BY <1>1, <2>2 DEF LeasesFit
  <2>4. RemoteTyped'
    BY <1>1, <2>1 DEF RemoteTyped, LeaseStates, Settled
  <2>5. LeasesFit'
    BY <1>1, <2>1, <2>2, <2>3 DEF RemoteTyped, LeasesFit, Settled
  <2>6. KeepersFit'
    BY <1>1, <2>1, <2>2, <2>3 DEF RemoteTyped, LeasesFit, KeepersFit, Keepers, Settled
  <2>7. ClientsFit' /\ DisposedFits'
    BY <1>1, <1>2, <2>1, <2>2 DEF RemoteTyped, ClientsFit, DisposedFits
  <2>8. QED BY <2>2, <2>4, <2>5, <2>6, <2>7
<1>3. CASE fsDisposed
  <2>1. crashed' /\ UNCHANGED <<tokenVars, lease, twice>>
    BY <1>3 DEF StreamFails
  <2>2. PoolFits' /\ fsDisposed' = fsDisposed /\ leaseStage' = leaseStage
    BY <2>1, RemotePoolRests
  <2>3. RemoteTyped' /\ LeasesFit'
    BY <1>1, <2>1, <2>2 DEF StreamFails, RemoteTyped, LeasesFit
  <2>4. ClientsFit' /\ DisposedFits' /\ KeepersFit'
    BY <1>1, <1>3, <2>1, <2>2 DEF ClientsFit, DisposedFits, KeepersFit
  <2>5. QED BY <2>2, <2>3, <2>4
<1>4. QED BY <1>2, <1>3

LEMMA DisposeInv == ASSUME RemoteInv, DisposeRemote PROVE RemoteInv'
<1> USE DEF RemoteInv
<1>1. TokenPool!Dispose /\ connectionState' = "Disconnecting" /\ UNCHANGED <<clients, lease, kind, via, twice, crashed>>
  BY DEF DisposeRemote
<1>2. /\ PoolFits' /\ fsDisposed'
      /\ \A c \in Leases : leaseStage'[c] = leaseStage[c] \/ (leaseStage[c] = "waiting" /\ leaseStage'[c] = "refused")
  BY <1>1, DisposeStage
<1>3. RemoteTyped'
  BY <1>1 DEF RemoteTyped
<1>4. LeasesFit' /\ KeepersFit' /\ ClientsFit' /\ DisposedFits'
  <2>1. LeasesFit'
    BY <1>1, <1>2 DEF RemoteTyped, LeasesFit, Settled
  <2>2. KeepersFit'
    BY <1>1, <1>2 DEF RemoteTyped, LeasesFit, KeepersFit, Keepers, Settled
  <2>3. ClientsFit' /\ DisposedFits'
    BY <1>1, <1>2 DEF RemoteTyped, ClientsFit, DisposedFits
  <2>4. QED BY <2>1, <2>2, <2>3
<1>5. QED BY <1>2, <1>3, <1>4

LEMMA RemoteNextInv == RemoteInv /\ [RemoteNext]_remoteVars => RemoteInv'
<1>1. RemoteInv /\ UNCHANGED remoteVars => RemoteInv'
  <2> SUFFICES ASSUME RemoteInv, UNCHANGED remoteVars PROVE RemoteInv'
    OBVIOUS
  <2>1. UNCHANGED tokenVars /\ UNCHANGED <<connectionState, clients, lease, kind, via, crashed>> /\ twice' = twice
    BY DEF remoteVars, tokenVars
  <2>2. PoolFits' /\ fsDisposed' = fsDisposed /\ leaseStage' = leaseStage
    BY <2>1, RemotePoolRests DEF RemoteInv
  <2>3. QED
    BY <2>1, <2>2 DEF RemoteInv, RemoteTyped, LeasesFit, ClientsFit, DisposedFits, KeepersFit, Keepers
<1>2. QED
  BY <1>1, CallInv, RefusedInv, GetConnectionInv, SettleInv, StreamFailsInv, ClientReadyInv, SubsystemRefusedInv, ClientFailsInv,
     ClientEndsInv, DisposeInv DEF RemoteNext

LEMMA RemoteInvariance == RemoteSpec => []RemoteInv
BY RemoteInitInv, RemoteNextInv, PTL DEF RemoteSpec

-----------------------------------------------------------------------------

\* No two clients of a remote file system are alive, one operation uses one at a time,
\* and one more for each stream that released the token twice, and no client is
\* created once the file system is disposed.
THEOREM OneConnectionAtATime == RemoteSpec => OneConnection
<1>1. ASSUME RemoteInv PROVE RemoteTypeOK
  BY <1>1 DEF RemoteInv, PoolFits, TokensFit, RemoteTyped, ClientsFit, ClientStates, LeaseStates, RemoteTypeOK, Last
<1>2. ASSUME RemoteInv PROVE \A i, j \in DOMAIN clients : Alive(i) /\ Alive(j) => i = j
  <2>1. \A i \in DOMAIN clients : Alive(i) => i = Len(clients)
    BY <1>2 DEF RemoteInv, ClientsFit, RemoteTyped, Alive
  <2>2. QED BY <2>1
<1>3. ASSUME RemoteInv
      PROVE  Cardinality({c \in Leases : lease[c] \in {"connecting", "operating", "streaming"}}) <= 1 + twice
  <2> DEFINE users == {c \in Leases : lease[c] \in {"connecting", "operating", "streaming"}}
  <2>1. users \subseteq With(Leases, leaseToken, Token)
    BY <1>3 DEF RemoteInv, LeasesFit, PoolFits, TokenPool!TypeOK, With
  <2>2. /\ IsFiniteSet(With(Leases, leaseToken, Token)) /\ Cardinality(With(Leases, leaseToken, Token)) \in Nat
        /\ Cardinality(With(Leases, leaseToken, Token)) <= 1 + twice /\ twice \in Nat
    BY <1>3, WithCount, RemoteAssumption DEF RemoteInv, PoolFits, TokensFit
  <2>3. IsFiniteSet(users) /\ Cardinality(users) <= Cardinality(With(Leases, leaseToken, Token))
    BY <2>1, <2>2, FS_Subset
  <2>4. Cardinality(users) \in Nat
    BY <2>3, FS_CardinalityType
  <2>5. QED BY <2>2, <2>3, <2>4
<1>4. ASSUME RemoteInv, RemoteNext PROVE fsDisposed => Len(clients') = Len(clients)
  <2>1. ASSUME NEW c \in Leases, GetConnection(c), fsDisposed PROVE clients' = clients
    <3>1. connectionState = "Disconnecting"
      BY <1>4, <2>1 DEF RemoteInv, DisposedFits, GetConnection
    <3>2. QED BY <2>1, <3>1 DEF GetConnection, IsReady
  <2>2. ASSUME NEW i \in DOMAIN clients, NEW s \in ClientStates, Becomes(i, s) PROVE Len(clients') = Len(clients)
    BY <1>4, <2>2, Becoming DEF RemoteInv
  <2>3. QED
    BY <1>4, <2>1, <2>2 DEF RemoteNext, Call, Refused, Settle, StreamEnds, StreamFails, DisposeRemote, ClientReady,
        SubsystemRefused,
       ClientFails, ClientEnds, ClientStates
<1>5. QED BY <1>1, <1>2, <1>3, <1>4, RemoteInvariance, PTL DEF RemoteSpec, OneConnection

\* Until dispose(), the pool and the calls have the token between them once and once
\* more for each stream that released it twice, and a call that settled keeps it only
\* if its connection could not be made, its awaited command failed or it had nothing
\* to do.
THEOREM TokenIsLostWithCause == RemoteSpec => []TokenLostWithCause
<1>1. ASSUME RemoteInv, ~fsDisposed PROVE TokenLostWithCause
  <2>1. With(Leases, leaseToken, Token) = {c \in Leases : leaseToken[c] # NoToken}
    BY <1>1, RemotePoolConstants DEF RemoteInv, PoolFits, TokenPool!TypeOK, With
  <2>2. idleToken \in Seq({Token})
    BY <1>1 DEF RemoteInv, PoolFits, TokenPool!TypeOK
  <2>3. Slots(idleToken, Token) = 1 .. Len(idleToken) /\ Len(idleToken) \in Nat
    BY <2>2 DEF Slots
  <2>4. Cardinality(Slots(idleToken, Token)) = Len(idleToken)
    <3>1. Cardinality(1 .. Len(idleToken)) = IF 1 > Len(idleToken) THEN 0 ELSE Len(idleToken) - 1 + 1
      BY <2>3, FS_Interval
    <3>2. QED BY <2>3, <3>1
  <2>5. Places(Leases, idleToken, leaseToken, Token) = 1 + twice
    BY <1>1 DEF RemoteInv, PoolFits, TokensFit
  <2>6. Len(idleToken) + Cardinality({c \in Leases : leaseToken[c] # NoToken}) = 1 + twice
    BY <2>1, <2>4, <2>5 DEF Places
  <2>7. QED BY <1>1, <2>6 DEF RemoteInv, KeepersFit, TokenLostWithCause
<1>2. RemoteInv => TokenLostWithCause
  BY <1>1 DEF TokenLostWithCause
<1>3. QED BY <1>2, RemoteInvariance, PTL
=============================================================================
