------------------------ MODULE FileSystemPoolProofs ------------------------
(* No file system of the pool is lost or lent twice, for every number of file *)
(* systems and of calls.  A stream that releases its file system once more    *)
(* puts it in two places: the pool's own invariant does not hold here, and     *)
(* places are counted.                                                        *)
EXTENDS FileSystemPool, FiniteSetTheorems, SequenceTheorems, TLAPS

PP == INSTANCE PoolProofs WITH Objects <- FileSystems, Clients <- Calls, InitialObjects <- Fss

\* The two instances of Pool are one.
LEMMA PoolConstants ==
    /\ None \notin FileSystems /\ Fss \in Seq(FileSystems) /\ PP!IsInjective(Fss)
    /\ \A f : P!Range(f) = PP!Range(f) /\ (P!IsInjective(f) <=> PP!IsInjective(f))
BY FileSystemPoolAssumption DEF IsInjective, PP!IsInjective, P!IsInjective, PP!Range, P!Range

-----------------------------------------------------------------------------
(* The inductive invariant.                                                   *)
Done == {"resolved", "rejected"}
Working == {"plain", "opening", "streaming"}

PoolFits == P!TypeOK /\ P!WaitersQueuedOnce

Typed == /\ call \in [Calls -> Progress]
         /\ lent \in [Calls -> FileSystems \cup {None}]
         /\ stream \in [Calls -> Seq({"end", "error"})]
         /\ again \in [FileSystems -> Nat]
         /\ crashed \in BOOLEAN

\* Where a call is in the pool.
Leased ==
    \A c \in Calls :
        /\ call[c] = "idle" => stage[c] = "out"
        /\ call[c] = "acquiring" => stage[c] \in {"waiting", "granted", "refused"}
        /\ call[c] \in Working => stage[c] = "using" /\ lent[c] = object[c]
        /\ call[c] \in Done => stage[c] \in {"out", "using"} /\ (~disposed => stage[c] = "out")
        /\ stream[c] # <<>> => call[c] \in {"streaming", "resolved"} /\ lent[c] \in FileSystems

Slots(f, list) == {i \in DOMAIN list : list[i] = f}
Holders(f) == {c \in Calls : object[c] = f /\ call[c] \notin Done}

Counted ==
    \A f \in FileSystems :
        /\ ~disposed => Cardinality(Slots(f, pool)) + Cardinality(Holders(f))
                            = (IF f \in Range(Fss) THEN 1 ELSE 0) + again[f]
        /\ Cardinality(Holders(f)) <= 1 + again[f]

Inv == PoolFits /\ Typed /\ Leased /\ Counted

-----------------------------------------------------------------------------
\* The slots of a list that hold f.
LEMMA SlotsCount ==
    ASSUME NEW S, NEW list \in Seq(S), NEW f
    PROVE  IsFiniteSet(Slots(f, list)) /\ Cardinality(Slots(f, list)) \in Nat
<1>1. IsFiniteSet(DOMAIN list) /\ Slots(f, list) \subseteq DOMAIN list
  BY FS_Interval DEF Slots
<1>2. QED BY <1>1, FS_Subset, FS_CardinalityType

LEMMA AppendSlots ==
    ASSUME NEW S, NEW list \in Seq(S), NEW e \in S, NEW f
    PROVE  Cardinality(Slots(f, Append(list, e))) = Cardinality(Slots(f, list)) + (IF e = f THEN 1 ELSE 0)
<1> DEFINE n == Len(list)
<1>1. /\ DOMAIN list = 1 .. n /\ DOMAIN Append(list, e) = (1 .. n) \cup {n + 1} /\ n + 1 \notin 1 .. n
      /\ \A i \in 1 .. n : Append(list, e)[i] = list[i]
      /\ Append(list, e)[n + 1] = e
  BY AppendProperties
<1> HIDE DEF n
<1>2. CASE e = f
  <2>1. Slots(f, Append(list, e)) = Slots(f, list) \cup {n + 1} /\ n + 1 \notin Slots(f, list)
    BY <1>1, <1>2 DEF Slots
  <2>2. QED BY <1>2, <2>1, SlotsCount, FS_AddElement
<1>3. CASE e # f
  <2>1. Slots(f, Append(list, e)) = Slots(f, list)
    BY <1>1, <1>3 DEF Slots
  <2>2. QED BY <1>3, <2>1, SlotsCount
<1>4. QED BY <1>2, <1>3

LEMMA TailSlots ==
    ASSUME NEW S, NEW list \in Seq(S), list # <<>>, NEW f
    PROVE  /\ Head(list) \in S /\ Tail(list) \in Seq(S)
           /\ Cardinality(Slots(f, list)) = Cardinality(Slots(f, Tail(list))) + (IF Head(list) = f THEN 1 ELSE 0)
<1> DEFINE n == Len(list)
           rest == {i \in 2 .. n : list[i] = f}
           h == [i \in Slots(f, Tail(list)) |-> i + 1]
<1>1. /\ n \in Nat /\ n > 0 /\ DOMAIN list = 1 .. n /\ Head(list) = list[1] /\ Head(list) \in S
      /\ Tail(list) \in Seq(S) /\ DOMAIN Tail(list) = 1 .. n - 1
      /\ \A i \in 1 .. n - 1 : Tail(list)[i] = list[i + 1]
  OBVIOUS
<1> HIDE DEF n
<1>2. h \in Bijection(Slots(f, Tail(list)), rest)
  <2>1. \A i \in Slots(f, Tail(list)) : i \in 1 .. n - 1 /\ i + 1 \in rest
    BY <1>1 DEF Slots
  <2>2. \A j \in rest : j - 1 \in Slots(f, Tail(list)) /\ (j - 1) + 1 = j
    <3> SUFFICES ASSUME NEW j \in rest PROVE j - 1 \in Slots(f, Tail(list)) /\ (j - 1) + 1 = j
      OBVIOUS
    <3>1. j - 1 \in 1 .. n - 1 /\ (j - 1) + 1 = j /\ list[j] = f
      BY <1>1
    <3>2. Tail(list)[j - 1] = f
      BY <1>1, <3>1
    <3>3. QED BY <1>1, <3>1, <3>2 DEF Slots
  <2>3. h \in [Slots(f, Tail(list)) -> rest]
    BY <2>1
  <2>4. \A i, j \in Slots(f, Tail(list)) : h[i] = h[j] => i = j
    BY <2>1
  <2>5. \A j \in rest : \E i \in Slots(f, Tail(list)) : h[i] = j
    BY <2>2
  <2> HIDE DEF h, rest
  <2>6. QED BY <2>3, <2>4, <2>5 DEF Bijection, Injection, Surjection, IsInjective
<1>3. IsFiniteSet(Slots(f, Tail(list))) /\ Cardinality(Slots(f, Tail(list))) \in Nat
  BY <1>1, SlotsCount
<1>4. IsFiniteSet(rest) /\ Cardinality(rest) = Cardinality(Slots(f, Tail(list)))
  <2>1. ExistsBijection(Slots(f, Tail(list)), rest)
    BY <1>2 DEF ExistsBijection
  <2>2. QED BY <1>3, <2>1, FS_Bijection
<1>5. (1 .. n) = (2 .. n) \cup {1} /\ 1 \notin 2 .. n
  BY <1>1
<1>6. CASE list[1] = f
  <2>1. Slots(f, list) = rest \cup {1} /\ 1 \notin rest
    BY <1>1, <1>5, <1>6 DEF Slots
  <2>2. QED BY <1>1, <1>3, <1>4, <1>6, <2>1, FS_AddElement
<1>7. CASE list[1] # f
  <2>1. Slots(f, list) = rest
    BY <1>1, <1>5, <1>7 DEF Slots
  <2>2. QED BY <1>1, <1>3, <1>4, <1>7, <2>1
<1>8. QED BY <1>6, <1>7

LEMMA InitialSlots ==
    ASSUME NEW f
    PROVE  Cardinality(Slots(f, Fss)) = IF f \in Range(Fss) THEN 1 ELSE 0
<1>1. CASE f \in Range(Fss)
  <2>1. PICK i \in DOMAIN Fss : Fss[i] = f
    BY <1>1 DEF Range
  <2>2. Slots(f, Fss) = {i}
    BY <2>1, FileSystemPoolAssumption DEF Slots, IsInjective
  <2>3. QED BY <1>1, <2>2, FS_Singleton
<1>2. CASE f \notin Range(Fss)
  <2>1. Slots(f, Fss) = {}
    BY <1>2 DEF Range, Slots
  <2>2. QED BY <1>2, <2>1, FS_EmptySet
<1>3. QED BY <1>1, <1>2

\* A set of calls.
LEMMA CallsCount ==
    ASSUME NEW T, T \subseteq Calls
    PROVE  IsFiniteSet(T) /\ Cardinality(T) \in Nat
BY FileSystemPoolAssumption, FS_Subset, FS_CardinalityType

-----------------------------------------------------------------------------
LEMMA InitInv == Init => Inv
<1> SUFFICES ASSUME Init PROVE Inv
  OBVIOUS
<1>1. /\ disposed = FALSE /\ waiters = <<>> /\ pool = Fss
      /\ stage = [c \in Calls |-> "out"] /\ object = [c \in Calls |-> None]
  BY DEF Init, P!Init
<1>2. PoolFits
  <2>1. P!TypeOK
    <3>1. waiters \in Seq(Calls) /\ pool \in Seq(FileSystems) /\ disposed \in BOOLEAN
      <4>1. <<>> \in Seq(Calls) /\ FALSE \in BOOLEAN
        OBVIOUS
      <4>2. Fss \in Seq(FileSystems)
        BY PoolConstants
      <4>3. QED BY <1>1, <4>1, <4>2
    <3>2. stage \in [Calls -> P!Stages] /\ object \in [Calls -> FileSystems \cup {None}]
      BY <1>1 DEF P!Stages
    <3>3. QED BY <1>1, <3>1, <3>2 DEF P!TypeOK
  <2>2. P!WaitersQueuedOnce
    BY <1>1 DEF P!WaitersQueuedOnce, P!IsInjective, P!Range
  <2>3. QED BY <2>1, <2>2 DEF PoolFits
<1>3. Typed
  <2>1. <<>> \in Seq({"end", "error"})
    OBVIOUS
  <2>2. /\ call = [c \in Calls |-> "idle"] /\ lent = [c \in Calls |-> None]
        /\ stream = [c \in Calls |-> <<>>] /\ again = [f \in FileSystems |-> 0] /\ crashed = FALSE
    BY DEF Init
  <2>3. QED BY <2>1, <2>2 DEF Typed, Progress
<1>4. Leased
  BY <1>1 DEF Init, Leased, Working, Done
<1>5. Counted
  <2> SUFFICES ASSUME NEW f \in FileSystems
               PROVE  /\ Cardinality(Slots(f, pool)) + Cardinality(Holders(f))
                            = (IF f \in Range(Fss) THEN 1 ELSE 0) + again[f]
                      /\ Cardinality(Holders(f)) <= 1 + again[f]
    BY DEF Counted
  <2>1. Holders(f) = {}
    BY <1>1, FileSystemPoolAssumption DEF Holders
  <2>2. Cardinality(Holders(f)) = 0 /\ again[f] = 0
    BY <2>1, FS_EmptySet DEF Init
  <2>3. Cardinality(Slots(f, pool)) = IF f \in Range(Fss) THEN 1 ELSE 0
    BY <1>1, InitialSlots
  <2>4. QED BY <2>2, <2>3
<1>6. QED BY <1>2, <1>3, <1>4, <1>5 DEF Inv

\* acquires(): a call takes an idle file system, or waits.
LEMMA AcquiresFits ==
    ASSUME PoolFits, NEW c \in Calls, P!Acquires(c)
    PROVE  /\ PoolFits' /\ disposed' = disposed /\ stage[c] = "out" /\ object[c] = None
           /\ \A d \in Calls : d # c => stage'[d] = stage[d] /\ object'[d] = object[d]
           /\ \/ stage'[c] = "waiting" /\ object'[c] = None /\ pool' = pool
              \/ /\ stage'[c] = "granted" /\ pool # <<>> /\ pool' = Tail(pool)
                 /\ object'[c] = Head(pool) /\ Head(pool) \in FileSystems
<1>1. /\ waiters \in Seq(Calls) /\ pool \in Seq(FileSystems) /\ stage \in [Calls -> P!Stages]
      /\ object \in [Calls -> FileSystems \cup {None}]
      /\ \A d \in Calls : object[d] # None <=> stage[d] \in {"granted", "using"}
      /\ P!IsInjective(waiters) /\ \A d \in Calls : stage[d] = "waiting" <=> d \in P!Range(waiters)
  BY DEF PoolFits, P!TypeOK, P!WaitersQueuedOnce
<1>2. stage[c] = "out" /\ object[c] = None /\ disposed' = disposed /\ c \notin P!Range(waiters)
  BY <1>1 DEF P!Acquires
<1>3. CASE pool = <<>>
  <2>1. /\ waiters' = Append(waiters, c) /\ stage' = [stage EXCEPT ![c] = "waiting"]
        /\ pool' = pool /\ object' = object
    BY <1>3 DEF P!Acquires
  <2>2. \A f : P!Range(f) = PP!Range(f) /\ (P!IsInjective(f) <=> PP!IsInjective(f))
    BY PoolConstants
  <2>3. /\ waiters' \in Seq(Calls) /\ P!Range(waiters') = P!Range(waiters) \cup {c}
        /\ P!IsInjective(waiters')
    BY <1>1, <1>2, <2>1, <2>2, PoolConstants, PP!AppendTo
  <2>4. P!TypeOK'
    BY <1>1, <1>2, <2>1, <2>3 DEF PoolFits, P!TypeOK, P!Stages
  <2>5. P!WaitersQueuedOnce'
    BY <1>1, <2>1, <2>3 DEF P!WaitersQueuedOnce
  <2>6. QED BY <1>1, <1>2, <2>1, <2>4, <2>5 DEF PoolFits
<1>4. CASE pool # <<>>
  <2>1. /\ pool' = Tail(pool) /\ stage' = [stage EXCEPT ![c] = "granted"]
        /\ object' = [object EXCEPT ![c] = Head(pool)] /\ waiters' = waiters
    BY <1>4 DEF P!Acquires
  <2>2. Head(pool) \in FileSystems /\ Tail(pool) \in Seq(FileSystems)
    BY <1>1, <1>4, TailSlots
  <2>3. P!TypeOK'
    BY <1>1, <1>2, <2>1, <2>2, FileSystemPoolAssumption DEF PoolFits, P!TypeOK, P!Stages
  <2>4. P!WaitersQueuedOnce'
    BY <1>1, <1>2, <2>1 DEF P!WaitersQueuedOnce
  <2>5. QED BY <1>1, <1>2, <1>4, <2>1, <2>2, <2>3, <2>4 DEF PoolFits
<1>5. QED BY <1>3, <1>4

\* release() of o, by a call that had it (S and O are the calls once it let go) or
\* by a listener that releases o once more.
LEMMA HandOverFits ==
    ASSUME PoolFits, NEW o \in FileSystems, NEW S \in [Calls -> P!Stages],
           NEW O \in [Calls -> FileSystems \cup {None}], P!HandOver(o, S, O), disposed' = disposed,
           \A d \in Calls : O[d] # None <=> S[d] \in {"granted", "using"},
           \A d \in Calls : S[d] = "waiting" <=> stage[d] = "waiting"
    PROVE  /\ PoolFits'
           /\ \/ pool' = Append(pool, o) /\ stage' = S /\ object' = O
              \/ \E w \in Calls : /\ stage[w] = "waiting" /\ O[w] = None /\ pool' = pool
                                  /\ stage' = [S EXCEPT ![w] = "granted"]
                                  /\ object' = [O EXCEPT ![w] = o]
<1>1. /\ waiters \in Seq(Calls) /\ pool \in Seq(FileSystems) /\ disposed \in BOOLEAN
      /\ P!IsInjective(waiters) /\ \A d \in Calls : stage[d] = "waiting" <=> d \in P!Range(waiters)
  BY DEF PoolFits, P!TypeOK, P!WaitersQueuedOnce
<1>2. CASE waiters = <<>>
  <2>1. pool' = Append(pool, o) /\ stage' = S /\ object' = O /\ waiters' = waiters
    BY <1>2 DEF P!HandOver
  <2>2. pool' \in Seq(FileSystems)
    BY <1>1, <2>1
  <2>3. P!TypeOK'
    BY <1>1, <2>1, <2>2 DEF P!TypeOK
  <2>4. P!WaitersQueuedOnce'
    BY <1>1, <2>1 DEF P!WaitersQueuedOnce
  <2>5. QED BY <2>1, <2>3, <2>4 DEF PoolFits
<1>3. CASE waiters # <<>>
  <2> DEFINE w == Head(waiters)
  <2>1. /\ waiters' = Tail(waiters) /\ stage' = [S EXCEPT ![w] = "granted"]
        /\ object' = [O EXCEPT ![w] = o] /\ pool' = pool
    BY <1>3 DEF P!HandOver
  <2>2. \A f : P!Range(f) = PP!Range(f) /\ (P!IsInjective(f) <=> PP!IsInjective(f))
    BY PoolConstants
  <2>3. /\ w \in Calls /\ Tail(waiters) \in Seq(Calls) /\ w \in P!Range(waiters)
        /\ P!Range(waiters) = P!Range(Tail(waiters)) \cup {w}
        /\ P!IsInjective(Tail(waiters)) /\ w \notin P!Range(Tail(waiters))
    BY <1>1, <1>3, <2>2, PoolConstants, PP!HeadTail
  <2>4. stage[w] = "waiting" /\ S[w] = "waiting" /\ O[w] = None
    BY <1>1, <2>3
  <2> HIDE DEF w
  <2>5. /\ stage' \in [Calls -> P!Stages] /\ object' \in [Calls -> FileSystems \cup {None}]
        /\ \A d \in Calls : object'[d] # None <=> stage'[d] \in {"granted", "using"}
    BY <2>1, <2>3, FileSystemPoolAssumption DEF P!Stages
  <2>6. P!TypeOK'
    BY <1>1, <2>1, <2>3, <2>5 DEF P!TypeOK
  <2>7. P!WaitersQueuedOnce'
    <3>1. \A d \in Calls : stage'[d] = "waiting" <=> d \in P!Range(Tail(waiters))
      BY <1>1, <2>1, <2>3
    <3>2. QED BY <2>1, <2>3, <3>1 DEF P!WaitersQueuedOnce
  <2>8. QED BY <2>1, <2>3, <2>4, <2>6, <2>7 DEF PoolFits
<1>4. QED BY <1>2, <1>3

\* Those of f's holders who remain when the calls have O and stand at progress.
Keeping(f, O, progress) == {c \in Calls : O[c] = f /\ progress[c] \notin Done}

\* The places of f after a release: those that remain, and one for o.
LEMMA HandOverCounts ==
    ASSUME PoolFits, NEW o \in FileSystems, NEW O \in [Calls -> FileSystems \cup {None}],
           \/ pool' = Append(pool, o) /\ object' = O
           \/ \E w \in Calls : /\ O[w] = None /\ call'[w] \notin Done /\ pool' = pool
                               /\ object' = [O EXCEPT ![w] = o],
           NEW f \in FileSystems
    PROVE  Cardinality(Slots(f, pool')) + Cardinality(Holders(f)') =
             Cardinality(Slots(f, pool)) + (IF o = f THEN 1 ELSE 0)
                + Cardinality(Keeping(f, O, call'))
<1> DEFINE T == Keeping(f, O, call')
<1>1. pool \in Seq(FileSystems) /\ Cardinality(Slots(f, pool)) \in Nat
  BY SlotsCount DEF PoolFits, P!TypeOK
<1>2. IsFiniteSet(T) /\ Cardinality(T) \in Nat
  BY CallsCount DEF Keeping
<1>3. CASE pool' = Append(pool, o) /\ object' = O
  <2>1. Cardinality(Slots(f, pool')) = Cardinality(Slots(f, pool)) + (IF o = f THEN 1 ELSE 0)
    BY <1>1, <1>3, AppendSlots
  <2>2. Holders(f)' = T
    BY <1>3 DEF Holders, Keeping
  <2>3. QED BY <1>1, <1>2, <2>1, <2>2
<1>4. ASSUME NEW w \in Calls, O[w] = None, call'[w] \notin Done, pool' = pool, object' = [O EXCEPT ![w] = o]
      PROVE  Cardinality(Slots(f, pool')) + Cardinality(Holders(f)') =
             Cardinality(Slots(f, pool)) + (IF o = f THEN 1 ELSE 0) + Cardinality(T)
  <2>1. w \notin T
    BY <1>4, FileSystemPoolAssumption DEF Keeping
  <2>2. CASE o = f
    <3>1. Holders(f)' = T \cup {w}
      BY <1>4, <2>2 DEF Holders, Keeping
    <3>2. Cardinality(Holders(f)') = Cardinality(T) + 1
      BY <1>2, <2>1, <3>1, FS_AddElement
    <3> HIDE DEF T
    <3>3. QED BY <1>1, <1>2, <1>4, <2>2, <3>2
  <2>3. CASE o # f
    <3>1. Holders(f)' = T
      BY <1>4, <2>3, FileSystemPoolAssumption DEF Holders, Keeping
    <3> HIDE DEF T
    <3>2. QED BY <1>1, <1>2, <1>4, <2>3, <3>1
  <2>4. QED BY <2>2, <2>3
<1>5. QED BY <1>3, <1>4

\* After dispose() nobody gets a file system any more.
LEMMA CountedAtTheEnd ==
    ASSUME Counted, Typed, disposed', \A f \in FileSystems : Holders(f)' \subseteq Holders(f), again' = again
    PROVE  Counted'
<1> SUFFICES ASSUME NEW f \in FileSystems
             PROVE  Cardinality(Holders(f)') <= 1 + again'[f]
  BY DEF Counted
<1>1. /\ IsFiniteSet(Holders(f)) /\ Cardinality(Holders(f)) \in Nat
      /\ IsFiniteSet(Holders(f)') /\ Cardinality(Holders(f)') \in Nat
  BY CallsCount DEF Holders
<1>2. Cardinality(Holders(f)') <= Cardinality(Holders(f))
  BY <1>1, FS_Subset
<1>3. Cardinality(Holders(f)) <= 1 + again[f] /\ again[f] \in Nat
  BY DEF Counted, Typed
<1>4. QED BY <1>1, <1>2, <1>3

\* Until then the places suffice: nobody is anywhere else.
LEMMA CountedBefore ==
    ASSUME pool' \in Seq(FileSystems), again' \in [FileSystems -> Nat],
           \A f \in FileSystems : Cardinality(Slots(f, pool')) + Cardinality(Holders(f)')
                                     = (IF f \in Range(Fss) THEN 1 ELSE 0) + again'[f]
    PROVE  Counted'
<1>1. ASSUME NEW f \in FileSystems PROVE Cardinality(Holders(f)') <= 1 + again'[f]
  <2>1. Cardinality(Holders(f)') \in Nat /\ Cardinality(Slots(f, pool')) \in Nat /\ again'[f] \in Nat
    <3>1. Cardinality(Holders(f)') \in Nat
      BY CallsCount DEF Holders
    <3>2. QED BY <3>1, SlotsCount
  <2>2. QED BY <2>1
<1>2. QED BY <1>1 DEF Counted

\* Calls that keep what they have.
LEMMA CountedRests ==
    ASSUME Counted, UNCHANGED <<disposed, pool, object, again>>,
           \A c \in Calls : call'[c] \in Done <=> call[c] \in Done
    PROVE  Counted'
<1>1. \A f \in FileSystems : Holders(f)' = Holders(f)
  BY DEF Holders
<1>2. \A f \in FileSystems : Slots(f, pool)' = Slots(f, pool)
  BY DEF Slots
<1>3. QED BY <1>1, <1>2 DEF Counted

LEMMA CallInv == ASSUME Inv, NEW c \in Calls, Call(c) PROVE Inv'
<1>1. PoolFits /\ Typed /\ Leased /\ Counted
  BY DEF Inv
<1>2. call[c] = "idle" /\ stage[c] = "out" /\ UNCHANGED <<lent, stream, again, crashed>>
  BY <1>1 DEF Call, Leased
<1>3. CASE disposed
  <2>1. call' = [call EXCEPT ![c] = "rejected"] /\ UNCHANGED poolVars
    BY <1>3 DEF Call
  <2>2. PoolFits'
    BY <1>1, <2>1 DEF poolVars, PoolFits, P!TypeOK, P!WaitersQueuedOnce
  <2>3. Typed'
    BY <1>1, <1>2, <2>1 DEF Typed, Progress
  <2>4. Leased'
    BY <1>1, <1>2, <1>3, <2>1 DEF Typed, Leased, Working, Done, poolVars
  <2>5. \A f \in FileSystems : Holders(f)' \subseteq Holders(f)
    BY <1>1, <2>1 DEF Holders, Typed, Done, poolVars
  <2>6. disposed'
    BY <1>3, <2>1 DEF poolVars
  <2>7. QED BY <1>1, <1>2, <2>2, <2>3, <2>4, <2>5, <2>6, CountedAtTheEnd DEF Inv
<1>4. CASE ~disposed
  <2>1. P!Acquires(c) /\ call' = [call EXCEPT ![c] = "acquiring"]
    BY <1>4 DEF Call
  <2>2. /\ PoolFits' /\ disposed' = disposed /\ object[c] = None
        /\ \A d \in Calls : d # c => stage'[d] = stage[d] /\ object'[d] = object[d]
        /\ \/ stage'[c] = "waiting" /\ object'[c] = None /\ pool' = pool
           \/ /\ stage'[c] = "granted" /\ pool # <<>> /\ pool' = Tail(pool)
              /\ object'[c] = Head(pool) /\ Head(pool) \in FileSystems
    BY <1>1, <2>1, AcquiresFits
  <2>3. Typed'
    BY <1>1, <1>2, <2>1 DEF Typed, Progress
  <2>4. call'[c] = "acquiring" /\ \A d \in Calls : d # c => call'[d] = call[d]
    BY <1>1, <2>1 DEF Typed
  <2>5. Leased'
    <3>1. stream'[c] = <<>>
      BY <1>1, <1>2 DEF Leased
    <3>2. QED BY <1>1, <1>2, <2>2, <2>4, <3>1 DEF Leased, Working, Done
  <2>6. ASSUME NEW f \in FileSystems
        PROVE  Cardinality(Slots(f, pool')) + Cardinality(Holders(f)')
                  = (IF f \in Range(Fss) THEN 1 ELSE 0) + again'[f]
    <3>1. /\ IsFiniteSet(Holders(f)) /\ Cardinality(Holders(f)) \in Nat
          /\ c \notin Holders(f) /\ Cardinality(Slots(f, pool)) + Cardinality(Holders(f))
                                      = (IF f \in Range(Fss) THEN 1 ELSE 0) + again[f]
      BY <1>1, <1>4, <2>2, CallsCount, PoolConstants DEF Holders, Counted
    <3>2. pool \in Seq(FileSystems)
      BY <1>1 DEF PoolFits, P!TypeOK
    <3>3. CASE object'[c] = None /\ pool' = pool
      <4>1. Holders(f)' = Holders(f)
        BY <1>2, <2>2, <2>4, <3>3, PoolConstants DEF Holders
      <4>2. QED BY <1>2, <3>1, <3>3, <4>1
    <3>4. CASE pool # <<>> /\ pool' = Tail(pool) /\ object'[c] = Head(pool)
      <4>1. /\ Cardinality(Slots(f, pool)) = Cardinality(Slots(f, pool')) + (IF Head(pool) = f THEN 1 ELSE 0)
            /\ Cardinality(Slots(f, pool')) \in Nat
        BY <3>2, <3>4, TailSlots, SlotsCount
      <4>2. CASE Head(pool) = f
        <5>1. Holders(f)' = Holders(f) \cup {c}
          BY <2>2, <2>4, <3>4, <4>2 DEF Holders, Done
        <5>2. Cardinality(Holders(f)') = Cardinality(Holders(f)) + 1
          BY <3>1, <5>1, FS_AddElement
        <5>3. QED BY <1>2, <3>1, <4>1, <4>2, <5>2
      <4>3. CASE Head(pool) # f
        <5>1. Holders(f)' = Holders(f)
          BY <2>2, <2>4, <3>1, <3>4, <4>3 DEF Holders
        <5>2. QED BY <1>2, <3>1, <4>1, <4>3, <5>1
      <4>4. QED BY <4>2, <4>3
    <3>5. QED BY <2>2, <3>3, <3>4
  <2>7. pool' \in Seq(FileSystems) /\ again' \in [FileSystems -> Nat]
    BY <2>2, <2>3 DEF PoolFits, P!TypeOK, Typed
  <2>8. Counted'
    BY <2>6, <2>7, CountedBefore
  <2>9. QED BY <2>2, <2>3, <2>5, <2>8 DEF Inv
<1>5. QED BY <1>3, <1>4

LEMMA AcquiredInv == ASSUME Inv, NEW c \in Calls, Acquired(c) PROVE Inv'
<1>1. PoolFits /\ Typed /\ Leased /\ Counted
  BY DEF Inv
<1>2. /\ call[c] = "acquiring" /\ UNCHANGED <<stream, again, crashed, disposed, waiters, pool, object>>
      /\ \/ /\ stage[c] = "granted" /\ stage' = [stage EXCEPT ![c] = "using"]
            /\ \E k \in {"plain", "opening"} : call' = [call EXCEPT ![c] = k]
            /\ lent' = [lent EXCEPT ![c] = object[c]]
         \/ /\ stage[c] = "refused" /\ stage' = [stage EXCEPT ![c] = "out"]
            /\ call' = [call EXCEPT ![c] = "rejected"] /\ lent' = lent
  BY DEF Acquired, P!Resume
<1>3. /\ stage \in [Calls -> P!Stages] /\ object \in [Calls -> FileSystems \cup {None}]
      /\ \A d \in Calls : object[d] # None <=> stage[d] \in {"granted", "using"}
      /\ \A d \in Calls : stage[d] = "waiting" <=> d \in P!Range(waiters)
  BY <1>1 DEF PoolFits, P!TypeOK, P!WaitersQueuedOnce
<1>4. PoolFits'
  <2>1. stage' \in [Calls -> P!Stages]
    BY <1>2, <1>3 DEF P!Stages
  <2>2. /\ \A d \in Calls : object'[d] # None <=> stage'[d] \in {"granted", "using"}
        /\ \A d \in Calls : stage'[d] = "waiting" <=> d \in P!Range(waiters)
    BY <1>2, <1>3
  <2>3. QED BY <1>1, <1>2, <2>1, <2>2 DEF PoolFits, P!TypeOK, P!WaitersQueuedOnce
<1>5. Typed'
  BY <1>1, <1>2, <1>3 DEF Typed, Progress
<1>6. Leased'
  <2>1. stream[c] = <<>>
    BY <1>1, <1>2 DEF Leased
  <2>2. \A d \in Calls : d # c => call'[d] = call[d] /\ stage'[d] = stage[d] /\ lent'[d] = lent[d]
    BY <1>1, <1>2, <1>3 DEF Typed
  <2>3. \/ call'[c] \in {"plain", "opening"} /\ stage'[c] = "using" /\ lent'[c] = object[c]
        \/ call'[c] = "rejected" /\ stage'[c] = "out"
    BY <1>1, <1>2, <1>3 DEF Typed
  <2>4. QED BY <1>1, <1>2, <2>1, <2>2, <2>3 DEF Leased, Working, Done
<1>7. Counted'
  <2>1. CASE stage[c] = "granted"
    <3>1. \A d \in Calls : call'[d] \in Done <=> call[d] \in Done
      BY <1>1, <1>2, <2>1 DEF Typed, Done
    <3>2. QED BY <1>1, <1>2, <3>1, CountedRests
  <2>2. CASE stage[c] = "refused"
    <3>1. object[c] = None
      BY <1>3, <2>2
    <3>2. \A f \in FileSystems : Holders(f)' = Holders(f)
      BY <1>1, <1>2, <2>2, <3>1, PoolConstants DEF Holders, Typed, Done
    <3>3. \A f \in FileSystems : Slots(f, pool)' = Slots(f, pool)
      BY <1>2 DEF Slots
    <3>4. QED BY <1>1, <1>2, <3>2, <3>3 DEF Counted
  <2>3. QED BY <1>2, <2>1, <2>2
<1>8. QED BY <1>4, <1>5, <1>6, <1>7 DEF Inv

\* The step of a call that releases what it has, or of a listener that does so again.
LEMMA ReleaseKeeps ==
    ASSUME PoolFits, Typed, Leased, ~disposed, disposed' = disposed, NEW c \in Calls,
           call'[c] \in Done, call' \in [Calls -> Progress], \A d \in Calls : d # c => call'[d] = call[d],
           lent' = lent, again' \in [FileSystems -> Nat],
           \A d \in Calls : stream'[d] # <<>> => stream[d] # <<>> /\ call'[d] \in {"streaming", "resolved"},
           NEW o \in FileSystems, NEW S \in [Calls -> P!Stages], NEW O \in [Calls -> FileSystems \cup {None}],
           P!HandOver(o, S, O),
           \A d \in Calls : d # c => S[d] = stage[d] /\ O[d] = object[d],
           S[c] = "out" /\ O[c] = None /\ stage[c] # "waiting",
           \A f \in FileSystems : Cardinality(Slots(f, pool)) + (IF o = f THEN 1 ELSE 0)
                    + Cardinality(Keeping(f, O, call'))
                  = (IF f \in Range(Fss) THEN 1 ELSE 0) + again'[f]
    PROVE  PoolFits' /\ Leased' /\ Counted'
<1>1. \A d \in Calls : /\ O[d] # None <=> S[d] \in {"granted", "using"}
                       /\ S[d] = "waiting" <=> stage[d] = "waiting"
  BY DEF PoolFits, P!TypeOK
<1>2. /\ PoolFits'
      /\ \/ pool' = Append(pool, o) /\ stage' = S /\ object' = O
         \/ \E w \in Calls : /\ stage[w] = "waiting" /\ O[w] = None /\ pool' = pool
                             /\ stage' = [S EXCEPT ![w] = "granted"]
                             /\ object' = [O EXCEPT ![w] = o]
  BY <1>1, HandOverFits
<1>3. \A w \in Calls : stage[w] = "waiting" => call[w] = "acquiring" /\ call'[w] = "acquiring"
  BY DEF Leased, Typed, Progress, Working, Done
<1>4. Leased'
  <2>1. CASE stage' = S /\ object' = O
    BY <2>1 DEF Leased, Working, Done
  <2>2. ASSUME NEW w \in Calls, stage[w] = "waiting", stage' = [S EXCEPT ![w] = "granted"],
               object' = [O EXCEPT ![w] = o]
        PROVE  Leased'
    <3>1. /\ call'[w] = "acquiring" /\ stage'[w] = "granted"
          /\ \A d \in Calls : d # w => stage'[d] = S[d] /\ object'[d] = O[d]
      BY <1>3, <2>2
    <3>2. QED BY <2>2, <3>1 DEF Leased, Working, Done
  <2>3. QED BY <1>2, <2>1, <2>2
<1>5. Counted'
  <2>1. \/ pool' = Append(pool, o) /\ object' = O
        \/ \E w \in Calls : /\ O[w] = None /\ call'[w] \notin Done /\ pool' = pool
                            /\ object' = [O EXCEPT ![w] = o]
    BY <1>2, <1>3 DEF Done
  <2>2. ASSUME NEW f \in FileSystems
        PROVE  Cardinality(Slots(f, pool')) + Cardinality(Holders(f)')
                  = (IF f \in Range(Fss) THEN 1 ELSE 0) + again'[f]
    <3>1. Cardinality(Slots(f, pool')) + Cardinality(Holders(f)') =
             Cardinality(Slots(f, pool)) + (IF o = f THEN 1 ELSE 0)
                + Cardinality(Keeping(f, O, call'))
      BY <2>1, HandOverCounts
    <3>2. QED BY <3>1
  <2>3. pool' \in Seq(FileSystems)
    BY <1>2 DEF PoolFits, P!TypeOK
  <2>4. QED BY <2>2, <2>3, CountedBefore
<1>6. QED BY <1>2, <1>4, <1>5

\* A call that is done with its file system gives it back once.
LEMMA ReleasedOnce ==
    ASSUME Inv, ~disposed, NEW c \in Calls, call[c] \in Working, P!Release(c),
           call' \in [Calls -> Progress], call'[c] \in Done, \A d \in Calls : d # c => call'[d] = call[d],
           lent' = lent, again' = again,
           \A d \in Calls : stream'[d] # <<>> => stream[d] # <<>> /\ call'[d] \in {"streaming", "resolved"}
    PROVE  PoolFits' /\ Leased' /\ Counted'
<1> DEFINE o == object[c]
           S == [stage EXCEPT ![c] = "out"]
           O == [object EXCEPT ![c] = None]
<1>1. PoolFits /\ Typed /\ Leased /\ Counted
  BY DEF Inv
<1>2. stage[c] = "using" /\ P!HandOver(o, S, O) /\ disposed' = disposed
  BY DEF P!Release
<1>3. /\ stage \in [Calls -> P!Stages] /\ object \in [Calls -> FileSystems \cup {None}]
      /\ o \in FileSystems
  BY <1>1, <1>2 DEF PoolFits, P!TypeOK
<1>4. S \in [Calls -> P!Stages] /\ O \in [Calls -> FileSystems \cup {None}]
  BY <1>3 DEF P!Stages
<1>5. S[c] = "out" /\ O[c] = None /\ \A d \in Calls : d # c => S[d] = stage[d] /\ O[d] = object[d]
  BY <1>3
<1> HIDE DEF S, O
<1>6. ASSUME NEW f \in FileSystems
      PROVE  Cardinality(Slots(f, pool)) + (IF o = f THEN 1 ELSE 0)
                    + Cardinality(Keeping(f, O, call'))
                  = (IF f \in Range(Fss) THEN 1 ELSE 0) + again'[f]
  <2> DEFINE T == Keeping(f, O, call')
  <2>1. /\ IsFiniteSet(Holders(f)) /\ Cardinality(Holders(f)) \in Nat
        /\ IsFiniteSet(T) /\ Cardinality(T) \in Nat
    BY CallsCount DEF Holders, Keeping
  <2>2. T = Holders(f) \ {c} /\ (o = f <=> c \in Holders(f))
    BY <1>5 DEF Holders, Keeping, Working, Done
  <2>3. Cardinality(T) = IF c \in Holders(f) THEN Cardinality(Holders(f)) - 1 ELSE Cardinality(Holders(f))
    BY <2>1, <2>2, FS_RemoveElement
  <2>4. Cardinality(Slots(f, pool)) + Cardinality(Holders(f)) = (IF f \in Range(Fss) THEN 1 ELSE 0) + again[f]
    BY <1>1 DEF Counted
  <2>5. Cardinality(Slots(f, pool)) \in Nat
    BY <1>1, SlotsCount DEF PoolFits, P!TypeOK
  <2> HIDE DEF T
  <2>6. QED BY <2>1, <2>2, <2>3, <2>4, <2>5 DEF T
<1> HIDE DEF o
<1>7. again' \in [FileSystems -> Nat]
  BY <1>1 DEF Typed
<1>8. S[c] = "out" /\ O[c] = None /\ stage[c] # "waiting"
  BY <1>2, <1>5
<1>9. \A d \in Calls : d # c => S[d] = stage[d] /\ O[d] = object[d]
  BY <1>5
<1>10. \A f \in FileSystems : Cardinality(Slots(f, pool)) + (IF o = f THEN 1 ELSE 0)
                    + Cardinality(Keeping(f, O, call'))
                  = (IF f \in Range(Fss) THEN 1 ELSE 0) + again'[f]
  BY <1>6
<1>11. P!HandOver(o, S, O) /\ disposed' = disposed /\ o \in FileSystems
  BY <1>2, <1>3
<1>12. QED BY <1>1, <1>4, <1>7, <1>8, <1>9, <1>10, <1>11, ReleaseKeeps, SMTT(30)

LEMMA SettleInv == ASSUME Inv, NEW c \in Calls, Settle(c) PROVE Inv'
<1>1. PoolFits /\ Typed /\ Leased /\ Counted
  BY DEF Inv
<1>2. call[c] \in {"plain", "opening"} /\ UNCHANGED <<lent, stream, again, crashed>>
  BY DEF Settle
<1>3. \/ call' = [call EXCEPT ![c] = "resolved"] \/ call' = [call EXCEPT ![c] = "rejected"]
  BY DEF Settle
<1>4. /\ call' \in [Calls -> Progress] /\ call'[c] \in Done
      /\ \A d \in Calls : d # c => call'[d] = call[d]
  BY <1>1, <1>3 DEF Typed, Progress, Done
<1>5. Typed'
  BY <1>1, <1>2, <1>4 DEF Typed
<1>6. stream[c] = <<>>
  BY <1>1, <1>2 DEF Leased
<1>7. CASE ~disposed
  <2>1. P!Release(c) /\ call[c] \in Working
    BY <1>2, <1>7 DEF Settle, Working
  <2>2. \A d \in Calls : stream'[d] # <<>> => stream[d] # <<>> /\ call'[d] \in {"streaming", "resolved"}
    BY <1>1, <1>2, <1>4, <1>6 DEF Leased
  <2>3. PoolFits' /\ Leased' /\ Counted'
    BY <1>2, <1>4, <1>7, <2>1, <2>2, ReleasedOnce
  <2>4. QED BY <1>5, <2>3 DEF Inv
<1>8. CASE disposed
  <2>1. UNCHANGED <<disposed, waiters, pool, stage, object>>
    BY <1>8 DEF Settle, poolVars
  <2>2. PoolFits'
    BY <1>1, <2>1 DEF PoolFits, P!TypeOK, P!WaitersQueuedOnce
  <2>3. Leased'
    BY <1>1, <1>2, <1>4, <1>6, <1>8, <2>1 DEF Leased, Working, Done
  <2>4. \A f \in FileSystems : Holders(f)' \subseteq Holders(f)
    BY <1>4, <2>1 DEF Holders
  <2>5. Counted'
    BY <1>1, <1>2, <1>8, <2>1, <2>4, CountedAtTheEnd
  <2>6. QED BY <1>5, <2>2, <2>3, <2>5 DEF Inv
<1>9. QED BY <1>7, <1>8

LEMMA OpenInv == ASSUME Inv, NEW c \in Calls, Open(c) PROVE Inv'
<1>1. PoolFits /\ Typed /\ Leased /\ Counted
  BY DEF Inv
<1>2. /\ call[c] = "opening" /\ call' = [call EXCEPT ![c] = "streaming"]
      /\ UNCHANGED <<disposed, waiters, pool, stage, object, lent, again, crashed>>
  BY DEF Open, poolVars
<1>3. PICK e \in Endings : stream' = [stream EXCEPT ![c] = e]
  BY DEF Open
<1>4. e \in Seq({"end", "error"})
  BY FileSystemPoolAssumption
<1>5. PoolFits'
  BY <1>1, <1>2 DEF PoolFits, P!TypeOK, P!WaitersQueuedOnce
<1>6. Typed'
  BY <1>1, <1>2, <1>3, <1>4 DEF Typed, Progress
<1>7. lent[c] \in FileSystems
  BY <1>1, <1>2 DEF Leased, Working, PoolFits, P!TypeOK
<1>8. Leased'
  <2>1. /\ call'[c] = "streaming"
        /\ \A d \in Calls : d # c => call'[d] = call[d] /\ stream'[d] = stream[d]
    BY <1>1, <1>2, <1>3 DEF Typed
  <2>2. QED BY <1>1, <1>2, <1>7, <2>1 DEF Leased, Working, Done
<1>9. Counted'
  <2>1. \A d \in Calls : call'[d] \in Done <=> call[d] \in Done
    BY <1>1, <1>2 DEF Typed, Done
  <2>2. QED BY <1>1, <1>2, <2>1, CountedRests
<1>10. QED BY <1>5, <1>6, <1>8, <1>9 DEF Inv

\* A listener releases the file system of a stream that has emitted already.
LEMMA ReleasedAgain ==
    ASSUME Inv, ~disposed, disposed' = disposed, NEW c \in Calls, call[c] = "resolved", stream[c] # <<>>,
           P!HandOver(lent[c], stage, object), call' = call, lent' = lent,
           again' = [again EXCEPT ![lent[c]] = again[lent[c]] + 1],
           \A d \in Calls : stream'[d] # <<>> => stream[d] # <<>>
    PROVE  PoolFits' /\ Leased' /\ Counted'
<1>0. PICK o : o = lent[c]
  OBVIOUS
<1>1. PoolFits /\ Typed /\ Leased /\ Counted
  BY DEF Inv
<1>2. o \in FileSystems /\ stage[c] = "out"
  BY <1>0, <1>1 DEF Leased, Done
<1>3. /\ stage \in [Calls -> P!Stages] /\ object \in [Calls -> FileSystems \cup {None}] /\ object[c] = None
  BY <1>1, <1>2 DEF PoolFits, P!TypeOK
<1>4. again' = [again EXCEPT ![o] = again[o] + 1] /\ again' \in [FileSystems -> Nat]
  BY <1>0, <1>1, <1>2 DEF Typed
<1>5. ASSUME NEW f \in FileSystems
      PROVE  Cardinality(Slots(f, pool)) + (IF o = f THEN 1 ELSE 0)
                    + Cardinality(Keeping(f, object, call'))
                  = (IF f \in Range(Fss) THEN 1 ELSE 0) + again'[f]
  <2>1. Keeping(f, object, call') = Holders(f)
    BY DEF Keeping, Holders
  <2>2. Cardinality(Holders(f)) \in Nat
    BY CallsCount DEF Holders
  <2>3. Cardinality(Slots(f, pool)) + Cardinality(Holders(f)) = (IF f \in Range(Fss) THEN 1 ELSE 0) + again[f]
    BY <1>1 DEF Counted
  <2>4. Cardinality(Slots(f, pool)) \in Nat
    BY <1>1, SlotsCount DEF PoolFits, P!TypeOK
  <2>5. again'[f] = again[f] + (IF o = f THEN 1 ELSE 0) /\ again[f] \in Nat
    BY <1>1, <1>4 DEF Typed
  <2>6. QED BY <2>1, <2>2, <2>3, <2>4, <2>5
<1>6. \A f \in FileSystems : Cardinality(Slots(f, pool)) + (IF o = f THEN 1 ELSE 0)
                    + Cardinality(Keeping(f, object, call'))
                  = (IF f \in Range(Fss) THEN 1 ELSE 0) + again'[f]
  BY <1>5
<1>7. call' \in [Calls -> Progress] /\ call'[c] \in Done /\ \A d \in Calls : d # c => call'[d] = call[d]
  BY <1>1 DEF Typed, Done
<1>8. \A d \in Calls : stream'[d] # <<>> => stream[d] # <<>> /\ call'[d] \in {"streaming", "resolved"}
  BY <1>1 DEF Leased
<1>9. P!HandOver(o, stage, object)
  BY <1>0
<1>10. stage[c] = "out" /\ object[c] = None /\ stage[c] # "waiting"
  BY <1>2, <1>3
<1>11. QED BY <1>1, <1>2, <1>3, <1>4, <1>6, <1>7, <1>8, <1>9, <1>10, ReleaseKeeps

LEMMA EmitInv == ASSUME Inv, NEW c \in Calls, Emit(c) PROVE Inv'
<1>1. PoolFits /\ Typed /\ Leased /\ Counted
  BY DEF Inv
<1>2. stream[c] # <<>> /\ lent' = lent
  BY DEF Emit
<1>3. CASE disposed
  <2>1. /\ crashed' = TRUE
        /\ UNCHANGED <<disposed, waiters, pool, stage, object, call, lent, stream, again>>
    BY <1>2, <1>3 DEF Emit, poolVars
  <2>2. PoolFits'
    BY <1>1, <2>1 DEF PoolFits, P!TypeOK, P!WaitersQueuedOnce
  <2>3. Typed' /\ Leased'
    BY <1>1, <2>1 DEF Typed, Leased
  <2>4. Counted'
    BY <1>1, <2>1, CountedRests
  <2>5. QED BY <2>2, <2>3, <2>4 DEF Inv
<1>4. CASE ~disposed
  <2>1. /\ stream' = [stream EXCEPT ![c] = Tail(stream[c])] /\ call' = [call EXCEPT ![c] = "resolved"]
        /\ crashed' = crashed
        /\ \/ call[c] = "streaming" /\ P!Release(c) /\ again' = again
           \/ /\ call[c] = "resolved" /\ P!HandOver(lent[c], stage, object) /\ disposed' = disposed
              /\ again' = [again EXCEPT ![lent[c]] = again[lent[c]] + 1]
    BY <1>4 DEF Emit
  <2>2. stream[c] \in Seq({"end", "error"}) /\ Tail(stream[c]) \in Seq({"end", "error"})
    BY <1>1, <1>2 DEF Typed
  <2>3. lent[c] \in FileSystems
    BY <1>1, <1>2 DEF Leased
  <2>4. Typed'
    <3>1. again' \in [FileSystems -> Nat]
      <4>1. again \in [FileSystems -> Nat] /\ again[lent[c]] + 1 \in Nat
        BY <1>1, <2>3 DEF Typed
      <4>2. again' = again \/ again' = [again EXCEPT ![lent[c]] = again[lent[c]] + 1]
        BY <2>1
      <4>3. QED BY <4>1, <4>2
    <3>2. QED BY <1>1, <1>2, <2>1, <2>2, <3>1 DEF Typed, Progress
  <2>5. /\ call'[c] = "resolved" /\ \A d \in Calls : d # c => call'[d] = call[d] /\ stream'[d] = stream[d]
    BY <1>1, <2>1 DEF Typed
  <2>6. \A d \in Calls : stream'[d] # <<>> => stream[d] # <<>> /\ call'[d] \in {"streaming", "resolved"}
    BY <1>1, <1>2, <2>5 DEF Leased
  <2>7. call' \in [Calls -> Progress] /\ call'[c] \in Done
    BY <2>4, <2>5 DEF Typed, Done
  <2>8. CASE call[c] = "streaming" /\ P!Release(c) /\ again' = again
    <3>1. call[c] \in Working
      BY <2>8 DEF Working
    <3>2. QED BY <1>2, <1>4, <2>4, <2>5, <2>6, <2>7, <2>8, <3>1, ReleasedOnce DEF Inv
  <2>9. CASE /\ call[c] = "resolved" /\ P!HandOver(lent[c], stage, object) /\ disposed' = disposed
             /\ again' = [again EXCEPT ![lent[c]] = again[lent[c]] + 1]
    <3>1. call' = call
      BY <1>1, <2>1, <2>9 DEF Typed
    <3>2. PoolFits' /\ Leased' /\ Counted'
      BY <1>2, <1>4, <2>6, <2>9, <3>1, ReleasedAgain
    <3>3. QED BY <2>4, <3>2 DEF Inv
  <2>10. QED BY <2>1, <2>8, <2>9
<1>5. QED BY <1>3, <1>4

LEMMA DisposeInv == ASSUME Inv, Dispose PROVE Inv'
<1>1. PoolFits /\ Typed /\ Leased /\ Counted
  BY DEF Inv
<1>2. /\ disposed' = TRUE /\ waiters' = <<>> /\ pool' = <<>> /\ object' = object
      /\ stage' = [c \in Calls |-> IF c \in P!Range(waiters) THEN "refused" ELSE stage[c]]
      /\ UNCHANGED <<call, lent, stream, again, crashed>>
  BY DEF Dispose, P!Dispose
<1>3. /\ stage \in [Calls -> P!Stages] /\ object \in [Calls -> FileSystems \cup {None}]
      /\ \A d \in Calls : object[d] # None <=> stage[d] \in {"granted", "using"}
      /\ \A d \in Calls : stage[d] = "waiting" <=> d \in P!Range(waiters)
  BY <1>1 DEF PoolFits, P!TypeOK, P!WaitersQueuedOnce
<1>4. PoolFits'
  <2>1. stage' \in [Calls -> P!Stages]
    BY <1>2, <1>3 DEF P!Stages
  <2>2. <<>> \in Seq(Calls) /\ <<>> \in Seq(FileSystems) /\ TRUE \in BOOLEAN
    OBVIOUS
  <2>3. \A d \in Calls : object'[d] # None <=> stage'[d] \in {"granted", "using"}
    BY <1>2, <1>3
  <2>4. P!TypeOK'
    BY <1>2, <1>3, <2>1, <2>2, <2>3 DEF P!TypeOK
  <2>5. P!WaitersQueuedOnce'
    <3>1. P!IsInjective(<<>>) /\ P!Range(<<>>) = {}
      BY DEF P!IsInjective, P!Range
    <3>2. \A d \in Calls : stage'[d] # "waiting"
      BY <1>2, <1>3
    <3>3. QED BY <1>2, <3>1, <3>2 DEF P!WaitersQueuedOnce
  <2>6. QED BY <2>4, <2>5 DEF PoolFits
<1>5. Typed'
  BY <1>1, <1>2 DEF Typed
<1>6. Leased'
  <2>1. \A d \in Calls : stage'[d] = stage[d] \/ (stage[d] = "waiting" /\ stage'[d] = "refused")
    BY <1>2, <1>3
  <2>2. QED BY <1>1, <1>2, <2>1 DEF Leased, Working, Done
<1>7. \A f \in FileSystems : Holders(f)' \subseteq Holders(f)
  BY <1>2 DEF Holders
<1>8. Counted'
  BY <1>1, <1>2, <1>7, CountedAtTheEnd
<1>9. QED BY <1>4, <1>5, <1>6, <1>8 DEF Inv

LEMMA NextInv == Inv /\ [Next]_vars => Inv'
<1>1. Inv /\ UNCHANGED vars => Inv'
  <2> SUFFICES ASSUME Inv, UNCHANGED vars PROVE Inv'
    OBVIOUS
  <2>1. UNCHANGED <<disposed, waiters, pool, stage, object, call, lent, stream, again, crashed>>
    BY DEF vars
  <2>2. PoolFits' /\ Typed' /\ Leased'
    BY <2>1 DEF Inv, PoolFits, P!TypeOK, P!WaitersQueuedOnce, Typed, Leased
  <2>3. Counted'
    BY <2>1, CountedRests DEF Inv
  <2>4. QED BY <2>2, <2>3 DEF Inv
<1>2. QED BY <1>1, CallInv, AcquiredInv, SettleInv, OpenInv, EmitInv, DisposeInv DEF Next

LEMMA Invariance == Spec => []Inv
BY InitInv, NextInv, PTL DEF Spec

-----------------------------------------------------------------------------
\* Until dispose() no file system is lost, whichever operations fail, and one is
\* in as many places as its streams released it too often; the operations and
\* streams on one file system, dispose() or not, are never more.
THEOREM FileSystemsAreConserved == Spec => []Conservation
<1>1. ASSUME Inv PROVE Conservation
  <2>1. PoolFits /\ Typed /\ Leased /\ Counted
    BY <1>1 DEF Inv
  <2>2. TypeOK
    <3>1. ASSUME ~disposed, NEW c \in Calls
          PROVE  stage[c] = "using" <=> call[c] \in {"plain", "opening", "streaming"}
      BY <2>1, <3>1 DEF Typed, Progress, Leased, Working, Done
    <3>2. QED BY <2>1, <3>1 DEF PoolFits, Typed, TypeOK
  <2>3. ASSUME ~disposed, NEW f \in Range(Fss) PROVE Copies(f) = 1 + again[f]
    <3>1. f \in FileSystems
      BY PoolConstants DEF Range
    <3>2. Copies(f) = Cardinality(Slots(f, pool)) + Cardinality(Holders(f))
      BY DEF Copies, Slots, Holders, Done
    <3>3. QED BY <2>1, <2>3, <3>1, <3>2 DEF Counted
  <2>4. ASSUME NEW f \in FileSystems
        PROVE  Cardinality({c \in Calls : /\ lent[c] = f
                                          /\ call[c] \in {"plain", "opening", "streaming"}}) <= 1 + again[f]
    <3> DEFINE T == {c \in Calls : lent[c] = f /\ call[c] \in {"plain", "opening", "streaming"}}
    <3>1. T \subseteq Holders(f)
      BY <2>1 DEF Leased, Holders, Working, Done
    <3>2. IsFiniteSet(Holders(f)) /\ Cardinality(Holders(f)) \in Nat /\ Cardinality(T) \in Nat
      BY CallsCount DEF Holders
    <3>3. Cardinality(T) <= Cardinality(Holders(f))
      BY <3>1, <3>2, FS_Subset
    <3>4. Cardinality(Holders(f)) <= 1 + again[f] /\ again[f] \in Nat
      BY <2>1 DEF Counted, Typed
    <3> HIDE DEF T
    <3>5. Cardinality(T) <= 1 + again[f]
      BY <3>2, <3>3, <3>4
    <3>6. QED BY <3>5 DEF T
  <2>5. QED BY <2>2, <2>3, <2>4 DEF Conservation
<1>2. QED BY <1>1, Invariance, PTL
=============================================================================
