----------------------------- MODULE PoolProofs -----------------------------
(* What Pool guarantees for every set of objects and of clients. *)
EXTENDS Pool, SequenceTheorems, TLAPS

-----------------------------------------------------------------------------
\* What shift() and push() do to a queue without duplicates.
LEMMA HeadTail ==
    ASSUME NEW S, NEW s \in Seq(S), s # <<>>
    PROVE  /\ Head(s) \in S
           /\ Tail(s) \in Seq(S)
           /\ Head(s) \in Range(s)
           /\ Range(s) = Range(Tail(s)) \cup {Head(s)}
           /\ IsInjective(s) => IsInjective(Tail(s)) /\ Head(s) \notin Range(Tail(s))
<1>1. /\ Head(s) \in S /\ Tail(s) \in Seq(S) /\ Len(Tail(s)) = Len(s) - 1
      /\ \A i \in 1 .. Len(Tail(s)) : Tail(s)[i] = s[i + 1]
      /\ Len(s) \in Nat /\ Len(s) # 0 /\ DOMAIN s = 1 .. Len(s)
      /\ DOMAIN Tail(s) = 1 .. Len(Tail(s)) /\ Head(s) = s[1]
  BY HeadTailProperties, LenProperties, EmptySeq
<1>2. Head(s) \in Range(s)
  BY <1>1 DEF Range
<1>3. \A x : x \in Range(s) <=> x \in Range(Tail(s)) \/ x = Head(s)
  <2>1. ASSUME NEW x \in Range(s), x # Head(s) PROVE x \in Range(Tail(s))
    <3>1. PICK i \in 1 .. Len(s) : s[i] = x
      BY <1>1, <2>1 DEF Range
    <3>2. i - 1 \in 1 .. Len(Tail(s)) /\ Tail(s)[i - 1] = x
      BY <1>1, <2>1, <3>1
    <3>3. QED BY <1>1, <3>2 DEF Range
  <2>2. ASSUME NEW x \in Range(Tail(s)) PROVE x \in Range(s)
    <3>1. PICK i \in 1 .. Len(Tail(s)) : Tail(s)[i] = x
      BY <1>1, <2>2 DEF Range
    <3>2. i + 1 \in 1 .. Len(s) /\ s[i + 1] = x
      BY <1>1, <3>1
    <3>3. QED BY <1>1, <3>2 DEF Range
  <2>3. QED BY <1>2, <2>1, <2>2
<1>4. ASSUME IsInjective(s) PROVE IsInjective(Tail(s)) /\ Head(s) \notin Range(Tail(s))
  <2>1. \A i, j \in 1 .. Len(s) : s[i] = s[j] => i = j
    BY <1>1, <1>4 DEF IsInjective
  <2>2. ASSUME NEW i \in 1 .. Len(Tail(s)), NEW j \in 1 .. Len(Tail(s)),
               Tail(s)[i] = Tail(s)[j]
        PROVE  i = j
    <3>1. i + 1 \in 1 .. Len(s) /\ j + 1 \in 1 .. Len(s) /\ s[i + 1] = s[j + 1]
      BY <1>1, <2>2
    <3>2. QED BY <2>1, <3>1
  <2>3. ASSUME NEW i \in 1 .. Len(Tail(s)) PROVE Tail(s)[i] # Head(s)
    <3>1. i + 1 \in 1 .. Len(s) /\ 1 \in 1 .. Len(s) /\ i + 1 # 1
      BY <1>1
    <3>2. s[i + 1] # s[1]
      BY <2>1, <3>1
    <3>3. QED BY <1>1, <3>2
  <2>4. QED BY <1>1, <2>2, <2>3 DEF IsInjective, Range
<1>5. QED BY <1>1, <1>2, <1>3, <1>4

LEMMA AppendTo ==
    ASSUME NEW S, NEW s \in Seq(S), NEW e \in S
    PROVE  /\ Append(s, e) \in Seq(S)
           /\ Range(Append(s, e)) = Range(s) \cup {e}
           /\ IsInjective(s) /\ e \notin Range(s) => IsInjective(Append(s, e))
<1> DEFINE t == Append(s, e)
<1>1. /\ t \in Seq(S) /\ Len(t) = Len(s) + 1 /\ Len(s) \in Nat
      /\ \A i \in 1 .. Len(s) : t[i] = s[i]
      /\ t[Len(s) + 1] = e
      /\ DOMAIN s = 1 .. Len(s) /\ DOMAIN t = 1 .. Len(t)
  BY AppendProperties, LenProperties
<1> HIDE DEF t
<1>2. \A x : x \in Range(t) <=> x \in Range(s) \/ x = e
  <2>1. ASSUME NEW i \in 1 .. Len(t) PROVE t[i] \in Range(s) \/ t[i] = e
    <3>1. CASE i = Len(s) + 1 BY <3>1, <1>1
    <3>2. CASE i \in 1 .. Len(s) BY <3>2, <1>1 DEF Range
    <3>3. QED BY <1>1, <3>1, <3>2
  <2>2. ASSUME NEW i \in 1 .. Len(s) PROVE i \in 1 .. Len(t) /\ t[i] = s[i]
    BY <1>1
  <2>3. Len(s) + 1 \in 1 .. Len(t)
    BY <1>1
  <2>4. QED BY <1>1, <2>1, <2>2, <2>3 DEF Range
<1>3. ASSUME IsInjective(s), e \notin Range(s),
             NEW i \in 1 .. Len(t), NEW j \in 1 .. Len(t), t[i] = t[j]
      PROVE  i = j
  <2>1. \A k, m \in 1 .. Len(s) : s[k] = s[m] => k = m
    BY <1>1, <1>3 DEF IsInjective
  <2>2. \A k \in 1 .. Len(s) : s[k] # e
    BY <1>1, <1>3 DEF Range
  <2>3. QED BY <1>1, <1>3, <2>1, <2>2
<1>4. QED BY <1>1, <1>2, <1>3 DEF IsInjective, t
-----------------------------------------------------------------------------
\* The inductive invariant.  OnePlace alone is not inductive: that release()
\* hands its object to one client only rests on the queue of waiters holding
\* no client twice, and that such a client has no object yet on its stage.
Inv == TypeOK /\ WaitersQueuedOnce /\ OnePlace /\ NoIdleWhileWaiting

LEMMA InitInv == Init => Inv
<1> SUFFICES ASSUME Init PROVE Inv
  OBVIOUS
<1>1. TypeOK
  <2>1. waiters \in Seq(Clients) /\ pool \in Seq(Objects) /\ disposed \in BOOLEAN
    BY PoolAssumption, EmptySeq DEF Init
  <2>2. QED BY <2>1 DEF Init, TypeOK, Stages
<1>2. WaitersQueuedOnce /\ OnePlace /\ NoIdleWhileWaiting
  <2>1. None \notin Range(InitialObjects)
    BY PoolAssumption, LenProperties DEF Range
  <2>2. QED
    BY <2>1, PoolAssumption
       DEF Init, WaitersQueuedOnce, OnePlace, NoIdleWhileWaiting, IsInjective, Range
<1>3. QED BY <1>1, <1>2 DEF Inv

\* release(): what Release and Offer have in common.  The client that lets go
\* of o, if any, has become c of an otherwise unchanged population.
LEMMA HandOverInv ==
    ASSUME Inv, NEW o \in Objects, NEW S, NEW O,
           HandOver(o, S, O), disposed' = disposed,
           S \in [Clients -> Stages],
           O \in [Clients -> Objects \cup {None}],
           o \notin Range(pool),
           \A c \in Clients : /\ O[c] # o
                              /\ O[c] # None <=> S[c] \in {"granted", "using"}
                              /\ S[c] = "waiting" <=> stage[c] = "waiting"
                              /\ O[c] # None => O[c] = object[c]
    PROVE  Inv'
<1> USE DEF Inv
<1>0. o # None
  BY PoolAssumption
<1>1. CASE waiters = <<>>
  <2>1. waiters' = waiters /\ pool' = Append(pool, o) /\ stage' = S /\ object' = O
    BY <1>1 DEF HandOver
  <2>2. /\ pool' \in Seq(Objects)
        /\ Range(pool') = Range(pool) \cup {o}
        /\ IsInjective(pool')
    BY <2>1, AppendTo DEF TypeOK, OnePlace
  <2>3. TypeOK' BY <2>1, <2>2 DEF TypeOK
  <2>4. WaitersQueuedOnce' BY <2>1 DEF WaitersQueuedOnce, TypeOK
  <2>5. OnePlace' 
    <3>1. \A c \in Clients : object'[c] \notin Range(pool')
      <4> SUFFICES ASSUME NEW c \in Clients PROVE object'[c] \notin Range(pool')
        OBVIOUS
      <4>1. None \notin Range(pool)
        BY PoolAssumption, LenProperties DEF TypeOK, Range
      <4>2. QED BY <4>1, <2>1, <2>2, <1>0 DEF OnePlace
    <3>2. QED BY <3>1, <2>1, <2>2 DEF OnePlace
  <2>6. NoIdleWhileWaiting' BY <1>1, <2>1 DEF NoIdleWhileWaiting
  <2>7. QED BY <2>3, <2>4, <2>5, <2>6
<1>2. CASE waiters # <<>>
  <2> DEFINE w == Head(waiters)
  <2>1. /\ waiters' = Tail(waiters) /\ pool' = pool
        /\ stage' = [S EXCEPT ![w] = "granted"] /\ object' = [O EXCEPT ![w] = o]
    BY <1>2 DEF HandOver
  <2>2. /\ w \in Clients
        /\ waiters' \in Seq(Clients)
        /\ IsInjective(waiters')
        /\ w \notin Range(waiters')
        /\ Range(waiters) = Range(waiters') \cup {w}
    BY <1>2, <2>1, HeadTail DEF TypeOK, WaitersQueuedOnce
  <2>3. pool = <<>>
    BY <1>2 DEF NoIdleWhileWaiting
  <2> HIDE DEF w
  <2>4. TypeOK' 
    BY <1>0, <2>1, <2>2 DEF TypeOK, Stages
  <2>5. WaitersQueuedOnce'
    BY <2>1, <2>2 DEF WaitersQueuedOnce
  <2>6. OnePlace'
    <3>1. \A c \in Clients : object'[c] \notin Range(pool')
      BY <2>1, <2>3 DEF Range
    <3>2. ASSUME NEW c \in Clients, NEW d \in Clients,
                 object'[c] = object'[d], object'[c] # None
          PROVE  c = d
      BY <2>1, <2>2, <3>2 DEF OnePlace
    <3>3. QED BY <3>1, <3>2, <2>1 DEF OnePlace
  <2>7. NoIdleWhileWaiting' BY <2>1, <2>3 DEF NoIdleWhileWaiting
  <2>8. QED BY <2>4, <2>5, <2>6, <2>7
<1>3. QED BY <1>1, <1>2

LEMMA AcquiresInv == ASSUME Inv, NEW c \in Clients, Acquires(c) PROVE Inv'
<1> USE DEF Inv
<1>1. CASE pool = <<>>
  <2>1. /\ waiters' = Append(waiters, c) /\ stage' = [stage EXCEPT ![c] = "waiting"]
        /\ pool' = pool /\ object' = object /\ disposed' = disposed
        /\ stage[c] = "out"
    BY <1>1 DEF Acquires
  <2>2. c \notin Range(waiters)
    BY <2>1 DEF WaitersQueuedOnce
  <2>3. /\ waiters' \in Seq(Clients)
        /\ Range(waiters') = Range(waiters) \cup {c}
        /\ IsInjective(waiters')
    BY <2>1, <2>2, AppendTo DEF TypeOK, WaitersQueuedOnce
  <2>4. TypeOK' BY <2>1, <2>3 DEF TypeOK, Stages
  <2>5. WaitersQueuedOnce' BY <2>1, <2>3 DEF WaitersQueuedOnce, TypeOK
  <2>6. OnePlace' BY <2>1 DEF OnePlace
  <2>7. NoIdleWhileWaiting' BY <1>1, <2>1 DEF NoIdleWhileWaiting
  <2>8. QED BY <2>4, <2>5, <2>6, <2>7
<1>2. CASE pool # <<>>
  <2> DEFINE o == Head(pool)
  <2>1. /\ pool' = Tail(pool) /\ stage' = [stage EXCEPT ![c] = "granted"]
        /\ object' = [object EXCEPT ![c] = o]
        /\ waiters' = waiters /\ disposed' = disposed
        /\ stage[c] = "out"
    BY <1>2 DEF Acquires
  <2>2. /\ o \in Objects
        /\ pool' \in Seq(Objects)
        /\ o \in Range(pool)
        /\ Range(pool) = Range(pool') \cup {o}
        /\ IsInjective(pool')
        /\ o \notin Range(pool')
    BY <1>2, <2>1, HeadTail DEF TypeOK, OnePlace
  <2> HIDE DEF o
  <2>3. TypeOK' BY <2>1, <2>2, PoolAssumption DEF TypeOK, Stages
  <2>4. WaitersQueuedOnce' BY <2>1 DEF WaitersQueuedOnce, TypeOK
  <2>5. OnePlace'
    <3>1. ASSUME NEW d \in Clients PROVE object'[d] \notin Range(pool')
      BY <2>1, <2>2 DEF OnePlace, TypeOK
    <3>2. ASSUME NEW d \in Clients, NEW e \in Clients,
                 object'[d] = object'[e], object'[d] # None
          PROVE  d = e
      BY <2>1, <2>2, <3>2 DEF OnePlace, TypeOK
    <3>3. QED BY <3>1, <3>2, <2>2 DEF OnePlace
  <2>6. NoIdleWhileWaiting'
    BY <1>2, <2>1 DEF NoIdleWhileWaiting
  <2>7. QED BY <2>3, <2>4, <2>5, <2>6
<1>3. QED BY <1>1, <1>2

LEMMA ResumeInv == ASSUME Inv, NEW c \in Clients, Resume(c) PROVE Inv'
<1>1. TypeOK' BY DEF Resume, Inv, TypeOK, Stages
<1>2. WaitersQueuedOnce' BY DEF Resume, Inv, WaitersQueuedOnce, TypeOK
<1>3. OnePlace' /\ NoIdleWhileWaiting'
  BY DEF Resume, Inv, OnePlace, NoIdleWhileWaiting
<1>4. QED BY <1>1, <1>2, <1>3 DEF Inv

LEMMA ReleaseInv == ASSUME Inv, NEW c \in Clients, Release(c) PROVE Inv'
<1> DEFINE S == [stage EXCEPT ![c] = "out"]
           O == [object EXCEPT ![c] = None]
<1>1. HandOver(object[c], S, O) /\ stage[c] = "using" /\ disposed' = disposed
  BY DEF Release
<1>2. object[c] \in Objects /\ object[c] \notin Range(pool)
  BY <1>1 DEF Inv, TypeOK, OnePlace
<1>3. S \in [Clients -> Stages] /\ O \in [Clients -> Objects \cup {None}]
  BY DEF Inv, TypeOK, Stages
<1>4. \A d \in Clients : /\ O[d] # object[c]
                         /\ O[d] # None <=> S[d] \in {"granted", "using"}
                         /\ S[d] = "waiting" <=> stage[d] = "waiting"
                         /\ O[d] # None => O[d] = object[d]
  BY <1>1, <1>2, PoolAssumption DEF Inv, TypeOK, OnePlace
<1> HIDE DEF S, O
<1>5. QED BY <1>1, <1>2, <1>3, <1>4, HandOverInv

LEMMA DisposeInv == ASSUME Inv, Dispose PROVE Inv'
<1> USE DEF Inv, Dispose
<1>1. TypeOK' 
  BY DEF TypeOK, Stages, WaitersQueuedOnce
<1>2. WaitersQueuedOnce'
  BY DEF WaitersQueuedOnce, TypeOK, Range, IsInjective
<1>3. OnePlace'
  BY DEF OnePlace, Range, IsInjective
<1>4. NoIdleWhileWaiting'
  BY DEF NoIdleWhileWaiting
<1>5. QED BY <1>1, <1>2, <1>3, <1>4

LEMMA NextInv == Inv /\ [Next]_vars => Inv'
<1> SUFFICES ASSUME Inv, [Next]_vars PROVE Inv'
  OBVIOUS
<1>1. ASSUME NEW c \in Clients, Acquires(c) PROVE Inv'
  BY <1>1, AcquiresInv
<1>2. ASSUME NEW c \in Clients, Resume(c) PROVE Inv'
  BY <1>2, ResumeInv
<1>3. ASSUME NEW c \in Clients, Release(c) PROVE Inv'
  BY <1>3, ReleaseInv
<1>4. ASSUME NEW o \in Objects, Offer(o) PROVE Inv'
  <2>1. HandOver(o, stage, object) /\ o \notin Circulating /\ disposed' = disposed
    BY <1>4 DEF Offer
  <2>2. o \notin Range(pool) /\ \A d \in Clients : object[d] # o
    BY <2>1, PoolAssumption DEF Circulating
  <2>3. QED
    BY <2>1, <2>2, HandOverInv DEF Inv, TypeOK
<1>5. CASE Dispose
  BY <1>5, DisposeInv
<1>6. CASE UNCHANGED vars
  BY <1>6 DEF vars, Inv, TypeOK, WaitersQueuedOnce, OnePlace, NoIdleWhileWaiting
<1>7. QED BY <1>1, <1>2, <1>3, <1>4, <1>5, <1>6 DEF Next
-----------------------------------------------------------------------------
\* No object is lost or made by who acquires, resumes or releases.
LEMMA HandOverKeeps ==
    ASSUME Inv, NEW c \in Clients, Release(c)
    PROVE  Circulating' = Circulating
<1> USE DEF Inv, TypeOK, Circulating
<1>1. /\ stage[c] = "using" /\ object[c] \in Objects /\ object[c] # None
      /\ HandOver(object[c], [stage EXCEPT ![c] = "out"], [object EXCEPT ![c] = None])
  BY PoolAssumption DEF Release
<1> DEFINE held == {object[d] : d \in Clients} \ {None}
<1>2. CASE waiters = <<>>
  <2>1. pool' = Append(pool, object[c]) /\ object' = [object EXCEPT ![c] = None]
    BY <1>1, <1>2 DEF HandOver
  <2>2. Range(pool') = Range(pool) \cup {object[c]}
    BY <1>1, <2>1, AppendTo
  <2>3. {object'[d] : d \in Clients} \ {None} = held \ {object[c]}
    BY <1>1, <2>1 DEF OnePlace
  <2>4. object[c] \in held
    BY <1>1
  <2>5. QED BY <2>2, <2>3, <2>4
<1>3. CASE waiters # <<>>
  <2> DEFINE w == Head(waiters)
  <2>1. pool' = pool /\ object' = [[object EXCEPT ![c] = None] EXCEPT ![w] = object[c]]
    BY <1>1, <1>3 DEF HandOver
  <2>2. w \in Clients /\ w \in Range(waiters)
    BY <1>3, HeadTail
  <2>3. w # c /\ object[w] = None
    BY <1>1, <2>2 DEF WaitersQueuedOnce
  <2>4. {object'[d] : d \in Clients} \ {None} = held
    <3>1. \A d \in Clients : object'[d] = IF d = w THEN object[c] ELSE IF d = c THEN None ELSE object[d]
      BY <2>1, <2>2
    <3>2. ASSUME NEW o \in held PROVE \E d \in Clients : object'[d] = o
      <4>1. PICK d \in Clients : object[d] = o
        OBVIOUS
      <4>2. CASE d = c
        BY <2>2, <3>1, <4>1, <4>2
      <4>3. CASE d # c
        BY <2>3, <3>1, <4>1, <4>3
      <4>4. QED BY <4>2, <4>3
    <3>3. ASSUME NEW d \in Clients, object'[d] # None PROVE object'[d] \in held
      BY <1>1, <3>1, <3>3
    <3>4. held \subseteq {object'[d] : d \in Clients} \ {None}
      BY <3>2
    <3>5. {object'[d] : d \in Clients} \ {None} \subseteq held
      BY <3>3
    <3>6. QED BY <3>4, <3>5
  <2>5. QED BY <2>1, <2>4
<1>4. QED BY <1>2, <1>3

LEMMA CirculatingKept ==
    ASSUME Inv, NEW c \in Clients, Acquires(c) \/ Resume(c) \/ Release(c)
    PROVE  Circulating' = Circulating
<1>1. CASE Resume(c)
  BY <1>1 DEF Resume, Circulating
<1>2. CASE Release(c)
  BY <1>2, HandOverKeeps
<1>3. CASE Acquires(c)
  <2>1. CASE pool = <<>>
    BY <1>3, <2>1 DEF Acquires, Circulating
  <2>2. CASE pool # <<>>
    <3>1. /\ stage[c] = "out" /\ pool' = Tail(pool)
          /\ object' = [object EXCEPT ![c] = Head(pool)]
      BY <1>3, <2>2 DEF Acquires
    <3>2. Range(pool) = Range(pool') \cup {Head(pool)} /\ Head(pool) \in Objects
      BY <2>2, <3>1, HeadTail DEF Inv, TypeOK
    <3>3. object[c] = None /\ Head(pool) # None
      BY <3>1, <3>2, PoolAssumption DEF Inv, TypeOK
    <3>4. {object'[d] : d \in Clients} \ {None} = ({object[d] : d \in Clients} \ {None}) \cup {Head(pool)}
      BY <3>1, <3>3 DEF Inv, TypeOK
    <3>5. QED BY <3>2, <3>4 DEF Circulating
  <2>3. QED BY <2>1, <2>2
<1>4. QED BY <1>1, <1>2, <1>3
-----------------------------------------------------------------------------
\* What is left of Inv where an object may be released by who does not hold it: the
\* stages and the queue of waiters fit, wherever the objects are.
Fits == TypeOK /\ WaitersQueuedOnce

LEMMA InitFits == Init => Fits
BY InitInv DEF Inv, Fits

LEMMA AcquiresFits ==
    ASSUME Fits, NEW c \in Clients, Acquires(c)
    PROVE  /\ Fits' /\ disposed' = disposed /\ stage[c] = "out" /\ object[c] = None
           /\ \A d \in Clients : d # c => stage'[d] = stage[d]
           /\ \/ stage'[c] = "waiting" /\ pool' = pool /\ object' = object
              \/ /\ stage'[c] = "granted" /\ pool # <<>> /\ pool' = Tail(pool)
                 /\ object' = [object EXCEPT ![c] = Head(pool)]
<1> USE DEF Fits
<1>1. stage[c] = "out" /\ object[c] = None /\ disposed' = disposed /\ c \notin Range(waiters)
  BY DEF Acquires, TypeOK, WaitersQueuedOnce
<1>2. CASE pool = <<>>
  <2>1. /\ waiters' = Append(waiters, c) /\ stage' = [stage EXCEPT ![c] = "waiting"]
        /\ pool' = pool /\ object' = object
    BY <1>2 DEF Acquires
  <2>2. /\ waiters' \in Seq(Clients) /\ IsInjective(waiters')
        /\ Range(waiters') = Range(waiters) \cup {c}
    BY <1>1, <2>1, AppendTo DEF TypeOK, WaitersQueuedOnce
  <2>3. TypeOK' BY <1>1, <2>1, <2>2 DEF TypeOK, Stages
  <2>4. WaitersQueuedOnce' BY <2>1, <2>2 DEF WaitersQueuedOnce, TypeOK
  <2>5. QED BY <1>1, <2>1, <2>3, <2>4 DEF TypeOK
<1>3. CASE pool # <<>>
  <2>1. /\ pool' = Tail(pool) /\ stage' = [stage EXCEPT ![c] = "granted"]
        /\ object' = [object EXCEPT ![c] = Head(pool)] /\ waiters' = waiters
    BY <1>3 DEF Acquires
  <2>2. Head(pool) \in Objects /\ Tail(pool) \in Seq(Objects)
    BY <1>3, HeadTail DEF TypeOK
  <2>3. TypeOK' BY <1>1, <2>1, <2>2, PoolAssumption DEF TypeOK, Stages
  <2>4. WaitersQueuedOnce' BY <1>1, <2>1 DEF WaitersQueuedOnce, TypeOK
  <2>5. QED BY <1>1, <1>3, <2>1, <2>3, <2>4 DEF TypeOK
<1>4. QED BY <1>2, <1>3

LEMMA ResumeFits ==
    ASSUME Fits, NEW c \in Clients, Resume(c)
    PROVE  /\ Fits' /\ disposed' = disposed /\ pool' = pool /\ object' = object
           /\ \A d \in Clients : d # c => stage'[d] = stage[d]
           /\ \/ stage[c] = "granted" /\ stage'[c] = "using"
              \/ stage[c] = "refused" /\ stage'[c] = "out"
<1>1. TypeOK' BY DEF Resume, Fits, TypeOK, Stages
<1>2. WaitersQueuedOnce' BY DEF Resume, Fits, WaitersQueuedOnce, TypeOK
<1>3. QED BY <1>1, <1>2 DEF Resume, Fits, TypeOK

\* release() of o, by a client that had it (S and O are the clients once it let go)
\* or by a listener that releases o once more.
LEMMA HandOverFits ==
    ASSUME Fits, NEW o \in Objects, NEW S \in [Clients -> Stages],
           NEW O \in [Clients -> Objects \cup {None}], HandOver(o, S, O), disposed' = disposed,
           \A d \in Clients : O[d] # None <=> S[d] \in {"granted", "using"},
           \A d \in Clients : S[d] = "waiting" <=> stage[d] = "waiting"
    PROVE  /\ Fits'
           /\ \A d \in Clients : stage'[d] = S[d] \/ (stage[d] = "waiting" /\ stage'[d] = "granted")
           /\ \/ pool' = Append(pool, o) /\ object' = O
              \/ \E w \in Clients : O[w] = None /\ pool' = pool /\ object' = [O EXCEPT ![w] = o]
<1> USE DEF Fits
<1>1. CASE waiters = <<>>
  <2>1. pool' = Append(pool, o) /\ stage' = S /\ object' = O /\ waiters' = waiters
    BY <1>1 DEF HandOver
  <2>2. TypeOK' BY <2>1 DEF TypeOK
  <2>3. WaitersQueuedOnce' BY <2>1 DEF WaitersQueuedOnce, TypeOK
  <2>4. QED BY <2>1, <2>2, <2>3
<1>2. CASE waiters # <<>>
  <2> DEFINE w == Head(waiters)
  <2>1. /\ waiters' = Tail(waiters) /\ stage' = [S EXCEPT ![w] = "granted"]
        /\ object' = [O EXCEPT ![w] = o] /\ pool' = pool
    BY <1>2 DEF HandOver
  <2>2. /\ w \in Clients /\ w \in Range(waiters) /\ waiters' \in Seq(Clients)
        /\ IsInjective(waiters') /\ w \notin Range(waiters')
        /\ Range(waiters) = Range(waiters') \cup {w}
    BY <1>2, <2>1, HeadTail DEF TypeOK, WaitersQueuedOnce
  <2> HIDE DEF w
  <2>3. stage[w] = "waiting" /\ O[w] = None
    BY <2>2 DEF WaitersQueuedOnce
  <2>4. TypeOK' BY <2>1, <2>2, PoolAssumption DEF TypeOK, Stages
  <2>5. WaitersQueuedOnce' BY <2>1, <2>2 DEF WaitersQueuedOnce
  <2>6. QED BY <2>1, <2>2, <2>3, <2>4, <2>5
<1>3. QED BY <1>1, <1>2

LEMMA ReleaseFits ==
    ASSUME Fits, NEW c \in Clients, Release(c)
    PROVE  /\ Fits' /\ disposed' = disposed /\ stage[c] = "using" /\ object[c] \in Objects
           /\ stage'[c] = "out"
           /\ \A d \in Clients : d # c => stage'[d] = stage[d] \/ (stage[d] = "waiting" /\ stage'[d] = "granted")
           /\ \/ pool' = Append(pool, object[c]) /\ object' = [object EXCEPT ![c] = None]
              \/ \E w \in Clients : /\ [object EXCEPT ![c] = None][w] = None /\ pool' = pool
                                    /\ object' = [[object EXCEPT ![c] = None] EXCEPT ![w] = object[c]]
<1> DEFINE S == [stage EXCEPT ![c] = "out"]
           O == [object EXCEPT ![c] = None]
<1>1. /\ HandOver(object[c], S, O) /\ stage[c] = "using" /\ disposed' = disposed
      /\ object[c] \in Objects
  BY DEF Release, Fits, TypeOK
<1>2. /\ S \in [Clients -> Stages] /\ O \in [Clients -> Objects \cup {None}]
      /\ \A d \in Clients : O[d] # None <=> S[d] \in {"granted", "using"}
      /\ \A d \in Clients : S[d] = "waiting" <=> stage[d] = "waiting"
      /\ S[c] = "out" /\ \A d \in Clients : d # c => S[d] = stage[d]
  BY <1>1 DEF Fits, TypeOK, Stages
<1> HIDE DEF S, O
<1>3. /\ Fits'
      /\ \A d \in Clients : stage'[d] = S[d] \/ (stage[d] = "waiting" /\ stage'[d] = "granted")
      /\ \/ pool' = Append(pool, object[c]) /\ object' = O
         \/ \E w \in Clients : O[w] = None /\ pool' = pool /\ object' = [O EXCEPT ![w] = object[c]]
  BY <1>1, <1>2, HandOverFits
<1>4. stage'[c] = "out"
  BY <1>1, <1>2, <1>3
<1>5. QED BY <1>1, <1>2, <1>3, <1>4 DEF O

LEMMA DisposeFits ==
    ASSUME Fits, Dispose
    PROVE  /\ Fits' /\ disposed' /\ object' = object
           /\ \A c \in Clients : stage'[c] = stage[c] \/ (stage[c] = "waiting" /\ stage'[c] = "refused")
<1> USE DEF Fits, Dispose
<1>1. TypeOK' BY DEF TypeOK, Stages, WaitersQueuedOnce
<1>2. WaitersQueuedOnce' BY DEF WaitersQueuedOnce, TypeOK, Range, IsInjective
<1>3. QED BY <1>1, <1>2 DEF WaitersQueuedOnce
-----------------------------------------------------------------------------
\* Type correctness of Pool.
THEOREM TypeCorrect == Spec => []TypeOK
<1>1. Inv => TypeOK BY DEF Inv
<1>2. QED BY <1>1, InitInv, NextInv, PTL DEF Spec

\* At every moment each object the pool and its clients have is idle once or
\* with one client: release() never gives one object to two of them.
THEOREM Exclusivity == Spec => []OnePlace
<1>1. Inv => OnePlace BY DEF Inv
<1>2. QED BY <1>1, InitInv, NextInv, PTL DEF Spec

\* The Deferreds that acquires() made and nobody settled are the queued ones.
THEOREM NoWaiterLost == Spec => []WaitersQueuedOnce
<1>1. Inv => WaitersQueuedOnce BY DEF Inv
<1>2. QED BY <1>1, InitInv, NextInv, PTL DEF Spec

\* No client waits while an object is idle.
THEOREM NoLostWakeup == Spec => []NoIdleWhileWaiting
<1>1. Inv => NoIdleWhileWaiting BY DEF Inv
<1>2. QED BY <1>1, InitInv, NextInv, PTL DEF Spec

\* Appending and removing the head keep the order of the others.
LEMMA AppendKeepsOrder ==
    ASSUME NEW e \in Clients, waiters \in Seq(Clients), waiters' = Append(waiters, e)
    PROVE  \A c, d \in Clients : /\ Before(c, d) => Before(c, d)'
                                 /\ c \in Range(waiters) => Before(c, e)'
<1>1. /\ Len(waiters') = Len(waiters) + 1 /\ Len(waiters) \in Nat
      /\ \A i \in 1 .. Len(waiters) : waiters'[i] = waiters[i]
      /\ waiters'[Len(waiters) + 1] = e
      /\ DOMAIN waiters = 1 .. Len(waiters) /\ DOMAIN waiters' = 1 .. Len(waiters')
  BY AppendProperties, LenProperties
<1> TAKE c, d \in Clients
<1>2. ASSUME Before(c, d) PROVE Before(c, d)'
  <2>1. PICK i \in 1 .. Len(waiters), j \in 1 .. Len(waiters) :
            i < j /\ waiters[i] = c /\ waiters[j] = d
    BY <1>1, <1>2 DEF Before
  <2>2. /\ i \in DOMAIN waiters' /\ j \in DOMAIN waiters'
        /\ waiters'[i] = c /\ waiters'[j] = d
    BY <1>1, <2>1
  <2>3. QED BY <2>1, <2>2 DEF Before
<1>3. ASSUME c \in Range(waiters) PROVE Before(c, e)'
  <2>1. PICK i \in 1 .. Len(waiters) : waiters[i] = c
    BY <1>1, <1>3 DEF Range
  <2>2. /\ i \in DOMAIN waiters' /\ Len(waiters) + 1 \in DOMAIN waiters'
        /\ i < Len(waiters) + 1 /\ waiters'[i] = c
    BY <1>1, <2>1
  <2>3. QED BY <1>1, <2>2 DEF Before
<1>4. QED BY <1>2, <1>3

LEMMA TailKeepsOrder ==
    ASSUME waiters \in Seq(Clients), waiters # <<>>, waiters' = Tail(waiters),
           NEW c \in Clients, NEW d \in Clients, Before(c, d), c # Head(waiters)
    PROVE  Before(c, d)'
<1>1. /\ Len(waiters') = Len(waiters) - 1 /\ Len(waiters) \in Nat
      /\ \A i \in 1 .. Len(waiters') : waiters'[i] = waiters[i + 1]
      /\ DOMAIN waiters = 1 .. Len(waiters) /\ DOMAIN waiters' = 1 .. Len(waiters')
      /\ Head(waiters) = waiters[1]
  BY HeadTailProperties, LenProperties
<1>2. PICK i \in 1 .. Len(waiters), j \in 1 .. Len(waiters) :
          i < j /\ waiters[i] = c /\ waiters[j] = d
  BY <1>1 DEF Before
<1>3. i # 1
  BY <1>1, <1>2
<1>4. /\ i - 1 \in DOMAIN waiters' /\ j - 1 \in DOMAIN waiters' /\ i - 1 < j - 1
      /\ waiters'[i - 1] = c /\ waiters'[j - 1] = d
  BY <1>1, <1>2, <1>3
<1>5. QED BY <1>4 DEF Before

\* acquires() and release() serve their clients in the order they asked in.
LEMMA StepInOrder ==
    ASSUME Inv, [Next]_vars, NEW c \in Clients, NEW d \in Clients
    PROVE  InTurn(c, d)
<1> USE DEF Inv, TypeOK
<1>0. ASSUME waiters' = waiters, stage'[d] = "waiting" => stage[d] = "waiting",
             stage'[d] = "granted" => stage[d] # "waiting"
      PROVE  InTurn(c, d)
  <2>1. Before(c, d)' = Before(c, d)
    BY <1>0 DEF Before
  <2>2. Before(c, d) => stage[d] = "waiting"
    BY DEF Before, WaitersQueuedOnce, Range
  <2>3. QED BY <1>0, <2>1, <2>2 DEF InTurn
<1>1. ASSUME NEW o, NEW S \in [Clients -> Stages], NEW O, HandOver(o, S, O),
             \A e \in Clients : S[e] = stage[e] \/ S[e] = "out"
      PROVE  InTurn(c, d)
  <2>1. CASE waiters = <<>>
    <3>1. waiters' = waiters /\ stage' = S
      BY <1>1, <2>1 DEF HandOver
    <3>2. QED BY <1>0, <1>1, <2>1, <3>1 DEF WaitersQueuedOnce, Range
  <2>2. CASE waiters # <<>>
    <3> DEFINE w == Head(waiters)
    <3>1. waiters' = Tail(waiters) /\ stage' = [S EXCEPT ![w] = "granted"]
      BY <1>1, <2>2 DEF HandOver
    <3>2. w \in Clients
      BY <2>2, HeadTail
    <3>3. ~(stage[d] # "waiting" /\ stage'[d] = "waiting")
      BY <1>1, <3>1, <3>2
    <3>4. Before(c, d) /\ c # w => Before(c, d)'
      BY <2>2, <3>1, TailKeepsOrder
    <3>5. stage'[w] = "granted"
      BY <1>1, <3>1, <3>2
    <3>6. Before(c, d) => d # w /\ stage[d] = "waiting"
      <4>1. ASSUME Before(c, d) PROVE d # w /\ stage[d] = "waiting"
        <5>1. PICK i \in DOMAIN waiters, j \in DOMAIN waiters :
                  i < j /\ waiters[i] = c /\ waiters[j] = d
          BY <4>1 DEF Before
        <5>2. /\ DOMAIN waiters = 1 .. Len(waiters) /\ Len(waiters) \in Nat
              /\ i \in Nat /\ j \in Nat /\ w = waiters[1] /\ 1 \in DOMAIN waiters
          BY <5>1, <2>2, LenProperties, EmptySeq
        <5>3. waiters[j] # waiters[1]
          BY <5>1, <5>2 DEF WaitersQueuedOnce, IsInjective
        <5>4. QED BY <5>1, <5>2, <5>3 DEF WaitersQueuedOnce, Range
      <4>2. QED BY <4>1
    <3>7. Before(c, d) => stage'[d] # "granted"
      BY <1>1, <3>1, <3>6
    <3>8. QED BY <3>3, <3>4, <3>5, <3>7 DEF InTurn
  <2>3. QED BY <2>1, <2>2
<1>2. ASSUME NEW e \in Clients, Acquires(e) PROVE InTurn(c, d)
  <2>1. CASE pool = <<>>
    <3>1. waiters' = Append(waiters, e) /\ stage' = [stage EXCEPT ![e] = "waiting"]
      BY <1>2, <2>1 DEF Acquires
    <3>2. Before(c, d) => Before(c, d)'
      BY <3>1, AppendKeepsOrder
    <3>3. stage[c] = "waiting" => Before(c, e)'
      BY <3>1, AppendKeepsOrder DEF WaitersQueuedOnce
    <3>4. stage[d] # "waiting" /\ stage'[d] = "waiting" => d = e
      BY <3>1
    <3>5. Before(c, d) => stage[d] = "waiting"
      BY DEF Before, WaitersQueuedOnce, Range
    <3>6. QED BY <3>1, <3>2, <3>3, <3>4, <3>5 DEF InTurn
  <2>2. CASE pool # <<>>
    <3>1. waiters' = waiters /\ stage' = [stage EXCEPT ![e] = "granted"] /\ stage[e] = "out"
      BY <1>2, <2>2 DEF Acquires
    <3>2. QED BY <1>0, <3>1
  <2>3. QED BY <2>1, <2>2
<1>3. ASSUME NEW e \in Clients, Resume(e) PROVE InTurn(c, d)
  <2>1. /\ waiters' = waiters
        /\ \/ stage[e] = "granted" /\ stage' = [stage EXCEPT ![e] = "using"]
           \/ stage[e] = "refused" /\ stage' = [stage EXCEPT ![e] = "out"]
    BY <1>3 DEF Resume
  <2>2. QED BY <1>0, <2>1
<1>4. ASSUME NEW e \in Clients, Release(e) PROVE InTurn(c, d)
  <2>1. HandOver(object[e], [stage EXCEPT ![e] = "out"], [object EXCEPT ![e] = None])
    BY <1>4 DEF Release
  <2>2. /\ [stage EXCEPT ![e] = "out"] \in [Clients -> Stages]
        /\ \A f \in Clients : \/ [stage EXCEPT ![e] = "out"][f] = stage[f]
                              \/ [stage EXCEPT ![e] = "out"][f] = "out"
    BY DEF Stages
  <2>3. QED BY <1>1, <2>1, <2>2
<1>5. ASSUME NEW o \in Objects, Offer(o) PROVE InTurn(c, d)
  BY <1>1, <1>5 DEF Offer
<1>6. CASE Dispose
  <2>1. \A e \in Clients : stage'[e] # "waiting"
    BY <1>6 DEF Dispose, WaitersQueuedOnce
  <2>2. QED BY <2>1 DEF InTurn
<1>7. CASE UNCHANGED vars
  BY <1>0, <1>7 DEF vars
<1>8. QED BY <1>2, <1>3, <1>4, <1>5, <1>6, <1>7 DEF Next

\* Clients are served in the order they asked in, without exception.
THEOREM InOrder == Spec => FirstComeFirstServed
<1>1. Inv /\ [Next]_vars => [\A c, d \in Clients : InTurn(c, d)]_vars
  BY StepInOrder
<1>2. QED BY <1>1, InitInv, NextInv, PTL DEF Spec, FirstComeFirstServed
-----------------------------------------------------------------------------
\* The refinement.  Inv is needed in both states of a step: what a step adds
\* to or takes from the free objects is known because OnePlace holds.
LEMMA InitRefines == Init => AbstractPool!Init
<1> SUFFICES ASSUME Init PROVE AbstractPool!Init
  OBVIOUS
<1>1. Range(pool) \subseteq Objects
  BY PoolAssumption, LenProperties DEF Init, Range
<1>2. Wants = {} /\ Lease = [c \in Clients |-> None] /\ Free \in SUBSET Objects
  BY <1>1 DEF Init, Wants, Lease, Free
<1>3. QED BY <1>2 DEF Init, AbstractPool!Init

LEMMA AcquiresRefines ==
    ASSUME Inv, Inv', NEW c \in Clients, Acquires(c) PROVE AbstractPool!Ask(c)
<1> USE DEF Inv, TypeOK
<1>1. /\ stage[c] = "out" /\ disposed' = disposed
      /\ \A d \in Clients : d # c => stage'[d] = stage[d] /\ object'[d] = object[d]
      /\ stage'[c] \in {"waiting", "granted"}
  BY DEF Acquires, Stages
<1>2. c \notin Wants /\ Wants' = Wants \cup {c} /\ Lease[c] = None /\ Lease' = Lease
  BY <1>1 DEF Wants, Lease
<1>3. Free' = Free
  <2>1. CASE pool = <<>>
    BY <1>1, <2>1 DEF Acquires, Free
  <2>2. CASE pool # <<>>
    <3>1. pool' = Tail(pool) /\ stage'[c] = "granted" /\ object'[c] = Head(pool)
      BY <2>2 DEF Acquires
    <3>2. Range(pool) = Range(pool') \cup {Head(pool)}
      BY <2>2, <3>1, HeadTail
    <3>3. Head(pool) \in Objects
      BY <2>2, HeadTail
    <3>4. stage'[c] = "granted" /\ object'[c] = Head(pool)
      BY <3>1
    <3> HIDE DEF Inv, TypeOK
    <3>5. QED BY <1>1, <3>2, <3>3, <3>4 DEF Free
  <2>3. QED BY <2>1, <2>2
<1>4. QED BY <1>1, <1>2, <1>3 DEF AbstractPool!Ask

LEMMA ResumeRefines ==
    ASSUME Inv, Inv', NEW c \in Clients, Resume(c),
           stage[c] = "refused" => disposed
    PROVE  AbstractPool!Refuse(c) \/ AbstractPool!Grant(c, object[c])
<1> USE DEF Inv, TypeOK
<1>1. /\ disposed' = disposed /\ pool' = pool /\ object' = object
      /\ \A d \in Clients : d # c => stage'[d] = stage[d]
      /\ \/ stage[c] = "granted" /\ stage'[c] = "using"
         \/ stage[c] = "refused" /\ stage'[c] = "out"
  <2>1. CASE stage[c] = "granted" /\ stage' = [stage EXCEPT ![c] = "using"]
    BY <2>1 DEF Resume
  <2>2. CASE stage[c] = "refused" /\ stage' = [stage EXCEPT ![c] = "out"]
    BY <2>2 DEF Resume
  <2>3. QED BY <2>1, <2>2 DEF Resume
<1>2. c \in Wants /\ Wants' = Wants \ {c}
  BY <1>1 DEF Wants
<1>3. CASE stage[c] = "refused"
  <2>1. Lease' = Lease /\ Free' = Free
    BY <1>1, <1>3 DEF Lease, Free
  <2>2. QED BY <1>1, <1>2, <1>3, <2>1 DEF AbstractPool!Refuse
<1>4. CASE stage[c] = "granted"
  <2>1. object[c] \in Objects /\ object[c] \in Free
    BY <1>4 DEF Free
  <2>2. Lease' = [Lease EXCEPT ![c] = object[c]]
    BY <1>1, <1>4 DEF Lease
  <2>3. Free' = Free \ {object[c]}
    BY <1>1, <1>4 DEF Free, OnePlace
  <2>4. QED BY <1>1, <1>2, <2>1, <2>2, <2>3 DEF AbstractPool!Grant
<1>5. QED BY <1>1, <1>3, <1>4

\* release() frees o, and moves nothing between the unanswered and the users.
LEMMA HandOverRefines ==
    ASSUME Inv, Inv', NEW o \in Objects, NEW S, NEW O, HandOver(o, S, O),
           S \in [Clients -> Stages], O \in [Clients -> Objects \cup {None}],
           \A d \in Clients : (S[d] = stage[d] /\ O[d] = object[d]) \/
                              (S[d] = "out" /\ stage[d] = "using")
    PROVE  /\ Wants' = Wants
           /\ Free' = Free \cup {o}
           /\ Lease' = [d \in Clients |-> IF S[d] = "using" THEN object[d] ELSE None]
<1> USE DEF Inv, TypeOK
<1>1. CASE waiters = <<>>
  <2>1. pool' = Append(pool, o) /\ stage' = S /\ object' = O
    BY <1>1 DEF HandOver
  <2>2. Range(pool') = Range(pool) \cup {o}
    BY <2>1, AppendTo
  <2>3. \A d \in Clients : stage[d] = "granted" => stage'[d] = "granted" /\ object'[d] = object[d]
    BY <2>1
  <2>4. \A d \in Clients : stage'[d] = "granted" => stage[d] = "granted" /\ object'[d] = object[d]
    BY <2>1
  <2>5. Free' = Free \cup {o}
    BY <2>2, <2>3, <2>4 DEF Free
  <2>6. QED BY <2>1, <2>5 DEF Wants, Lease
<1>2. CASE waiters # <<>>
  <2> DEFINE w == Head(waiters)
  <2>1. w \in Clients /\ stage[w] = "waiting"
    BY <1>2, HeadTail DEF WaitersQueuedOnce
  <2>2. pool' = pool /\ stage' = [S EXCEPT ![w] = "granted"] /\ object' = [O EXCEPT ![w] = o]
    BY <1>2 DEF HandOver
  <2> HIDE DEF w
  <2>3. S[w] = "waiting" /\ stage'[w] = "granted" /\ object'[w] = o
    BY <2>1, <2>2
  <2>4. \A d \in Clients : d # w => stage'[d] = S[d] /\ object'[d] = O[d]
    BY <2>1, <2>2
  <2>5. Free' = Free \cup {o}
    <3>1. \A d \in Clients : stage[d] = "granted" =>
                  d # w /\ stage'[d] = "granted" /\ object'[d] = object[d]
      BY <2>1, <2>4
    <3>2. \A d \in Clients : stage'[d] = "granted" =>
                  d = w \/ (stage[d] = "granted" /\ object'[d] = object[d])
      BY <2>4
    <3>3. QED BY <2>1, <2>2, <2>3, <3>1, <3>2 DEF Free
  <2>6. Wants' = Wants
    <3>1. \A d \in Clients : d # w => (stage'[d] = stage[d] \/ (stage'[d] = "out" /\ stage[d] = "using"))
      BY <2>4
    <3>2. w \in Wants /\ w \in Wants'
      BY <2>1, <2>3 DEF Wants
    <3>3. QED BY <3>1, <3>2 DEF Wants
  <2>7. Lease' = [d \in Clients |-> IF S[d] = "using" THEN object[d] ELSE None]
    BY <2>1, <2>3, <2>4 DEF Lease
  <2>8. QED BY <2>5, <2>6, <2>7
<1>3. QED BY <1>1, <1>2

LEMMA ReleaseRefines ==
    ASSUME Inv, Inv', NEW c \in Clients, Release(c) PROVE AbstractPool!Return(c)
<1> DEFINE S == [stage EXCEPT ![c] = "out"]
           O == [object EXCEPT ![c] = None]
<1>1. HandOver(object[c], S, O) /\ stage[c] = "using" /\ disposed' = disposed
  BY DEF Release
<1>2. object[c] \in Objects /\ Lease[c] = object[c] /\ object[c] # None
  BY <1>1, PoolAssumption DEF Inv, TypeOK, Lease
<1>3. /\ S \in [Clients -> Stages] /\ O \in [Clients -> Objects \cup {None}]
      /\ \A d \in Clients : (S[d] = stage[d] /\ O[d] = object[d]) \/
                            (S[d] = "out" /\ stage[d] = "using")
  BY <1>1 DEF Inv, TypeOK, Stages
<1> HIDE DEF S, O
<1>4. /\ Wants' = Wants /\ Free' = Free \cup {object[c]}
      /\ Lease' = [d \in Clients |-> IF S[d] = "using" THEN object[d] ELSE None]
  BY <1>1, <1>2, <1>3, HandOverRefines
<1>5. Lease' = [Lease EXCEPT ![c] = None]
  BY <1>4 DEF Lease, Inv, TypeOK, S
<1>6. QED BY <1>1, <1>2, <1>4, <1>5 DEF AbstractPool!Return

LEMMA OfferRefines ==
    ASSUME Inv, Inv', NEW o \in Objects, Offer(o) PROVE AbstractPool!Provide(o)
<1>1. HandOver(o, stage, object) /\ o \notin Circulating /\ disposed' = disposed
  BY DEF Offer
<1>2. Wants' = Wants /\ Free' = Free \cup {o} /\ Lease' = Lease
  <2>1. stage \in [Clients -> Stages] /\ object \in [Clients -> Objects \cup {None}]
    BY DEF Inv, TypeOK
  <2>2. /\ Wants' = Wants /\ Free' = Free \cup {o}
        /\ Lease' = [d \in Clients |-> IF stage[d] = "using" THEN object[d] ELSE None]
    BY <1>1, <2>1, HandOverRefines
  <2>3. QED BY <2>2 DEF Lease
<1>3. o \notin Free /\ \A c \in Clients : Lease[c] # o
  BY <1>1, PoolAssumption DEF Circulating, Free, Lease
<1>4. QED BY <1>1, <1>2, <1>3 DEF AbstractPool!Provide

LEMMA DisposeRefines == ASSUME Inv, Inv', Dispose PROVE AbstractPool!Close
<1> USE DEF Inv, TypeOK
<1>1. \A c \in Clients : c \in Range(waiters) => stage[c] = "waiting" /\ stage'[c] = "refused"
  BY DEF Dispose, WaitersQueuedOnce
<1>2. \A c \in Clients : c \notin Range(waiters) => stage'[c] = stage[c]
  BY DEF Dispose
<1>3. Wants' = Wants /\ Lease' = Lease
  BY <1>1, <1>2 DEF Dispose, Wants, Lease
<1>4. Free' \in SUBSET Free
  BY <1>1, <1>2 DEF Dispose, Free, Range
<1>5. QED BY <1>3, <1>4 DEF Dispose, AbstractPool!Close

\* Only dispose() rejects a promise.
RefusedByDispose == \A c \in Clients : stage[c] = "refused" => disposed

LEMMA RefusedInv == Inv /\ RefusedByDispose /\ [Next]_vars => RefusedByDispose'
<1> SUFFICES ASSUME Inv, RefusedByDispose, [Next]_vars PROVE RefusedByDispose'
  OBVIOUS
<1> USE DEF RefusedByDispose, Inv, TypeOK
<1>1. ASSUME NEW o, NEW S \in [Clients -> Stages], NEW O, HandOver(o, S, O), disposed' = disposed,
             \A c \in Clients : S[c] = "refused" => stage[c] = "refused"
      PROVE  RefusedByDispose'
  BY <1>1, HeadTail DEF HandOver
<1>2. ASSUME NEW c \in Clients, Acquires(c) PROVE RefusedByDispose'
  BY <1>2 DEF Acquires
<1>3. ASSUME NEW c \in Clients, Resume(c) PROVE RefusedByDispose'
  BY <1>3 DEF Resume
<1>4. ASSUME NEW c \in Clients, Release(c) PROVE RefusedByDispose'
  <2>1. [stage EXCEPT ![c] = "out"] \in [Clients -> Stages]
    BY DEF Stages
  <2>2. QED BY <1>1, <1>4, <2>1 DEF Release
<1>5. ASSUME NEW o \in Objects, Offer(o) PROVE RefusedByDispose'
  BY <1>1, <1>5 DEF Offer
<1>6. CASE Dispose
  BY <1>6 DEF Dispose
<1>7. CASE UNCHANGED vars
  BY <1>7 DEF vars
<1>8. QED BY <1>2, <1>3, <1>4, <1>5, <1>6, <1>7 DEF Next

LEMMA StepRefines ==
    ASSUME Inv, Inv', RefusedByDispose, [Next]_vars
    PROVE  [AbstractPool!Next]_(AbstractPool!vars)
<1> USE DEF AbstractPool!Next
<1>1. ASSUME NEW c \in Clients, Acquires(c) PROVE AbstractPool!Next
  BY <1>1, AcquiresRefines
<1>2. ASSUME NEW c \in Clients, Resume(c) PROVE AbstractPool!Next
  <2>1. AbstractPool!Refuse(c) \/ AbstractPool!Grant(c, object[c])
    BY <1>2, ResumeRefines DEF RefusedByDispose
  <2>2. stage[c] = "granted" => object[c] \in Objects
    BY DEF Inv, TypeOK
  <2>3. stage[c] = "granted" \/ stage[c] = "refused"
    BY <1>2 DEF Resume
  <2>4. CASE stage[c] = "granted" BY <2>1, <2>2, <2>4
  <2>5. CASE stage[c] = "refused" 
    <3>1. c \in Wants /\ object[c] = None
      BY <2>5 DEF Wants, Inv, TypeOK
    <3>2. ~AbstractPool!Grant(c, object[c])
      <4>1. None \notin Free
        BY PoolAssumption, LenProperties DEF Free, Range, Inv, TypeOK
      <4>2. QED BY <3>1, <4>1 DEF AbstractPool!Grant
    <3>3. QED BY <2>1, <3>2
  <2>6. QED BY <2>3, <2>4, <2>5
<1>3. ASSUME NEW c \in Clients, Release(c) PROVE AbstractPool!Next
  BY <1>3, ReleaseRefines
<1>4. ASSUME NEW o \in Objects, Offer(o) PROVE AbstractPool!Next
  BY <1>4, OfferRefines
<1>5. CASE Dispose
  BY <1>5, DisposeRefines
<1>6. CASE UNCHANGED vars
  BY <1>6 DEF vars, AbstractPool!vars, Wants, Lease, Free
<1>7. QED BY <1>1, <1>2, <1>3, <1>4, <1>5, <1>6 DEF Next

\* Pool implements Leasing, whatever the objects and the clients.
THEOREM Refinement == Spec => LeasesObjects
<1>1. Init => RefusedByDispose
  BY DEF Init, RefusedByDispose
<1>2. QED
  BY <1>1, InitInv, NextInv, RefusedInv, InitRefines, StepRefines, PTL
     DEF Spec, LeasesObjects, AbstractPool!Spec
=============================================================================
