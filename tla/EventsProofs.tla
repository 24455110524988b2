---------------------------- MODULE EventsProofs ----------------------------
(* What an emitter guarantees, for every number of handlers and events, every  *)
(* count and every depth of nesting; and the writers of collections, who tell  *)
(* an emitter what they did.                                                   *)
EXTENDS EventEmitter, CollectionWrites, FiniteSetTheorems, SequenceTheorems, WellFoundedInduction, TLAPS

Numbered == {r \in Regs : Count[r] # Forever}

\* The handlers an emission is still to end, and the emissions that are to end r.
Ahead(frame) == ToSet(frame.todo) \cup {frame.running}
Holding(r) == {i \in DOMAIN stack : r \in Ahead(stack[i])}

\* The Map, and the handlers of the emitter.
Mapped ==
    /\ names \in Seq(Events) /\ IsInjective(names) /\ ToSet(names) = {e \in Events : handlers[e] # <<>>}
    /\ handlers \in [Events -> Seq(Regs)] /\ \A e \in Events : IsInjective(handlers[e])
    /\ \A d, e \in Events : d # e => ToSet(handlers[d]) \cap ToSet(handlers[e]) = {}
    /\ handle \in [Regs -> {"none", "live", "disposed"}]
    /\ Registered = IF disposed THEN {} ELSE Live

\* An emission calls a handler once, of those registered before.
Snapshots ==
    /\ stack \in Seq(Frame) /\ Len(stack) <= MaxDepth
    /\ \A i \in DOMAIN stack : /\ IsInjective(stack[i].todo)
                               /\ stack[i].running \notin ToSet(stack[i].todo)
                               /\ \A r \in Ahead(stack[i]) \ {NoHandler} : handle[r] # "none"

\* What is left of a count, and how far it may be exceeded by the emissions that
\* hold the handler.
Counted ==
    /\ left \in [Regs -> Nat \cup {Forever}] /\ completed \in [Regs -> Nat]
    /\ \A r \in Numbered :
          /\ left[r] = IF completed[r] <= Count[r] THEN Count[r] - completed[r] ELSE 0
          /\ handle[r] = "none" => completed[r] = 0
          /\ completed[r] >= Count[r] =>
                /\ handle[r] # "live"
                /\ completed[r] + Cardinality(Holding(r)) <= Count[r] + MaxDepth - 1

Closing == /\ closing \in BOOLEAN /\ disposed \in BOOLEAN
           /\ closing => Registered \subseteq late

Inv == Mapped /\ Snapshots /\ Counted /\ Closing

-----------------------------------------------------------------------------
\* Lists.
LEMMA NotEmpty == ASSUME NEW S, NEW s \in Seq(S) PROVE s # <<>> <=> ToSet(s) # {}
<1>1. DOMAIN s = 1 .. Len(s) /\ Len(s) \in Nat /\ (s = <<>> <=> Len(s) = 0)
  BY LenProperties, EmptySeq
<1>2. s = <<>> => ToSet(s) = {}
  BY DEF ToSet
<1>3. s # <<>> => s[1] \in ToSet(s)
  BY <1>1 DEF ToSet
<1>4. QED BY <1>2, <1>3

LEMMA LeastIndex ==
    ASSUME NEW T, T \subseteq Nat, T # {}
    PROVE  \E i \in T : \A j \in T : ~ j < i
<1>1. PICK i \in T : \A j \in T : ~ (<<j, i>> \in OpToRel(<, Nat))
  BY NatLessThanWellFounded, WFMin
<1>2. ASSUME NEW j \in T, j < i PROVE FALSE
  <2>1. <<j, i>> \in OpToRel(<, Nat)
    BY <1>2 DEF OpToRel
  <2>2. QED BY <1>1, <2>1
<1>3. QED BY <1>2

\* Two lists without duplicates, and without a common element.
LEMMA Concatenated ==
    ASSUME NEW S, NEW s \in Seq(S), NEW t \in Seq(S), IsInjective(s), IsInjective(t),
           ToSet(s) \cap ToSet(t) = {}
    PROVE  s \o t \in Seq(S) /\ IsInjective(s \o t) /\ ToSet(s \o t) = ToSet(s) \cup ToSet(t)
<1> DEFINE m == Len(s)
           n == Len(t)
<1>1. /\ s \o t \in Seq(S) /\ m \in Nat /\ n \in Nat /\ Len(s \o t) = m + n
      /\ DOMAIN s = 1 .. m /\ DOMAIN t = 1 .. n /\ DOMAIN (s \o t) = 1 .. m + n
      /\ \A i \in 1 .. m + n : (s \o t)[i] = IF i <= m THEN s[i] ELSE t[i - m]
  BY ConcatProperties
<1> HIDE DEF m, n
<1>2. \A i \in 1 .. m + n : i <= m => i \in 1 .. m /\ (s \o t)[i] = s[i]
  BY <1>1
<1>3. \A i \in 1 .. m + n : ~ i <= m => i - m \in 1 .. n /\ (s \o t)[i] = t[i - m]
  BY <1>1
<1>4. \A i \in 1 .. n : i + m \in 1 .. m + n /\ ~ i + m <= m /\ (i + m) - m = i
  BY <1>1
<1>5. \A i \in 1 .. m : i \in 1 .. m + n /\ i <= m
  BY <1>1
<1>6. ToSet(s \o t) = ToSet(s) \cup ToSet(t)
  <2>1. ASSUME NEW i \in 1 .. m + n PROVE (s \o t)[i] \in ToSet(s) \cup ToSet(t)
    BY <1>1, <1>2, <1>3 DEF ToSet
  <2>2. ASSUME NEW i \in 1 .. m PROVE s[i] \in ToSet(s \o t)
    BY <1>1, <1>2, <1>5 DEF ToSet
  <2>3. ASSUME NEW i \in 1 .. n PROVE t[i] \in ToSet(s \o t)
    <3>1. (s \o t)[i + m] = t[i]
      BY <1>3, <1>4
    <3>2. QED BY <1>1, <1>4, <3>1 DEF ToSet
  <2>4. QED BY <1>1, <2>1, <2>2, <2>3, ZenonT(60) DEF ToSet
<1>7. ASSUME NEW i \in 1 .. m + n, NEW j \in 1 .. m + n, (s \o t)[i] = (s \o t)[j] PROVE i = j
  <2>1. \A k \in 1 .. m : s[k] \in ToSet(s)
    BY <1>1 DEF ToSet
  <2>2. \A k \in 1 .. n : t[k] \in ToSet(t)
    BY <1>1 DEF ToSet
  <2>3. CASE i <= m /\ j <= m
    BY <1>1, <1>2, <1>7, <2>3 DEF IsInjective
  <2>4. CASE ~ i <= m /\ ~ j <= m
    <3>1. i - m = j - m
      BY <1>1, <1>3, <1>7, <2>4, ZenonT(60) DEF IsInjective
    <3>2. QED BY <1>1, <3>1
  <2>5. (i <= m) <=> (j <= m)
    <3>1. CASE i <= m /\ ~ j <= m
      BY <1>2, <1>3, <1>7, <2>1, <2>2, <3>1
    <3>2. CASE ~ i <= m /\ j <= m
      BY <1>2, <1>3, <1>7, <2>1, <2>2, <3>2
    <3>3. QED BY <3>1, <3>2
  <2>6. QED BY <2>3, <2>4, <2>5
<1>8. QED BY <1>1, <1>6, <1>7 DEF IsInjective

\* flatten[i] of FlattenSeq, once i lists were joined.
Step(g, lists, i) == IF i = 1 THEN lists[i] ELSE g[i - 1] \o lists[i]
IsFlat(g, lists, m) == g = [i \in 1 .. m |-> Step(g, lists, i)]

LEMMA FlatExists ==
    ASSUME NEW lists, NEW m \in Nat
    PROVE  \E g : IsFlat(g, lists, m)
<1> DEFINE Lacks(i) == ~ \E g : IsFlat(g, lists, i)
<1> SUFFICES ASSUME {i \in Nat : Lacks(i)} # {} PROVE FALSE
  OBVIOUS
<1>1. PICK i \in {n \in Nat : Lacks(n)} : \A j \in {n \in Nat : Lacks(n)} : ~ j < i
  BY LeastIndex
<1>2. i \in Nat /\ Lacks(i) /\ \A j \in Nat : j < i => ~Lacks(j)
  BY <1>1
<1>3. CASE i = 0
  <2>1. IsFlat([n \in 1 .. 0 |-> <<>>], lists, 0)
    BY DEF IsFlat, Step
  <2>2. QED BY <1>2, <1>3, <2>1
<1>4. CASE i # 0
  <2>1. i - 1 \in Nat /\ i - 1 < i
    BY <1>2, <1>4
  <2>2. PICK g : IsFlat(g, lists, i - 1)
    BY <1>2, <2>1
  <2> DEFINE h == [n \in 1 .. i |-> IF n = i THEN Step(g, lists, i) ELSE g[n]]
  <2>3. \A n \in 1 .. i - 1 : g[n] = Step(g, lists, n)
    BY <2>2 DEF IsFlat
  <2>4. \A n \in 1 .. i : n # 1 => h[n - 1] = g[n - 1]
    BY <1>2
  <2>5. \A n \in 1 .. i : h[n] = Step(g, lists, n)
    BY <1>2, <2>3
  <2>6. \A n \in 1 .. i : Step(h, lists, n) = Step(g, lists, n)
    BY <2>4 DEF Step
  <2>7. h = [n \in 1 .. i |-> Step(h, lists, n)]
    BY <2>5, <2>6
  <2>8. QED BY <1>2, <2>7 DEF IsFlat
<1>5. QED BY <1>3, <1>4

\* Lists without duplicates and without common elements, joined.
Apart(lists, m) == /\ \A i \in 1 .. m : IsInjective(lists[i])
                   /\ \A i, j \in 1 .. m : i # j => ToSet(lists[i]) \cap ToSet(lists[j]) = {}
Elements(lists, n) == UNION {ToSet(lists[i]) : i \in 1 .. n}

LEMMA Flattened ==
    ASSUME NEW S, NEW m \in Nat, NEW lists \in [1 .. m -> Seq(S)], Apart(lists, m)
    PROVE  /\ FlattenSeq(lists) \in Seq(S) /\ IsInjective(FlattenSeq(lists))
           /\ ToSet(FlattenSeq(lists)) = Elements(lists, m)
<1>0. /\ \A i \in 1 .. m : IsInjective(lists[i])
      /\ \A i, j \in 1 .. m : i # j => ToSet(lists[i]) \cap ToSet(lists[j]) = {}
  BY DEF Apart
<1>1. lists \in Seq(Seq(S)) /\ Len(lists) = m /\ DOMAIN lists = 1 .. m
  <2>1. lists \in Seq(Seq(S))
    BY IsASeq
  <2>2. QED BY <2>1, LenProperties
<1>2. CASE m = 0
  <2>1. lists = <<>>
    BY <1>1, <1>2
  <2>2. FlattenSeq(lists) = <<>>
    BY <1>1, <1>2, <2>1 DEF FlattenSeq
  <2>3. ToSet(<<>>) = {} /\ IsInjective(<<>>)
    BY DEF ToSet, IsInjective
  <2>4. Elements(lists, m) = {}
    <3>1. (1 .. m) = {}
      BY <1>2
    <3>2. QED BY <3>1, Zenon DEF Elements
  <2>5. QED BY <2>2, <2>3, <2>4
<1>3. CASE m # 0
  <2> DEFINE g == CHOOSE f : IsFlat(f, lists, m)
  <2>1. FlattenSeq(lists) = g[m]
    BY <1>1, <1>3 DEF FlattenSeq, IsFlat, Step
  <2>2. IsFlat(g, lists, m)
    BY FlatExists
  <2> HIDE DEF g
  <2>3. \A i \in 1 .. m : g[i] = Step(g, lists, i)
    BY <2>2 DEF IsFlat
  <2> DEFINE In(n) == Elements(lists, n)
             Good(n) == g[n] \in Seq(S) /\ IsInjective(g[n]) /\ ToSet(g[n]) = In(n)
  <2>4. Good(1)
    <3>1. 1 \in 1 .. m /\ (1 .. 1) = {1}
      BY <1>3
    <3>2. g[1] = lists[1]
      BY <2>3, <3>1 DEF Step
    <3>3. In(1) = ToSet(lists[1])
      BY <3>1 DEF Elements
    <3>4. QED BY <1>0, <3>1, <3>2, <3>3
  <2>5. ASSUME NEW n \in 2 .. m, Good(n - 1) PROVE Good(n)
    <3>1. n - 1 \in Nat /\ n \in 1 .. m /\ (1 .. n) = (1 .. n - 1) \cup {n} /\ n # 1 /\ (1 .. n - 1) \subseteq 1 .. m
          /\ n \notin 1 .. n - 1
      OBVIOUS
    <3>2. g[n] = g[n - 1] \o lists[n]
      BY <2>3, <3>1 DEF Step
    <3>3. In(n) = In(n - 1) \cup ToSet(lists[n])
      BY <3>1 DEF Elements
    <3>4. In(n - 1) \cap ToSet(lists[n]) = {}
      BY <1>0, <3>1 DEF Elements
    <3>5. g[n - 1] \in Seq(S) /\ IsInjective(g[n - 1]) /\ ToSet(g[n - 1]) = In(n - 1)
      BY <2>5
    <3>6. lists[n] \in Seq(S) /\ IsInjective(lists[n])
      BY <1>0, <3>1
    <3> HIDE DEF In
    <3>7. /\ g[n - 1] \o lists[n] \in Seq(S) /\ IsInjective(g[n - 1] \o lists[n])
          /\ ToSet(g[n - 1] \o lists[n]) = In(n - 1) \cup ToSet(lists[n])
      BY <3>4, <3>5, <3>6, Concatenated
    <3>8. QED BY <3>2, <3>3, <3>7
  <2>6. \A n \in 1 .. m : Good(n)
    <3> DEFINE bad == {n \in 1 .. m : ~Good(n)}
    <3> HIDE DEF Good
    <3> SUFFICES ASSUME bad # {} PROVE FALSE
      OBVIOUS
    <3>0. bad \subseteq Nat
      OBVIOUS
    <3>1. PICK i \in bad : \A j \in bad : ~ j < i
      BY <3>0, LeastIndex
    <3>2. i # 1
      BY <2>4, <3>1
    <3>3. i \in 2 .. m /\ i - 1 \in 1 .. m /\ i - 1 < i
      BY <3>1, <3>2
    <3>4. Good(i - 1)
      BY <3>1, <3>3
    <3>5. QED BY <2>5, <3>1, <3>3, <3>4
  <2>7. Good(m)
    <3>1. m \in 1 .. m
      BY <1>3
    <3> HIDE DEF Good
    <3>2. QED BY <2>6, <3>1
  <2>8. QED BY <2>1, <2>7
<1>4. QED BY <1>2, <1>3

\* What is kept of a list without duplicates are its elements in T, once.
LEMMA KeptElements ==
    ASSUME NEW S, NEW list \in Seq(S), IsInjective(list), NEW T
    PROVE  /\ Kept(list, T) \in Seq(S) /\ IsInjective(Kept(list, T))
           /\ ToSet(Kept(list, T)) = ToSet(list) \cap T
<1> DEFINE m == Len(list)
           lists == [n \in 1 .. m |-> IF list[n] \in T THEN <<list[n]>> ELSE <<>>]
<1>1. m \in Nat /\ DOMAIN list = 1 .. m /\ \A n \in 1 .. m : list[n] \in S
  BY LenProperties, ElementOfSeq
<1>2. Kept(list, T) = FlattenSeq(lists)
  BY <1>1 DEF Kept
<1>3. ToSet(<<>>) = {} /\ IsInjective(<<>>) /\ \A x : ToSet(<<x>>) = {x} /\ IsInjective(<<x>>)
  BY DEF ToSet, IsInjective
<1>4. \A n \in 1 .. m : lists[n] = IF list[n] \in T THEN <<list[n]>> ELSE <<>>
  OBVIOUS
<1>5. \A n \in 1 .. m : ToSet(lists[n]) = {list[n]} \cap T /\ IsInjective(lists[n])
  BY <1>3, <1>4
<1>6. lists \in [1 .. m -> Seq(S)]
  BY <1>1
<1>7. \A i, j \in 1 .. m : i # j => list[i] # list[j]
  BY <1>1 DEF IsInjective
<1> HIDE DEF lists, m
<1>8. \A i, j \in 1 .. m : i # j => ToSet(lists[i]) \cap ToSet(lists[j]) = {}
  BY <1>5, <1>7
<1>9. /\ FlattenSeq(lists) \in Seq(S) /\ IsInjective(FlattenSeq(lists))
      /\ ToSet(FlattenSeq(lists)) = Elements(lists, m)
  <2>1. Apart(lists, m)
    BY <1>5, <1>8 DEF Apart
  <2>2. QED BY <1>1, <1>6, <2>1, Flattened
<1>10. Elements(lists, m) = ToSet(list) \cap T
  <2>1. ToSet(list) = {list[i] : i \in 1 .. m}
    BY <1>1 DEF ToSet
  <2>2. QED BY <1>5, <2>1 DEF Elements
<1>11. QED BY <1>2, <1>9, <1>10

\* Appending, and the first element shifted out.
LEMMA AppendNew ==
    ASSUME NEW S, NEW s \in Seq(S), NEW e \in S, IsInjective(s), e \notin ToSet(s)
    PROVE  Append(s, e) \in Seq(S) /\ IsInjective(Append(s, e)) /\ ToSet(Append(s, e)) = ToSet(s) \cup {e}
<1>1. /\ Append(s, e) \in Seq(S) /\ Len(Append(s, e)) = Len(s) + 1
      /\ \A i \in 1 .. Len(s) : Append(s, e)[i] = s[i]
      /\ Append(s, e)[Len(s) + 1] = e
  BY AppendProperties
<1>2. DOMAIN s = 1 .. Len(s) /\ DOMAIN Append(s, e) = (1 .. Len(s)) \cup {Len(s) + 1}
  BY <1>1
<1>3. IsInjective(Append(s, e))
  BY <1>1, <1>2 DEF IsInjective, ToSet
<1>4. ToSet(Append(s, e)) = ToSet(s) \cup {e}
  BY <1>1, <1>2 DEF ToSet
<1>5. QED BY <1>1, <1>3, <1>4

LEMMA HeadLeaves ==
    ASSUME NEW S, NEW s \in Seq(S), s # <<>>
    PROVE  /\ Head(s) \in S /\ Tail(s) \in Seq(S) /\ Head(s) \in ToSet(s)
           /\ ToSet(Tail(s)) \subseteq ToSet(s)
           /\ ToSet(s) = ToSet(Tail(s)) \cup {Head(s)}
           /\ IsInjective(s) => IsInjective(Tail(s)) /\ Head(s) \notin ToSet(Tail(s))
<1> DEFINE n == Len(s)
<1>1. /\ n \in Nat /\ n > 0 /\ DOMAIN s = 1 .. n /\ Head(s) = s[1] /\ Head(s) \in S
      /\ Tail(s) \in Seq(S) /\ DOMAIN Tail(s) = 1 .. n - 1
      /\ \A i \in 1 .. n - 1 : Tail(s)[i] = s[i + 1]
  OBVIOUS
<1> HIDE DEF n
<1>2. Head(s) \in ToSet(s)
  BY <1>1 DEF ToSet
<1>3. \A i \in 1 .. n - 1 : i + 1 \in 1 .. n /\ i + 1 # 1
  BY <1>1
<1>4. ToSet(Tail(s)) \subseteq ToSet(s)
  BY <1>1, <1>3 DEF ToSet
<1>5. ASSUME NEW x \in ToSet(s), x # Head(s) PROVE x \in ToSet(Tail(s))
  <2>1. PICK i \in 1 .. n : s[i] = x
    BY <1>1, <1>5 DEF ToSet
  <2>2. i - 1 \in 1 .. n - 1 /\ (i - 1) + 1 = i
    BY <1>1, <1>5, <2>1
  <2>3. Tail(s)[i - 1] = x
    BY <1>1, <2>1, <2>2
  <2>4. QED BY <1>1, <2>2, <2>3 DEF ToSet
<1>6. ASSUME IsInjective(s) PROVE IsInjective(Tail(s)) /\ Head(s) \notin ToSet(Tail(s))
  <2>1. \A i, j \in 1 .. n : s[i] = s[j] => i = j
    BY <1>1, <1>6 DEF IsInjective
  <2>2. ASSUME NEW i \in 1 .. n - 1, NEW j \in 1 .. n - 1, Tail(s)[i] = Tail(s)[j] PROVE i = j
    <3>1. i + 1 \in 1 .. n /\ j + 1 \in 1 .. n /\ s[i + 1] = s[j + 1]
      BY <1>1, <1>3, <2>2
    <3>2. QED BY <2>1, <3>1
  <2>3. ASSUME NEW i \in 1 .. n - 1 PROVE Tail(s)[i] # Head(s)
    <3>1. i + 1 \in 1 .. n /\ 1 \in 1 .. n /\ i + 1 # 1
      BY <1>1, <1>3
    <3>2. s[i + 1] # s[1]
      BY <2>1, <3>1
    <3>3. QED BY <1>1, <3>2
  <2>4. QED BY <1>1, <2>2, <2>3 DEF IsInjective, ToSet
<1>7. QED BY <1>1, <1>2, <1>4, <1>5, <1>6

LEMMA EmptyList == ToSet(<<>>) = {} /\ IsInjective(<<>>)
BY DEF ToSet, IsInjective

LEMMA ElementsOf == ASSUME NEW S, NEW s \in Seq(S) PROVE ToSet(s) \subseteq S
BY ElementOfSeq DEF ToSet

\* The innermost emission, changed or ended.
LEMMA TopIs ==
    ASSUME stack \in Seq(Frame), stack # <<>>
    PROVE  /\ Len(stack) \in Nat \ {0} /\ DOMAIN stack = 1 .. Len(stack)
           /\ Last(stack) = stack[Len(stack)] /\ Last(stack) \in Frame
           /\ Front(stack) \in Seq(Frame) /\ Len(Front(stack)) = Len(stack) - 1
           /\ \A i \in 1 .. Len(stack) - 1 : Front(stack)[i] = stack[i]
<1>1. Len(stack) \in Nat \ {0} /\ DOMAIN stack = 1 .. Len(stack)
  BY EmptySeq, LenProperties
<1>2. Len(stack) \in 1 .. Len(stack)
  BY <1>1
<1>3. Last(stack) = stack[Len(stack)] /\ Last(stack) \in Frame
  BY <1>2, ElementOfSeq DEF Last
<1>4. Front(stack) = SubSeq(stack, 1, Len(stack) - 1)
  BY DEF Front
<1>5. Front(stack) = [i \in 1 .. Len(stack) - 1 |-> stack[i]]
  BY <1>1, <1>4, SubSeqProperties
<1>6. \A i \in 1 .. Len(stack) - 1 : stack[i] \in Frame
  BY <1>1, ElementOfSeq
<1>7. Front(stack) \in Seq(Frame)
  BY <1>1, <1>5, <1>6, IsASeq
<1>8. Len(Front(stack)) = Len(stack) - 1
  BY <1>1, <1>5, <1>7, LenProperties
<1>9. QED BY <1>1, <1>3, <1>5, <1>7, <1>8

LEMMA TopSet ==
    ASSUME stack \in Seq(Frame), stack # <<>>, NEW f \in Frame, SetTop(f)
    PROVE  /\ stack' \in Seq(Frame) /\ Len(stack') = Len(stack) /\ DOMAIN stack' = 1 .. Len(stack)
           /\ stack'[Len(stack)] = f
           /\ \A i \in 1 .. Len(stack) : i # Len(stack) => stack'[i] = stack[i]
<1> DEFINE n == Len(stack)
<1>1. /\ n \in Nat \ {0} /\ Front(stack) \in Seq(Frame) /\ Len(Front(stack)) = n - 1
      /\ \A i \in 1 .. n - 1 : Front(stack)[i] = stack[i]
  BY TopIs
<1>2. stack' = Append(Front(stack), f)
  BY DEF SetTop
<1> HIDE DEF n
<1>3. /\ stack' \in Seq(Frame) /\ Len(stack') = (n - 1) + 1
      /\ \A i \in 1 .. n - 1 : stack'[i] = Front(stack)[i]
      /\ stack'[(n - 1) + 1] = f
  BY <1>1, <1>2, AppendProperties
<1>4. (n - 1) + 1 = n /\ \A i \in 1 .. n : i # n => i \in 1 .. n - 1
  BY <1>1
<1>5. DOMAIN stack' = 1 .. n
  BY <1>3, <1>4, LenProperties
<1>6. QED BY <1>1, <1>3, <1>4, <1>5 DEF n

\* At most the emissions in progress hold a handler.
LEMMA HoldingCounts ==
    ASSUME stack \in Seq(Frame), NEW r
    PROVE  /\ IsFiniteSet(Holding(r)) /\ Cardinality(Holding(r)) \in Nat
           /\ Cardinality(Holding(r)) <= Len(stack)
<1>1. Len(stack) \in Nat /\ DOMAIN stack = 1 .. Len(stack)
  BY LenProperties
<1>2. Holding(r) \subseteq 1 .. Len(stack)
  BY <1>1 DEF Holding
<1>3. IsFiniteSet(1 .. Len(stack)) /\ Cardinality(1 .. Len(stack)) = Len(stack)
  BY <1>1, FS_Interval
<1>4. IsFiniteSet(Holding(r)) /\ Cardinality(Holding(r)) <= Cardinality(1 .. Len(stack))
  BY <1>2, <1>3, FS_Subset
<1>5. QED BY <1>3, <1>4, FS_CardinalityType

-----------------------------------------------------------------------------
LEMMA InitInv == Init => Inv
<1> SUFFICES ASSUME Init PROVE Inv
  OBVIOUS
<1>1. Mapped
  <2>1. \A e \in Events : handlers[e] = <<>>
    BY DEF Init
  <2>2. Registered = {} /\ Live = {}
    BY <2>1, EmptyList DEF Init, Registered, Live
  <2>3. names = <<>> /\ handlers \in [Events -> Seq(Regs)] /\ handle \in [Regs -> {"none", "live", "disposed"}]
    BY EmptySeq DEF Init
  <2>4. \A e \in Events : IsInjective(handlers[e]) /\ ToSet(handlers[e]) = {}
    BY <2>1, EmptyList
  <2>5. ToSet(names) = {e \in Events : handlers[e] # <<>>} /\ IsInjective(names) /\ names \in Seq(Events)
    BY <2>1, <2>3, EmptyList, EmptySeq
  <2>6. QED BY <2>2, <2>3, <2>4, <2>5 DEF Mapped
<1>2. Snapshots
  <2>1. stack = <<>> /\ stack \in Seq(Frame) /\ Len(stack) = 0 /\ DOMAIN stack = {}
    BY EmptySeq DEF Init
  <2>2. QED BY <2>1, EmitterAssumption DEF Snapshots
<1>3. Counted
  BY EmitterAssumption DEF Init, Counted, Numbered
<1>4. Closing
  BY DEF Init, Closing
<1>5. QED BY <1>1, <1>2, <1>3, <1>4 DEF Inv

\* off() takes the handlers of S, and nothing else.
LEMMA OffMapped ==
    ASSUME Mapped, NEW S, Off(S), handle' \in [Regs -> {"none", "live", "disposed"}],
           disposed' = disposed, ~disposed => Live' = Live \ S
    PROVE  Mapped' /\ Registered' = Registered \ S
<1>1. ASSUME NEW e \in Events
      PROVE  /\ handlers'[e] \in Seq(Regs) /\ IsInjective(handlers'[e])
             /\ ToSet(handlers'[e]) = ToSet(handlers[e]) \ S
  <2>1. handlers[e] \in Seq(Regs) /\ IsInjective(handlers[e]) /\ handlers'[e] = Kept(handlers[e], Regs \ S)
    BY DEF Mapped, Off
  <2>2. ToSet(handlers[e]) \subseteq Regs
    BY <2>1, ElementsOf
  <2>3. QED BY <2>1, <2>2, KeptElements
<1>2. handlers' \in [Events -> Seq(Regs)]
  BY <1>1 DEF Off
<1>3. /\ names' \in Seq(Events) /\ IsInjective(names')
      /\ ToSet(names') = ToSet(names) \cap {e \in Events : ToSet(handlers[e]) \ S # {}}
  BY KeptElements DEF Mapped, Off
<1>4. ToSet(names') = {e \in Events : handlers'[e] # <<>>}
  <2>1. \A e \in Events : handlers'[e] # <<>> <=> ToSet(handlers[e]) \ S # {}
    BY <1>1, NotEmpty
  <2>2. \A e \in Events : ToSet(handlers[e]) \ S # {} => handlers[e] # <<>>
    BY NotEmpty DEF Mapped
  <2>3. QED BY <1>3, <2>1, <2>2 DEF Mapped
<1>5. Registered' = Registered \ S
  BY <1>1 DEF Registered
<1>6. \A d, e \in Events : d # e => ToSet(handlers'[d]) \cap ToSet(handlers'[e]) = {}
  BY <1>1 DEF Mapped
<1>7. Registered' = IF disposed' THEN {} ELSE Live'
  BY <1>5 DEF Mapped
<1>8. QED BY <1>1, <1>2, <1>3, <1>4, <1>5, <1>6, <1>7 DEF Mapped

\* What registers, removes or disposes calls no handler.
LEMMA EmissionsRest ==
    ASSUME Inv, UNCHANGED <<stack, left, completed>>,
           \A r \in Regs : /\ handle'[r] = "none" => handle[r] = "none"
                           /\ handle'[r] = "live" => handle[r] \in {"live", "none"}
    PROVE  Snapshots' /\ Counted'
<1>1. Snapshots'
  <2>1. \A i \in DOMAIN stack : stack[i] \in Frame
    BY ElementOfSeq, LenProperties DEF Inv, Snapshots
  <2>2. \A i \in DOMAIN stack : Ahead(stack[i]) \ {NoHandler} \subseteq Regs
    BY <2>1, ElementsOf DEF Frame, Ahead
  <2>3. QED BY <2>2 DEF Inv, Snapshots, Ahead
<1>2. Counted'
  <2>1. \A r : Holding(r)' = Holding(r)
    BY DEF Holding, Ahead
  <2>2. QED BY <2>1, EmitterAssumption DEF Inv, Counted, Numbered
<1>3. QED BY <1>1, <1>2

LEMMA OnInv == ASSUME Inv, NEW r \in Regs, NEW e \in Events, On(r, e) PROVE Inv'
<1>1. /\ ~disposed /\ handle[r] = "none" /\ handle' = [handle EXCEPT ![r] = "live"]
      /\ names' = IF e \in ToSet(names) THEN names ELSE Append(names, e)
      /\ handlers' = [handlers EXCEPT ![e] = Append(handlers[e], r)]
      /\ late' = IF closing THEN late \cup {r} ELSE late
      /\ UNCHANGED <<left, stack, closing, disposed, completed>>
  BY DEF On
<1>2. /\ handlers[e] \in Seq(Regs) /\ IsInjective(handlers[e]) /\ Registered = Live
      /\ handle \in [Regs -> {"none", "live", "disposed"}] /\ handlers \in [Events -> Seq(Regs)]
  BY <1>1 DEF Inv, Mapped
<1>3. r \notin Registered
  BY <1>1, <1>2 DEF Live
<1>4. \A d \in Events : r \notin ToSet(handlers[d])
  BY <1>3 DEF Registered
<1>5. /\ handlers'[e] \in Seq(Regs) /\ IsInjective(handlers'[e])
      /\ ToSet(handlers'[e]) = ToSet(handlers[e]) \cup {r}
      /\ \A d \in Events : d # e => handlers'[d] = handlers[d]
  BY <1>1, <1>2, <1>4, AppendNew
<1>6. Registered' = Registered \cup {r}
  <2>1. Registered' = UNION {ToSet(handlers'[d]) : d \in Events}
    BY DEF Registered
  <2>2. \A d \in Events : ToSet(handlers'[d]) = IF d = e THEN ToSet(handlers[e]) \cup {r} ELSE ToSet(handlers[d])
    BY <1>5
  <2>3. QED BY <2>1, <2>2 DEF Registered
<1>7. Live' = Live \cup {r}
  BY <1>1, <1>2 DEF Live
<1>8. names' \in Seq(Events) /\ IsInjective(names') /\ ToSet(names') = ToSet(names) \cup {e}
  BY <1>1, AppendNew DEF Inv, Mapped
<1>9. ToSet(names') = {d \in Events : handlers'[d] # <<>>}
  <2>1. handlers'[e] # <<>>
    BY <1>5, NotEmpty
  <2>2. QED BY <1>5, <1>8, <2>1 DEF Inv, Mapped
<1>10. Mapped'
  <2>1. handlers' \in [Events -> Seq(Regs)] /\ \A d \in Events : IsInjective(handlers'[d])
    BY <1>1, <1>2, <1>5 DEF Inv, Mapped
  <2>2. \A c, d \in Events : c # d => ToSet(handlers'[c]) \cap ToSet(handlers'[d]) = {}
    BY <1>4, <1>5 DEF Inv, Mapped
  <2>3. handle' \in [Regs -> {"none", "live", "disposed"}]
    BY <1>1, <1>2
  <2>4. Registered' = IF disposed' THEN {} ELSE Live'
    BY <1>1, <1>2, <1>6, <1>7
  <2>5. QED BY <1>8, <1>9, <2>1, <2>2, <2>3, <2>4 DEF Mapped
<1>11. Snapshots' /\ Counted'
  BY <1>1, <1>2, EmissionsRest
<1>12. Closing'
  BY <1>1, <1>6 DEF Inv, Closing
<1>13. QED BY <1>10, <1>11, <1>12 DEF Inv

LEMMA DisposeHandleInv == ASSUME Inv, NEW r \in Regs, DisposeHandle(r) PROVE Inv'
<1>1. /\ handle' = [handle EXCEPT ![r] = "disposed"] /\ Off({r})
      /\ UNCHANGED <<left, stack, closing, disposed, late, completed>>
  BY DEF DisposeHandle
<1>2. handle \in [Regs -> {"none", "live", "disposed"}] /\ Mapped
  BY DEF Inv, Mapped
<1>3. handle' \in [Regs -> {"none", "live", "disposed"}] /\ Live' = Live \ {r}
  BY <1>1, <1>2 DEF Live
<1>4. Mapped' /\ Registered' = Registered \ {r}
  BY <1>1, <1>2, <1>3, OffMapped
<1>5. Snapshots' /\ Counted'
  BY <1>1, <1>2, EmissionsRest
<1>6. QED BY <1>1, <1>4, <1>5 DEF Inv, Closing

LEMMA DisposeInv == ASSUME Inv, Dispose PROVE Inv'
<1>1. /\ ~disposed /\ closing' = TRUE /\ Off(Live)
      /\ handle' = [r \in Regs |-> IF r \in Live THEN "disposed" ELSE handle[r]]
      /\ UNCHANGED <<left, stack, disposed, late, completed>>
  BY DEF Dispose
<1>2. handle \in [Regs -> {"none", "live", "disposed"}] /\ Mapped /\ Registered = Live
  BY <1>1 DEF Inv, Mapped
<1>3. handle' \in [Regs -> {"none", "live", "disposed"}] /\ Live' = Live \ Live
  BY <1>1, <1>2 DEF Live
<1>4. Mapped' /\ Registered' = Registered \ Live
  BY <1>1, <1>2, <1>3, OffMapped
<1>5. Snapshots' /\ Counted'
  BY <1>1, <1>2, EmissionsRest
<1>6. QED BY <1>1, <1>2, <1>4, <1>5 DEF Inv, Closing

LEMMA DisposedInv == ASSUME Inv, Disposed PROVE Inv'
<1>1. /\ closing' = FALSE /\ disposed' = TRUE /\ names' = <<>> /\ handlers' = [e \in Events |-> <<>>]
      /\ UNCHANGED <<handle, left, stack, late, completed>>
  BY DEF Disposed
<1>2. Registered' = {}
  <2>1. Registered' = UNION {ToSet(handlers'[e]) : e \in Events}
    BY DEF Registered
  <2>2. \A e \in Events : ToSet(handlers'[e]) = {}
    BY <1>1, EmptyList
  <2>3. QED BY <2>1, <2>2
<1>3. Mapped'
  <2>1. \A e \in Events : handlers'[e] = <<>> /\ IsInjective(handlers'[e]) /\ ToSet(handlers'[e]) = {}
    BY <1>1, EmptyList
  <2>2. handlers' \in [Events -> Seq(Regs)] /\ names' \in Seq(Events) /\ IsInjective(names')
    BY <1>1, EmptyList, EmptySeq
  <2>3. ToSet(names') = {e \in Events : handlers'[e] # <<>>}
    BY <1>1, <2>1, EmptyList
  <2>4. QED BY <1>1, <1>2, <2>1, <2>2, <2>3 DEF Inv, Mapped
<1>4. Snapshots' /\ Counted'
  BY <1>1, EmissionsRest DEF Inv, Mapped
<1>5. QED BY <1>1, <1>2, <1>3, <1>4 DEF Inv, Closing

-----------------------------------------------------------------------------
\* The snapshot has registered handlers, each once.
Snapshot(p) == LET matched == Kept(names, p) IN FlattenSeq([i \in DOMAIN matched |-> handlers[matched[i]]])

LEMMA SnapshotIs ==
    ASSUME Mapped, NEW p
    PROVE  Snapshot(p) \in Seq(Regs) /\ IsInjective(Snapshot(p)) /\ ToSet(Snapshot(p)) \subseteq Registered
<1> DEFINE matched == Kept(names, p)
           m == Len(matched)
           lists == [i \in 1 .. m |-> handlers[matched[i]]]
<1>1. matched \in Seq(Events) /\ IsInjective(matched)
  BY KeptElements DEF Mapped
<1> HIDE DEF matched
<1>2. m \in Nat /\ DOMAIN matched = 1 .. m /\ \A i \in 1 .. m : matched[i] \in Events
  BY <1>1, LenProperties, ElementOfSeq
<1>3. Snapshot(p) = FlattenSeq(lists)
  BY <1>2 DEF Snapshot, matched
<1>4. \A i \in 1 .. m : lists[i] = handlers[matched[i]] /\ lists[i] \in Seq(Regs) /\ IsInjective(lists[i])
  BY <1>2 DEF Mapped
<1>5. \A i, j \in 1 .. m : i # j => matched[i] # matched[j]
  BY <1>1, <1>2 DEF IsInjective
<1>6. \A i, j \in 1 .. m : i # j => ToSet(lists[i]) \cap ToSet(lists[j]) = {}
  BY <1>2, <1>4, <1>5 DEF Mapped
<1>7. lists \in [1 .. m -> Seq(Regs)]
  BY <1>4
<1>8. \A i \in 1 .. m : ToSet(lists[i]) \subseteq Registered
  BY <1>2, <1>4 DEF Registered
<1> HIDE DEF lists, m
<1>9. Apart(lists, m)
  BY <1>4, <1>6 DEF Apart
<1>10. /\ FlattenSeq(lists) \in Seq(Regs) /\ IsInjective(FlattenSeq(lists))
       /\ ToSet(FlattenSeq(lists)) = Elements(lists, m)
  BY <1>2, <1>7, <1>9, Flattened
<1>11. Elements(lists, m) \subseteq Registered
  BY <1>8 DEF Elements
<1>12. QED BY <1>3, <1>10, <1>11

LEMMA MapRests ==
    ASSUME Inv, UNCHANGED <<names, handlers, handle, disposed, late, closing>>
    PROVE  Mapped' /\ Closing'
<1>1. Registered' = Registered /\ Live' = Live
  BY DEF Registered, Live
<1>2. QED BY <1>1 DEF Inv, Mapped, Closing

LEMMA EmitInv == ASSUME Inv, NEW p, Emit(p) PROVE Inv'
<1> DEFINE f == [running |-> NoHandler, todo |-> Snapshot(p)]
           n == Len(stack)
<1>1. /\ ~disposed /\ n < MaxDepth /\ stack' = Append(stack, f)
      /\ UNCHANGED <<names, handlers, handle, left, closing, disposed, late, completed>>
  BY DEF Emit, Snapshot
<1>2. Snapshot(p) \in Seq(Regs) /\ IsInjective(Snapshot(p)) /\ ToSet(Snapshot(p)) \subseteq Registered
  BY SnapshotIs DEF Inv
<1>3. f \in Frame /\ f.todo = Snapshot(p) /\ f.running = NoHandler
  BY <1>2 DEF Frame
<1>4. Registered = Live
  BY <1>1 DEF Inv, Mapped
<1> HIDE DEF f
<1>5. stack \in Seq(Frame) /\ n \in Nat /\ DOMAIN stack = 1 .. n
  BY LenProperties DEF Inv, Snapshots
<1>6. /\ stack' \in Seq(Frame) /\ Len(stack') = n + 1 /\ stack'[n + 1] = f
      /\ \A i \in 1 .. n : stack'[i] = stack[i]
  BY <1>1, <1>3, <1>5, AppendProperties
<1>7. DOMAIN stack' = (1 .. n) \cup {n + 1}
  BY <1>5, <1>6, LenProperties
<1>8. NoHandler \notin ToSet(f.todo) /\ \A r \in ToSet(f.todo) : handle[r] = "live" /\ r \in Regs
  BY <1>2, <1>3, <1>4, EmitterAssumption DEF Live
<1>9. Snapshots'
  <2>1. Len(stack') <= MaxDepth
    BY <1>1, <1>5, <1>6, EmitterAssumption
  <2>2. ASSUME NEW i \in DOMAIN stack'
        PROVE  /\ IsInjective(stack'[i].todo) /\ stack'[i].running \notin ToSet(stack'[i].todo)
               /\ \A r \in Ahead(stack'[i]) \ {NoHandler} : handle'[r] # "none"
    <3>1. CASE i \in 1 .. n
      BY <1>1, <1>5, <1>6, <3>1 DEF Inv, Snapshots
    <3>2. CASE i = n + 1
      BY <1>1, <1>2, <1>3, <1>6, <1>8, <3>2 DEF Ahead
    <3>3. QED BY <1>7, <3>1, <3>2
  <2>3. QED BY <1>6, <2>1, <2>2 DEF Snapshots, Ahead
<1>10. ASSUME NEW r \in Regs, handle[r] # "live" PROVE Holding(r)' = Holding(r)
  <2>1. r \notin Ahead(f)
    BY <1>3, <1>8, <1>10, EmitterAssumption DEF Ahead
  <2>2. Holding(r)' = {i \in DOMAIN stack' : r \in Ahead(stack'[i])}
    BY DEF Holding, Ahead
  <2>3. QED BY <1>5, <1>6, <1>7, <2>1, <2>2 DEF Holding
<1>11. Counted'
  BY <1>1, <1>10 DEF Inv, Counted, Numbered
<1>12. QED BY <1>1, <1>9, <1>11, MapRests DEF Inv

LEMMA CallNextInv == ASSUME Inv, CallNext PROVE Inv'
<1> DEFINE n == Len(stack)
           todo == stack[n].todo
           f == [running |-> Head(todo), todo |-> Tail(todo)]
<1>1. stack \in Seq(Frame)
  BY DEF Inv, Snapshots
<1>2. /\ stack # <<>> /\ Last(stack).running = NoHandler /\ Last(stack).todo # <<>>
      /\ SetTop([running |-> Head(Last(stack).todo), todo |-> Tail(Last(stack).todo)])
      /\ UNCHANGED <<names, handlers, handle, left, closing, disposed, late, completed>>
  BY DEF CallNext, BetweenHandlers
<1>3. n \in Nat \ {0} /\ DOMAIN stack = 1 .. n /\ Last(stack) = stack[n] /\ stack[n] \in Frame
  BY <1>1, <1>2, TopIs
<1>4. todo \in Seq(Regs) /\ todo # <<>> /\ IsInjective(todo) /\ stack[n].running = NoHandler /\ SetTop(f)
  BY <1>2, <1>3 DEF Inv, Snapshots, Frame
<1>5. /\ Head(todo) \in Regs /\ Tail(todo) \in Seq(Regs) /\ Head(todo) \notin ToSet(Tail(todo))
      /\ IsInjective(Tail(todo)) /\ ToSet(todo) = ToSet(Tail(todo)) \cup {Head(todo)}
  BY <1>4, HeadLeaves
<1>6. f \in Frame /\ f.running = Head(todo) /\ f.todo = Tail(todo)
  BY <1>5 DEF Frame
<1>7. Ahead(stack[n]) = Ahead(f) \cup {NoHandler}
  BY <1>4, <1>5, <1>6 DEF Ahead
<1> HIDE DEF f, todo
<1>8. /\ stack' \in Seq(Frame) /\ Len(stack') = n /\ DOMAIN stack' = 1 .. n /\ stack'[n] = f
      /\ \A i \in 1 .. n : i # n => stack'[i] = stack[i]
  BY <1>1, <1>2, <1>4, <1>6, TopSet
<1> HIDE DEF n
<1>9. Snapshots'
  <2>1. ASSUME NEW i \in DOMAIN stack'
        PROVE  /\ IsInjective(stack'[i].todo) /\ stack'[i].running \notin ToSet(stack'[i].todo)
               /\ \A r \in Ahead(stack'[i]) \ {NoHandler} : handle'[r] # "none"
    <3>1. CASE i # n
      BY <1>2, <1>3, <1>8, <3>1 DEF Inv, Snapshots
    <3>2. CASE i = n
      <4>1. \A r \in Ahead(f) \ {NoHandler} : handle[r] # "none"
        BY <1>3, <1>7 DEF Inv, Snapshots
      <4>2. QED BY <1>2, <1>5, <1>6, <1>8, <3>2, <4>1
    <3>3. QED BY <3>1, <3>2
  <2>2. Len(stack') <= MaxDepth
    BY <1>8 DEF Inv, Snapshots, n
  <2>3. QED BY <1>8, <2>1, <2>2 DEF Snapshots, Ahead
<1>10. ASSUME NEW r \in Regs PROVE Holding(r)' = Holding(r)
  <2>1. \A i \in 1 .. n : r \in Ahead(stack'[i]) <=> r \in Ahead(stack[i])
    BY <1>7, <1>8, EmitterAssumption
  <2>2. Holding(r)' = {i \in DOMAIN stack' : r \in Ahead(stack'[i])}
    BY DEF Holding, Ahead
  <2>3. QED BY <1>3, <1>8, <2>1, <2>2 DEF Holding
<1>11. Counted'
  BY <1>2, <1>10 DEF Inv, Counted, Numbered
<1>12. QED BY <1>2, <1>9, <1>11, MapRests DEF Inv

\* An exception ends the innermost emission, as the end of its snapshot does.
LEMMA EndsInv == ASSUME Inv, Throws \/ EmitReturns PROVE Inv'
<1> DEFINE n == Len(stack)
<1>1. stack \in Seq(Frame)
  BY DEF Inv, Snapshots
<1>2. /\ stack # <<>> /\ stack' = Front(stack)
      /\ UNCHANGED <<names, handlers, handle, left, closing, disposed, late, completed>>
  BY DEF Throws, EmitReturns, InHandler, BetweenHandlers
<1>3. /\ n \in Nat \ {0} /\ DOMAIN stack = 1 .. n
      /\ stack' \in Seq(Frame) /\ Len(stack') = n - 1 /\ \A i \in 1 .. n - 1 : stack'[i] = stack[i]
  BY <1>1, <1>2, TopIs
<1>4. DOMAIN stack' = 1 .. n - 1 /\ DOMAIN stack' \subseteq DOMAIN stack
  BY <1>3, LenProperties
<1>5. Snapshots'
  <2>1. Len(stack') <= MaxDepth
    BY <1>3, EmitterAssumption DEF Inv, Snapshots
  <2>2. \A i \in DOMAIN stack' : stack'[i] = stack[i]
    BY <1>3, <1>4
  <2>3. QED BY <1>2, <1>3, <1>4, <2>1, <2>2 DEF Inv, Snapshots, Ahead
<1>6. ASSUME NEW r \in Regs
      PROVE  /\ Cardinality(Holding(r)') \in Nat /\ Cardinality(Holding(r)) \in Nat
             /\ Cardinality(Holding(r)') <= Cardinality(Holding(r))
  <2>1. Holding(r)' = {i \in DOMAIN stack' : r \in Ahead(stack'[i])}
    BY DEF Holding, Ahead
  <2>2. Holding(r)' \subseteq Holding(r)
    BY <1>3, <1>4, <2>1 DEF Holding
  <2>3. IsFiniteSet(Holding(r)) /\ Cardinality(Holding(r)) \in Nat
    BY <1>1, HoldingCounts
  <2>4. IsFiniteSet(Holding(r)') /\ Cardinality(Holding(r)') <= Cardinality(Holding(r))
    BY <2>2, <2>3, FS_Subset
  <2>5. QED BY <2>3, <2>4, FS_CardinalityType
<1>7. Counted'
  <2>1. \A r : Cardinality(Holding(r))' = Cardinality(Holding(r)')
    OBVIOUS
  <2>2. QED BY <1>2, <1>6, <2>1, EmitterAssumption DEF Inv, Counted, Numbered
<1>8. QED BY <1>2, <1>5, <1>7, MapRests DEF Inv

LEMMA ReturnsInv == ASSUME Inv, Returns PROVE Inv'
<1>0. PICK n, r : n = Len(stack) /\ r = stack[n].running
  OBVIOUS
<1> DEFINE f == [stack[n] EXCEPT !.running = NoHandler]
<1>1. stack \in Seq(Frame)
  BY DEF Inv, Snapshots
<1>2. /\ stack # <<>> /\ Last(stack).running # NoHandler
      /\ SetTop([Last(stack) EXCEPT !.running = NoHandler])
      /\ completed' = [completed EXCEPT ![Last(stack).running] =
                          IF Count[Last(stack).running] = Forever THEN @ ELSE @ + 1]
      /\ left' = [left EXCEPT ![Last(stack).running] = IF @ \in Nat \ {0} THEN @ - 1 ELSE @]
      /\ IF UsedUp(Last(stack).running)
         THEN Off({Last(stack).running}) /\ handle' = [handle EXCEPT ![Last(stack).running] = "disposed"]
         ELSE UNCHANGED <<names, handlers, handle>>
      /\ UNCHANGED <<closing, disposed, late>>
  BY DEF Returns, InHandler
<1>3. n \in Nat \ {0} /\ DOMAIN stack = 1 .. n /\ Last(stack) = stack[n] /\ stack[n] \in Frame
  BY <1>0, <1>1, <1>2, TopIs
<1>4. r \in Regs /\ r # NoHandler /\ SetTop(f)
  BY <1>0, <1>2, <1>3 DEF Frame
<1>5. f \in Frame /\ f.running = NoHandler /\ f.todo = stack[n].todo
  BY <1>3 DEF Frame
<1>6. /\ stack[n].todo \in Seq(Regs) /\ IsInjective(stack[n].todo) /\ r \notin ToSet(stack[n].todo)
      /\ handle[r] # "none"
  <2>1. stack[n].todo \in Seq(Regs)
    BY <1>3 DEF Frame
  <2>2. n \in DOMAIN stack
    BY <1>3
  <2>3. r \in Ahead(stack[n]) \ {NoHandler}
    BY <1>0, <1>4 DEF Ahead
  <2>4. QED BY <1>0, <2>1, <2>2, <2>3 DEF Inv, Snapshots
<1>7. /\ completed' = [completed EXCEPT ![r] = IF Count[r] = Forever THEN @ ELSE @ + 1]
      /\ left' = [left EXCEPT ![r] = IF @ \in Nat \ {0} THEN @ - 1 ELSE @]
      /\ IF UsedUp(r) THEN Off({r}) /\ handle' = [handle EXCEPT ![r] = "disposed"]
         ELSE UNCHANGED <<names, handlers, handle>>
      /\ UNCHANGED <<closing, disposed, late>>
  BY <1>0, <1>2, <1>3
<1>8. handle \in [Regs -> {"none", "live", "disposed"}] /\ Mapped
  BY DEF Inv, Mapped
<1>9. NoHandler \notin ToSet(stack[n].todo) /\ ToSet(stack[n].todo) \subseteq Regs
  BY <1>6, ElementsOf, EmitterAssumption
<1>10. Ahead(f) = (Ahead(stack[n]) \ {r}) \cup {NoHandler}
  BY <1>0, <1>5, <1>6 DEF Ahead
<1> HIDE DEF f
<1>11. /\ stack' \in Seq(Frame) /\ Len(stack') = n /\ DOMAIN stack' = 1 .. n /\ stack'[n] = f
       /\ \A i \in 1 .. n : i # n => stack'[i] = stack[i]
  BY <1>0, <1>1, <1>2, <1>4, <1>5, TopSet
<1>12. r \in Ahead(stack[n])
  BY <1>0 DEF Ahead
<1>13. n <= MaxDepth
  BY <1>0 DEF Inv, Snapshots
<1>14. /\ handle' \in [Regs -> {"none", "live", "disposed"}]
       /\ \A x \in Regs : (handle'[x] = "none" <=> handle[x] = "none") /\ (handle'[x] = "live" => handle[x] = "live")
       /\ \A x \in Regs : x # r => handle'[x] = handle[x]
  BY <1>4, <1>6, <1>7, <1>8
<1>15. Mapped' /\ Registered' \subseteq Registered
  <2>1. CASE UsedUp(r)
    <3>1. Off({r}) /\ handle' = [handle EXCEPT ![r] = "disposed"] /\ disposed' = disposed
      BY <1>7, <2>1
    <3>2. Live' = Live \ {r}
      BY <1>4, <1>8, <3>1 DEF Live
    <3>3. Mapped' /\ Registered' = Registered \ {r}
      BY <1>8, <1>14, <3>1, <3>2, OffMapped
    <3>4. QED BY <3>3
  <2>2. CASE ~UsedUp(r)
    <3>1. UNCHANGED <<names, handlers, handle, closing, disposed, late>>
      BY <1>7, <2>2
    <3>2. Registered' = Registered
      BY <3>1 DEF Registered
    <3>3. QED BY <3>1, <3>2, MapRests
  <2>3. QED BY <2>1, <2>2
<1>16. Closing'
  BY <1>7, <1>15 DEF Inv, Closing
<1>17. Snapshots'
  <2>1. ASSUME NEW i \in DOMAIN stack'
        PROVE  /\ IsInjective(stack'[i].todo) /\ stack'[i].running \notin ToSet(stack'[i].todo)
               /\ \A x \in Ahead(stack'[i]) \ {NoHandler} : handle'[x] # "none"
    <3>1. i \in DOMAIN stack /\ Ahead(stack'[i]) \ {NoHandler} \subseteq Ahead(stack[i]) \ {NoHandler}
      BY <1>3, <1>10, <1>11
    <3>2. stack'[i] \in Frame
      BY <1>11, ElementOfSeq
    <3>3. Ahead(stack'[i]) \ {NoHandler} \subseteq Regs
      BY <3>2, ElementsOf DEF Ahead, Frame
    <3>4. \A x \in Ahead(stack'[i]) \ {NoHandler} : handle'[x] # "none"
      BY <1>14, <3>1, <3>3 DEF Inv, Snapshots
    <3>5. CASE i # n
      BY <1>11, <3>1, <3>4, <3>5 DEF Inv, Snapshots
    <3>6. CASE i = n
      BY <1>5, <1>6, <1>9, <1>11, <3>4, <3>6
    <3>7. QED BY <3>5, <3>6
  <2>2. QED BY <1>11, <1>13, <2>1 DEF Snapshots, Ahead
<1>18. ASSUME NEW x \in Regs PROVE Holding(x)' = IF x = r THEN Holding(r) \ {n} ELSE Holding(x)
  <2>1. Holding(x)' = {i \in DOMAIN stack' : x \in Ahead(stack'[i])}
    BY DEF Holding, Ahead
  <2>2. x \in Ahead(f) <=> x \in Ahead(stack[n]) /\ x # r
    BY <1>10, EmitterAssumption
  <2>3. CASE x # r
    <3>1. \A i \in 1 .. n : x \in Ahead(stack'[i]) <=> x \in Ahead(stack[i])
      BY <1>11, <2>2, <2>3
    <3>2. QED BY <1>3, <1>11, <2>1, <2>3, <3>1 DEF Holding
  <2>4. CASE x = r
    <3>1. \A i \in 1 .. n : x \in Ahead(stack'[i]) <=> x \in Ahead(stack[i]) /\ i # n
      BY <1>11, <2>2, <2>4
    <3>2. QED BY <1>3, <1>11, <2>1, <2>4, <3>1 DEF Holding
  <2>5. QED BY <2>3, <2>4
<1>19. /\ Cardinality(Holding(r)) \in Nat /\ Cardinality(Holding(r)) <= n
       /\ Cardinality(Holding(r))' = Cardinality(Holding(r)) - 1
  <2>1. n \in Holding(r)
    BY <1>3, <1>12 DEF Holding
  <2>2. IsFiniteSet(Holding(r)) /\ Cardinality(Holding(r)) \in Nat /\ Cardinality(Holding(r)) <= n
    BY <1>0, <1>1, HoldingCounts
  <2>3. Holding(r)' = Holding(r) \ {n}
    BY <1>4, <1>18
  <2>4. QED BY <2>1, <2>2, <2>3, FS_RemoveElement
<1>20. Counted'
  <2>1. left \in [Regs -> Nat \cup {Forever}] /\ completed \in [Regs -> Nat]
    BY DEF Inv, Counted
  <2>2. left' \in [Regs -> Nat \cup {Forever}] /\ completed' \in [Regs -> Nat]
    <3>1. \A m \in Nat : m + 1 \in Nat /\ (m \in Nat \ {0} => m - 1 \in Nat)
      OBVIOUS
    <3>2. completed' \in [Regs -> Nat]
      BY <1>4, <1>7, <2>1, <3>1
    <3>3. (IF left[r] \in Nat \ {0} THEN left[r] - 1 ELSE left[r]) \in Nat \cup {Forever}
      BY <1>4, <2>1, <3>1
    <3>4. QED BY <1>4, <1>7, <2>1, <3>2, <3>3
  <2>3. ASSUME NEW x \in Numbered
        PROVE  /\ left'[x] = IF completed'[x] <= Count[x] THEN Count[x] - completed'[x] ELSE 0
               /\ handle'[x] = "none" => completed'[x] = 0
               /\ completed'[x] >= Count[x] =>
                     /\ handle'[x] # "live"
                     /\ completed'[x] + Cardinality(Holding(x)') <= Count[x] + MaxDepth - 1
    <3>1. x \in Regs /\ Count[x] \in Nat \ {0} /\ Count[x] # Forever /\ completed[x] \in Nat
      BY <2>1, EmitterAssumption DEF Numbered
    <3>2. /\ left[x] = IF completed[x] <= Count[x] THEN Count[x] - completed[x] ELSE 0
          /\ handle[x] = "none" => completed[x] = 0
          /\ completed[x] >= Count[x] =>
                /\ handle[x] # "live"
                /\ completed[x] + Cardinality(Holding(x)) <= Count[x] + MaxDepth - 1
      BY DEF Inv, Counted
    <3>3. CASE x # r
      BY <1>7, <1>14, <1>18, <2>1, <3>1, <3>2, <3>3
    <3>4. CASE x = r
      <4>1. completed'[r] = completed[r] + 1
        BY <1>4, <1>7, <2>1, <3>1, <3>4
      <4>2. left'[r] = IF left[r] \in Nat \ {0} THEN left[r] - 1 ELSE left[r]
        BY <1>4, <1>7, <2>1
      <4>3. left'[r] = IF completed'[r] <= Count[r] THEN Count[r] - completed'[r] ELSE 0
        BY <3>1, <3>2, <3>4, <4>1, <4>2
      <4>4. handle'[r] # "none"
        BY <1>4, <1>6, <1>14
      <4>5. ASSUME completed'[r] >= Count[r]
            PROVE  handle'[r] # "live" /\ completed'[r] + (Cardinality(Holding(r)) - 1) <= Count[r] + MaxDepth - 1
        <5>1. UsedUp(r)
          BY <3>1, <3>2, <3>4, <4>1, <4>5 DEF UsedUp
        <5>2. handle'[r] # "live"
          BY <1>4, <1>7, <1>8, <5>1
        <5>3. CASE completed[r] >= Count[r]
          BY <1>19, <3>1, <3>2, <3>4, <4>1, <5>2, <5>3, EmitterAssumption
        <5>4. CASE ~ completed[r] >= Count[r]
          <6>1. completed'[r] = Count[r]
            BY <3>1, <3>4, <4>1, <4>5, <5>4
          <6>2. QED BY <1>3, <1>13, <1>19, <3>1, <3>4, <5>2, <6>1, EmitterAssumption
        <5>5. QED BY <5>3, <5>4
      <4>7. Cardinality(Holding(x)') = Cardinality(Holding(r)) - 1
        BY <1>19, <3>4
      <4>8. QED BY <3>4, <4>3, <4>4, <4>5, <4>7
    <3>5. QED BY <3>3, <3>4
  <2>4. QED BY <2>2, <2>3 DEF Counted
<1>21. QED BY <1>15, <1>16, <1>17, <1>20 DEF Inv

LEMMA NextInv == Inv /\ [Next]_vars => Inv'
<1> SUFFICES ASSUME Inv, [Next]_vars PROVE Inv'
  OBVIOUS
<1>1. CASE UNCHANGED vars
  <2>1. UNCHANGED <<names, handlers, handle, disposed, late, closing, stack, left, completed>>
    BY <1>1 DEF vars
  <2>2. Snapshots' /\ Counted'
    BY <2>1, EmissionsRest DEF Inv, Mapped
  <2>3. QED BY <2>1, <2>2, MapRests DEF Inv
<1>2. CASE Next
  BY <1>2, OnInv, DisposeHandleInv, EmitInv, CallNextInv, ReturnsInv, EndsInv, DisposeInv, DisposedInv DEF Next
<1>3. QED BY <1>1, <1>2

LEMMA InvImplies == Inv => CountIsRespected
<1> SUFFICES ASSUME Inv PROVE CountIsRespected
  OBVIOUS
<1>1. TypeOK
  BY DEF Inv, Mapped, Snapshots, Counted, Closing, TypeOK
<1>2. ASSUME NEW r \in Regs, Count[r] # Forever
      PROVE  /\ completed[r] <= Count[r] + MaxDepth - 1
             /\ completed[r] >= Count[r] => r \notin Registered
  <2>1. r \in Numbered /\ Count[r] \in Nat \ {0} /\ completed[r] \in Nat
    BY <1>2, EmitterAssumption DEF Numbered, Inv, Counted
  <2>2. Cardinality(Holding(r)) \in Nat
    BY HoldingCounts DEF Inv, Snapshots
  <2>3. completed[r] >= Count[r] =>
           handle[r] # "live" /\ completed[r] + Cardinality(Holding(r)) <= Count[r] + MaxDepth - 1
    BY <2>1 DEF Inv, Counted
  <2>4. Registered \subseteq Live
    BY DEF Inv, Mapped
  <2>5. QED BY <2>1, <2>2, <2>3, <2>4, EmitterAssumption DEF Live
<1>3. QED BY <1>1, <1>2 DEF CountIsRespected

\* A handler of many() completes no more calls than its count, and one for each
\* emission nested in another; used up, it is registered no more.
THEOREM CountBoundsTheCalls == Spec => []CountIsRespected
<1>1. QED BY InitInv, NextInv, InvImplies, PTL DEF Spec

LEMMA QuietStep == Inv /\ [Next]_vars =>
    [closing /\ Len(stack') > Len(stack) => ToSet(Last(stack').todo) \subseteq late']_vars
<1> SUFFICES ASSUME Inv, Next, closing, Len(stack') > Len(stack)
             PROVE  ToSet(Last(stack').todo) \subseteq late'
  OBVIOUS
<1>1. stack \in Seq(Frame) /\ Len(stack) \in Nat
  BY LenProperties DEF Inv, Snapshots
<1>2. ~ UNCHANGED stack
  BY <1>1
<1>3. ~ (CallNext \/ Returns)
  <2>1. ASSUME stack # <<>>, NEW f, SetTop(f) PROVE Len(stack') = Len(stack)
    <3>1. Front(stack) \in Seq(Frame) /\ Len(Front(stack)) = Len(stack) - 1
      BY <1>1, <2>1, TopIs
    <3>2. Front(stack) \in Seq(Frame \cup {f})
      BY <3>1
    <3>3. Len(stack') = Len(Front(stack)) + 1
      BY <2>1, <3>2, AppendProperties DEF SetTop
    <3>4. QED BY <1>1, <3>1, <3>3
  <2>2. Len(stack') # Len(stack)
    BY <1>1
  <2>3. ~CallNext
    BY <2>1, <2>2 DEF CallNext, BetweenHandlers
  <2>4. ~Returns
    BY <2>1, <2>2 DEF Returns, InHandler
  <2>5. QED BY <2>3, <2>4
<1>4. ~ (Throws \/ EmitReturns)
  <2>1. ASSUME stack # <<>>, stack' = Front(stack) PROVE FALSE
    <3>1. Len(stack') = Len(stack) - 1
      BY <1>1, <2>1, TopIs
    <3>2. QED BY <1>1, <3>1
  <2>2. QED BY <2>1 DEF Throws, EmitReturns, InHandler, BetweenHandlers
<1>5. PICK p \in Patterns : Emit(p)
  BY <1>2, <1>3, <1>4 DEF Next, On, DisposeHandle, Dispose, Disposed
<1>6. stack' = Append(stack, [running |-> NoHandler, todo |-> Snapshot(p)]) /\ late' = late
  BY <1>5 DEF Emit, Snapshot
<1>7. Last(stack').todo = Snapshot(p)
  <2> DEFINE f == [running |-> NoHandler, todo |-> Snapshot(p)]
  <2>1. stack \in Seq(Frame \cup {f}) /\ f \in Frame \cup {f}
    BY <1>1
  <2>2. Len(stack') = Len(stack) + 1 /\ stack'[Len(stack) + 1] = f
    BY <1>6, <2>1, AppendProperties
  <2>3. QED BY <2>2 DEF Last
<1>8. QED BY <1>6, <1>7, SnapshotIs DEF Inv, Closing

\* An emission that starts while dispose() waits finds only the handlers that
\* were registered since.
THEOREM ClosingFindsOnlyTheLate == Spec => ClosingEmitterIsQuiet
<1>1. QED BY InitInv, NextInv, QuietStep, PTL DEF Spec, ClosingEmitterIsQuiet

-----------------------------------------------------------------------------
(* What writers do to the relations and tell of, for every number of writers,  *)
(* of operations in a transaction and of records.                              *)
By == {None} \cup (Writers \X Nat)

\* A record that is not there has no relations, unless it is known to be spoilt.
OwnOrNone ==
    \A c \in Colls, i \in Ids : <<c, i>> \notin spoilt =>
        RelationsOf(c, i) = IF records[c][i] # None THEN wrote[c][i] ELSE {}

\* How the batch went, by where the writer stands.
RanFits ==
    \A w \in Writers :
        /\ state[w] \in {"idle", "committing", "running"} => ran[w] \in {None, "errors"}
        /\ state[w] \in {"committed", "notifying", "resolved"} => ran[w] = "ok"

\* What was heard is of a writer that was told, and all of it.
HeardFits ==
    /\ \A e \in heard : e.by[1] \in Writers /\ state[e.by[1]] \in {"notifying", "resolved"}
    /\ \A w \in Writers : state[w] \in {"notifying", "resolved"} =>
          \A n \in DOMAIN trx[w].ops : \E e \in heard : e.by = <<w, n>>

WritesTyped == RecordsTyped /\ wrote \in [Colls -> [Ids -> SUBSET Relation(By)]]

WritesInv == WritesTyped /\ OwnOrNone /\ RanFits /\ HeardFits

LEMMA WritesInitInv == WritesInit => WritesInv
<1> SUFFICES ASSUME WritesInit PROVE WritesInv
  OBVIOUS
<1>1. PICK db \in Databases : records = db.records /\ relations = db.relations
  BY DEF WritesInit
<1>2. records \in [Colls -> Rows] /\ relations \subseteq Relation({None})
  BY <1>1, WritesAssumption
<1>3. Relation({None}) \subseteq Relation({None} \cup (Writers \X Nat))
  BY DEF Relation
<1>4. trx \in [Writers -> [own : BOOLEAN, ops : Seq(Operation)]]
  BY WritesAssumption DEF WritesInit
<1>5. \A w \in Writers : Len(trx[w].ops) \in Nat
  BY <1>4, LenProperties
<1>6. WritesTyped
  <2>1. relations \subseteq Relation(By)
    BY <1>2, <1>3 DEF By
  <2>2. wrote \in [Colls -> [Ids -> SUBSET Relation(By)]]
    BY <2>1 DEF WritesInit, RelationsOf
  <2>3. done \in [Writers -> Nat] /\ \A w \in Writers : done[w] <= Len(trx[w].ops)
    BY <1>5 DEF WritesInit
  <2>4. records \in [Colls -> Rows]
    BY <1>1, <1>2
  <2>5. state \in [Writers -> {"idle", "committing", "running", "committed", "failed", "rejected", "notifying", "resolved"}]
        /\ ran \in [Writers -> {None, "ok", "errors"}]
    BY DEF WritesInit
  <2>6. RecordsTyped
    BY <1>4, <2>1, <2>3, <2>4, <2>5 DEF RecordsTyped, By
  <2>7. QED BY <2>2, <2>6 DEF WritesTyped
<1>7. OwnOrNone
  <2> SUFFICES ASSUME NEW c \in Colls, NEW i \in Ids, <<c, i>> \notin spoilt
               PROVE  RelationsOf(c, i) = IF records[c][i] # None THEN wrote[c][i] ELSE {}
    BY DEF OwnOrNone
  <2>1. wrote[c][i] = RelationsOf(c, i)
    BY DEF WritesInit
  <2>2. ~ (records[c][i] = None /\ RelationsOf(c, i) # {})
    BY DEF WritesInit
  <2>3. QED BY <2>1, <2>2
<1>8. RanFits /\ HeardFits
  BY DEF WritesInit, RanFits, HeardFits
<1>9. QED BY <1>6, <1>7, <1>8 DEF WritesInv

\* The steps of a writer that touch no table.
LEMMA TablesRest ==
    ASSUME WritesInv, UNCHANGED <<records, relations, wrote, spoilt>>
    PROVE  OwnOrNone' /\ wrote' \in [Colls -> [Ids -> SUBSET Relation(By)]] /\ records' \in [Colls -> Rows]
           /\ relations' \subseteq Relation(By)
BY DEF WritesInv, OwnOrNone, RelationsOf, WritesTyped, RecordsTyped, By

LEMMA OperationTyped ==
    ASSUME WritesInv, NEW w \in Writers, done[w] + 1 <= Len(trx[w].ops)
    PROVE  trx[w].ops[done[w] + 1] \in Operation /\ done[w] + 1 \in Nat
<1>1. trx[w].ops \in Seq(Operation) /\ done[w] \in Nat
  BY DEF WritesInv, WritesTyped, RecordsTyped
<1>2. QED BY <1>1, ElementOfSeq

\* What an operation leaves of the relations of each record.
LEMMA RelationsAfterAre ==
    ASSUME NEW op \in Operation, NEW by \in By, relations \subseteq Relation(By),
           relations' = RelationsAfter(op, by), NEW c \in Colls, NEW i \in Ids
    PROVE  /\ relations' \subseteq Relation(By)
           /\ op.op = "create" => RelationsOf(c, i)' =
                 RelationsOf(c, i) \cup IF <<c, i>> = <<op.coll, op.id>> THEN RelationRows(op, by) ELSE {}
           /\ op.op = "replace" => RelationsOf(c, i)' =
                 IF <<c, i>> = <<op.coll, op.id>> THEN RelationRows(op, by)
                 ELSE IF i = op.id THEN {} ELSE RelationsOf(c, i)
           /\ op.op = "delete" => RelationsOf(c, i)' = RelationsOf(c, i)
<1>1. CASE op.op = "delete"
  BY <1>1 DEF RelationsAfter, RelationsOf
<1>2. CASE op.op # "delete"
  <2>1. op.op \in {"create", "replace"} /\ op.coll \in Colls /\ op.id \in Ids /\ op.data.refs \subseteq Targets
    BY <1>2 DEF Operation
  <2>2. RelationRows(op, by) \subseteq Relation(By)
    BY <2>1 DEF RelationRows, Relation
  <2>3. \A r \in RelationRows(op, by) : r.coll = op.coll /\ r.source = op.id
    BY DEF RelationRows
  <2>4. relations' = (IF op.op = "create" THEN relations ELSE {r \in relations : r.source # op.id})
                     \cup RelationRows(op, by)
    BY <2>1 DEF RelationsAfter
  <2>5. relations' \subseteq Relation(By)
    BY <2>2, <2>4
  <2>6. RelationsOf(c, i)' = {r \in relations' : r.coll = c /\ r.source = i}
    BY DEF RelationsOf
  <2>7. CASE <<c, i>> = <<op.coll, op.id>>
    BY <2>1, <2>3, <2>4, <2>5, <2>6, <2>7 DEF RelationsOf
  <2>8. CASE <<c, i>> # <<op.coll, op.id>>
    BY <2>1, <2>3, <2>4, <2>5, <2>6, <2>8 DEF RelationsOf
  <2>9. QED BY <2>7, <2>8
<1>3. QED BY <1>1, <1>2

LEMMA RunOperationInv ==
    ASSUME WritesInv, NEW w \in Writers, RunOperation(w)
    PROVE  WritesInv'
<1> DEFINE n == done[w] + 1
           op == trx[w].ops[n]
           there == records[op.coll][op.id] # None
           by == <<w, n>>
<1>1. /\ state[w] = "running" /\ n <= Len(trx[w].ops)
      /\ records' = RecordsAfter(op, there)
      /\ relations' = RelationsAfter(op, by)
      /\ done' = [done EXCEPT ![w] = n]
      /\ ran' = IF op.op = "create" /\ there THEN [ran EXCEPT ![w] = "errors"] ELSE ran
      /\ wrote' = IF op.op = (IF there THEN "replace" ELSE "create")
                  THEN [wrote EXCEPT ![op.coll][op.id] = RelationRows(op, by)] ELSE wrote
      /\ spoilt' = (IF op.op = "replace" /\ there THEN spoilt \ {<<op.coll, op.id>>} ELSE spoilt)
                   \cup Spoils(op, there)
      /\ trx' = trx /\ state' = state /\ heard' = heard
  BY DEF RunOperation
<1>2. op \in Operation /\ n \in Nat
  BY <1>1, OperationTyped
<1>3. by \in By
  BY <1>2 DEF By
<1>4. relations \subseteq Relation(By) /\ records \in [Colls -> Rows]
      /\ wrote \in [Colls -> [Ids -> SUBSET Relation(By)]]
  BY DEF WritesInv, WritesTyped, RecordsTyped, By
<1>5. /\ op.op \in {"create", "replace", "delete"} /\ op.coll \in Colls /\ op.id \in Ids
      /\ op.op # "delete" => op.data.refs \subseteq Targets /\ op.data.title \in [Locale -> Titles]
  BY <1>2 DEF Operation
<1>6. /\ relations' \subseteq Relation(By)
      /\ \A c \in Colls, i \in Ids :
           /\ op.op = "create" => RelationsOf(c, i)' =
                 RelationsOf(c, i) \cup IF <<c, i>> = <<op.coll, op.id>> THEN RelationRows(op, by) ELSE {}
           /\ op.op = "replace" => RelationsOf(c, i)' =
                 IF <<c, i>> = <<op.coll, op.id>> THEN RelationRows(op, by)
                 ELSE IF i = op.id THEN {} ELSE RelationsOf(c, i)
           /\ op.op = "delete" => RelationsOf(c, i)' = RelationsOf(c, i)
  <2>1. relations' = RelationsAfter(op, by)
    BY <1>1
  <2> HIDE DEF n, op, there, by
  <2>2. QED BY ONLY <1>2, <1>3, <1>4, <1>5, <2>1, RelationsAfterAre
<1>7. op.op # "delete" => RelationRows(op, by) \in SUBSET Relation(By)
                          /\ (RelationRows(op, by) = {} <=> op.data.refs = {})
  <2> HIDE DEF n, op, there, by
  <2>1. ASSUME op.op # "delete" PROVE RelationRows(op, by) \in SUBSET Relation(By)
    BY <1>3, <1>5, <2>1 DEF RelationRows, Relation
  <2>2. op.data.refs # {} => RelationRows(op, by) # {}
    <3>1. ASSUME NEW t \in op.data.refs
          PROVE  [coll |-> op.coll, source |-> op.id, target |-> t, by |-> by] \in RelationRows(op, by)
      BY DEF RelationRows
    <3>2. QED BY <3>1
  <2>3. op.data.refs = {} => RelationRows(op, by) = {}
    BY DEF RelationRows
  <2>4. QED BY <2>1, <2>2, <2>3
<1> HIDE DEF n, op, there, by
<1>8. records' \in [Colls -> Rows] /\ \A c \in Colls, i \in Ids : <<c, i>> # <<op.coll, op.id>> =>
         records'[c][i] = records[c][i]
  BY <1>1, <1>4, <1>5 DEF RecordsAfter, Rows
<1>9. records'[op.coll][op.id] # None <=> (there /\ op.op # "delete") \/ op.op = "create"
  BY <1>1, <1>4, <1>5, WritesAssumption DEF RecordsAfter, Rows, there
<1>10. wrote' \in [Colls -> [Ids -> SUBSET Relation(By)]] /\ \A c \in Colls, i \in Ids : <<c, i>> # <<op.coll, op.id>> =>
         wrote'[c][i] = wrote[c][i]
  BY <1>1, <1>4, <1>5, <1>7
<1>11. OwnOrNone'
  <2> SUFFICES ASSUME NEW c \in Colls, NEW i \in Ids, <<c, i>> \notin spoilt'
               PROVE  RelationsOf(c, i)' = IF records'[c][i] # None THEN wrote'[c][i] ELSE {}
    BY DEF OwnOrNone
  <2>1. <<c, i>> \notin spoilt => RelationsOf(c, i) = IF records[c][i] # None THEN wrote[c][i] ELSE {}
    BY DEF WritesInv, OwnOrNone
  <2>2. <<c, i>> \notin Spoils(op, there)
    BY <1>1
  <2>3. CASE <<c, i>> # <<op.coll, op.id>>
    <3>1. <<c, i>> \notin spoilt
      BY <1>1, <2>3
    <3>2. CASE op.op = "replace" /\ i = op.id
      <4>1. RelationsOf(c, i) = {}
        BY <2>2, <2>3, <3>2 DEF Spoils
      <4>2. QED BY <1>6, <1>8, <1>10, <2>1, <2>3, <3>1, <3>2, <4>1
    <3>3. CASE ~ (op.op = "replace" /\ i = op.id)
      <4>1. RelationsOf(c, i)' = RelationsOf(c, i)
        BY <1>5, <1>6, <2>3, <3>3
      <4>2. QED BY <1>8, <1>10, <2>1, <2>3, <3>1, <4>1
    <3>4. QED BY <3>2, <3>3
  <2>4. CASE <<c, i>> = <<op.coll, op.id>>
    <3>1. there <=> records[c][i] # None
      BY <2>4 DEF there
    <3>2. CASE op.op = "create"
      <4>1. <<c, i>> \notin spoilt
        BY <1>1, <3>2
      <4>2. there => RelationRows(op, by) = {}
        BY <1>7, <2>2, <2>4, <3>2 DEF Spoils
      <4>3. RelationsOf(c, i)' = RelationsOf(c, i) \cup RelationRows(op, by)
        BY <1>6, <2>4, <3>2
      <4>4. wrote'[c][i] = IF there THEN wrote[c][i] ELSE RelationRows(op, by)
        BY <1>1, <1>4, <1>5, <2>4, <3>2
      <4>5. QED BY <1>9, <2>1, <2>4, <3>1, <3>2, <4>1, <4>2, <4>3, <4>4
    <3>3. CASE op.op = "replace"
      <4>1. RelationsOf(c, i)' = RelationRows(op, by)
        BY <1>6, <2>4, <3>3
      <4>2. CASE there
        <5>1. wrote'[c][i] = RelationRows(op, by)
          BY <1>1, <1>4, <1>5, <2>4, <3>3, <4>2
        <5>2. QED BY <1>9, <2>4, <3>3, <4>1, <4>2, <5>1
      <4>3. CASE ~there
        <5>1. RelationRows(op, by) = {}
          BY <1>7, <2>2, <2>4, <3>3, <4>3 DEF Spoils
        <5>2. QED BY <1>9, <2>4, <3>3, <4>1, <4>3, <5>1
      <4>4. QED BY <4>2, <4>3
    <3>4. CASE op.op = "delete"
      <4>1. RelationsOf(op.coll, op.id) = {}
        BY <2>2, <2>4, <3>4 DEF Spoils
      <4>2. RelationsOf(c, i) = {}
        BY <2>4, <4>1
      <4>3. QED BY <1>6, <1>9, <2>4, <3>4, <4>2
    <3>5. QED BY <1>5, <3>2, <3>3, <3>4
  <2>5. QED BY <2>3, <2>4
<1>12. WritesTyped'
  <2>1. done' \in [Writers -> Nat] /\ \A v \in Writers : done'[v] <= Len(trx'[v].ops)
    BY <1>1, <1>2 DEF WritesInv, WritesTyped, RecordsTyped
  <2>2. ran' \in [Writers -> {None, "ok", "errors"}]
    BY <1>1 DEF WritesInv, WritesTyped, RecordsTyped
  <2>3. QED BY <1>1, <1>6, <1>8, <1>10, <2>1, <2>2 DEF WritesInv, WritesTyped, RecordsTyped, By
<1>13. RanFits'
  BY <1>1 DEF WritesInv, RanFits, WritesTyped, RecordsTyped
<1>14. HeardFits'
  BY <1>1 DEF WritesInv, HeardFits
<1>15. QED BY <1>11, <1>12, <1>13, <1>14 DEF WritesInv

LEMMA WritesEmitInv == ASSUME WritesInv, NEW w \in Writers, EmitEvents(w) PROVE WritesInv'
<1>1. /\ state[w] = "committed" /\ UNCHANGED <<trx, done, records, relations, ran, wrote, spoilt>>
      /\ heard' = heard \cup {[event |-> trx[w].ops[n].op, coll |-> trx[w].ops[n].coll,
                               id |-> trx[w].ops[n].id, by |-> <<w, n>>] : n \in DOMAIN trx[w].ops}
  BY DEF EmitEvents, EmitReady
<1>2. PICK s \in {"notifying", "resolved"} : state' = [state EXCEPT ![w] = s]
  BY DEF EmitEvents
<1>3. WritesTyped' /\ OwnOrNone'
  BY <1>1, <1>2, TablesRest DEF WritesInv, WritesTyped, RecordsTyped, By
<1>4. RanFits'
  BY <1>1, <1>2 DEF WritesInv, RanFits, WritesTyped, RecordsTyped
<1>5. \A e \in heard' : e.by[1] \in Writers /\ state'[e.by[1]] \in {"notifying", "resolved"}
  BY <1>1, <1>2 DEF WritesInv, HeardFits, WritesTyped, RecordsTyped
<1>6. ASSUME NEW v \in Writers, state'[v] \in {"notifying", "resolved"}, NEW n \in DOMAIN trx'[v].ops
      PROVE  \E e \in heard' : e.by = <<v, n>>
  <2>1. CASE v = w
    <3>1. [event |-> trx[w].ops[n].op, coll |-> trx[w].ops[n].coll,
           id |-> trx[w].ops[n].id, by |-> <<w, n>>] \in heard'
      BY <1>1, <1>6, <2>1
    <3>2. QED BY <2>1, <3>1
  <2>2. CASE v # w
    BY <1>1, <1>2, <1>6, <2>2 DEF WritesInv, HeardFits, WritesTyped, RecordsTyped
  <2>3. QED BY <2>1, <2>2
<1>7. QED BY <1>3, <1>4, <1>5, <1>6 DEF WritesInv, HeardFits

\* Commit, Begin, End, Reject and Resolve move the writer on, from where it has
\* emitted nothing, or from where it has emitted all.
LEMMA MoveInv ==
    ASSUME WritesInv, NEW w \in Writers, Commit(w) \/ Begin(w) \/ End(w) \/ Reject(w) \/ Resolve(w)
    PROVE  WritesInv'
<1>1. UNCHANGED <<trx, done, records, relations, heard, wrote, spoilt>>
  BY DEF Commit, Begin, End, Reject, Resolve
<1>2. \/ state[w] \in {"idle", "committing"} /\ state' \in {[state EXCEPT ![w] = s] : s \in {"committing", "running"}} /\ ran' = ran
      \/ state[w] = "running" /\ ran[w] = "errors" /\ state' = [state EXCEPT ![w] = "failed"] /\ ran' = ran
      \/ state[w] = "running" /\ ran[w] = None /\ state' = [state EXCEPT ![w] = "committed"]
         /\ ran' = [ran EXCEPT ![w] = "ok"]
      \/ state[w] = "failed" /\ state' = [state EXCEPT ![w] = "rejected"] /\ ran' = ran
      \/ state[w] = "notifying" /\ state' = [state EXCEPT ![w] = "resolved"] /\ ran' = ran
  <2>1. CASE End(w)
    <3>1. ran[w] \in {None, "errors"} /\ state[w] = "running"
      BY <2>1 DEF End, WritesInv, RanFits
    <3>2. CASE ran[w] = "errors"
      BY <2>1, <3>1, <3>2, WritesAssumption DEF End
    <3>3. CASE ran[w] = None
      BY <2>1, <3>1, <3>3, WritesAssumption DEF End
    <3>4. QED BY <3>1, <3>2, <3>3
  <2>2. CASE Commit(w) \/ Begin(w)
    BY <2>2 DEF Commit, Begin
  <2>3. CASE Reject(w) \/ Resolve(w)
    BY <2>3 DEF Reject, Resolve
  <2>4. QED BY <2>1, <2>2, <2>3
<1>3. OwnOrNone' /\ wrote' \in [Colls -> [Ids -> SUBSET Relation(By)]]
  BY <1>1, TablesRest
<1>4. state' \in [Writers -> {"idle", "committing", "running", "committed", "failed", "rejected", "notifying", "resolved"}]
      /\ ran' \in [Writers -> {None, "ok", "errors"}]
  BY <1>2 DEF WritesInv, WritesTyped, RecordsTyped
<1>5. WritesTyped'
  BY <1>1, <1>3, <1>4 DEF WritesInv, WritesTyped, RecordsTyped
<1>6. RanFits'
  BY <1>2 DEF WritesInv, RanFits, WritesTyped, RecordsTyped
<1>7. \A v \in Writers : state'[v] \in {"notifying", "resolved"} <=> state[v] \in {"notifying", "resolved"}
  BY <1>2 DEF WritesInv, WritesTyped, RecordsTyped
<1>8. HeardFits'
  BY <1>1, <1>7 DEF WritesInv, HeardFits
<1>9. QED BY <1>3, <1>5, <1>6, <1>8 DEF WritesInv

LEMMA WritesNextInv == WritesInv /\ [WritesNext]_writing => WritesInv'
<1> SUFFICES ASSUME WritesInv, [WritesNext]_writing PROVE WritesInv'
  OBVIOUS
<1>1. CASE UNCHANGED writing
  <2>1. OwnOrNone'
    BY <1>1, TablesRest DEF writing
  <2>2. QED BY <1>1, <2>1 DEF writing, WritesInv, WritesTyped, RecordsTyped, RanFits, HeardFits
<1>2. ASSUME NEW w \in Writers, Commit(w) \/ RunOperation(w) \/ Answered(w) PROVE WritesInv'
  BY <1>2, RunOperationInv, WritesEmitInv, MoveInv DEF Answered
<1>3. QED BY <1>1, <1>2 DEF WritesNext

LEMMA WritesInvImplies == WritesInv => RelationsAreOwn /\ EventsTellOfCommits
BY DEF WritesInv, WritesTyped, OwnOrNone, RanFits, HeardFits, RelationsAreOwn, EventsTellOfCommits

\* The relations of a record are those of the last create() or replace() of it,
\* but for the records whose relations are known to be doubtful.
THEOREM RelationsBelongToTheirRecord == WritesSpec => []RelationsAreOwn
<1>1. QED BY WritesInitInv, WritesNextInv, WritesInvImplies, PTL DEF WritesSpec

\* Events are emitted for what was committed, and before the promise resolves.
THEOREM EventsFollowCommits == WritesSpec => []EventsTellOfCommits
<1>1. QED BY WritesInitInv, WritesNextInv, WritesInvImplies, PTL DEF WritesSpec
=============================================================================
