----------------------- MODULE MessageQueueAMQPProofs -----------------------
(* What resolves an rpc, and what a subscriber is called with, for every       *)
(* number of tasks, consumers, channels, publications and subscribers.         *)
EXTENDS MessageQueueAMQP, FiniteSetTheorems, SequenceTheorems, WellFoundedInduction, TLAPS

-----------------------------------------------------------------------------
(* The inductive invariant.                                                    *)
Replies == [task : Rpcs, status : {200, 500}, answer : Answers \cup {"error"}]

TasksTyped ==
    /\ connected \in BOOLEAN
    /\ queue \in Seq(Tasks)
    /\ replies \in Seq(Replies)
    /\ promise \in [Tasks -> {"uncalled", "pending", "resolved", "rejected"}]
    /\ sent \in [Tasks -> {"no", "opening", "sent", "failed"}]
    /\ timer \in [Rpcs -> BOOLEAN]
    /\ got \in [Rpcs -> Rpcs \cup {None}]
    /\ listening \in [Consumers -> {"no", "on", "off"}]
    /\ unacked \in [Consumers -> Tasks \cup {None}]
    /\ running \in [Consumers -> BOOLEAN]
    /\ outcome \in [Tasks -> Answers \cup {"none", "threw"}]

\* A task is with the broker or with one consumer, and its listener runs once.
Placed ==
    /\ IsInjective(queue)
    /\ \A t \in ToSet(queue) : sent[t] = "sent" /\ outcome[t] = "none"
    /\ \A k \in Consumers :
          /\ unacked[k] # None => unacked[k] \notin ToSet(queue) /\ sent[unacked[k]] = "sent"
          /\ running[k] => unacked[k] # None /\ outcome[unacked[k]] = "none"
    /\ \A k, l \in Consumers : unacked[k] = unacked[l] /\ unacked[k] # None => k = l
    /\ \A t \in Tasks : /\ sent[t] # "sent" => outcome[t] = "none"
                        /\ promise[t] = "uncalled" => sent[t] = "no"

\* A reply tells how the listener of its task ended.
Answered ==
    /\ \A i \in DOMAIN replies :
          /\ outcome[replies[i].task] # "none"
          /\ replies[i].status = 200 => outcome[replies[i].task] = replies[i].answer
    /\ \A t \in Rpcs : /\ promise[t] = "resolved" <=> got[t] # None
                       /\ got[t] # None => outcome[got[t]] = "value"
    /\ confused # {} => \E t \in Rpcs : outcome[t] # "none"

HandlersFit ==
    /\ handlers \in Seq(Rpcs \cup Channels) /\ IsInjective(handlers)
    /\ \A t \in ToSet(handlers) \cap Rpcs : promise[t] # "uncalled"
    /\ connected => ToSet(handlers) \cap Channels
                        = {ChannelOf[s] : s \in {r \in Subscribers : call[r] = "on"}}
    /\ connected => \A t \in Rpcs : promise[t] = "pending" => timer[t] \/ t \in ToSet(handlers)

ChannelsTyped ==
    /\ call \in [ChannelCalls -> {"uncalled", "opening", "failed", "done", "on", "off"}]
    /\ bound \in [Channels -> Seq(Seq(Publications))]
    /\ heard \in [Subscribers -> [Publications -> Nat]]
    /\ threw \in [Subscribers -> SUBSET Publications]
    /\ listeners \in Seq(Subscribers) /\ IsInjective(listeners)
    /\ \A s \in ToSet(listeners) : call[s] \in {"on", "off"}
    /\ before \in [Subscribers -> SUBSET Publications]
    /\ copies \in [Publications -> Nat]
    /\ overlapped \subseteq Channels /\ confused \subseteq Subscribers

Reaches(s, p) == ChannelOf[s] \in Matches[ChannelOf[p]]

\* s has heard p once for each queue it has left, less often if a listener before it threw.
Interrupted(s, p) == \E r \in Subscribers \ {s} : p \in threw[r] /\ Reaches(r, p)
Heard(s, p) == /\ heard[s][p] + Undelivered(p) <= copies[p]
               /\ heard[s][p] + Undelivered(p) = copies[p] \/ Interrupted(s, p)

\* A queue holds what was published on its channel, once.
Published ==
    /\ \A c \in Channels : \A i \in DOMAIN bound[c] :
          /\ IsInjective(bound[c][i])
          /\ \A p \in ToSet(bound[c][i]) : ChannelOf[p] = c /\ call[p] = "done"
    /\ \A s \in Subscribers, p \in Publications :
          /\ call[p] # "done" => heard[s][p] = 0
          /\ heard[s][p] > 0 => Reaches(s, p)
          /\ connected /\ call[s] = "on" /\ call[p] = "done" /\ p \notin before[s] /\ Reaches(s, p)
                => Heard(s, p)

\* A channel is opened again only by a call that found another one opening it.
Opening(u, c) == call[u] = "opening" /\ ChannelOf[u] = c
Overlaps ==
    /\ \A c \in Channels \ overlapped :
          /\ Len(bound[c]) <= 1
          /\ \A u \in ChannelCalls : Opening(u, c) => bound[c] = <<>>
          /\ \A u, v \in ChannelCalls : Opening(u, c) /\ Opening(v, c) => u = v
    /\ \A p \in Publications : copies[p] > 1 => ChannelOf[p] \in overlapped

Inv == TasksTyped /\ Placed /\ Answered /\ HandlersFit /\ ChannelsTyped /\ Published /\ Overlaps

-----------------------------------------------------------------------------
\* Lists without duplicates.
LEMMA AppendNew ==
    ASSUME NEW S, NEW s \in Seq(S), NEW e \in S, IsInjective(s), e \notin ToSet(s)
    PROVE  Append(s, e) \in Seq(S) /\ IsInjective(Append(s, e)) /\ ToSet(Append(s, e)) = ToSet(s) \cup {e}
<1>1. /\ Append(s, e) \in Seq(S) /\ Len(Append(s, e)) = Len(s) + 1
      /\ \A i \in 1 .. Len(s) : Append(s, e)[i] = s[i]
      /\ Append(s, e)[Len(s) + 1] = e
  BY AppendProperties
<1>2. DOMAIN s = 1 .. Len(s) /\ DOMAIN Append(s, e) = (1 .. Len(s)) \cup {Len(s) + 1}
  BY <1>1
<1>3. IsInjective(Append(s, e))
  BY <1>1, <1>2 DEF IsInjective, ToSet
<1>4. ToSet(Append(s, e)) = ToSet(s) \cup {e}
  BY <1>1, <1>2 DEF ToSet
<1>5. QED BY <1>1, <1>3, <1>4

\* shift()
LEMMA HeadLeaves ==
    ASSUME NEW S, NEW s \in Seq(S), s # <<>>
    PROVE  /\ Head(s) \in S /\ Tail(s) \in Seq(S) /\ Head(s) \in ToSet(s)
           /\ ToSet(Tail(s)) \subseteq ToSet(s)
           /\ ToSet(s) = ToSet(Tail(s)) \cup {Head(s)}
           /\ IsInjective(s) => IsInjective(Tail(s)) /\ Head(s) \notin ToSet(Tail(s))
<1> DEFINE n == Len(s)
<1>1. /\ n \in Nat /\ n > 0 /\ DOMAIN s = 1 .. n /\ Head(s) = s[1] /\ Head(s) \in S
      /\ Tail(s) \in Seq(S) /\ DOMAIN Tail(s) = 1 .. n - 1
      /\ \A i \in 1 .. n - 1 : Tail(s)[i] = s[i + 1]
  OBVIOUS
<1> HIDE DEF n
<1>2. Head(s) \in ToSet(s)
  BY <1>1 DEF ToSet
<1>3. \A i \in 1 .. n - 1 : i + 1 \in 1 .. n /\ i + 1 # 1
  BY <1>1
<1>4. ToSet(Tail(s)) \subseteq ToSet(s)
  BY <1>1, <1>3 DEF ToSet
<1>5. ASSUME NEW x \in ToSet(s), x # Head(s) PROVE x \in ToSet(Tail(s))
  <2>1. PICK i \in 1 .. n : s[i] = x
    BY <1>1, <1>5 DEF ToSet
  <2>2. i - 1 \in 1 .. n - 1 /\ (i - 1) + 1 = i
    BY <1>1, <1>5, <2>1
  <2>3. Tail(s)[i - 1] = x
    BY <1>1, <2>1, <2>2
  <2>4. QED BY <1>1, <2>2, <2>3 DEF ToSet
<1>6. ASSUME IsInjective(s) PROVE IsInjective(Tail(s)) /\ Head(s) \notin ToSet(Tail(s))
  <2>1. \A i, j \in 1 .. n : s[i] = s[j] => i = j
    BY <1>1, <1>6 DEF IsInjective
  <2>2. ASSUME NEW i \in 1 .. n - 1, NEW j \in 1 .. n - 1, Tail(s)[i] = Tail(s)[j] PROVE i = j
    <3>1. i + 1 \in 1 .. n /\ j + 1 \in 1 .. n /\ s[i + 1] = s[j + 1]
      BY <1>1, <1>3, <2>2
    <3>2. QED BY <2>1, <3>1
  <2>3. ASSUME NEW i \in 1 .. n - 1 PROVE Tail(s)[i] # Head(s)
    <3>1. i + 1 \in 1 .. n /\ 1 \in 1 .. n /\ i + 1 # 1
      BY <1>1, <1>3
    <3>2. s[i + 1] # s[1]
      BY <2>1, <3>1
    <3>3. QED BY <1>1, <3>2
  <2>4. QED BY <1>1, <2>2, <2>3 DEF IsInjective, ToSet
<1>7. QED BY <1>1, <1>2, <1>4, <1>5, <1>6

LEMMA LeastIndex ==
    ASSUME NEW T, T \subseteq Nat, T # {}
    PROVE  \E i \in T : \A j \in T : ~ j < i
<1>1. PICK i \in T : \A j \in T : ~ (<<j, i>> \in OpToRel(<, Nat))
  BY NatLessThanWellFounded, WFMin
<1>2. ASSUME NEW j \in T, j < i PROVE FALSE
  <2>1. <<j, i>> \in OpToRel(<, Nat)
    BY <1>2 DEF OpToRel
  <2>2. QED BY <1>1, <2>1
<1>3. QED BY <1>2

\* kept[n] of Kept, once n events were looked at.
Step(g, list, S, n) == IF n = 0 THEN <<>>
                       ELSE IF list[n] \in S THEN Append(g[n - 1], list[n]) ELSE g[n - 1]
IsKept(g, list, S, m) == g = [n \in 0 .. m |-> Step(g, list, S, n)]

LEMMA KeptExists ==
    ASSUME NEW list, NEW S, NEW m \in Nat
    PROVE  \E g : IsKept(g, list, S, m)
<1> DEFINE Lacks(i) == ~ \E g : IsKept(g, list, S, i)
<1> SUFFICES ASSUME {i \in Nat : Lacks(i)} # {} PROVE FALSE
  OBVIOUS
<1>1. PICK i \in {n \in Nat : Lacks(n)} : \A j \in {n \in Nat : Lacks(n)} : ~ j < i
  BY LeastIndex
<1>2. i \in Nat /\ Lacks(i) /\ \A j \in Nat : j < i => ~Lacks(j)
  BY <1>1
<1>3. CASE i = 0
  <2>1. IsKept([n \in 0 .. 0 |-> <<>>], list, S, 0)
    BY DEF IsKept, Step
  <2>2. QED BY <1>2, <1>3, <2>1
<1>4. CASE i # 0
  <2>1. i - 1 \in Nat /\ i - 1 < i
    BY <1>2, <1>4
  <2>2. PICK g : IsKept(g, list, S, i - 1)
    BY <1>2, <2>1
  <2> DEFINE h == [n \in 0 .. i |-> IF n = i THEN Step(g, list, S, i) ELSE g[n]]
  <2>3. \A n \in 0 .. i - 1 : g[n] = Step(g, list, S, n)
    BY <2>2 DEF IsKept
  <2>4. \A n \in 0 .. i : n # 0 => h[n - 1] = g[n - 1]
    BY <1>2
  <2>5. \A n \in 0 .. i : h[n] = Step(g, list, S, n)
    BY <1>2, <2>3
  <2>6. \A n \in 0 .. i : Step(h, list, S, n) = Step(g, list, S, n)
    BY <2>4 DEF Step
  <2>7. h = [n \in 0 .. i |-> Step(h, list, S, n)]
    BY <2>5, <2>6
  <2>8. QED BY <1>2, <2>7 DEF IsKept
<1>5. QED BY <1>3, <1>4

\* What is kept of a list without duplicates are its events in S, once.
LEMMA KeptEvents ==
    ASSUME NEW Ev, NEW list \in Seq(Ev), IsInjective(list), NEW S
    PROVE  Kept(list, S) \in Seq(Ev) /\ IsInjective(Kept(list, S)) /\ ToSet(Kept(list, S)) = ToSet(list) \cap S
<1> DEFINE m == Len(list)
           g == CHOOSE f : IsKept(f, list, S, m)
<1>1. m \in Nat /\ DOMAIN list = 1 .. m /\ \A n \in 1 .. m : list[n] \in Ev
  OBVIOUS
<1>2. Kept(list, S) = g[m]
  BY DEF Kept, IsKept, Step
<1>3. IsKept(g, list, S, m)
  BY <1>1, KeptExists
<1> HIDE DEF m, g
<1>4. \A n \in 0 .. m : g[n] = Step(g, list, S, n)
  BY <1>3 DEF IsKept
<1> DEFINE In(n) == {list[i] : i \in 1 .. n} \cap S
           Good(n) == g[n] \in Seq(Ev) /\ IsInjective(g[n]) /\ ToSet(g[n]) = In(n)
<1>5. Good(0)
  <2>1. g[0] = <<>>
    BY <1>1, <1>4 DEF Step
  <2>2. ToSet(<<>>) = {} /\ (1 .. 0) = {}
    BY DEF ToSet
  <2>3. QED BY <2>1, <2>2 DEF IsInjective
<1>6. ASSUME NEW n \in 1 .. m, Good(n - 1) PROVE Good(n)
  <2> DEFINE e == list[n]
             s == g[n - 1]
  <2>1. n - 1 \in Nat /\ n \in 0 .. m /\ (1 .. n) = (1 .. n - 1) \cup {n} /\ n # 0
    BY <1>1
  <2>2. s \in Seq(Ev) /\ IsInjective(s) /\ ToSet(s) = In(n - 1) /\ e \in Ev
    BY <1>1, <1>6
  <2>3. {list[i] : i \in 1 .. n} = {list[i] : i \in 1 .. n - 1} \cup {e}
    BY <2>1
  <2>4. CASE e \notin S
    <3>1. g[n] = s
      BY <1>4, <2>1, <2>4 DEF Step
    <3>2. In(n) = In(n - 1)
      BY <2>3, <2>4
    <3>3. QED BY <2>2, <3>1, <3>2
  <2>5. CASE e \in S
    <3>1. g[n] = Append(s, e)
      BY <1>4, <2>1, <2>5 DEF Step
    <3>2. e \notin In(n - 1)
      BY <1>1, <2>1 DEF IsInjective
    <3>3. In(n) = In(n - 1) \cup {e}
      BY <2>3, <2>5
    <3> HIDE DEF s, e, In
    <3>4. e \notin ToSet(s)
      BY <2>2, <3>2
    <3>5. Append(s, e) \in Seq(Ev) /\ IsInjective(Append(s, e)) /\ ToSet(Append(s, e)) = ToSet(s) \cup {e}
      BY <2>2, <3>4, AppendNew
    <3>6. QED BY <2>2, <3>1, <3>3, <3>5
  <2>6. QED BY <2>4, <2>5
<1>7. \A n \in 0 .. m : Good(n)
  <2> DEFINE bad == {n \in 0 .. m : ~Good(n)}
  <2> HIDE DEF Good
  <2> SUFFICES ASSUME bad # {} PROVE FALSE
    OBVIOUS
  <2>0. bad \subseteq Nat
    BY <1>1
  <2>1. PICK i \in bad : \A j \in bad : ~ j < i
    BY <2>0, LeastIndex
  <2>2. i # 0
    BY <1>5, <2>1
  <2>3. i \in 1 .. m /\ i - 1 \in 0 .. m /\ i - 1 < i
    BY <1>1, <2>1, <2>2
  <2>4. Good(i - 1)
    BY <2>1, <2>3
  <2>5. QED BY <1>6, <2>1, <2>3, <2>4
<1>8. Good(m)
  <2>1. m \in 0 .. m
    BY <1>1
  <2> HIDE DEF Good
  <2>2. QED BY <1>7, <2>1
<1>9. ToSet(list) = {list[i] : i \in 1 .. m}
  BY <1>1 DEF ToSet
<1>10. QED BY <1>2, <1>8, <1>9

-----------------------------------------------------------------------------
TaskPart == TasksTyped /\ Placed /\ Answered /\ HandlersFit
ChannelPart == ChannelsTyped /\ Published /\ Overlaps

LEMMA InitInv == Init => Inv
<1> SUFFICES ASSUME Init PROVE Inv
  OBVIOUS
<1>1. /\ ToSet(<<>>) = {} /\ IsInjective(<<>>) /\ DOMAIN <<>> = {} /\ Len(<<>>) = 0
  BY DEF ToSet, IsInjective
<1>2. TasksTyped
  <2>1. <<>> \in Seq(Tasks) /\ <<>> \in Seq(Replies)
    OBVIOUS
  <2>2. QED BY <2>1 DEF Init, TasksTyped
<1>3. Placed
  BY <1>1 DEF Init, Placed
<1>4. Answered
  BY <1>1 DEF Init, Answered, Tasks
<1>5. HandlersFit
  <2>1. handlers = <<>> /\ <<>> \in Seq(Rpcs \cup Channels)
    BY DEF Init
  <2>2. \A s \in Subscribers : call[s] = "uncalled"
    BY DEF Init, ChannelCalls
  <2>3. \A t \in Rpcs : promise[t] = "uncalled"
    BY DEF Init, Tasks
  <2>4. QED BY <1>1, <2>1, <2>2, <2>3 DEF HandlersFit
<1>6. ChannelsTyped
  <2>1. <<>> \in Seq(Seq(Publications))
    OBVIOUS
  <2>2. bound = [c \in Channels |-> <<>>] /\ call = [u \in ChannelCalls |-> "uncalled"]
    BY DEF Init
  <2>3. bound \in [Channels -> Seq(Seq(Publications))]
    BY <2>1, <2>2
  <2>4. listeners = <<>> /\ <<>> \in Seq(Subscribers)
    BY DEF Init
  <2>5. QED BY <1>1, <2>2, <2>3, <2>4 DEF Init, ChannelsTyped
<1>7. Published
  <2>1. \A p \in Publications : call[p] = "uncalled"
    BY DEF Init, ChannelCalls
  <2>2. QED BY <1>1, <2>1 DEF Init, Published
<1>8. Overlaps
  BY <1>1 DEF Init, Overlaps, Opening
<1>9. QED BY <1>2, <1>3, <1>4, <1>5, <1>6, <1>7, <1>8 DEF Inv

\* What a step on the tasks leaves of the channels.
LEMMA ChannelsRest ==
    ASSUME ChannelPart, UNCHANGED <<call, bound, heard, threw, listeners, before, copies, overlapped>>,
           confused' \subseteq Subscribers, connected' => connected
    PROVE  ChannelPart'
<1>1. ChannelsTyped' /\ Overlaps'
  BY DEF ChannelPart, ChannelsTyped, Overlaps, Opening
<1>2. \A s \in Subscribers, p \in Publications : Heard(s, p)' <=> Heard(s, p)
  BY DEF Heard, Interrupted, Undelivered, Reaches
<1>3. Published'
  BY <1>2 DEF ChannelPart, Published, Reaches
<1>4. QED BY <1>1, <1>3 DEF ChannelPart

\* What a step leaves of the handlers if it touches none.
LEMMA HandlersRest ==
    ASSUME HandlersFit, UNCHANGED <<handlers, call, timer>>, connected' => connected,
           \A t \in Rpcs : /\ promise[t] # "uncalled" => promise'[t] # "uncalled"
                           /\ promise'[t] = "pending" => promise[t] = "pending"
    PROVE  HandlersFit'
BY DEF HandlersFit

\* What a step leaves of the replies if it settles nothing and ends no listener.
LEMMA RepliesRest ==
    ASSUME Answered, UNCHANGED <<replies, got, outcome, confused>>,
           \A t \in Rpcs : promise'[t] = "resolved" <=> promise[t] = "resolved"
    PROVE  Answered'
BY DEF Answered

LEMMA SendInv == ASSUME Inv, NEW t \in Sends, Send(t) PROVE Inv'
<1>1. TaskPart /\ ChannelPart /\ t \in Tasks /\ t \notin Rpcs
  BY TaskAssumption DEF Inv, TaskPart, ChannelPart, Tasks
<1>2. /\ promise[t] = "uncalled" /\ promise' = [promise EXCEPT ![t] = "pending"]
      /\ sent' = [sent EXCEPT ![t] = "opening"]
      /\ UNCHANGED <<connected, queue, replies, timer, handlers, got, listening, unacked, running, outcome>>
      /\ UNCHANGED <<call, bound, heard, threw, listeners, before, copies, overlapped, confused>>
  BY DEF Send, consumerVars, channelVars
<1>3. TasksTyped'
  BY <1>1, <1>2 DEF TaskPart, TasksTyped
<1>4. Placed'
  <2>1. sent[t] = "no"
    BY <1>1, <1>2 DEF TaskPart, Placed
  <2>2. QED BY <1>1, <1>2, <2>1 DEF TaskPart, TasksTyped, Placed
<1>5. \A r \in Rpcs : promise'[r] = promise[r]
  BY <1>1, <1>2 DEF TaskPart, TasksTyped
<1>6. Answered' /\ HandlersFit'
  BY <1>1, <1>2, <1>5, RepliesRest, HandlersRest DEF TaskPart
<1>7. ChannelPart'
  BY <1>1, <1>2, ChannelsRest DEF ChannelPart, ChannelsTyped
<1>8. QED BY <1>3, <1>4, <1>6, <1>7 DEF Inv, ChannelPart

LEMMA RpcInv == ASSUME Inv, NEW t \in Rpcs, Rpc(t) PROVE Inv'
<1>1. TaskPart /\ ChannelPart /\ t \in Tasks /\ Rpcs \subseteq Tasks
  BY DEF Inv, TaskPart, ChannelPart, Tasks
<1>2. /\ promise[t] = "uncalled" /\ promise' = [promise EXCEPT ![t] = "pending"]
      /\ timer' = [timer EXCEPT ![t] = TRUE]
      /\ \/ /\ connected /\ handlers' = Append(handlers, t)
            /\ sent' = [sent EXCEPT ![t] = "opening"]
         \/ ~connected /\ handlers' = handlers /\ sent' = sent
      /\ UNCHANGED <<connected, queue, replies, got, listening, unacked, running, outcome>>
      /\ UNCHANGED <<call, bound, heard, threw, listeners, before, copies, overlapped, confused>>
  BY DEF Rpc, consumerVars, channelVars
<1>3. TasksTyped'
  BY <1>1, <1>2 DEF TaskPart, TasksTyped
<1>4. Placed'
  <2>1. sent[t] = "no"
    BY <1>1, <1>2 DEF TaskPart, Placed
  <2>2. /\ sent'[t] # "sent" /\ \A r \in Tasks : r # t => sent'[r] = sent[r]
        /\ \A r \in Tasks : promise'[r] = "uncalled" => promise[r] = "uncalled" /\ r # t
    BY <1>1, <1>2, <2>1 DEF TaskPart, TasksTyped
  <2>3. \A r \in Tasks : sent[r] = "sent" => sent'[r] = "sent"
    BY <2>1, <2>2
  <2>4. \A r \in ToSet(queue) : r \in Tasks
    BY <1>1 DEF TaskPart, TasksTyped, ToSet
  <2>5. \A k \in Consumers : unacked[k] \in Tasks \cup {None}
    BY <1>1 DEF TaskPart, TasksTyped
  <2>6. \A r \in Tasks : sent'[r] # "sent" => sent[r] # "sent"
    BY <2>3
  <2>7. QED BY <1>1, <1>2, <2>2, <2>3, <2>4, <2>5, <2>6 DEF TaskPart, Placed
<1>5. \A r \in Rpcs : r # t => promise'[r] = promise[r] /\ timer'[r] = timer[r]
  BY <1>1, <1>2 DEF TaskPart, TasksTyped
<1>6. promise'[t] = "pending" /\ timer'[t] = TRUE
  BY <1>1, <1>2 DEF TaskPart, TasksTyped
<1>7. Answered'
  BY <1>1, <1>2, <1>5, <1>6, RepliesRest DEF TaskPart
<1>8. HandlersFit'
  <2>1. CASE ~connected /\ handlers' = handlers
    BY <1>1, <1>2, <1>5, <1>6, <2>1 DEF TaskPart, HandlersFit
  <2>2. CASE connected /\ handlers' = Append(handlers, t)
    <3>1. /\ handlers \in Seq(Rpcs \cup Channels) /\ IsInjective(handlers) /\ t \notin ToSet(handlers)
          /\ t \in Rpcs \cup Channels
      BY <1>1, <1>2 DEF TaskPart, HandlersFit
    <3>2. /\ handlers' \in Seq(Rpcs \cup Channels) /\ IsInjective(handlers)'
          /\ ToSet(handlers)' = ToSet(handlers) \cup {t}
      BY <2>2, <3>1, AppendNew
    <3>3. t \notin Channels
      BY ChannelAssumption
    <3>4. QED BY <1>1, <1>2, <1>5, <1>6, <3>2, <3>3 DEF TaskPart, HandlersFit
  <2>3. QED BY <1>2, <2>1, <2>2
<1>9. ChannelPart'
  BY <1>1, <1>2, ChannelsRest DEF ChannelPart, ChannelsTyped
<1>10. QED BY <1>3, <1>4, <1>7, <1>8, <1>9 DEF Inv, ChannelPart

LEMMA QueueInv == ASSUME Inv, NEW t \in Tasks, QueueOpens(t) \/ QueueFails(t) PROVE Inv'
<1>1. TaskPart /\ ChannelPart /\ Sends \cap Rpcs = {}
  BY TaskAssumption DEF Inv, TaskPart, ChannelPart
<1>2. /\ sent[t] = "opening"
      /\ \/ /\ sent' = [sent EXCEPT ![t] = "sent"] /\ queue' = Append(queue, t)
            /\ promise' = [promise EXCEPT ![t] = IF t \in Sends THEN "resolved" ELSE promise[t]]
         \/ /\ sent' = [sent EXCEPT ![t] = "failed"] /\ queue' = queue
            /\ promise' = [promise EXCEPT ![t] = IF t \in Sends THEN "rejected" ELSE promise[t]]
      /\ UNCHANGED <<connected, replies, timer, handlers, got, listening, unacked, running, outcome>>
      /\ UNCHANGED <<call, bound, heard, threw, listeners, before, copies, overlapped, confused>>
  BY DEF QueueOpens, QueueFails, consumerVars, channelVars
<1>3. /\ queue \in Seq(Tasks) /\ IsInjective(queue) /\ t \notin ToSet(queue)
      /\ outcome[t] = "none" /\ promise[t] # "uncalled" /\ \A k \in Consumers : unacked[k] # t
  BY <1>1, <1>2, TaskAssumption DEF TaskPart, TasksTyped, Placed
<1>4. /\ Append(queue, t) \in Seq(Tasks) /\ IsInjective(Append(queue, t))
      /\ ToSet(Append(queue, t)) = ToSet(queue) \cup {t}
  BY <1>3, AppendNew
<1>5. TasksTyped'
  BY <1>1, <1>2, <1>4 DEF TaskPart, TasksTyped
<1>6. Placed'
  <2>1. /\ sent'[t] \in {"sent", "failed"} /\ \A r \in Tasks : r # t => sent'[r] = sent[r]
        /\ \A r \in Tasks : promise'[r] = "uncalled" => promise[r] = "uncalled"
        /\ sent'[t] = "sent" \/ queue' = queue
    BY <1>1, <1>2, <1>3 DEF TaskPart, TasksTyped
  <2>2. IsInjective(queue') /\ (queue' = queue \/ ToSet(queue') = ToSet(queue) \cup {t})
    BY <1>2, <1>3, <1>4
  <2>3. \A r \in ToSet(queue') : sent'[r] = "sent" /\ outcome'[r] = "none"
    <3>1. \A r \in ToSet(queue) : r \in Tasks
      BY <1>3 DEF ToSet
    <3>2. QED BY <1>1, <1>2, <1>3, <2>1, <2>2, <3>1 DEF TaskPart, Placed
  <2>4. \A k \in Consumers :
          /\ unacked'[k] # None => unacked'[k] \notin ToSet(queue') /\ sent'[unacked'[k]] = "sent"
          /\ running'[k] => unacked'[k] # None /\ outcome'[unacked'[k]] = "none"
    BY <1>1, <1>2, <1>3, <2>1, <2>2 DEF TaskPart, TasksTyped, Placed
  <2>5. \A r \in Tasks : /\ sent'[r] # "sent" => outcome'[r] = "none"
                         /\ promise'[r] = "uncalled" => sent'[r] = "no"
    BY <1>1, <1>2, <1>3, <2>1 DEF TaskPart, Placed
  <2>6. QED BY <1>1, <1>2, <2>2, <2>3, <2>4, <2>5 DEF TaskPart, Placed
<1>7. \A r \in Rpcs : promise'[r] = promise[r]
  BY <1>1, <1>2 DEF TaskPart, TasksTyped, Tasks
<1>8. Answered' /\ HandlersFit'
  BY <1>1, <1>2, <1>7, RepliesRest, HandlersRest DEF TaskPart
<1>9. ChannelPart'
  BY <1>1, <1>2, ChannelsRest DEF ChannelPart, ChannelsTyped
<1>10. QED BY <1>5, <1>6, <1>8, <1>9 DEF Inv, ChannelPart

LEMMA TimeoutInv == ASSUME Inv, NEW t \in Rpcs, Timeout(t) PROVE Inv'
<1>1. TaskPart /\ ChannelPart /\ Rpcs \subseteq Tasks
  BY DEF Inv, TaskPart, ChannelPart, Tasks
<1>2. /\ timer' = [timer EXCEPT ![t] = FALSE]
      /\ promise' = [promise EXCEPT ![t] = IF promise[t] = "pending" THEN "rejected" ELSE promise[t]]
      /\ UNCHANGED <<connected, queue, replies, sent, handlers, got, listening, unacked, running, outcome>>
      /\ UNCHANGED <<call, bound, heard, threw, listeners, before, copies, overlapped, confused>>
  BY DEF Timeout, consumerVars, channelVars
<1>3. TasksTyped' /\ Placed'
  <2>1. TasksTyped'
    BY <1>1, <1>2 DEF TaskPart, TasksTyped
  <2>2. \A r \in Tasks : promise'[r] = "uncalled" => promise[r] = "uncalled"
    BY <1>1, <1>2 DEF TaskPart, TasksTyped
  <2>3. QED BY <1>1, <1>2, <2>1, <2>2 DEF TaskPart, Placed
<1>4. \A r \in Rpcs : /\ promise'[r] = "resolved" <=> promise[r] = "resolved"
                      /\ promise'[r] = "uncalled" <=> promise[r] = "uncalled"
                      /\ promise'[r] = "pending" => promise[r] = "pending" /\ timer'[r] = timer[r]
  BY <1>1, <1>2 DEF TaskPart, TasksTyped
<1>5. Answered'
  BY <1>1, <1>2, <1>4, RepliesRest DEF TaskPart
<1>6. HandlersFit'
  BY <1>1, <1>2, <1>4 DEF TaskPart, HandlersFit
<1>7. ChannelPart'
  BY <1>1, <1>2, ChannelsRest DEF ChannelPart, ChannelsTyped
<1>8. QED BY <1>3, <1>5, <1>6, <1>7 DEF Inv, ChannelPart

\* What a step leaves of the tasks' places if it moves none.
LEMMA PlacesRest ==
    ASSUME Placed, UNCHANGED <<queue, sent, unacked, running, outcome>>,
           \A t \in Tasks : promise'[t] = "uncalled" => promise[t] = "uncalled"
    PROVE  Placed'
BY DEF Placed

\* The events before an empty reply runs into an rpc.
LEMMA FirstRpc ==
    ASSUME handlers \in Seq(Rpcs \cup Channels), ToSet(handlers) \cap Rpcs # {}
    PROVE  handlers[Min({i \in DOMAIN handlers : handlers[i] \in Rpcs})] \in ToSet(handlers) \cap Rpcs
<1> DEFINE I == {i \in DOMAIN handlers : handlers[i] \in Rpcs}
<1>1. I # {} /\ I \subseteq Nat
  BY DEF ToSet
<1>2. PICK i \in I : \A j \in I : ~ j < i
  BY <1>1, LeastIndex
<1>3. \A j \in I : i <= j
  BY <1>1, <1>2
<1>4. Min(I) \in I
  BY <1>2, <1>3 DEF Min
<1>5. QED BY <1>4 DEF ToSet

LEMMA ReplyArrivesInv == ASSUME Inv, ReplyArrives PROVE Inv'
<1> DEFINE reply == Head(replies)
           waiting == ToSet(handlers) \cap Rpcs
           settled == {t \in waiting : promise[t] = "pending"}
           throws == reply.answer = "nothing" /\ waiting # {}
           first == Min({i \in DOMAIN handlers : handlers[i] \in Rpcs})
<1>1. TaskPart /\ ChannelPart /\ Rpcs \subseteq Tasks
  BY DEF Inv, TaskPart, ChannelPart, Tasks
<1>2. /\ connected /\ replies # <<>> /\ replies' = Tail(replies)
      /\ UNCHANGED <<connected, queue, sent, listening, unacked, running, outcome>>
      /\ UNCHANGED <<call, bound, heard, threw, listeners, before, copies, overlapped>>
  BY DEF ReplyArrives, consumerVars
<1>3. \/ /\ throws
         /\ timer' = [timer EXCEPT ![handlers[first]] = FALSE]
         /\ UNCHANGED <<promise, got, handlers>>
      \/ /\ ~throws
         /\ handlers' = Kept(handlers, Channels)
         /\ timer' = [t \in Rpcs |-> timer[t] /\ t \notin waiting]
         /\ promise' = [t \in Tasks |-> IF t \in settled THEN Verdict(reply) ELSE promise[t]]
         /\ got' = [t \in Rpcs |-> IF t \in settled /\ reply.status = 200 THEN reply.task ELSE got[t]]
  BY DEF ReplyArrives
<1>4. confused' \subseteq Subscribers
  BY <1>1 DEF ReplyArrives, Confuse, ChannelPart, ChannelsTyped
<1>5. /\ reply \in Replies /\ Tail(replies) \in Seq(Replies)
      /\ outcome[reply.task] # "none"
      /\ reply.status = 200 => outcome[reply.task] = reply.answer
  <2>1. replies \in Seq(Replies) /\ reply = replies[1] /\ 1 \in DOMAIN replies
    BY <1>1, <1>2 DEF TaskPart, TasksTyped
  <2>2. QED BY <1>1, <1>2, <2>1, HeadLeaves DEF TaskPart, Answered
<1>6. reply.task \in Rpcs /\ reply.task # None /\ reply.status \in {200, 500} /\ reply.answer \in Answers \cup {"error"}
  BY <1>5, TaskAssumption DEF Replies, Tasks
<1>7. /\ handlers \in Seq(Rpcs \cup Channels) /\ IsInjective(handlers)
      /\ Channels \cap Rpcs = {} /\ \A t \in waiting : promise[t] # "uncalled"
  BY <1>1, ChannelAssumption DEF TaskPart, HandlersFit
<1>8. /\ Verdict(reply) \in {"resolved", "rejected"}
      /\ Verdict(reply) = "resolved" <=> reply.status = 200
  BY <1>6 DEF Verdict
<1>9. /\ Kept(handlers, Channels) \in Seq(Rpcs \cup Channels) /\ IsInjective(Kept(handlers, Channels))
      /\ ToSet(Kept(handlers, Channels)) = ToSet(handlers) \cap Channels
  BY <1>7, KeptEvents
<1> HIDE DEF reply, throws, first
<1>10. throws => handlers[first] \in waiting
  BY <1>7, FirstRpc DEF throws, first
<1>11. \A t \in Tasks : /\ promise'[t] = promise[t] \/ promise'[t] \in {"resolved", "rejected"}
                        /\ promise'[t] = "uncalled" <=> promise[t] = "uncalled"
  BY <1>1, <1>3, <1>7, <1>8 DEF TaskPart, TasksTyped
<1>12. TasksTyped'
  <2>1. promise' \in [Tasks -> {"uncalled", "pending", "resolved", "rejected"}]
    BY <1>1, <1>3, <1>8 DEF TaskPart, TasksTyped
  <2>2. timer' \in [Rpcs -> BOOLEAN] /\ got' \in [Rpcs -> Rpcs \cup {None}]
    <3>1. timer \in [Rpcs -> BOOLEAN] /\ got \in [Rpcs -> Rpcs \cup {None}]
      BY <1>1 DEF TaskPart, TasksTyped
    <3>2. timer' \in [Rpcs -> BOOLEAN]
      <4>1. CASE timer' = [timer EXCEPT ![handlers[first]] = FALSE]
        BY <3>1, <4>1
      <4>2. CASE timer' = [t \in Rpcs |-> timer[t] /\ t \notin waiting]
        BY <4>2
      <4>3. QED BY <1>3, <4>1, <4>2
    <3>3. got' \in [Rpcs -> Rpcs \cup {None}]
      BY <1>3, <1>6, <3>1
    <3>4. QED BY <3>2, <3>3
  <2>3. QED BY <1>1, <1>2, <1>5, <2>1, <2>2 DEF TaskPart, TasksTyped
<1>13. Placed'
  BY <1>1, <1>2, <1>11, PlacesRest DEF TaskPart
<1>14. Answered'
  <2>1. \A i \in DOMAIN replies' : i + 1 \in DOMAIN replies /\ replies'[i] = replies[i + 1]
    BY <1>1, <1>2 DEF TaskPart, TasksTyped
  <2>2. \A i \in DOMAIN replies' :
          /\ outcome[replies'[i].task] # "none"
          /\ replies'[i].status = 200 => outcome[replies'[i].task] = replies'[i].answer
    BY <1>1, <2>1 DEF TaskPart, Answered
  <2>3. ASSUME NEW t \in Rpcs
        PROVE  /\ promise'[t] = "resolved" <=> got'[t] # None
               /\ got'[t] # None => outcome[got'[t]] = "value"
    <3>1. /\ promise[t] = "resolved" <=> got[t] # None
          /\ got[t] # None => outcome[got[t]] = "value"
      BY <1>1 DEF TaskPart, Answered
    <3>2. CASE promise'[t] = promise[t] /\ got'[t] = got[t]
      BY <3>1, <3>2
    <3>3. CASE ~throws /\ t \in settled
      <4>1. promise'[t] = Verdict(reply) /\ promise[t] = "pending"
        BY <1>1, <1>3, <3>3
      <4>2. got'[t] = IF reply.status = 200 THEN reply.task ELSE got[t]
        BY <1>1, <1>3, <3>3
      <4>3. reply.status = 200 => reply.answer = "value"
        <5>1. waiting # {} /\ reply.answer # "nothing"
          BY <3>3 DEF throws
        <5>2. outcome[reply.task] \in Answers \cup {"none", "threw"}
          BY <1>1, <1>6 DEF TaskPart, TasksTyped
        <5>3. reply.answer \in Answers \/ reply.answer = "error"
          BY <1>6
        <5>4. reply.answer \in Answers => reply.answer = "value"
          BY <5>1, TaskAssumption
        <5>5. reply.status = 200 => reply.answer # "error"
          BY <1>5, <5>2, TaskAssumption
        <5>6. QED BY <5>3, <5>4, <5>5
      <4>4. QED BY <1>5, <1>6, <1>8, <3>1, <4>1, <4>2, <4>3
    <3>4. QED BY <1>1, <1>3, <3>2, <3>3
  <2>4. \E t \in Rpcs : outcome[t] # "none"
    BY <1>5, <1>6
  <2>5. QED BY <1>2, <2>2, <2>3, <2>4 DEF Answered
<1>15. HandlersFit'
  <2>1. CASE throws
    <3>1. handlers' = handlers /\ promise' = promise
      BY <1>3, <2>1
    <3>2. \A t \in Rpcs : timer[t] => timer'[t] \/ t \in ToSet(handlers)
      BY <1>1, <1>3, <1>10, <2>1 DEF TaskPart, TasksTyped
    <3>3. QED BY <1>1, <1>2, <3>1, <3>2 DEF TaskPart, HandlersFit
  <2>2. CASE ~throws
    <3>1. handlers' = Kept(handlers, Channels)
      BY <1>3, <2>2
    <3>2. ToSet(handlers') \cap Rpcs = {} /\ ToSet(handlers') \cap Channels = ToSet(handlers) \cap Channels
      BY <1>7, <1>9, <3>1
    <3>3. ASSUME NEW t \in Rpcs, promise'[t] = "pending" PROVE timer'[t]
      <4>1. t \notin settled /\ promise[t] = "pending"
        BY <1>1, <1>3, <1>8, <2>2, <3>3
      <4>2. t \notin waiting /\ timer[t]
        BY <1>1, <1>2, <4>1 DEF TaskPart, HandlersFit
      <4>3. QED BY <1>3, <2>2, <4>2
    <3>4. QED BY <1>1, <1>2, <1>9, <3>1, <3>2, <3>3 DEF TaskPart, HandlersFit
  <2>3. QED BY <2>1, <2>2
<1>16. ChannelPart'
  BY <1>1, <1>2, <1>4, ChannelsRest
<1>17. QED BY <1>12, <1>13, <1>14, <1>15, <1>16 DEF Inv, ChannelPart

LEMMA ConsumerInv == ASSUME Inv, NEW k \in Consumers, Consume(k) \/ Cancel(k) PROVE Inv'
<1>1. TaskPart /\ ChannelPart
  BY DEF Inv, TaskPart, ChannelPart
<1>2. /\ \/ listening' = [listening EXCEPT ![k] = "on"]
         \/ listening' = [listening EXCEPT ![k] = "off"]
      /\ UNCHANGED <<connected, queue, replies, promise, timer, handlers, got, sent, unacked, running, outcome>>
      /\ UNCHANGED <<call, bound, heard, threw, listeners, before, copies, overlapped, confused>>
  BY DEF Consume, Cancel, callVars, channelVars
<1>3. TasksTyped'
  BY <1>1, <1>2 DEF TaskPart, TasksTyped
<1>4. Placed' /\ Answered' /\ HandlersFit'
  BY <1>1, <1>2, PlacesRest, RepliesRest, HandlersRest DEF TaskPart
<1>5. ChannelPart'
  BY <1>1, <1>2, ChannelsRest DEF ChannelPart, ChannelsTyped
<1>6. QED BY <1>3, <1>4, <1>5 DEF Inv, ChannelPart

LEMMA DeliverInv == ASSUME Inv, NEW k \in Consumers, Deliver(k) PROVE Inv'
<1>1. TaskPart /\ ChannelPart
  BY DEF Inv, TaskPart, ChannelPart
<1>2. /\ unacked[k] = None /\ queue # <<>>
      /\ unacked' = [unacked EXCEPT ![k] = Head(queue)]
      /\ running' = [running EXCEPT ![k] = TRUE]
      /\ queue' = Tail(queue)
      /\ UNCHANGED <<connected, replies, promise, timer, handlers, got, sent, listening, outcome>>
      /\ UNCHANGED <<call, bound, heard, threw, listeners, before, copies, overlapped, confused>>
  BY DEF Deliver, callVars, channelVars
<1>3. PICK t : t = Head(queue)
  OBVIOUS
<1>4. /\ queue \in Seq(Tasks) /\ IsInjective(queue)
      /\ t \in Tasks /\ Tail(queue) \in Seq(Tasks) /\ t \in ToSet(queue)
      /\ ToSet(Tail(queue)) \subseteq ToSet(queue)
      /\ IsInjective(Tail(queue)) /\ t \notin ToSet(Tail(queue))
  BY <1>1, <1>2, <1>3, HeadLeaves DEF TaskPart, TasksTyped, Placed
<1>5. t # None /\ sent[t] = "sent" /\ outcome[t] = "none" /\ \A l \in Consumers : unacked[l] # t
  BY <1>1, <1>4, TaskAssumption DEF TaskPart, Placed
<1>6. TasksTyped'
  BY <1>1, <1>2, <1>3, <1>4 DEF TaskPart, TasksTyped
<1>7. Placed'
  <2>1. /\ unacked'[k] = t /\ running'[k] = TRUE
        /\ \A l \in Consumers : l # k => unacked'[l] = unacked[l] /\ running'[l] = running[l]
    BY <1>1, <1>2, <1>3 DEF TaskPart, TasksTyped
  <2>2. IsInjective(queue') /\ ToSet(queue') \subseteq ToSet(queue) /\ t \notin ToSet(queue')
    BY <1>2, <1>4
  <2>3. QED BY <1>1, <1>2, <1>5, <2>1, <2>2 DEF TaskPart, Placed
<1>8. Answered' /\ HandlersFit'
  BY <1>1, <1>2, RepliesRest, HandlersRest DEF TaskPart
<1>9. ChannelPart'
  BY <1>1, <1>2, ChannelsRest DEF ChannelPart, ChannelsTyped
<1>10. QED BY <1>6, <1>7, <1>8, <1>9 DEF Inv, ChannelPart

\* The listener of k ends in the way e, with an answer a.
LEMMA ListenerInv == ASSUME Inv, NEW k \in Consumers, Returns(k) \/ Throws(k) PROVE Inv'
<1>1. TaskPart /\ ChannelPart
  BY DEF Inv, TaskPart, ChannelPart
<1>2. PICK t : t = unacked[k]
  OBVIOUS
<1>3. /\ running[k] /\ running' = [running EXCEPT ![k] = FALSE]
      /\ UNCHANGED <<connected, queue, promise, timer, handlers, got, sent, listening>>
      /\ UNCHANGED <<call, bound, heard, threw, listeners, before, copies, overlapped, confused>>
  BY DEF Returns, Throws, callVars, channelVars
<1>4. t \in Tasks /\ t # None /\ outcome[t] = "none" /\ sent[t] = "sent" /\ t \notin ToSet(queue)
  BY <1>1, <1>2, <1>3 DEF TaskPart, TasksTyped, Placed
<1> DEFINE Ends(e, status, a) ==
        /\ e \in Answers \cup {"threw"} /\ status \in {200, 500} /\ a \in Answers \cup {"error"}
        /\ outcome' = [outcome EXCEPT ![t] = e]
        /\ status = 200 => e = a
        /\ Reply(t, status, a) \/ replies' = replies
<1>5. PICK e, status, a : Ends(e, status, a)
  <2>1. CASE Returns(k)
    <3>1. PICK a \in Answers : /\ outcome' = [outcome EXCEPT ![t] = a]
                               /\ Reply(t, 200, a) \/ replies' = replies
      BY <1>2, <2>1 DEF Returns
    <3>2. Ends(a, 200, a)
      BY <3>1
    <3> HIDE DEF Ends
    <3>3. QED BY <3>2
  <2>2. CASE Throws(k)
    <3>1. outcome' = [outcome EXCEPT ![t] = "threw"] /\ (Reply(t, 500, "error") \/ replies' = replies)
      BY <1>2, <2>2 DEF Throws
    <3>2. Ends("threw", 500, "error")
      BY <3>1
    <3> HIDE DEF Ends
    <3>3. QED BY <3>2
  <2>3. QED BY <2>1, <2>2
<1>6. e # "none"
  BY <1>5, TaskAssumption
<1>7. unacked' = unacked \/ unacked' = [unacked EXCEPT ![k] = None]
  <2>1. unacked = [unacked EXCEPT ![k] = unacked[k]]
    BY <1>1 DEF TaskPart, TasksTyped
  <2>2. QED BY <2>1 DEF Returns, Throws, Ack, AckFailedRpc
<1>8. outcome'[t] = e /\ \A r \in Tasks : r # t => outcome'[r] = outcome[r]
  BY <1>1, <1>4, <1>5 DEF TaskPart, TasksTyped
<1>9. \/ replies' = replies
      \/ t \in Rpcs /\ replies' = Append(replies, [task |-> t, status |-> status, answer |-> a])
  BY <1>5 DEF Reply
<1>10. /\ replies' \in Seq(Replies)
       /\ \A i \in DOMAIN replies' :
             \/ i \in DOMAIN replies /\ replies'[i] = replies[i]
             \/ replies'[i].task = t /\ replies'[i].status = status /\ replies'[i].answer = a
  <2>1. replies \in Seq(Replies)
    BY <1>1 DEF TaskPart, TasksTyped
  <2>2. CASE replies' = replies
    BY <2>1, <2>2
  <2>3. ASSUME t \in Rpcs, NEW r, r = [task |-> t, status |-> status, answer |-> a],
               replies' = Append(replies, r)
        PROVE  <1>10!1 /\ <1>10!2
    <3>1. r \in Replies /\ r.task = t /\ r.status = status /\ r.answer = a
      BY <1>5, <2>3 DEF Replies
    <3>2. QED BY <2>1, <2>3, <3>1, AppendProperties
  <2>4. QED BY <1>9, <2>2, <2>3
<1>11. TasksTyped'
  <2>1. outcome' \in [Tasks -> Answers \cup {"none", "threw"}]
    BY <1>1, <1>5 DEF TaskPart, TasksTyped
  <2>2. unacked' \in [Consumers -> Tasks \cup {None}] /\ running' \in [Consumers -> BOOLEAN]
    BY <1>1, <1>3, <1>7 DEF TaskPart, TasksTyped
  <2>3. QED BY <1>1, <1>3, <1>10, <2>1, <2>2 DEF TaskPart, TasksTyped
<1>12. Placed'
  <2>1. ~running'[k] /\ \A l \in Consumers : l # k => running'[l] = running[l] /\ unacked'[l] = unacked[l]
    BY <1>1, <1>3, <1>7 DEF TaskPart, TasksTyped
  <2>2. unacked'[k] \in {t, None}
    BY <1>1, <1>2, <1>7 DEF TaskPart, TasksTyped
  <2>3. \A l \in Consumers : l # k => unacked[l] # t
    BY <1>1, <1>2, <1>4 DEF TaskPart, Placed
  <2>4. \A r \in ToSet(queue) : r \in Tasks /\ r # t
    BY <1>1, <1>4 DEF TaskPart, TasksTyped, ToSet
  <2>5. ToSet(queue') = ToSet(queue) /\ IsInjective(queue')
    BY <1>1, <1>3 DEF TaskPart, Placed
  <2>6. \A l \in Consumers :
          /\ unacked'[l] # None => unacked'[l] \notin ToSet(queue') /\ sent'[unacked'[l]] = "sent"
          /\ running'[l] => unacked'[l] # None /\ outcome'[unacked'[l]] = "none"
    BY <1>1, <1>3, <1>4, <1>8, <2>1, <2>2, <2>3, <2>5 DEF TaskPart, TasksTyped, Placed
  <2>7. \A l, m \in Consumers : unacked'[l] = unacked'[m] /\ unacked'[l] # None => l = m
    BY <1>1, <2>1, <2>2, <2>3 DEF TaskPart, Placed
  <2>8. QED BY <1>1, <1>3, <1>4, <1>8, <2>4, <2>5, <2>6, <2>7 DEF TaskPart, Placed
<1>13. Answered'
  <2>1. \A r \in Tasks : outcome[r] # "none" => outcome'[r] = outcome[r]
    BY <1>4, <1>8
  <2>2. ASSUME NEW i \in DOMAIN replies'
        PROVE  /\ outcome'[replies'[i].task] # "none"
               /\ replies'[i].status = 200 => outcome'[replies'[i].task] = replies'[i].answer
    <3>1. CASE i \in DOMAIN replies /\ replies'[i] = replies[i]
      <4>1. replies[i] \in Replies
        BY <1>1, <3>1 DEF TaskPart, TasksTyped
      <4>2. replies[i].task \in Tasks
        BY <4>1 DEF Replies, Tasks
      <4>3. QED BY <1>1, <2>1, <3>1, <4>2 DEF TaskPart, Answered
    <3>2. CASE replies'[i].task = t /\ replies'[i].status = status /\ replies'[i].answer = a
      BY <1>5, <1>6, <1>8, <3>2
    <3>3. QED BY <1>10, <3>1, <3>2
  <2>3. \A r \in Rpcs : got[r] # None => got[r] \in Tasks /\ outcome'[got[r]] = "value"
    BY <1>1, <2>1 DEF TaskPart, TasksTyped, Answered, Tasks
  <2>4. confused # {} => \E r \in Rpcs : outcome'[r] # "none"
    BY <1>1, <2>1 DEF TaskPart, Answered, Tasks
  <2>5. QED BY <1>1, <1>3, <2>2, <2>3, <2>4 DEF TaskPart, Answered
<1>14. HandlersFit'
  BY <1>1, <1>3, HandlersRest DEF TaskPart
<1>15. ChannelPart'
  BY <1>1, <1>3, ChannelsRest DEF ChannelPart, ChannelsTyped
<1>16. QED BY <1>11, <1>12, <1>13, <1>14, <1>15 DEF Inv, ChannelPart

LEMMA DisconnectInv == ASSUME Inv, Disconnect PROVE Inv'
<1>1. TaskPart /\ ChannelPart
  BY DEF Inv, TaskPart, ChannelPart
<1>2. /\ connected' = FALSE /\ handlers' = <<>>
      /\ listening' = [k \in Consumers |-> IF listening[k] = "on" THEN "off" ELSE listening[k]]
      /\ UNCHANGED <<queue, replies, promise, sent, timer, got, unacked, running, outcome>>
      /\ UNCHANGED <<call, bound, heard, threw, listeners, before, copies, overlapped, confused>>
  BY DEF Disconnect, channelVars
<1>3. TasksTyped'
  BY <1>1, <1>2 DEF TaskPart, TasksTyped
<1>4. Placed' /\ Answered'
  BY <1>1, <1>2, PlacesRest, RepliesRest DEF TaskPart
<1>5. HandlersFit'
  <2>1. <<>> \in Seq(Rpcs \cup Channels) /\ IsInjective(<<>>) /\ ToSet(<<>>) = {}
    BY DEF IsInjective, ToSet
  <2>2. QED BY <1>2, <2>1 DEF HandlersFit
<1>6. ChannelPart'
  BY <1>1, <1>2, ChannelsRest DEF ChannelPart, ChannelsTyped
<1>7. QED BY <1>3, <1>4, <1>5, <1>6 DEF Inv, ChannelPart

-----------------------------------------------------------------------------
\* Who listens stays known if nobody subscribes.
LEMMA ListenersStay ==
    ASSUME ChannelsTyped, listeners' = listeners,
           \A s \in Subscribers : call[s] \in {"on", "off"} => call'[s] \in {"on", "off"}
    PROVE  /\ listeners' \in Seq(Subscribers) /\ IsInjective(listeners')
           /\ \A s \in ToSet(listeners') : call'[s] \in {"on", "off"}
<1>1. \A s \in ToSet(listeners) : s \in Subscribers
  BY DEF ChannelsTyped, ToSet
<1>2. QED BY <1>1 DEF ChannelsTyped

\* What a step on the channels leaves of the tasks.
LEMMA TasksRest ==
    ASSUME TaskPart,
           UNCHANGED <<connected, queue, replies, promise, sent, timer, got, listening, unacked, running, outcome>>,
           confused' = confused
    PROVE  TasksTyped' /\ Placed' /\ Answered'
<1>1. TasksTyped'
  BY DEF TaskPart, TasksTyped
<1>2. Placed' /\ Answered'
  BY PlacesRest, RepliesRest DEF TaskPart
<1>3. QED BY <1>1, <1>2

\* A handler is there as long as somebody subscribes to its channel.
LEMMA HandlersFollow ==
    ASSUME HandlersFit, UNCHANGED <<connected, handlers, promise, timer>>,
           \A s \in Subscribers : call'[s] = "on" <=> call[s] = "on"
    PROVE  HandlersFit'
<1>1. {s \in Subscribers : call'[s] = "on"} = {s \in Subscribers : call[s] = "on"}
  OBVIOUS
<1>2. QED BY <1>1 DEF HandlersFit

\* The queues among qs that hold p.
Holding(qs, p) == {i \in DOMAIN qs : p \in ToSet(qs[i])}

LEMMA UndeliveredCounts ==
    ASSUME NEW p \in Publications,
           bound \in [Channels -> Seq(Seq(Publications))], bound' \in [Channels -> Seq(Seq(Publications))]
    PROVE  /\ Undelivered(p) = Cardinality(Holding(bound[ChannelOf[p]], p))
           /\ Undelivered(p)' = Cardinality(Holding(bound'[ChannelOf[p]], p))
<1>1. ChannelOf[p] \in Channels
  BY ChannelAssumption DEF ChannelCalls
<1>2. ASSUME NEW qs \in Seq(Seq(Publications)) PROVE {i \in DOMAIN qs : Contains(qs[i], p)} = Holding(qs, p)
  BY DEF Contains, ToSet, Holding
<1>3. bound[ChannelOf[p]] \in Seq(Seq(Publications)) /\ bound'[ChannelOf[p]] \in Seq(Seq(Publications))
  BY <1>1
<1>4. QED BY <1>2, <1>3 DEF Undelivered

\* The queues that hold a publication, from a step to the next.
LEMMA HoldingLen == ASSUME NEW qs \in Seq(Seq(Publications)), NEW p
    PROVE  IsFiniteSet(Holding(qs, p)) /\ Cardinality(Holding(qs, p)) \in Nat
<1>1. DOMAIN qs = 1 .. Len(qs) /\ IsFiniteSet(1 .. Len(qs))
  BY FS_Interval
<1>2. Holding(qs, p) \subseteq DOMAIN qs
  BY DEF Holding
<1>3. QED BY <1>1, <1>2, FS_Subset, FS_CardinalityType

\* The queues qs a call goes on with: those of its channel c, or a new one too.
GoesOn(u, c, qs) ==
    /\ qs \in Seq(Seq(Publications)) /\ qs # <<>>
    /\ \A p \in Publications : Holding(qs, p) = Holding(bound[c], p)
    /\ \A i \in DOMAIN qs : /\ IsInjective(qs[i])
                            /\ \A p \in ToSet(qs[i]) : ChannelOf[p] = c /\ call[p] = "done"
    /\ c \notin overlapped => /\ Len(qs) = 1
                              /\ \A v \in ChannelCalls : Opening(v, c) => v = u

LEMMA KnownGoesOn ==
    ASSUME Inv, NEW u \in ChannelCalls, call[u] = "uncalled", Known(ChannelOf[u])
    PROVE  GoesOn(u, ChannelOf[u], bound[ChannelOf[u]])
<1>1. PICK c \in Channels : c = ChannelOf[u]
  BY ChannelAssumption
<1>2. bound[c] \in Seq(Seq(Publications)) /\ bound[c] # <<>>
  BY <1>1 DEF Inv, ChannelsTyped, Known
<1>3. c \notin overlapped => Len(bound[c]) <= 1 /\ \A v \in ChannelCalls : ~Opening(v, c)
  BY <1>1, <1>2 DEF Inv, Overlaps
<1>4. Len(bound[c]) \in Nat /\ Len(bound[c]) # 0
  BY <1>2
<1>5. \A i \in DOMAIN bound[c] : /\ IsInjective(bound[c][i])
                                 /\ \A p \in ToSet(bound[c][i]) : ChannelOf[p] = c /\ call[p] = "done"
  BY DEF Inv, Published
<1>6. c \notin overlapped => Len(bound[c]) = 1 /\ \A v \in ChannelCalls : Opening(v, c) => v = u
  <2>1. \A n \in Nat : n <= 1 /\ n # 0 => n = 1
    OBVIOUS
  <2>2. c \notin overlapped => Len(bound[c]) = 1
    BY <1>3, <1>4, <2>1
  <2>3. QED BY <1>3, <2>2
<1>7. GoesOn(u, c, bound[c])
  BY <1>2, <1>5, <1>6 DEF GoesOn
<1>8. QED BY <1>1, <1>7

LEMMA OpenedGoesOn ==
    ASSUME Inv, NEW u \in ChannelCalls, call[u] = "opening"
    PROVE  GoesOn(u, ChannelOf[u], Append(bound[ChannelOf[u]], <<>>))
<1>1. PICK c \in Channels : c = ChannelOf[u]
  BY ChannelAssumption
<1>2. PICK b : b = bound[c]
  OBVIOUS
<1>3. b \in Seq(Seq(Publications)) /\ <<>> \in Seq(Publications)
  BY <1>2 DEF Inv, ChannelsTyped
<1>4. PICK qs : qs = Append(b, <<>>)
  OBVIOUS
<1>5. /\ qs \in Seq(Seq(Publications)) /\ Len(qs) = Len(b) + 1 /\ Len(b) \in Nat
      /\ DOMAIN qs = (1 .. Len(b)) \cup {Len(b) + 1} /\ DOMAIN b = 1 .. Len(b)
      /\ \A i \in 1 .. Len(b) : qs[i] = b[i]
      /\ qs[Len(b) + 1] = <<>>
  BY <1>3, <1>4, AppendProperties
<1>6. ToSet(<<>>) = {} /\ IsInjective(<<>>)
  BY DEF ToSet, IsInjective
<1>7. \A p \in Publications : Holding(qs, p) = Holding(b, p)
  BY <1>5, <1>6 DEF Holding
<1>8. \A i \in DOMAIN qs : /\ IsInjective(qs[i])
                           /\ \A p \in ToSet(qs[i]) : ChannelOf[p] = c /\ call[p] = "done"
  BY <1>2, <1>5, <1>6 DEF Inv, Published
<1>9. c \notin overlapped => b = <<>> /\ \A v \in ChannelCalls : Opening(v, c) => v = u
  BY <1>1, <1>2 DEF Inv, Overlaps, Opening
<1>10. qs # <<>>
  BY <1>5
<1>11. c \notin overlapped => Len(qs) = 1
  BY <1>5, <1>9
<1>12. GoesOn(u, c, qs)
  BY <1>2, <1>5, <1>7, <1>8, <1>9, <1>10, <1>11 DEF GoesOn
<1>13. QED BY <1>1, <1>2, <1>4, <1>12

\* A call that goes on.
LEMMA ProceedInv ==
    ASSUME Inv, NEW u \in ChannelCalls, NEW qs, call[u] \in {"uncalled", "opening"},
           GoesOn(u, ChannelOf[u], qs), Proceed(u, qs),
           UNCHANGED <<connected, taskVars, heard, threw, overlapped, confused>>
    PROVE  Inv'
<1>1. TaskPart /\ ChannelPart
  BY DEF Inv, TaskPart, ChannelPart
<1>2. UNCHANGED <<connected, queue, replies, promise, sent, timer, got, listening, unacked, running, outcome>>
  BY DEF taskVars, consumerVars
<1>3. UNCHANGED <<heard, threw, overlapped, confused>>
  OBVIOUS
<1>4. TasksTyped' /\ Placed' /\ Answered'
  BY <1>1, <1>2, <1>3, TasksRest
<1>5. PICK c \in Channels : c = ChannelOf[u]
  BY ChannelAssumption
<1>6. GoesOn(u, c, qs)
  BY <1>5
<1>7. qs \in Seq(Seq(Publications)) /\ DOMAIN qs = 1 .. Len(qs) /\ Len(qs) \in Nat /\ Len(qs) # 0
  BY <1>6 DEF GoesOn
<1>8. \A r \in ChannelCalls : ChannelOf[r] \in Channels
  BY ChannelAssumption
<1>9. /\ bound \in [Channels -> Seq(Seq(Publications))] /\ copies \in [Publications -> Nat]
      /\ call \in [ChannelCalls -> {"uncalled", "opening", "failed", "done", "on", "off"}]
      /\ before \in [Subscribers -> SUBSET Publications]
  BY <1>1 DEF ChannelPart, ChannelsTyped
<1>10. /\ Publications \subseteq ChannelCalls /\ Subscribers \subseteq ChannelCalls
       /\ Publications \cap Subscribers = {}
  BY ChannelAssumption DEF ChannelCalls
<1>11. CASE u \in Publications /\ Publish(u, qs)
  <2> DEFINE new == [i \in DOMAIN qs |-> Append(qs[i], u)]
  <2>1. /\ bound' = [bound EXCEPT ![c] = new]
        /\ copies' = [copies EXCEPT ![u] = Len(qs)]
        /\ call' = [call EXCEPT ![u] = "done"]
        /\ handlers' = handlers /\ listeners' = listeners /\ before' = before
    BY <1>5, <1>11 DEF Publish
  <2>2. \A i \in DOMAIN qs : /\ qs[i] \in Seq(Publications) /\ IsInjective(qs[i]) /\ u \notin ToSet(qs[i])
                             /\ \A p \in ToSet(qs[i]) : ChannelOf[p] = c /\ call[p] = "done"
    BY <1>6, <1>7 DEF GoesOn
  <2>3. \A i \in DOMAIN qs : /\ new[i] \in Seq(Publications) /\ IsInjective(new[i])
                             /\ ToSet(new[i]) = ToSet(qs[i]) \cup {u}
    BY <1>11, <2>2, AppendNew
  <2>4. new \in Seq(Seq(Publications)) /\ DOMAIN new = DOMAIN qs /\ Len(new) = Len(qs)
    BY <1>7, <2>3
  <2> HIDE DEF new
  <2>5. /\ bound'[c] = new /\ \A d \in Channels : d # c => bound'[d] = bound[d]
        /\ bound' \in [Channels -> Seq(Seq(Publications))]
    BY <1>9, <2>1, <2>4
  <2>6. /\ call'[u] = "done" /\ \A r \in ChannelCalls : r # u => call'[r] = call[r]
        /\ call' \in [ChannelCalls -> {"uncalled", "opening", "failed", "done", "on", "off"}]
    BY <1>9, <2>1
  <2>7. /\ copies'[u] = Len(qs) /\ \A p \in Publications : p # u => copies'[p] = copies[p]
        /\ copies' \in [Publications -> Nat]
    BY <1>7, <1>9, <1>11, <2>1
  <2>8. ChannelsTyped'
    <3>1. \A s \in Subscribers : call'[s] = call[s]
      BY <1>10, <1>11, <2>6
    <3>2. /\ listeners' \in Seq(Subscribers) /\ IsInjective(listeners')
          /\ \A s \in ToSet(listeners') : call'[s] \in {"on", "off"}
      BY <1>1, <2>1, <3>1, ListenersStay DEF ChannelPart
    <3>3. QED BY <1>1, <1>3, <2>1, <2>5, <2>6, <2>7, <3>2 DEF ChannelPart, ChannelsTyped
  <2>9. HandlersFit'
    <3>1. \A s \in Subscribers : call'[s] = "on" <=> call[s] = "on"
      BY <1>10, <1>11, <2>6
    <3>2. QED BY <1>1, <1>2, <2>1, <3>1, HandlersFollow DEF TaskPart
  <2>10. \A d \in Channels : \A i \in DOMAIN bound'[d] :
           /\ IsInjective(bound'[d][i])
           /\ \A p \in ToSet(bound'[d][i]) : ChannelOf[p] = d /\ call'[p] = "done"
    <3>1. ASSUME NEW i \in DOMAIN new
          PROVE  IsInjective(new[i]) /\ \A p \in ToSet(new[i]) : ChannelOf[p] = c /\ call'[p] = "done"
      <4>1. \A p \in ToSet(qs[i]) : p \in Publications
        BY <2>2, <2>4 DEF ToSet
      <4>2. QED BY <1>5, <1>10, <2>2, <2>3, <2>4, <2>6, <4>1
    <3>2. ASSUME NEW d \in Channels, d # c, NEW i \in DOMAIN bound[d]
          PROVE  IsInjective(bound[d][i]) /\ \A p \in ToSet(bound[d][i]) : ChannelOf[p] = d /\ call'[p] = "done"
      <4>1. bound[d][i] \in Seq(Publications)
        BY <1>9, <3>2
      <4>2. \A p \in ToSet(bound[d][i]) : p \in ChannelCalls /\ ChannelOf[p] = d /\ call[p] = "done"
        BY <1>1, <1>10, <3>2, <4>1 DEF ChannelPart, Published, ToSet
      <4>3. IsInjective(bound[d][i])
        BY <1>1, <3>2 DEF ChannelPart, Published
      <4>4. QED BY <2>6, <4>2, <4>3
    <3>3. ASSUME NEW d \in Channels, NEW i \in DOMAIN bound'[d]
          PROVE  IsInjective(bound'[d][i]) /\ \A p \in ToSet(bound'[d][i]) : ChannelOf[p] = d /\ call'[p] = "done"
      <4>1. CASE d = c
        BY <2>5, <3>1, <3>3, <4>1
      <4>2. CASE d # c
        <5>1. bound'[d] = bound[d] /\ i \in DOMAIN bound[d]
          BY <2>5, <3>3, <4>2
        <5>2. IsInjective(bound[d][i]) /\ \A p \in ToSet(bound[d][i]) : ChannelOf[p] = d /\ call'[p] = "done"
          BY <3>2, <4>2, <5>1
        <5>3. QED BY <5>1, <5>2
      <4>3. QED BY <4>1, <4>2
    <3>4. QED BY <3>3
  <2>11. ASSUME NEW p \in Publications
         PROVE  /\ p # u => Undelivered(p)' = Undelivered(p)
                /\ p = u => Undelivered(p)' = copies'[p]
    <3>1. /\ Undelivered(p) = Cardinality(Holding(bound[ChannelOf[p]], p))
          /\ Undelivered(p)' = Cardinality(Holding(bound'[ChannelOf[p]], p))
      BY <1>9, <2>5, UndeliveredCounts
    <3>2. CASE p = u
      <4>1. Holding(new, p) = 1 .. Len(qs)
        BY <1>7, <2>3, <2>4, <3>2 DEF Holding
      <4>2. Cardinality(1 .. Len(qs)) = Len(qs)
        BY <1>7, FS_Interval
      <4>3. QED BY <1>5, <2>5, <2>7, <3>1, <3>2, <4>1, <4>2
    <3>3. CASE p # u /\ ChannelOf[p] = c
      <4>1. Holding(new, p) = Holding(qs, p)
        BY <2>3, <2>4, <3>3 DEF Holding
      <4>2. Holding(qs, p) = Holding(bound[c], p)
        BY <1>6 DEF GoesOn
      <4>3. QED BY <2>5, <3>1, <3>3, <4>1, <4>2
    <3>4. CASE ChannelOf[p] # c
      BY <1>5, <1>8, <1>10, <2>5, <3>1, <3>4
    <3>5. QED BY <3>2, <3>3, <3>4
  <2>12. Published'
    <3>1. ASSUME NEW s \in Subscribers, NEW p \in Publications
          PROVE  /\ call'[p] # "done" => heard[s][p] = 0
                 /\ heard[s][p] > 0 => Reaches(s, p)
                 /\ connected /\ call'[s] = "on" /\ call'[p] = "done" /\ p \notin before[s] /\ Reaches(s, p)
                       => Heard(s, p)'
      <4>1. /\ call[p] # "done" => heard[s][p] = 0
            /\ heard[s][p] > 0 => Reaches(s, p)
            /\ connected /\ call[s] = "on" /\ call[p] = "done" /\ p \notin before[s] /\ Reaches(s, p)
                   => Heard(s, p)
        BY <1>1 DEF ChannelPart, Published
      <4>2. call'[s] = call[s]
        BY <1>10, <1>11, <2>6
      <4>3. CASE p = u
        <5>1. heard[s][p] = 0 /\ call'[p] = "done"
          BY <2>6, <4>1, <4>3
        <5>2. Undelivered(p)' = copies'[p] /\ copies'[p] \in Nat
          BY <1>7, <2>7, <2>11, <4>3
        <5>3. Heard(s, p)'
          BY <1>3, <5>1, <5>2 DEF Heard
        <5>4. QED BY <4>1, <5>1, <5>3
      <4>4. CASE p # u
        <5>1. call'[p] = call[p] /\ copies'[p] = copies[p] /\ Undelivered(p)' = Undelivered(p)
          BY <1>10, <2>6, <2>7, <2>11, <4>4
        <5>2. Heard(s, p)' <=> Heard(s, p)
          BY <1>3, <5>1 DEF Heard, Interrupted, Reaches
        <5>3. QED BY <2>1, <4>1, <4>2, <5>1, <5>2
      <4>5. QED BY <4>3, <4>4
    <3>2. QED BY <1>2, <1>3, <2>1, <2>10, <3>1 DEF Published, Reaches
  <2>13. Overlaps'
    <3>1. ASSUME NEW d \in Channels \ overlapped
          PROVE  /\ Len(bound'[d]) <= 1
                 /\ \A v \in ChannelCalls : Opening(v, d)' => Opening(v, d) /\ bound'[d] = <<>>
      <4>1. \A v \in ChannelCalls : Opening(v, d)' => Opening(v, d) /\ v # u
        BY <2>6 DEF Opening
      <4>2. CASE d = c
        <5>1. Len(qs) = 1 /\ \A v \in ChannelCalls : Opening(v, c) => v = u
          BY <1>6, <4>2 DEF GoesOn
        <5>2. Len(bound'[d]) = 1
          BY <2>4, <2>5, <4>2, <5>1
        <5>3. \A v \in ChannelCalls : ~ Opening(v, d)'
          BY <4>1, <4>2, <5>1
        <5>4. QED BY <5>2, <5>3
      <4>3. CASE d # c
        BY <1>1, <2>5, <4>1, <4>3 DEF ChannelPart, Overlaps
      <4>4. QED BY <4>2, <4>3
    <3>2. \A p \in Publications : copies'[p] > 1 => ChannelOf[p] \in overlapped
      <4>1. copies'[u] > 1 => c \in overlapped
        <5>1. c \notin overlapped => Len(qs) = 1
          BY <1>6 DEF GoesOn
        <5>2. c \notin overlapped => copies'[u] = 1
          BY <2>7, <5>1
        <5>3. QED BY <5>2
      <4>2. \A p \in Publications : copies[p] > 1 => ChannelOf[p] \in overlapped
        BY <1>1 DEF ChannelPart, Overlaps
      <4>3. QED BY <1>5, <2>7, <4>1, <4>2
    <3>3. \A d \in Channels \ overlapped : \A v, w \in ChannelCalls : Opening(v, d) /\ Opening(w, d) => v = w
      BY <1>1 DEF ChannelPart, Overlaps
    <3>4. QED BY <1>3, <3>1, <3>2, <3>3 DEF Overlaps
  <2>14. QED BY <1>4, <2>8, <2>9, <2>12, <2>13 DEF Inv
<1>12. CASE u \in Subscribers /\ Register(u, qs)
  <2>1. /\ bound' = [bound EXCEPT ![c] = qs]
        /\ handlers' = IF c \in ToSet(handlers) THEN handlers ELSE Append(handlers, c)
        /\ before' = [before EXCEPT ![u] = {p \in Publications : call[p] = "done"}]
        /\ call' = [call EXCEPT ![u] = "on"]
        /\ listeners' = Append(listeners, u)
        /\ copies' = copies
    BY <1>5, <1>12 DEF Register
  <2>2. /\ bound'[c] = qs /\ \A d \in Channels : d # c => bound'[d] = bound[d]
        /\ bound' \in [Channels -> Seq(Seq(Publications))]
    BY <1>7, <1>9, <2>1
  <2>3. /\ call'[u] = "on" /\ \A r \in ChannelCalls : r # u => call'[r] = call[r]
        /\ call' \in [ChannelCalls -> {"uncalled", "opening", "failed", "done", "on", "off"}]
    BY <1>9, <2>1
  <2>4. /\ before'[u] = {p \in Publications : call[p] = "done"}
        /\ \A s \in Subscribers : s # u => before'[s] = before[s]
        /\ before' \in [Subscribers -> SUBSET Publications]
    BY <1>9, <1>12, <2>1
  <2>5. \A p \in Publications : call'[p] = call[p]
    BY <1>10, <1>12, <2>3
  <2>6. ChannelsTyped'
    <3>0. /\ listeners \in Seq(Subscribers) /\ IsInjective(listeners)
          /\ \A s \in ToSet(listeners) : call[s] \in {"on", "off"}
      BY <1>1 DEF ChannelPart, ChannelsTyped
    <3>1. /\ listeners \in Seq(Subscribers) /\ IsInjective(listeners) /\ u \notin ToSet(listeners)
          /\ \A s \in ToSet(listeners) : s \in ChannelCalls /\ call[s] \in {"on", "off"}
      <4>1. u \notin ToSet(listeners)
        BY <3>0
      <4>2. \A s \in ToSet(listeners) : s \in Subscribers
        BY <3>0 DEF ToSet
      <4>3. QED BY <1>10, <3>0, <4>1, <4>2
    <3>2. /\ listeners' \in Seq(Subscribers) /\ IsInjective(listeners')
          /\ ToSet(listeners') = ToSet(listeners) \cup {u}
      BY <1>12, <2>1, <3>1, AppendNew
    <3>3. \A s \in ToSet(listeners') : call'[s] \in {"on", "off"}
      BY <2>3, <3>1, <3>2
    <3>4. QED BY <1>1, <1>3, <2>1, <2>2, <2>3, <2>4, <3>2, <3>3 DEF ChannelPart, ChannelsTyped
  <2>7. HandlersFit'
    <3>1. /\ handlers \in Seq(Rpcs \cup Channels) /\ IsInjective(handlers) /\ c \in Rpcs \cup Channels
          /\ \A t \in ToSet(handlers) \cap Rpcs : promise[t] # "uncalled"
          /\ connected => ToSet(handlers) \cap Channels
                              = {ChannelOf[s] : s \in {r \in Subscribers : call[r] = "on"}}
          /\ connected => \A t \in Rpcs : promise[t] = "pending" => timer[t] \/ t \in ToSet(handlers)
      BY <1>1 DEF TaskPart, HandlersFit
    <3>2. /\ handlers' \in Seq(Rpcs \cup Channels) /\ IsInjective(handlers')
          /\ ToSet(handlers') = ToSet(handlers) \cup {c}
      <4>1. CASE c \in ToSet(handlers)
        BY <2>1, <3>1, <4>1
      <4>2. CASE c \notin ToSet(handlers)
        BY <2>1, <3>1, <4>2, AppendNew
      <4>3. QED BY <4>1, <4>2
    <3>3. {r \in Subscribers : call'[r] = "on"} = {r \in Subscribers : call[r] = "on"} \cup {u}
      BY <1>10, <1>12, <2>3
    <3>4. {ChannelOf[s] : s \in {r \in Subscribers : call'[r] = "on"}}
            = {ChannelOf[s] : s \in {r \in Subscribers : call[r] = "on"}} \cup {c}
      BY <1>5, <3>3
    <3>5. c \notin Rpcs
      BY ChannelAssumption
    <3>6. \A t \in ToSet(handlers') \cap Rpcs : t \in ToSet(handlers) \cap Rpcs
      BY <3>2, <3>5
    <3>7. ToSet(handlers') \cap Channels = (ToSet(handlers) \cap Channels) \cup {c}
      BY <3>2
    <3>8. connected => ToSet(handlers') \cap Channels
                           = {ChannelOf[s] : s \in {r \in Subscribers : call'[r] = "on"}}
      BY <3>1, <3>4, <3>7
    <3>9. connected => \A t \in Rpcs : promise[t] = "pending" => timer[t] \/ t \in ToSet(handlers')
      BY <3>1, <3>2
    <3>10. QED BY <1>2, <3>1, <3>2, <3>6, <3>8, <3>9 DEF HandlersFit
  <2>8. \A d \in Channels : \A i \in DOMAIN bound'[d] :
           /\ IsInjective(bound'[d][i])
           /\ \A p \in ToSet(bound'[d][i]) : ChannelOf[p] = d /\ call'[p] = "done"
    <3>1. ASSUME NEW d \in Channels, NEW i \in DOMAIN bound'[d]
          PROVE  /\ bound'[d][i] \in Seq(Publications) /\ IsInjective(bound'[d][i])
                 /\ \A p \in ToSet(bound'[d][i]) : ChannelOf[p] = d /\ call[p] = "done"
      <4>1. CASE d = c
        BY <1>6, <1>7, <2>2, <4>1 DEF GoesOn
      <4>2. CASE d # c
        BY <1>1, <1>9, <2>2, <4>2 DEF ChannelPart, Published
      <4>3. QED BY <4>1, <4>2
    <3>2. \A d \in Channels : \A i \in DOMAIN bound'[d] : \A p \in ToSet(bound'[d][i]) : p \in Publications
      BY <3>1 DEF ToSet
    <3>3. QED BY <2>5, <3>1, <3>2
  <2>9. ASSUME NEW p \in Publications PROVE Undelivered(p)' = Undelivered(p)
    <3>1. /\ Undelivered(p) = Cardinality(Holding(bound[ChannelOf[p]], p))
          /\ Undelivered(p)' = Cardinality(Holding(bound'[ChannelOf[p]], p))
      BY <1>9, <2>2, UndeliveredCounts
    <3>2. CASE ChannelOf[p] = c
      BY <1>6, <2>2, <3>1, <3>2 DEF GoesOn
    <3>3. CASE ChannelOf[p] # c
      BY <1>8, <1>10, <2>2, <3>1, <3>3
    <3>4. QED BY <3>2, <3>3
  <2>10. Published'
    <3>1. ASSUME NEW s \in Subscribers, NEW p \in Publications
          PROVE  /\ call'[p] # "done" => heard[s][p] = 0
                 /\ heard[s][p] > 0 => Reaches(s, p)
                 /\ connected /\ call'[s] = "on" /\ call'[p] = "done" /\ p \notin before'[s] /\ Reaches(s, p)
                       => Heard(s, p)'
      <4>1. /\ call[p] # "done" => heard[s][p] = 0
            /\ heard[s][p] > 0 => Reaches(s, p)
            /\ connected /\ call[s] = "on" /\ call[p] = "done" /\ p \notin before[s] /\ Reaches(s, p)
                   => Heard(s, p)
        BY <1>1 DEF ChannelPart, Published
      <4>2. CASE s = u
        BY <2>4, <2>5, <4>1, <4>2
      <4>3. CASE s # u
        <5>1. call'[s] = call[s] /\ before'[s] = before[s]
          BY <1>10, <2>3, <2>4, <4>3
        <5>2. Heard(s, p)' <=> Heard(s, p)
          BY <1>3, <2>1, <2>9 DEF Heard, Interrupted, Reaches
        <5>3. QED BY <2>5, <4>1, <5>1, <5>2
      <4>4. QED BY <4>2, <4>3
    <3>2. QED BY <1>2, <1>3, <2>1, <2>8, <3>1 DEF Published, Reaches
  <2>11. Overlaps'
    <3>1. ASSUME NEW d \in Channels \ overlapped
          PROVE  /\ Len(bound'[d]) <= 1
                 /\ \A v \in ChannelCalls : Opening(v, d)' => Opening(v, d) /\ bound'[d] = <<>>
      <4>1. \A v \in ChannelCalls : Opening(v, d)' => Opening(v, d) /\ v # u
        BY <2>3 DEF Opening
      <4>2. CASE d = c
        <5>1. Len(qs) = 1 /\ \A v \in ChannelCalls : Opening(v, c) => v = u
          BY <1>6, <4>2 DEF GoesOn
        <5>2. Len(bound'[d]) = 1
          BY <2>2, <4>2, <5>1
        <5>3. \A v \in ChannelCalls : ~ Opening(v, d)'
          BY <4>1, <4>2, <5>1
        <5>4. QED BY <5>2, <5>3
      <4>3. CASE d # c
        BY <1>1, <2>2, <4>1, <4>3 DEF ChannelPart, Overlaps
      <4>4. QED BY <4>2, <4>3
    <3>2. \A p \in Publications : copies'[p] > 1 => ChannelOf[p] \in overlapped
      BY <1>1, <2>1 DEF ChannelPart, Overlaps
    <3>3. \A d \in Channels \ overlapped : \A v, w \in ChannelCalls : Opening(v, d) /\ Opening(w, d) => v = w
      BY <1>1 DEF ChannelPart, Overlaps
    <3>4. QED BY <1>3, <3>1, <3>2, <3>3 DEF Overlaps
  <2>12. QED BY <1>4, <2>6, <2>7, <2>10, <2>11 DEF Inv
<1>13. QED BY <1>11, <1>12 DEF Proceed

\* What a step leaves of the publications that are heard if none is published,
\* delivered or subscribed to.
LEMMA PublishedRest ==
    ASSUME Published, UNCHANGED <<connected, bound, heard, threw, before, copies>>,
           \A p \in Publications : call'[p] = "done" <=> call[p] = "done",
           \A s \in Subscribers : call'[s] = "on" => call[s] = "on",
           bound \in [Channels -> Seq(Seq(Publications))]
    PROVE  Published'
<1>1. \A s \in Subscribers, p \in Publications : Heard(s, p)' <=> Heard(s, p)
  BY DEF Heard, Interrupted, Undelivered, Reaches
<1>2. \A c \in Channels : \A i \in DOMAIN bound[c] : \A p \in ToSet(bound[c][i]) : p \in Publications
  BY DEF ToSet
<1>3. QED BY <1>1, <1>2 DEF Published, Reaches

LEMMA GetChannelInv == ASSUME Inv, NEW u \in ChannelCalls, GetChannel(u) PROVE Inv'
<1>1. TaskPart /\ ChannelPart
  BY DEF Inv, TaskPart, ChannelPart
<1>2. PICK c \in Channels : c = ChannelOf[u]
  BY ChannelAssumption
<1>3. call[u] = "uncalled" /\ UNCHANGED <<connected, taskVars, heard, threw, confused>>
  BY DEF GetChannel
<1>4. CASE connected /\ Known(c) /\ Proceed(u, bound[c]) /\ UNCHANGED overlapped
  <2>1. GoesOn(u, ChannelOf[u], bound[ChannelOf[u]])
    BY <1>2, <1>3, <1>4, KnownGoesOn
  <2>2. QED BY <1>2, <1>3, <1>4, <2>1, ProceedInv
<1>5. CASE /\ UNCHANGED <<handlers, bound, listeners, before, copies>>
           /\ \/ call' = [call EXCEPT ![u] = "failed"] /\ overlapped' = overlapped
              \/ /\ ~Known(c)
                 /\ call' = [call EXCEPT ![u] = "opening"]
                 /\ overlapped' = overlapped \cup
                      {d \in {c} : \E v \in ChannelCalls : call[v] = "opening" /\ ChannelOf[v] = d}
  <2>1. UNCHANGED <<connected, queue, replies, promise, sent, timer, got, listening, unacked, running, outcome>>
    BY <1>3 DEF taskVars, consumerVars
  <2>2. TasksTyped' /\ Placed' /\ Answered'
    BY <1>1, <1>3, <2>1, TasksRest
  <2>3. /\ call \in [ChannelCalls -> {"uncalled", "opening", "failed", "done", "on", "off"}]
        /\ Publications \subseteq ChannelCalls /\ Subscribers \subseteq ChannelCalls
    BY <1>1 DEF ChannelPart, ChannelsTyped, ChannelCalls
  <2>4. /\ call'[u] \in {"failed", "opening"} /\ \A r \in ChannelCalls : r # u => call'[r] = call[r]
        /\ call' \in [ChannelCalls -> {"uncalled", "opening", "failed", "done", "on", "off"}]
    BY <1>5, <2>3
  <2>5. ChannelsTyped'
    <3>1. \A s \in Subscribers : call[s] \in {"on", "off"} => call'[s] \in {"on", "off"}
      BY <1>3, <2>3, <2>4
    <3>2. /\ listeners' \in Seq(Subscribers) /\ IsInjective(listeners')
          /\ \A s \in ToSet(listeners') : call'[s] \in {"on", "off"}
      BY <1>1, <1>5, <3>1, ListenersStay DEF ChannelPart
    <3>3. QED BY <1>1, <1>3, <1>5, <2>4, <3>2 DEF ChannelPart, ChannelsTyped
  <2>6. \A r \in ChannelCalls : /\ call'[r] = "on" <=> call[r] = "on"
                                /\ call'[r] = "done" <=> call[r] = "done"
    BY <1>3, <2>4
  <2>7. HandlersFit'
    BY <1>1, <1>5, <2>1, <2>3, <2>6, HandlersFollow DEF TaskPart
  <2>8. Published'
    BY <1>1, <1>3, <1>5, <2>3, <2>6, PublishedRest DEF ChannelPart, ChannelsTyped
  <2>9. Overlaps'
    <3>1. \A p \in Publications : copies[p] > 1 => ChannelOf[p] \in overlapped'
      BY <1>1, <1>5 DEF ChannelPart, Overlaps
    <3>2. ASSUME NEW d \in Channels \ overlapped'
          PROVE  /\ Len(bound[d]) <= 1
                 /\ \A v \in ChannelCalls : Opening(v, d)' => bound[d] = <<>>
                 /\ \A v, w \in ChannelCalls : Opening(v, d)' /\ Opening(w, d)' => v = w
      <4>1. /\ d \notin overlapped
            /\ Len(bound[d]) <= 1
            /\ \A v \in ChannelCalls : Opening(v, d) => bound[d] = <<>>
            /\ \A v, w \in ChannelCalls : Opening(v, d) /\ Opening(w, d) => v = w
        BY <1>1, <1>5, <3>2 DEF ChannelPart, Overlaps
      <4>2. CASE \A v \in ChannelCalls : Opening(v, d)' => Opening(v, d)
        BY <4>1, <4>2
      <4>3. CASE \E v \in ChannelCalls : Opening(v, d)' /\ ~Opening(v, d)
        <5>1. PICK v \in ChannelCalls : Opening(v, d)' /\ ~Opening(v, d)
          BY <4>3
        <5>2. v = u /\ d = c /\ call'[u] = "opening"
          BY <1>2, <2>4, <5>1 DEF Opening
        <5>3. ~Known(c) /\ \A w \in ChannelCalls : ~Opening(w, c)
          BY <1>5, <2>4, <3>2, <5>2 DEF Opening
        <5>4. \A w \in ChannelCalls : Opening(w, c)' => w = u
          BY <2>4, <5>3 DEF Opening
        <5>5. QED BY <4>1, <5>2, <5>3, <5>4 DEF Known
      <4>4. QED BY <4>2, <4>3
    <3>3. QED BY <1>5, <3>1, <3>2 DEF Overlaps
  <2>10. QED BY <2>2, <2>5, <2>7, <2>8, <2>9 DEF Inv
<1>6. QED BY <1>2, <1>4, <1>5 DEF GetChannel

LEMMA ChannelOpensInv == ASSUME Inv, NEW u \in ChannelCalls, ChannelOpens(u) PROVE Inv'
<1>1. GoesOn(u, ChannelOf[u], Append(bound[ChannelOf[u]], <<>>))
  BY OpenedGoesOn DEF ChannelOpens
<1>2. QED BY <1>1, ProceedInv DEF ChannelOpens

LEMMA ChannelFailsInv == ASSUME Inv, NEW u \in ChannelCalls, ChannelFails(u) PROVE Inv'
<1>1. TaskPart /\ ChannelPart
  BY DEF Inv, TaskPart, ChannelPart
<1>2. /\ call[u] = "opening" /\ call' = [call EXCEPT ![u] = "failed"]
      /\ UNCHANGED <<connected, queue, replies, promise, sent, timer, got, listening, unacked, running, outcome>>
      /\ UNCHANGED <<handlers, bound, heard, threw, listeners, before, copies, overlapped, confused>>
  BY DEF ChannelFails, taskVars, consumerVars
<1>3. /\ call \in [ChannelCalls -> {"uncalled", "opening", "failed", "done", "on", "off"}]
      /\ Publications \subseteq ChannelCalls /\ Subscribers \subseteq ChannelCalls
  BY <1>1 DEF ChannelPart, ChannelsTyped, ChannelCalls
<1>4. /\ call'[u] = "failed" /\ \A r \in ChannelCalls : r # u => call'[r] = call[r]
      /\ call' \in [ChannelCalls -> {"uncalled", "opening", "failed", "done", "on", "off"}]
  BY <1>2, <1>3
<1>5. \A r \in ChannelCalls : /\ call'[r] = "on" <=> call[r] = "on"
                              /\ call'[r] = "done" <=> call[r] = "done"
                              /\ call'[r] = "opening" => call[r] = "opening"
  BY <1>2, <1>4
<1>6. TasksTyped' /\ Placed' /\ Answered'
  BY <1>1, <1>2, TasksRest
<1>7. HandlersFit'
  BY <1>1, <1>2, <1>3, <1>5, HandlersFollow DEF TaskPart
<1>8. ChannelsTyped'
  BY <1>1, <1>2, <1>4 DEF ChannelPart, ChannelsTyped
<1>9. Published'
  BY <1>1, <1>2, <1>3, <1>5, PublishedRest DEF ChannelPart, ChannelsTyped
<1>10. Overlaps'
  BY <1>1, <1>2, <1>5 DEF ChannelPart, Overlaps, Opening
<1>11. QED BY <1>6, <1>7, <1>8, <1>9, <1>10 DEF Inv

LEMMA EmitInv == ASSUME Inv, NEW c \in Channels, NEW i \in DOMAIN bound[c], Emit(c, i) PROVE Inv'
<1>1. TaskPart /\ ChannelPart
  BY DEF Inv, TaskPart, ChannelPart
<1>2. PICK b : b = bound[c][i]
  OBVIOUS
<1>3. /\ b # <<>> /\ bound' = [bound EXCEPT ![c][i] = Tail(b)]
      /\ UNCHANGED <<connected, queue, replies, promise, sent, timer, got, listening, unacked, running, outcome>>
      /\ UNCHANGED <<handlers, call, listeners, before, copies, overlapped, confused>>
  BY <1>2 DEF Emit, taskVars, consumerVars
<1>4. PICK q : q = Head(b)
  OBVIOUS
<1> DEFINE reached == {s \in Subscribers : call[s] = "on" /\ ChannelOf[s] \in Matches[c]}
           Hear(S) == heard' = [s \in Subscribers |-> IF s \in S THEN [heard[s] EXCEPT ![q] = heard[s][q] + 1] ELSE heard[s]]
           ThrownAt(r) == threw' = [threw EXCEPT ![r] = threw[r] \cup {q}]
<1>0. PICK S : /\ Hear(S) /\ S \subseteq reached
               /\ \/ S = reached /\ threw' = threw
                  \/ \E r \in S : ThrownAt(r)
  <2>1. CASE Hear(reached) /\ threw' = threw
    BY <2>1
  <2>2. CASE \E r \in reached : Hear({r} \cup {s \in reached : Sooner(s, r)}) /\ ThrownAt(r)
    <3>1. PICK r \in reached : Hear({r} \cup {s \in reached : Sooner(s, r)}) /\ ThrownAt(r)
      BY <2>2
    <3>2. PICK T : T = {r} \cup {s \in reached : Sooner(s, r)}
      OBVIOUS
    <3>3. Hear(T) /\ T \subseteq reached /\ r \in T
      BY <3>1, <3>2
    <3>4. QED BY <3>1, <3>3
  <2>3. q = Head(bound[c][i])
    BY <1>2, <1>4
  <2>4. \/ Hear(reached) /\ threw' = threw
        \/ \E r \in reached : Hear({r} \cup {s \in reached : Sooner(s, r)}) /\ ThrownAt(r)
    BY <2>3 DEF Emit
  <2>5. QED BY <2>1, <2>2, <2>4
<1>5. /\ bound \in [Channels -> Seq(Seq(Publications))] /\ copies \in [Publications -> Nat]
      /\ heard \in [Subscribers -> [Publications -> Nat]]
      /\ threw \in [Subscribers -> SUBSET Publications]
  BY <1>1 DEF ChannelPart, ChannelsTyped
<1>6. /\ \A r \in ChannelCalls : ChannelOf[r] \in Channels
      /\ Publications \subseteq ChannelCalls
  BY ChannelAssumption DEF ChannelCalls
<1>7. PICK qs : qs = bound[c]
  OBVIOUS
<1>8. qs \in Seq(Seq(Publications)) /\ i \in DOMAIN qs /\ DOMAIN qs = 1 .. Len(qs) /\ b = qs[i] /\ b \in Seq(Publications)
  BY <1>2, <1>5, <1>7
<1>9. IsInjective(b) /\ \A p \in ToSet(b) : ChannelOf[p] = c /\ call[p] = "done"
  BY <1>1, <1>2 DEF ChannelPart, Published
<1>10. /\ q \in Publications /\ Tail(b) \in Seq(Publications) /\ q \in ToSet(b)
       /\ ToSet(b) = ToSet(Tail(b)) \cup {q}
       /\ IsInjective(Tail(b)) /\ q \notin ToSet(Tail(b))
  BY <1>3, <1>4, <1>8, <1>9, HeadLeaves
<1>11. ChannelOf[q] = c /\ call[q] = "done"
  BY <1>9, <1>10
<1>12. PICK rest : rest = [qs EXCEPT ![i] = Tail(b)]
  OBVIOUS
<1>13. /\ rest \in Seq(Seq(Publications)) /\ DOMAIN rest = DOMAIN qs /\ Len(rest) = Len(qs)
       /\ rest[i] = Tail(b) /\ \A j \in DOMAIN qs : j # i => rest[j] = qs[j]
  BY <1>8, <1>10, <1>12
<1>14. /\ bound'[c] = rest /\ \A d \in Channels : d # c => bound'[d] = bound[d]
       /\ bound' \in [Channels -> Seq(Seq(Publications))]
  <2>1. bound' = [bound EXCEPT ![c] = rest]
    BY <1>3, <1>7, <1>12
  <2>2. QED BY <1>5, <1>13, <2>1
<1>15. \A s \in Subscribers, p \in Publications :
         heard'[s][p] = IF p = q /\ s \in S THEN heard[s][p] + 1 ELSE heard[s][p]
  BY <1>0, <1>5, <1>10
<1> HIDE DEF Hear
<1>23. \A s \in Subscribers : s \in reached <=> call[s] = "on" /\ Reaches(s, q)
  BY <1>11 DEF Reaches
<1>24. /\ threw' \in [Subscribers -> SUBSET Publications]
       /\ \A s \in Subscribers : threw[s] \subseteq threw'[s]
       /\ S # reached => \E r \in S : q \in threw'[r]
  <2>1. CASE threw' = threw /\ S = reached
    BY <1>5, <2>1
  <2>2. CASE \E r \in S : ThrownAt(r)
    <3>1. PICK r \in S : ThrownAt(r)
      BY <2>2
    <3>2. r \in Subscribers
      BY <1>0
    <3>3. QED BY <1>5, <1>10, <3>1, <3>2
  <2>3. QED BY <1>0, <2>1, <2>2
<1>16. TasksTyped' /\ Placed' /\ Answered'
  BY <1>1, <1>3, TasksRest
<1>17. HandlersFit'
  BY <1>1, <1>3, HandlersFollow DEF TaskPart
<1>18. ChannelsTyped'
  <2>1. heard' \in [Subscribers -> [Publications -> Nat]]
    <3>1. ASSUME NEW s \in Subscribers
          PROVE  [heard[s] EXCEPT ![q] = heard[s][q] + 1] \in [Publications -> Nat] /\ heard[s] \in [Publications -> Nat]
      BY <1>5, <1>10
    <3>2. QED BY <1>0, <3>1 DEF Hear
  <2>2. QED BY <1>1, <1>3, <1>14, <1>24, <2>1 DEF ChannelPart, ChannelsTyped
<1>19. ASSUME NEW p \in Publications
       PROVE  /\ p # q => Undelivered(p)' = Undelivered(p)
              /\ p = q => Undelivered(p)' + 1 = Undelivered(p)
              /\ Undelivered(p)' \in Nat
  <2>1. /\ Undelivered(p) = Cardinality(Holding(bound[ChannelOf[p]], p))
        /\ Undelivered(p)' = Cardinality(Holding(bound'[ChannelOf[p]], p))
    BY <1>5, <1>14, UndeliveredCounts
  <2>2. CASE p = q
    <3>1. Holding(rest, p) = Holding(qs, p) \ {i} /\ i \in Holding(qs, p)
      BY <1>8, <1>10, <1>13, <2>2 DEF Holding
    <3>2. IsFiniteSet(Holding(qs, p)) /\ Cardinality(Holding(qs, p)) \in Nat
      BY <1>8, HoldingLen
    <3>3. Cardinality(Holding(qs, p) \ {i}) = Cardinality(Holding(qs, p)) - 1
      BY <3>1, <3>2, FS_RemoveElement
    <3>4. Cardinality(Holding(rest, p)) \in Nat
      BY <1>13, HoldingLen
    <3>5. Cardinality(Holding(rest, p)) + 1 = Cardinality(Holding(qs, p))
      BY <3>1, <3>2, <3>3
    <3>6. /\ Undelivered(p) = Cardinality(Holding(qs, p))
          /\ Undelivered(p)' = Cardinality(Holding(rest, p))
      BY <1>7, <1>11, <1>14, <2>1, <2>2
    <3>7. QED BY <2>2, <3>4, <3>5, <3>6
  <2>3. CASE p # q /\ ChannelOf[p] = c
    <3>1. Holding(rest, p) = Holding(qs, p)
      <4>1. p \in ToSet(b) <=> p \in ToSet(Tail(b))
        BY <1>10, <2>3
      <4>2. QED BY <1>8, <1>13, <4>1 DEF Holding
    <3>2. QED BY <1>7, <1>8, <1>14, <2>1, <2>3, <3>1, HoldingLen
  <2>4. CASE p # q /\ ChannelOf[p] # c
    BY <1>5, <1>6, <1>14, <2>1, <2>4, HoldingLen
  <2>5. QED BY <2>2, <2>3, <2>4
<1>20. Published'
  <2>1. ASSUME NEW d \in Channels, NEW j \in DOMAIN bound'[d]
        PROVE  IsInjective(bound'[d][j]) /\ \A p \in ToSet(bound'[d][j]) : ChannelOf[p] = d /\ call[p] = "done"
    <3>1. \A e \in Channels : \A k \in DOMAIN bound[e] :
            IsInjective(bound[e][k]) /\ \A p \in ToSet(bound[e][k]) : ChannelOf[p] = e /\ call[p] = "done"
      BY <1>1 DEF ChannelPart, Published
    <3>2. CASE d = c /\ j = i
      BY <1>9, <1>10, <1>13, <1>14, <3>2
    <3>3. CASE d = c /\ j # i
      <4>1. j \in DOMAIN qs /\ bound'[d][j] = qs[j]
        BY <1>13, <1>14, <2>1, <3>3
      <4>2. QED BY <1>7, <3>1, <3>3, <4>1
    <3>4. CASE d # c
      <4>1. bound'[d] = bound[d]
        BY <1>14, <3>4
      <4>2. QED BY <2>1, <3>1, <4>1
    <3>5. QED BY <3>2, <3>3, <3>4
  <2>2. ASSUME NEW s \in Subscribers, NEW p \in Publications
        PROVE  /\ call[p] # "done" => heard'[s][p] = 0
               /\ heard'[s][p] > 0 => Reaches(s, p)
               /\ connected /\ call[s] = "on" /\ call[p] = "done" /\ p \notin before[s] /\ Reaches(s, p)
                     => Heard(s, p)'
    <3>1. /\ call[p] # "done" => heard[s][p] = 0
          /\ heard[s][p] > 0 => Reaches(s, p)
          /\ connected /\ call[s] = "on" /\ call[p] = "done" /\ p \notin before[s] /\ Reaches(s, p)
                 => Heard(s, p)
      BY <1>1 DEF ChannelPart, Published
    <3>2. heard[s][p] \in Nat
      BY <1>5
    <3>3. Interrupted(s, p) => Interrupted(s, p)'
      BY <1>24 DEF Interrupted, Reaches
    <3>4. CASE p = q /\ s \in S
      <4>1. heard'[s][p] = heard[s][p] + 1 /\ Undelivered(p)' + 1 = Undelivered(p) /\ Undelivered(p)' \in Nat
        BY <1>15, <1>19, <3>4
      <4>2. Reaches(s, p) /\ call[s] = "on"
        BY <1>0, <1>23, <3>4
      <4>3. heard'[s][p] + Undelivered(p)' = heard[s][p] + Undelivered(p)
        BY <3>2, <4>1
      <4>4. Heard(s, p) => Heard(s, p)'
        BY <1>3, <3>3, <4>3 DEF Heard
      <4>5. QED BY <1>11, <3>1, <3>4, <4>2, <4>4
    <3>5. CASE ~(p = q /\ s \in S)
      <4>1. heard'[s][p] = heard[s][p]
        BY <1>15, <3>5
      <4>2. CASE p = q /\ s \in reached
        <5>1. PICK r \in S : q \in threw'[r]
          BY <1>24, <3>5, <4>2
        <5>2. r \in Subscribers \ {s} /\ Reaches(r, q)
          BY <1>0, <1>23, <3>5, <4>2, <5>1
        <5>3. Interrupted(s, p)'
          BY <4>2, <5>1, <5>2 DEF Interrupted, Reaches
        <5>4. heard'[s][p] + Undelivered(p)' + 1 = heard[s][p] + Undelivered(p) /\ Undelivered(p)' \in Nat
          BY <1>19, <3>2, <4>1, <4>2
        <5>5. copies[p] \in Nat
          BY <1>5
        <5>6. Heard(s, p) => heard'[s][p] + Undelivered(p)' <= copies[p]
          BY <3>2, <4>1, <5>4, <5>5 DEF Heard
        <5>7. Heard(s, p) => Heard(s, p)'
          BY <1>3, <5>3, <5>6 DEF Heard
        <5>8. QED BY <3>1, <4>1, <5>7
      <4>3. CASE p = q /\ s \notin reached
        BY <1>23, <3>1, <4>1, <4>3
      <4>4. CASE p # q
        <5>1. Undelivered(p)' = Undelivered(p)
          BY <1>19, <4>4
        <5>2. Heard(s, p) => Heard(s, p)'
          BY <1>3, <3>3, <4>1, <5>1 DEF Heard
        <5>3. QED BY <3>1, <4>1, <5>2
      <4>5. QED BY <4>2, <4>3, <4>4
    <3>6. QED BY <3>4, <3>5
  <2>3. QED BY <1>3, <2>1, <2>2 DEF Published, Reaches
<1>21. Overlaps'
  <2>1. ASSUME NEW d \in Channels \ overlapped
        PROVE  /\ Len(bound'[d]) <= 1
               /\ \A u \in ChannelCalls : Opening(u, d) => bound'[d] = <<>>
    <3>1. /\ Len(bound[d]) <= 1
          /\ \A u \in ChannelCalls : Opening(u, d) => bound[d] = <<>>
      BY <1>1 DEF ChannelPart, Overlaps
    <3>2. CASE d = c
      <4>1. qs # <<>>
        BY <1>8
      <4>2. QED BY <1>7, <1>13, <1>14, <3>1, <3>2, <4>1
    <3>3. CASE d # c
      BY <1>14, <3>1, <3>3
    <3>4. QED BY <3>2, <3>3
  <2>2. \A u \in ChannelCalls, d \in Channels : Opening(u, d)' <=> Opening(u, d)
    BY <1>3 DEF Opening
  <2>3. /\ \A d \in Channels \ overlapped : \A u, v \in ChannelCalls : Opening(u, d) /\ Opening(v, d) => u = v
        /\ \A p \in Publications : copies[p] > 1 => ChannelOf[p] \in overlapped
    BY <1>1 DEF ChannelPart, Overlaps
  <2>4. QED BY <1>3, <2>1, <2>2, <2>3 DEF Overlaps
<1>22. QED BY <1>16, <1>17, <1>18, <1>20, <1>21 DEF Inv

LEMMA UnsubscribeInv == ASSUME Inv, NEW s \in Subscribers, Unsubscribe(s) PROVE Inv'
<1> DEFINE others == {r \in Subscribers \ {s} : call[r] = "on"}
           stay == {h \in Rpcs \cup Channels :
                      h # ChannelOf[s] \/ \E r \in Subscribers \ {s} : call[r] = "on" /\ ChannelOf[r] = h}
<1>1. TaskPart /\ ChannelPart
  BY DEF Inv, TaskPart, ChannelPart
<1>2. /\ connected /\ call[s] = "on" /\ call' = [call EXCEPT ![s] = "off"]
      /\ handlers' = Kept(handlers, stay)
      /\ UNCHANGED <<connected, queue, replies, promise, sent, timer, got, listening, unacked, running, outcome>>
      /\ UNCHANGED <<bound, heard, threw, listeners, before, copies, overlapped, confused>>
  BY DEF Unsubscribe, taskVars, consumerVars
<1>3. /\ call \in [ChannelCalls -> {"uncalled", "opening", "failed", "done", "on", "off"}]
      /\ Publications \subseteq ChannelCalls /\ Subscribers \subseteq ChannelCalls
  BY <1>1 DEF ChannelPart, ChannelsTyped, ChannelCalls
<1>4. /\ call'[s] = "off" /\ \A r \in ChannelCalls : r # s => call'[r] = call[r]
      /\ call' \in [ChannelCalls -> {"uncalled", "opening", "failed", "done", "on", "off"}]
  BY <1>2, <1>3
<1>5. \A r \in ChannelCalls : /\ call'[r] = "on" => call[r] = "on"
                              /\ call'[r] = "done" <=> call[r] = "done"
                              /\ call'[r] = "opening" => call[r] = "opening"
  BY <1>2, <1>4
<1>6. TasksTyped' /\ Placed' /\ Answered'
  BY <1>1, <1>2, TasksRest
<1>7. HandlersFit'
  <2>1. /\ handlers \in Seq(Rpcs \cup Channels) /\ IsInjective(handlers)
        /\ \A t \in ToSet(handlers) \cap Rpcs : promise[t] # "uncalled"
        /\ ToSet(handlers) \cap Channels = {ChannelOf[r] : r \in {q \in Subscribers : call[q] = "on"}}
        /\ \A t \in Rpcs : promise[t] = "pending" => timer[t] \/ t \in ToSet(handlers)
    BY <1>1, <1>2 DEF TaskPart, HandlersFit
  <2> HIDE DEF stay
  <2>2. /\ handlers' \in Seq(Rpcs \cup Channels) /\ IsInjective(handlers')
        /\ ToSet(handlers') = ToSet(handlers) \cap stay
    BY <1>2, <2>1, KeptEvents
  <2>3. ChannelOf[s] \in Channels /\ Channels \cap Rpcs = {} /\ \A r \in Subscribers : ChannelOf[r] \in Channels
    BY ChannelAssumption DEF ChannelCalls
  <2>4. ToSet(handlers') \cap Rpcs = ToSet(handlers) \cap Rpcs
    BY <2>2, <2>3 DEF stay
  <2>5. {r \in Subscribers : call'[r] = "on"} = others
    BY <1>3, <1>4
  <2>6. {q \in Subscribers : call[q] = "on"} = others \cup {s}
    BY <1>2
  <2>7. \A h \in Channels : h \in stay <=> h # ChannelOf[s] \/ h \in {ChannelOf[r] : r \in others}
    BY DEF stay
  <2>8. ToSet(handlers') \cap Channels = {ChannelOf[r] : r \in others}
    <3>1. ToSet(handlers) \cap Channels = {ChannelOf[r] : r \in others} \cup {ChannelOf[s]}
      BY <2>1, <2>6
    <3>2. QED BY <2>2, <2>3, <2>7, <3>1
  <2>9. QED BY <1>2, <2>1, <2>2, <2>4, <2>5, <2>8 DEF HandlersFit
<1>8. ChannelsTyped'
  BY <1>1, <1>2, <1>4 DEF ChannelPart, ChannelsTyped
<1>9. Published'
  BY <1>1, <1>2, <1>3, <1>5, PublishedRest DEF ChannelPart, ChannelsTyped
<1>10. Overlaps'
  BY <1>1, <1>2, <1>5 DEF ChannelPart, Overlaps, Opening
<1>11. QED BY <1>6, <1>7, <1>8, <1>9, <1>10 DEF Inv

-----------------------------------------------------------------------------
LEMMA NextInv == Inv /\ [Next]_vars => Inv'
<1> SUFFICES ASSUME Inv, [Next]_vars PROVE Inv'
  OBVIOUS
<1>1. CASE UNCHANGED vars
  <2>1. /\ UNCHANGED <<connected, queue, replies, promise, sent, timer, handlers, got,
                       listening, unacked, running, outcome>>
        /\ UNCHANGED <<call, bound, heard, threw, listeners, before, copies, overlapped, confused>>
    BY <1>1 DEF vars, channelVars
  <2>2. TaskPart /\ ChannelPart
    BY DEF Inv, TaskPart, ChannelPart
  <2>3. TasksTyped' /\ Placed' /\ Answered' /\ HandlersFit'
    BY <2>1, <2>2, TasksRest, HandlersFollow DEF TaskPart
  <2>4. ChannelPart'
    BY <2>1, <2>2, ChannelsRest DEF ChannelPart, ChannelsTyped
  <2>5. QED BY <2>3, <2>4 DEF Inv, ChannelPart
<1>2. CASE \E t \in Sends : Send(t)
  BY <1>2, SendInv
<1>3. CASE \E t \in Rpcs : Rpc(t) \/ Timeout(t)
  BY <1>3, RpcInv, TimeoutInv
<1>4. CASE \E t \in Tasks : QueueOpens(t) \/ QueueFails(t)
  BY <1>4, QueueInv
<1>5. CASE ReplyArrives
  BY <1>5, ReplyArrivesInv
<1>6. CASE \E k \in Consumers : Consume(k) \/ Cancel(k) \/ Deliver(k) \/ Returns(k) \/ Throws(k)
  BY <1>6, ConsumerInv, DeliverInv, ListenerInv
<1>7. CASE \E u \in ChannelCalls : GetChannel(u) \/ ChannelOpens(u) \/ ChannelFails(u)
  BY <1>7, GetChannelInv, ChannelOpensInv, ChannelFailsInv
<1>8. CASE \E c \in Channels : \E i \in DOMAIN bound[c] : Emit(c, i)
  BY <1>8, EmitInv
<1>9. CASE \E s \in Subscribers : Unsubscribe(s)
  BY <1>9, UnsubscribeInv
<1>10. CASE Disconnect
  BY <1>10, DisconnectInv
<1>11. QED BY <1>1, <1>2, <1>3, <1>4, <1>5, <1>6, <1>7, <1>8, <1>9, <1>10 DEF Next

LEMMA Invariance == Spec => []Inv
<1>1. QED BY InitInv, NextInv, PTL DEF Spec

LEMMA InvIsTyped == Inv => TypeOK
BY DEF Inv, TasksTyped, Placed, HandlersFit, ChannelsTyped, TypeOK, Replies

\* Whatever the tasks, the consumers and the channels: types hold, and an rpc is
\* resolved if and only if its got[] names a task whose listener returned a
\* value.  A timeout, a listener that threw, a message nobody took and a lost
\* channel never resolve one (rpc() and the reply handler).
THEOREM RpcsResolveByCompletedTasks == Spec => []ResolvedByACompletedTask
<1>1. Inv => ResolvedByACompletedTask
  <2>1. Inv => \A t \in Rpcs : promise[t] = "resolved" <=> got[t] # None /\ outcome[got[t]] = "value"
    BY DEF Inv, Answered
  <2>2. QED BY <2>1, InvIsTyped DEF ResolvedByACompletedTask
<1>2. QED BY <1>1, Invariance, PTL

\* Whatever the channels and the patterns: while connected, a subscriber has been
\* called with each message published since it subscribed once for each queue the
\* message was put in and has left, less often only if the listener of another one
\* the message reaches threw at it, and with no message its event does not match;
\* a message goes to more than one queue only where two calls opened the channel
\* at the same time (publish(), subscribe() and getChannel()).
THEOREM SubscribersHearWhatWasPublished == Spec => []HeardAsPublished
<1>1. Inv => HeardAsPublished
  BY DEF Inv, Published, Heard, Interrupted, Overlaps, Answered, HeardAsPublished, Reaches
<1>2. QED BY <1>1, Invariance, PTL
=============================================================================
