---------------------- MODULE MessageQueueMemoryProofs ----------------------
(* What becomes of the tasks of the in-memory queue, for every number of queues, *)
(* consumers and tasks.                                                          *)
EXTENDS MessageQueueMemory, FiniteSetTheorems, SequenceTheorems, WellFoundedInduction, TLAPS

-----------------------------------------------------------------------------
(* The inductive invariant.                                                      *)
ConsumersTyped ==
    /\ connected \in BOOLEAN
    /\ consumers \in [Queues -> Seq(Listeners)]
    /\ next \in [Queues -> -1 .. Cardinality(Listeners) - 1]
    /\ handle \in [Listeners -> Queues \cup {None, "disposed"}]
    /\ share \in [Listeners -> Nat]

TasksTyped ==
    /\ pendingTasks \in Seq(Tasks)
    /\ promise \in [Tasks -> {"uncalled", "pending", "resolved", "rejected"}]
    /\ running \in [Tasks -> {"no", "direct", "retried", "done"}]
    /\ result \in [Tasks -> Reasons \cup {"none", "completed"}]
    /\ handled \in [Tasks -> Nat]
    /\ threw \subseteq Sends

\* Who is in the list of a queue was registered for it, once.
Registered ==
    \A q \in Queues :
        /\ IsInjective(consumers[q])
        /\ \A i \in DOMAIN consumers[q] : handle[consumers[q][i]] = q

\* Where a task is decides how often it was handled.
Placed ==
    /\ IsInjective(pendingTasks)
    /\ \A t \in Tasks :
          /\ promise[t] = "uncalled" => ~IsPending(t) /\ handled[t] = 0 /\ running[t] = "no"
          /\ IsPending(t) => handled[t] = 0 /\ running[t] = "no"
          /\ handled[t] <= 1
    /\ \A t \in Sends : /\ promise[t] \in {"uncalled", "resolved"}
                        /\ running[t] = "no"
                        /\ promise[t] = "resolved" => handled[t] = 1 \/ IsPending(t) \/ t \in threw
    /\ \A t \in Rpcs : /\ running[t] # "done" => handled[t] = 0
                       /\ promise[t] = "resolved" => running[t] = "done" /\ result[t] \in {"completed", "value"}

Inv == ConsumersTyped /\ TasksTyped /\ Registered /\ Placed

-----------------------------------------------------------------------------
\* The tasks that a pass of the timer keeps.
LEMMA LeastIndex ==
    ASSUME NEW T, T \subseteq Nat, T # {}
    PROVE  \E i \in T : \A j \in T : ~ j < i
<1>1. PICK i \in T : \A j \in T : ~ (<<j, i>> \in OpToRel(<, Nat))
  BY NatLessThanWellFounded, WFMin
<1>2. ASSUME NEW j \in T, j < i PROVE FALSE
  <2>1. <<j, i>> \in OpToRel(<, Nat)
    BY <1>2 DEF OpToRel
  <2>2. QED BY <1>1, <2>1
<1>3. QED BY <1>2

\* kept[n] of the reduce, once n tasks were looked at.
Step(g, due, n) == IF n = 0 THEN <<>>
                   ELSE IF n \in due THEN g[n - 1] ELSE Append(g[n - 1], pendingTasks[n])
IsKept(g, due, m) == g = [n \in 0 .. m |-> Step(g, due, n)]

LEMMA KeptExists ==
    ASSUME NEW due, NEW m \in Nat
    PROVE  \E g : IsKept(g, due, m)
<1> DEFINE Lacks(i) == ~ \E g : IsKept(g, due, i)
<1> SUFFICES ASSUME {i \in Nat : Lacks(i)} # {} PROVE FALSE
  OBVIOUS
<1>1. PICK i \in {n \in Nat : Lacks(n)} : \A j \in {n \in Nat : Lacks(n)} : ~ j < i
  BY LeastIndex
<1>2. i \in Nat /\ Lacks(i) /\ \A j \in Nat : j < i => ~Lacks(j)
  BY <1>1
<1>3. CASE i = 0
  <2>1. IsKept([n \in 0 .. 0 |-> <<>>], due, 0)
    BY DEF IsKept, Step
  <2>2. QED BY <1>2, <1>3, <2>1
<1>4. CASE i # 0
  <2>1. i - 1 \in Nat /\ i - 1 < i
    BY <1>2, <1>4
  <2>2. PICK g : IsKept(g, due, i - 1)
    BY <1>2, <2>1
  <2> DEFINE h == [n \in 0 .. i |-> IF n = i THEN Step(g, due, i) ELSE g[n]]
  <2>3. \A n \in 0 .. i - 1 : g[n] = Step(g, due, n)
    BY <2>2 DEF IsKept
  <2>4. \A n \in 0 .. i : n # 0 => h[n - 1] = g[n - 1]
    BY <1>2
  <2>5. \A n \in 0 .. i : h[n] = Step(g, due, n)
    BY <1>2, <2>3
  <2>6. \A n \in 0 .. i : Step(h, due, n) = Step(g, due, n)
    BY <2>4 DEF Step
  <2>7. h = [n \in 0 .. i |-> Step(h, due, n)]
    BY <2>5, <2>6
  <2>8. QED BY <1>2, <2>7 DEF IsKept
<1>5. QED BY <1>3, <1>4

LEMMA AppendNew ==
    ASSUME NEW S, NEW s \in Seq(S), NEW e \in S, IsInjective(s), e \notin ToSet(s)
    PROVE  Append(s, e) \in Seq(S) /\ IsInjective(Append(s, e)) /\ ToSet(Append(s, e)) = ToSet(s) \cup {e}
<1>1. /\ Append(s, e) \in Seq(S) /\ Len(Append(s, e)) = Len(s) + 1
      /\ \A i \in 1 .. Len(s) : Append(s, e)[i] = s[i]
      /\ Append(s, e)[Len(s) + 1] = e
  BY AppendProperties
<1>2. DOMAIN s = 1 .. Len(s) /\ DOMAIN Append(s, e) = (1 .. Len(s)) \cup {Len(s) + 1}
  BY <1>1
<1>3. IsInjective(Append(s, e))
  BY <1>1, <1>2 DEF IsInjective, ToSet
<1>4. ToSet(Append(s, e)) = ToSet(s) \cup {e}
  BY <1>1, <1>2 DEF ToSet
<1>5. QED BY <1>1, <1>3, <1>4

LEMMA RestKeeps ==
    ASSUME NEW due, pendingTasks \in Seq(Tasks), IsInjective(pendingTasks)
    PROVE  /\ Rest(due) \in Seq(Tasks) /\ IsInjective(Rest(due))
           /\ ToSet(Rest(due)) = {pendingTasks[i] : i \in DOMAIN pendingTasks \ due}
<1> DEFINE m == Len(pendingTasks)
           g == CHOOSE f : IsKept(f, due, m)
<1>1. m \in Nat /\ DOMAIN pendingTasks = 1 .. m /\ \A n \in 1 .. m : pendingTasks[n] \in Tasks
  OBVIOUS
<1>2. Rest(due) = g[m]
  BY DEF Rest, IsKept, Step
<1>3. IsKept(g, due, m)
  BY <1>1, KeptExists
<1> HIDE DEF m, g
<1>4. \A n \in 0 .. m : g[n] = Step(g, due, n)
  BY <1>3 DEF IsKept
<1> DEFINE Good(n) == /\ g[n] \in Seq(Tasks) /\ IsInjective(g[n])
                      /\ ToSet(g[n]) = {pendingTasks[i] : i \in (1 .. n) \ due}
<1>5. Good(0)
  <2>1. g[0] = <<>>
    BY <1>1, <1>4 DEF Step
  <2>2. ToSet(<<>>) = {} /\ (1 .. 0) = {}
    BY DEF ToSet
  <2>3. QED BY <2>1, <2>2 DEF IsInjective
<1>6. ASSUME NEW n \in 1 .. m, Good(n - 1) PROVE Good(n)
  <2>1. n - 1 \in Nat /\ n \in 1 .. m /\ (1 .. n) = (1 .. n - 1) \cup {n} /\ n # 0
    BY <1>1
  <2>2. CASE n \in due
    <3>1. g[n] = g[n - 1]
      BY <1>1, <1>4, <2>1, <2>2 DEF Step
    <3>2. (1 .. n) \ due = (1 .. n - 1) \ due
      BY <2>1, <2>2
    <3>3. QED BY <1>6, <3>1, <3>2
  <2>3. CASE n \notin due
    <3> DEFINE s == g[n - 1]
               e == pendingTasks[n]
    <3>1. g[n] = Append(s, e)
      <4>1. n \in 0 .. m
        BY <1>1, <2>1
      <4>2. QED BY <1>4, <2>1, <2>3, <4>1 DEF Step
    <3>2. s \in Seq(Tasks) /\ IsInjective(s) /\ e \in Tasks
      BY <1>1, <1>6
    <3>3. ToSet(s) = {pendingTasks[i] : i \in (1 .. n - 1) \ due}
      BY <1>6
    <3>4. e \notin ToSet(s)
      BY <1>1, <2>1, <3>3 DEF IsInjective
    <3>5. (1 .. n) \ due = ((1 .. n - 1) \ due) \cup {n}
      BY <2>1, <2>3
    <3>6. {pendingTasks[i] : i \in (1 .. n) \ due} = ToSet(s) \cup {e}
      BY <3>3, <3>5
    <3> HIDE DEF s, e
    <3>7. Append(s, e) \in Seq(Tasks) /\ IsInjective(Append(s, e)) /\ ToSet(Append(s, e)) = ToSet(s) \cup {e}
      BY <3>2, <3>4, AppendNew
    <3>8. QED BY <3>1, <3>6, <3>7
  <2>4. QED BY <2>2, <2>3
<1>7. \A n \in 0 .. m : Good(n)
  <2> DEFINE bad == {n \in 0 .. m : ~Good(n)}
  <2> HIDE DEF Good
  <2> SUFFICES ASSUME bad # {} PROVE FALSE
    OBVIOUS
  <2>0. bad \subseteq Nat
    BY <1>1
  <2>1. PICK i \in bad : \A j \in bad : ~ j < i
    BY <2>0, LeastIndex
  <2>2. i # 0
    BY <1>5, <2>1
  <2>3. i \in 1 .. m /\ i - 1 \in 0 .. m /\ i - 1 < i
    BY <1>1, <2>1, <2>2
  <2>4. Good(i - 1)
    BY <2>1, <2>3
  <2>5. QED BY <1>6, <2>1, <2>3, <2>4
<1>8. Good(m)
  <2>1. m \in 0 .. m
    BY <1>1
  <2> HIDE DEF Good
  <2>2. QED BY <1>7, <2>1
<1>9. QED BY <1>1, <1>2, <1>8

-----------------------------------------------------------------------------
LEMMA InitInv == Init => Inv
<1> SUFFICES ASSUME Init PROVE Inv
  OBVIOUS
<1>1. Cardinality(Listeners) \in Nat
  BY QueueAssumption, FS_CardinalityType
<1>2. ConsumersTyped
  BY <1>1 DEF Init, ConsumersTyped
<1>3. TasksTyped
  BY DEF Init, TasksTyped
<1>4. Registered /\ Placed
  BY DEF Init, Registered, Placed, IsInjective, IsPending, ToSet, Tasks
<1>5. QED BY <1>2, <1>3, <1>4 DEF Inv

\* Nobody is in a list twice: the turn is the number of a consumer.
LEMMA ListsAreShort ==
    ASSUME ConsumersTyped, Registered, NEW q \in Queues
    PROVE  /\ Len(consumers[q]) \in Nat /\ Len(consumers[q]) <= Cardinality(Listeners)
           /\ Cardinality(Listeners) \in Nat
<1> DEFINE list == consumers[q]
<1>1. list \in Seq(Listeners) /\ IsInjective(list)
  BY DEF ConsumersTyped, Registered
<1>2. Len(list) \in Nat /\ list \in [1 .. Len(list) -> Listeners] /\ DOMAIN list = 1 .. Len(list)
  BY <1>1
<1> HIDE DEF list
<1>3. list \in Injection(1 .. Len(list), Listeners)
  BY <1>1, <1>2 DEF IsInjective, Injection
<1>4. Cardinality(1 .. Len(list)) <= Cardinality(Listeners)
  BY <1>3, QueueAssumption, FS_Injection
<1>5. Cardinality(1 .. Len(list)) = Len(list)
  BY <1>2, FS_Interval
<1>6. QED BY <1>2, <1>4, <1>5, QueueAssumption, FS_CardinalityType DEF list

LEMMA Remainders == ASSUME NEW x \in Int, NEW c \in Nat, c > 0 PROVE x % c \in 0 .. c - 1
OBVIOUS

LEMMA TurnTyped ==
    ASSUME ConsumersTyped, Registered, NEW q \in Queues, consumers[q] # <<>>, NEW n \in Nat
    PROVE  /\ InTurn(q, n) \in Listeners
           /\ (next[q] + n) % Len(consumers[q]) \in -1 .. Cardinality(Listeners) - 1
<1>1. /\ next[q] + n \in Int /\ Len(consumers[q]) \in Nat /\ Len(consumers[q]) > 0
      /\ consumers[q] \in Seq(Listeners)
  BY DEF ConsumersTyped
<1>2. (next[q] + n) % Len(consumers[q]) \in 0 .. Len(consumers[q]) - 1
  BY <1>1, Remainders
<1>3. ((next[q] + n) % Len(consumers[q])) + 1 \in 1 .. Len(consumers[q])
  BY <1>1, <1>2
<1>4. InTurn(q, n) \in Listeners
  BY <1>1, <1>3 DEF InTurn
<1>5. QED BY <1>1, <1>2, <1>4, ListsAreShort

LEMMA AdvanceTyped ==
    ASSUME ConsumersTyped, Registered, NEW q \in Queues, consumers[q] # <<>>, NEW n \in Nat,
           Advance(q, n), UNCHANGED <<connected, consumers, handle>>
    PROVE  ConsumersTyped'
<1>1. /\ InTurn(q, n) \in Listeners
      /\ (next[q] + n) % Len(consumers[q]) \in -1 .. Cardinality(Listeners) - 1
  BY TurnTyped
<1>2. /\ next' = [next EXCEPT ![q] = (next[q] + n) % Len(consumers[q])]
      /\ share' = [share EXCEPT ![InTurn(q, n)] = share[InTurn(q, n)] + 1]
  BY DEF Advance
<1>3. next' \in [Queues -> -1 .. Cardinality(Listeners) - 1]
  BY <1>1, <1>2 DEF ConsumersTyped
<1>4. share' \in [Listeners -> Nat]
  BY <1>1, <1>2 DEF ConsumersTyped
<1>5. QED BY <1>3, <1>4 DEF ConsumersTyped

\* A task that nobody asked for yet becomes pending.
LEMMA PostponeKeeps ==
    ASSUME TasksTyped, Placed, NEW t \in Tasks, promise[t] = "uncalled", Postpone(t)
    PROVE  /\ pendingTasks' \in Seq(Tasks) /\ IsInjective(pendingTasks)'
           /\ ToSet(pendingTasks') = ToSet(pendingTasks) \cup {t}
<1>1. /\ pendingTasks \in Seq(Tasks) /\ IsInjective(pendingTasks) /\ t \notin ToSet(pendingTasks)
      /\ pendingTasks' = Append(pendingTasks, t)
  BY DEF TasksTyped, Placed, IsPending, Postpone
<1>2. QED BY <1>1, AppendNew

LEMMA SendInv == ASSUME Inv, NEW t \in Sends, Send(t) PROVE Inv'
<1> DEFINE q == QueueOf[t]
<1>1. /\ ConsumersTyped /\ TasksTyped /\ Registered /\ Placed
      /\ t \in Tasks /\ t \notin Rpcs /\ q \in Queues
  BY QueueAssumption DEF Inv, Tasks
<1>2. /\ promise[t] = "uncalled" /\ promise' = [promise EXCEPT ![t] = "resolved"]
      /\ UNCHANGED <<connected, consumers, handle, running, result, threw>>
      /\ \/ /\ handled' = [handled EXCEPT ![t] = handled[t] + 1] /\ pendingTasks' = pendingTasks
         \/ handled' = handled /\ Postpone(t)
      /\ \/ consumers[q] # <<>> /\ Advance(q, 1)
         \/ UNCHANGED <<next, share>>
  BY DEF Send, listVars
<1> HIDE DEF q
<1>3. ConsumersTyped' /\ Registered'
  BY <1>1, <1>2, AdvanceTyped DEF ConsumersTyped, Registered
<1>4. /\ pendingTasks' \in Seq(Tasks) /\ IsInjective(pendingTasks)'
      /\ \/ handled' = [handled EXCEPT ![t] = handled[t] + 1] /\ ToSet(pendingTasks') = ToSet(pendingTasks)
         \/ handled' = handled /\ ToSet(pendingTasks') = ToSet(pendingTasks) \cup {t}
  BY <1>1, <1>2, PostponeKeeps DEF TasksTyped, Placed
<1>5. TasksTyped'
  BY <1>1, <1>2, <1>4 DEF TasksTyped
<1>6. Placed'
  BY <1>1, <1>2, <1>4 DEF TasksTyped, Placed, IsPending, Tasks
<1>7. QED BY <1>3, <1>5, <1>6 DEF Inv

LEMMA RpcInv == ASSUME Inv, NEW t \in Rpcs, Rpc(t) PROVE Inv'
<1> DEFINE q == QueueOf[t]
<1>1. /\ ConsumersTyped /\ TasksTyped /\ Registered /\ Placed
      /\ t \in Tasks /\ t \notin Sends /\ q \in Queues
  BY QueueAssumption DEF Inv, Tasks
<1>2. /\ promise[t] = "uncalled" /\ promise' = [promise EXCEPT ![t] = "pending"]
      /\ UNCHANGED <<connected, consumers, handle, result, handled, threw>>
      /\ \/ /\ running' = [running EXCEPT ![t] = "direct"] /\ pendingTasks' = pendingTasks
         \/ running' = running /\ Postpone(t)
      /\ \/ consumers[q] # <<>> /\ Advance(q, 1)
         \/ UNCHANGED <<next, share>>
  BY DEF Rpc, listVars
<1> HIDE DEF q
<1>3. ConsumersTyped' /\ Registered'
  BY <1>1, <1>2, AdvanceTyped DEF ConsumersTyped, Registered
<1>4. /\ pendingTasks' \in Seq(Tasks) /\ IsInjective(pendingTasks)'
      /\ \/ running' = [running EXCEPT ![t] = "direct"] /\ ToSet(pendingTasks') = ToSet(pendingTasks)
         \/ running' = running /\ ToSet(pendingTasks') = ToSet(pendingTasks) \cup {t}
  BY <1>1, <1>2, PostponeKeeps DEF TasksTyped, Placed
<1>5. TasksTyped'
  BY <1>1, <1>2, <1>4 DEF TasksTyped
<1>6. Placed'
  BY <1>1, <1>2, <1>4 DEF TasksTyped, Placed, IsPending, Tasks
<1>7. QED BY <1>3, <1>5, <1>6 DEF Inv

LEMMA AnswerInv == ASSUME Inv, NEW t \in Rpcs, Answer(t) \/ Throw(t) \/ Timeout(t) PROVE Inv'
<1>1. /\ ConsumersTyped /\ TasksTyped /\ Registered /\ Placed /\ t \in Tasks /\ t \notin Sends
      /\ Reasons \subseteq {"error", "value"}
  BY QueueAssumption DEF Inv, Tasks
<1>2. UNCHANGED <<connected, consumers, handle, next, pendingTasks, threw, share>>
  BY DEF Answer, Throw, Timeout, listVars
<1>3. ConsumersTyped' /\ Registered'
  BY <1>1, <1>2 DEF ConsumersTyped, Registered
<1>4. CASE Answer(t)
  <2>1. /\ running[t] \in {"direct", "retried"} /\ running' = [running EXCEPT ![t] = "done"]
        /\ result' = [result EXCEPT ![t] = "completed"] /\ handled' = [handled EXCEPT ![t] = handled[t] + 1]
        /\ promise' = [promise EXCEPT ![t] = IF promise[t] = "pending" THEN "resolved" ELSE promise[t]]
    BY <1>4 DEF Answer, Settle
  <2>2. TasksTyped'
    BY <1>1, <1>2, <2>1 DEF TasksTyped
  <2>3. Placed'
    BY <1>1, <1>2, <2>1 DEF TasksTyped, Placed, IsPending, Tasks
  <2>4. QED BY <1>3, <2>2, <2>3 DEF Inv
<1>5. CASE Throw(t)
  <2>1. PICK reason \in Reasons :
           /\ running[t] \in {"direct", "retried"} /\ running' = [running EXCEPT ![t] = "done"]
           /\ result' = [result EXCEPT ![t] = reason] /\ handled' = handled
           /\ promise' = [promise EXCEPT ![t] = IF promise[t] = "pending" THEN Rejection(t, reason) ELSE promise[t]]
    BY <1>5 DEF Throw, Settle
  <2>2. Rejection(t, reason) \in {"resolved", "rejected"} /\ (Rejection(t, reason) = "resolved" => reason = "value")
    BY DEF Rejection
  <2>3. TasksTyped'
    BY <1>1, <1>2, <2>1, <2>2 DEF TasksTyped
  <2>4. Placed'
    BY <1>1, <1>2, <2>1, <2>2 DEF TasksTyped, Placed, IsPending, Tasks
  <2>5. QED BY <1>3, <2>3, <2>4 DEF Inv
<1>6. CASE Timeout(t)
  <2>1. /\ promise[t] = "pending" /\ promise' = [promise EXCEPT ![t] = "rejected"]
        /\ UNCHANGED <<running, result, handled>>
    BY <1>6 DEF Timeout, Settle
  <2>2. TasksTyped'
    BY <1>1, <1>2, <2>1 DEF TasksTyped
  <2>3. Placed'
    BY <1>1, <1>2, <2>1 DEF TasksTyped, Placed, IsPending, Tasks
  <2>4. QED BY <1>3, <2>2, <2>3 DEF Inv
<1>7. QED BY <1>4, <1>5, <1>6

\* A pass of the timer.
LEMMA RetryConsumers == ASSUME Inv, RetryPendingTasks PROVE ConsumersTyped' /\ Registered'
<1> DEFINE dueFor(q) == {i \in Due : QueueOf[pendingTasks[i]] = q}
           rank(i) == Cardinality({j \in dueFor(QueueOf[pendingTasks[i]]) : j <= i})
           taker(i) == InTurn(QueueOf[pendingTasks[i]], rank(i))
           taken(k) == {i \in Due : taker(i) = k}
<1>1. ConsumersTyped /\ Registered /\ pendingTasks \in Seq(Tasks)
  BY DEF Inv, TasksTyped
<1>2. /\ next' = [q \in Queues |-> IF dueFor(q) = {} THEN next[q]
                                   ELSE (next[q] + Cardinality(dueFor(q))) % Len(consumers[q])]
      /\ share' = [k \in Listeners |-> share[k] + Cardinality(taken(k))]
      /\ UNCHANGED <<connected, consumers, handle>>
  BY DEF RetryPendingTasks, listVars
<1>3. IsFiniteSet(DOMAIN pendingTasks)
  BY <1>1, FS_Interval
<1>4. \A S : S \subseteq Due => Cardinality(S) \in Nat
  <2>1. Due \subseteq DOMAIN pendingTasks
    BY DEF Due
  <2>2. QED BY <1>3, <2>1, FS_Subset, FS_CardinalityType
<1>5. ASSUME NEW q \in Queues, dueFor(q) # {}
      PROVE  (next[q] + Cardinality(dueFor(q))) % Len(consumers[q]) \in -1 .. Cardinality(Listeners) - 1
  <2>1. consumers[q] # <<>> /\ dueFor(q) \subseteq Due
    BY <1>5 DEF Due
  <2>2. Cardinality(dueFor(q)) \in Nat
    BY <1>4, <2>1
  <2>3. QED BY <1>1, <2>1, <2>2, TurnTyped
<1>6. \A k \in Listeners : Cardinality(taken(k)) \in Nat
  BY <1>4
<1> HIDE DEF dueFor, taken
<1>7. next' \in [Queues -> -1 .. Cardinality(Listeners) - 1]
  BY <1>1, <1>2, <1>5 DEF ConsumersTyped
<1>8. share' \in [Listeners -> Nat]
  BY <1>1, <1>2, <1>6 DEF ConsumersTyped
<1>9. QED BY <1>1, <1>2, <1>7, <1>8 DEF ConsumersTyped, Registered

LEMMA RetryTasks == ASSUME Inv, RetryPendingTasks PROVE TasksTyped' /\ Placed'
<1> DEFINE tasks == {pendingTasks[i] : i \in Due}
<1>1. TasksTyped /\ Placed /\ pendingTasks \in Seq(Tasks) /\ IsInjective(pendingTasks)
  BY DEF Inv, TasksTyped, Placed
<1>2. PICK throwing \in SUBSET (tasks \cap Sends) :
         /\ handled' = [t \in Tasks |-> IF t \in (tasks \cap Sends) \ throwing
                                        THEN handled[t] + 1 ELSE handled[t]]
         /\ threw' = threw \cup throwing
  BY DEF RetryPendingTasks
<1>3. /\ running' = [t \in Tasks |-> IF t \in tasks \cap Rpcs THEN "retried" ELSE running[t]]
      /\ pendingTasks' = Rest(Due) /\ UNCHANGED <<promise, result>>
  BY DEF RetryPendingTasks
<1>4. /\ pendingTasks' \in Seq(Tasks) /\ IsInjective(pendingTasks)'
      /\ ToSet(pendingTasks') = {pendingTasks[i] : i \in DOMAIN pendingTasks \ Due}
  BY <1>1, <1>3, RestKeeps
<1>5. ToSet(pendingTasks') = ToSet(pendingTasks) \ tasks /\ tasks \subseteq ToSet(pendingTasks)
  <2>1. Due \subseteq DOMAIN pendingTasks /\ tasks = {pendingTasks[i] : i \in Due}
    BY DEF Due
  <2>2. \A i, j \in DOMAIN pendingTasks : pendingTasks[i] = pendingTasks[j] => i = j
    BY <1>1 DEF IsInjective
  <2>3. ToSet(pendingTasks) = {pendingTasks[i] : i \in DOMAIN pendingTasks}
    BY DEF ToSet
  <2> HIDE DEF tasks
  <2>4. tasks \subseteq ToSet(pendingTasks)
    BY <2>1, <2>3
  <2>5. QED BY <1>4, <2>1, <2>2, <2>3, <2>4
<1> HIDE DEF tasks
<1>6. TasksTyped'
  BY <1>1, <1>2, <1>3, <1>4 DEF TasksTyped
<1>7. Placed'
  <2>1. ASSUME NEW t \in Tasks
        PROVE  /\ IsPending(t)' <=> IsPending(t) /\ t \notin tasks
               /\ t \in tasks => handled[t] = 0 /\ running[t] = "no" /\ promise[t] # "uncalled"
    BY <1>1, <1>5 DEF IsPending, Placed
  <2>2. ASSUME NEW t \in Tasks
        PROVE  /\ promise'[t] = "uncalled" => ~IsPending(t)' /\ handled'[t] = 0 /\ running'[t] = "no"
               /\ IsPending(t)' => handled'[t] = 0 /\ running'[t] = "no"
               /\ handled'[t] <= 1
    BY <1>1, <1>2, <1>3, <2>1 DEF Placed, TasksTyped
  <2>3. ASSUME NEW t \in Sends
        PROVE  /\ promise'[t] \in {"uncalled", "resolved"} /\ running'[t] = "no"
               /\ promise'[t] = "resolved" => handled'[t] = 1 \/ IsPending(t)' \/ t \in threw'
    <3>1. t \in Tasks /\ t \notin Rpcs
      BY QueueAssumption DEF Tasks
    <3>2. QED BY <1>1, <1>2, <1>3, <2>1, <3>1 DEF Placed, TasksTyped
  <2>4. ASSUME NEW t \in Rpcs
        PROVE  /\ running'[t] # "done" => handled'[t] = 0
               /\ promise'[t] = "resolved" => running'[t] = "done" /\ result'[t] \in {"completed", "value"}
    <3>1. t \in Tasks /\ t \notin Sends
      BY QueueAssumption DEF Tasks
    <3>2. QED BY <1>1, <1>2, <1>3, <2>1, <3>1 DEF Placed, TasksTyped
  <2>5. QED BY <1>4, <2>2, <2>3, <2>4 DEF Placed
<1>8. QED BY <1>6, <1>7

\* The calls that change who consumes leave the tasks alone.
LEMMA TasksRest ==
    ASSUME TasksTyped, Placed, UNCHANGED <<pendingTasks, taskVars>>
    PROVE  TasksTyped' /\ Placed'
BY DEF TasksTyped, Placed, IsPending, taskVars

LEMMA ConsumeInv == ASSUME Inv, NEW k \in Listeners, NEW q \in Queues, Consume(k, q) PROVE Inv'
<1>1. ConsumersTyped /\ Registered /\ TasksTyped' /\ Placed'
  BY TasksRest DEF Inv, Consume
<1>2. /\ handle[k] = None /\ handle' = [handle EXCEPT ![k] = q]
      /\ consumers' = [consumers EXCEPT ![q] = Append(consumers[q], k)] /\ connected' = connected
      /\ next' = [next EXCEPT ![q] = IF consumers[q] = <<>> THEN -1 ELSE next[q]]
      /\ share' \in [Listeners -> Nat]
  BY <1>1 DEF Consume, Recount, ConsumersTyped
<1>3. Cardinality(Listeners) \in Nat
  BY QueueAssumption, FS_CardinalityType
<1>4. consumers[q] \in Seq(Listeners) /\ IsInjective(consumers[q]) /\ k \notin ToSet(consumers[q])
  BY <1>1, <1>2, QueueAssumption DEF ConsumersTyped, Registered, ToSet
<1>5. /\ Append(consumers[q], k) \in Seq(Listeners) /\ IsInjective(Append(consumers[q], k))
      /\ ToSet(Append(consumers[q], k)) = ToSet(consumers[q]) \cup {k}
  BY <1>4, AppendNew
<1>6. ConsumersTyped'
  BY <1>1, <1>2, <1>3, <1>5 DEF ConsumersTyped
<1>7. Registered'
  <2>1. ASSUME NEW p \in Queues, NEW l \in ToSet(consumers'[p]) PROVE handle'[l] = p
    <3>1. l \in Listeners
      BY <1>6, <2>1 DEF ConsumersTyped, ToSet
    <3>2. CASE l \in ToSet(consumers[p])
      <4>1. handle[l] = p
        BY <1>1, <3>2 DEF Registered, ToSet
      <4>2. l # k
        BY <1>2, <4>1, QueueAssumption
      <4>3. QED BY <1>1, <1>2, <3>1, <4>1, <4>2 DEF ConsumersTyped
    <3>3. CASE l \notin ToSet(consumers[p])
      <4>1. p = q /\ l = k
        BY <1>1, <1>2, <1>5, <2>1, <3>3 DEF ConsumersTyped
      <4>2. QED BY <1>1, <1>2, <4>1 DEF ConsumersTyped
    <3>4. QED BY <3>2, <3>3
  <2>2. \A p \in Queues : IsInjective(consumers'[p])
    BY <1>1, <1>2, <1>5 DEF ConsumersTyped, Registered
  <2>3. QED BY <2>1, <2>2 DEF Registered, ToSet
<1>8. QED BY <1>1, <1>6, <1>7 DEF Inv

\* splice() keeps those in front of k.
LEMMA WithoutKeeps ==
    ASSUME NEW list \in Seq(Listeners), NEW k, IsInjective(list)
    PROVE  /\ Without(list, k) \in Seq(Listeners) /\ IsInjective(Without(list, k))
           /\ ToSet(Without(list, k)) \subseteq ToSet(list) \ {k}
<1>1. CASE k \notin ToSet(list)
  BY <1>1 DEF Without
<1>2. CASE k \in ToSet(list)
  <2>1. PICK i \in 1 .. Len(list) : list[i] = k
    BY <1>2 DEF ToSet
  <2>2. {j \in 1 .. Len(list) : list[j] = k} = {i}
    BY <2>1 DEF IsInjective
  <2>3. SelectInSeq(list, LAMBDA l : l = k) = i
    BY <2>1, <2>2 DEF SelectInSeq, Min
  <2>4. Without(list, k) = SubSeq(list, 1, i - 1)
    BY <1>2, <2>3 DEF Without
  <2>5. /\ SubSeq(list, 1, i - 1) \in Seq(Listeners) /\ DOMAIN SubSeq(list, 1, i - 1) = 1 .. i - 1
        /\ \A j \in 1 .. i - 1 : SubSeq(list, 1, i - 1)[j] = list[j]
    BY <2>1
  <2>6. QED BY <2>1, <2>4, <2>5 DEF IsInjective, ToSet
<1>3. QED BY <1>1, <1>2

LEMMA StopInv == ASSUME Inv, NEW k \in Listeners, StopConsuming(k) PROVE Inv'
<1> DEFINE q == handle[k]
<1>1. ConsumersTyped /\ Registered /\ TasksTyped' /\ Placed'
  BY TasksRest DEF Inv, StopConsuming
<1>2. /\ q \in Queues /\ handle' = [handle EXCEPT ![k] = "disposed"]
      /\ consumers' = [consumers EXCEPT ![q] = Without(consumers[q], k)] /\ connected' = connected
      /\ next' = next /\ share' \in [Listeners -> Nat]
  BY <1>1 DEF StopConsuming, Recount, ConsumersTyped
<1>3. consumers[q] \in Seq(Listeners) /\ IsInjective(consumers[q])
  BY <1>1, <1>2 DEF ConsumersTyped, Registered
<1>4. /\ Without(consumers[q], k) \in Seq(Listeners) /\ IsInjective(Without(consumers[q], k))
      /\ ToSet(Without(consumers[q], k)) \subseteq ToSet(consumers[q]) \ {k}
  BY <1>3, WithoutKeeps
<1>5. ConsumersTyped'
  BY <1>1, <1>2, <1>4 DEF ConsumersTyped
<1>6. Registered'
  <2>1. ASSUME NEW p \in Queues, NEW l \in ToSet(consumers'[p]) PROVE handle'[l] = p
    <3>1. l \in Listeners /\ l \in ToSet(consumers[p]) /\ (p = q => l # k)
      <4>1. consumers'[p] = IF p = q THEN Without(consumers[q], k) ELSE consumers[p]
        BY <1>1, <1>2 DEF ConsumersTyped
      <4>2. l \in ToSet(consumers[p]) /\ (p = q => l # k)
        BY <1>4, <2>1, <4>1
      <4>3. QED BY <1>1, <4>2 DEF ConsumersTyped, ToSet
    <3>2. handle[l] = p
      BY <1>1, <3>1 DEF Registered, ToSet
    <3>3. QED BY <1>1, <1>2, <3>1, <3>2 DEF ConsumersTyped
  <2>2. \A p \in Queues : IsInjective(consumers'[p])
    BY <1>1, <1>2, <1>4 DEF ConsumersTyped, Registered
  <2>3. QED BY <2>1, <2>2 DEF Registered, ToSet
<1>7. QED BY <1>1, <1>5, <1>6 DEF Inv

LEMMA DisconnectInv == ASSUME Inv, Disconnect PROVE Inv'
<1>1. ConsumersTyped /\ Registered /\ TasksTyped' /\ Placed'
  BY TasksRest DEF Inv, Disconnect
<1>2. /\ connected' = FALSE /\ consumers' = [q \in Queues |-> <<>>] /\ next' = next
      /\ handle' = [k \in Listeners |-> IF handle[k] = None THEN None ELSE "disposed"]
      /\ share' = [k \in Listeners |-> 0]
  BY DEF Disconnect
<1>3. consumers' \in [Queues -> Seq(Listeners)] /\ share' \in [Listeners -> Nat]
  BY <1>2
<1>4. handle' \in [Listeners -> Queues \cup {None, "disposed"}]
  BY <1>2
<1>5. ConsumersTyped'
  BY <1>1, <1>2, <1>3, <1>4 DEF ConsumersTyped
<1>6. Registered'
  BY <1>2 DEF Registered, IsInjective
<1>7. QED BY <1>1, <1>5, <1>6 DEF Inv

LEMMA NextInv == Inv /\ [Next]_vars => Inv'
<1>1. Inv /\ UNCHANGED vars => Inv'
  BY DEF Inv, vars, ConsumersTyped, TasksTyped, Registered, Placed, IsPending
<1>2. QED
  BY <1>1, SendInv, RpcInv, AnswerInv, RetryConsumers, RetryTasks, ConsumeInv, StopInv, DisconnectInv
     DEF Next, Inv

LEMMA Invariance == Spec => []Inv
BY InitInv, NextInv, PTL DEF Spec

-----------------------------------------------------------------------------
\* Every task is pending once, with a consumer or past one, and completed once at
\* most; a sent task disappears unhandled only if a consumer throws at it in a retry,
\* and an rpc resolves only if a consumer ended it.
THEOREM TasksAreAccountedFor == Spec => []TasksAccountedFor
<1>1. ASSUME Inv PROVE TasksAccountedFor
  <2>1. TypeOK
    <3>1. ASSUME NEW q \in Queues PROVE consumers[q] \in Seq({k \in Listeners : handle[k] = q})
      <4>1. consumers[q] \in Seq(Listeners) /\ \A i \in DOMAIN consumers[q] : handle[consumers[q][i]] = q
        BY <1>1 DEF Inv, ConsumersTyped, Registered
      <4>2. QED BY <4>1
    <3>2. QED BY <1>1, <3>1 DEF Inv, ConsumersTyped, TasksTyped, TypeOK
  <2>2. QED BY <1>1, <2>1 DEF Inv, Placed, TasksAccountedFor
<1>2. QED BY <1>1, Invariance, PTL

-----------------------------------------------------------------------------
(* Round robin.  The consumers of a queue that are one task ahead of the others   *)
(* are the last d that had a turn, counted backwards from x and around the list.  *)
Ahead(i, x, d, c) == (x - d < i /\ i <= x) \/ i > x - d + c

Level(f, x, c) == \E base \in Nat, d \in 0 .. c - 1 :
                     \A i \in 0 .. c - 1 : f[i] = IF Ahead(i, x, d, c) THEN base + 1 ELSE base

SharesOf(q) == [i \in 0 .. Len(consumers[q]) - 1 |-> share[consumers[q][i + 1]]]

Turns ==
    /\ \A k \in Listeners : handle[k] = None => share[k] = 0
    /\ connected /\ (\A k \in Listeners : handle[k] # "disposed")
          => \A q \in Queues : {k \in Listeners : handle[k] = q} = ToSet(consumers[q])
    /\ \A q \in Queues : consumers[q] # <<>> => Level(SharesOf(q), next[q] % Len(consumers[q]), Len(consumers[q]))

-----------------------------------------------------------------------------
\* Remainders.
LEMMA Division ==
    ASSUME NEW y \in Int, NEW c \in Nat, c > 0
    PROVE  y = c * (y \div c) + (y % c) /\ y \div c \in Int /\ y % c \in 0 .. c - 1
OBVIOUS

LEMMA OneRemainder ==
    ASSUME NEW a \in Int, NEW b \in Int, NEW r \in Int, NEW s \in Int, NEW c \in Nat, c > 0,
           0 <= r, r < c, 0 <= s, s < c, c * a + r = c * b + s
    PROVE  r = s
OBVIOUS

LEMMA NextRemainder ==
    ASSUME NEW y \in Int, NEW c \in Nat, c > 0
    PROVE  (y + 1) % c = IF y % c = c - 1 THEN 0 ELSE (y % c) + 1
<1> DEFINE a == y \div c
           r == y % c
           b == (y + 1) \div c
           s == (y + 1) % c
<1>1. y = c * a + r /\ a \in Int /\ r \in 0 .. c - 1
  BY Division
<1>2. y + 1 = c * b + s /\ b \in Int /\ s \in 0 .. c - 1
  BY Division
<1> HIDE DEF a, r, b, s
<1>3. CASE r = c - 1
  <2>1. c * (a + 1) + 0 = c * b + s
    BY <1>1, <1>2, <1>3
  <2>2. a + 1 \in Int /\ 0 \in Int /\ s \in Int /\ 0 <= s /\ s < c
    BY <1>1, <1>2
  <2>3. 0 = s
    BY <1>2, <2>1, <2>2, OneRemainder
  <2>4. QED BY <1>3, <2>3 DEF r, s
<1>4. CASE r # c - 1
  <2>1. c * a + (r + 1) = c * b + s
    BY <1>1, <1>2
  <2>2. r + 1 \in Int /\ s \in Int /\ 0 <= s /\ s < c /\ 0 <= r + 1 /\ r + 1 < c
    BY <1>1, <1>2, <1>4
  <2>3. r + 1 = s
    BY <1>1, <1>2, <2>1, <2>2, OneRemainder
  <2>4. QED BY <1>4, <2>3 DEF r, s
<1>5. QED BY <1>3, <1>4

LEMMA SameRemainder ==
    ASSUME NEW y \in Int, NEW c \in Nat, c > 0
    PROVE  (y % c) % c = y % c
OBVIOUS

-----------------------------------------------------------------------------
\* One more turn keeps the shares level.
LEMMA OneTurn ==
    ASSUME NEW c \in Nat, c > 0, NEW x \in 0 .. c - 1, NEW z, z = (IF x = c - 1 THEN 0 ELSE x + 1),
           NEW f, Level(f, x, c), NEW g, \A i \in 0 .. c - 1 : g[i] = IF i = z THEN f[i] + 1 ELSE f[i]
    PROVE  Level(g, z, c)
<1>1. PICK base \in Nat, d \in 0 .. c - 1 :
         \A i \in 0 .. c - 1 : f[i] = IF Ahead(i, x, d, c) THEN base + 1 ELSE base
  BY DEF Level
<1>2. z \in 0 .. c - 1 /\ ~Ahead(z, x, d, c)
  BY <1>1 DEF Ahead
<1>3. CASE d + 1 < c
  <2>1. \A i \in 0 .. c - 1 : Ahead(i, z, d + 1, c) <=> Ahead(i, x, d, c) \/ i = z
    BY <1>1, <1>2, <1>3 DEF Ahead
  <2>2. \A i \in 0 .. c - 1 : g[i] = IF Ahead(i, z, d + 1, c) THEN base + 1 ELSE base
    BY <1>1, <1>2, <2>1
  <2>3. d + 1 \in 0 .. c - 1
    BY <1>1, <1>3
  <2>4. QED BY <2>2, <2>3 DEF Level
<1>4. CASE d + 1 = c
  <2>1. \A i \in 0 .. c - 1 : ~Ahead(i, z, 0, c) /\ (Ahead(i, x, d, c) \/ i = z)
    BY <1>1, <1>2, <1>4 DEF Ahead
  <2>2. \A i \in 0 .. c - 1 : g[i] = IF Ahead(i, z, 0, c) THEN (base + 1) + 1 ELSE base + 1
    BY <1>1, <1>2, <2>1
  <2>3. base + 1 \in Nat /\ 0 \in 0 .. c - 1
    BY <1>1
  <2>4. QED BY <2>2, <2>3 DEF Level
<1>5. QED BY <1>1, <1>3, <1>4

LEMMA LevelMeans ==
    ASSUME NEW c \in Nat, NEW x, NEW f, Level(f, x, c), NEW i \in 0 .. c - 1, NEW j \in 0 .. c - 1
    PROVE  f[i] <= f[j] + 1
BY DEF Level

LEMMA LevelAtZero ==
    ASSUME NEW c \in Nat, c > 0, NEW x \in 0 .. c - 1, NEW f, \A i \in 0 .. c - 1 : f[i] = 0
    PROVE  Level(f, x, c)
<1>1. \A i \in 0 .. c - 1 : ~Ahead(i, x, 0, c)
  BY DEF Ahead
<1>2. \A i \in 0 .. c - 1 : f[i] = IF Ahead(i, x, 0, c) THEN 0 + 1 ELSE 0
  BY <1>1
<1>3. 0 \in Nat /\ 0 \in 0 .. c - 1
  OBVIOUS
<1>4. QED BY <1>2, <1>3 DEF Level

LEMMA LevelOfEqual ==
    ASSUME NEW c, NEW x, NEW f, Level(f, x, c), NEW g, \A i \in 0 .. c - 1 : g[i] = f[i]
    PROVE  Level(g, x, c)
BY DEF Level

\* So do m turns at once.
After(f, y, m, c) == [i \in 0 .. c - 1 |-> f[i] + Cardinality({j \in 1 .. m : (y + j) % c = i})]

LEMMA ManyTurns ==
    ASSUME NEW c \in Nat, c > 0, NEW y \in Int, NEW f \in [0 .. c - 1 -> Nat], Level(f, y % c, c), NEW m \in Nat
    PROVE  Level(After(f, y, m, c), (y + m) % c, c)
<1> DEFINE Good(n) == Level(After(f, y, n, c), (y + n) % c, c)
           bad == {n \in Nat : ~Good(n)}
<1>1. Good(0)
  <2>1. \A i : {j \in 1 .. 0 : (y + j) % c = i} = {}
    OBVIOUS
  <2>2. \A i \in 0 .. c - 1 : After(f, y, 0, c)[i] = f[i]
    BY <2>1, FS_EmptySet DEF After
  <2>3. y + 0 = y
    OBVIOUS
  <2>4. QED BY <2>2, <2>3, LevelOfEqual
<1>2. ASSUME NEW n \in Nat, Good(n) PROVE Good(n + 1)
  <2> DEFINE x == (y + n) % c
             z == (y + (n + 1)) % c
             turn(j) == (y + j) % c
             set(k, i) == {j \in 1 .. k : turn(j) = i}
  <2>1. x \in 0 .. c - 1 /\ z = (IF x = c - 1 THEN 0 ELSE x + 1)
    <3>1. y + n \in Int /\ y + (n + 1) = (y + n) + 1
      OBVIOUS
    <3>2. QED BY <3>1, Remainders, NextRemainder
  <2>2. ASSUME NEW i \in 0 .. c - 1
        PROVE  /\ Cardinality(set(n, i)) \in Nat
               /\ Cardinality(set(n + 1, i)) = IF i = z THEN Cardinality(set(n, i)) + 1 ELSE Cardinality(set(n, i))
    <3>1. (1 .. n + 1) = (1 .. n) \cup {n + 1} /\ n + 1 \notin 1 .. n /\ turn(n + 1) = z
      OBVIOUS
    <3>2. set(n, i) \subseteq 1 .. n /\ IsFiniteSet(1 .. n)
      <4>1. set(n, i) \subseteq 1 .. n
        OBVIOUS
      <4>2. IsFiniteSet(1 .. n)
        BY FS_Interval
      <4>3. QED BY <4>1, <4>2
    <3>3. IsFiniteSet(set(n, i))
      BY <3>2, FS_Subset
    <3> HIDE DEF turn, z
    <3>4. CASE i = z
      <4>1. set(n + 1, i) = set(n, i) \cup {n + 1} /\ n + 1 \notin set(n, i)
        BY <3>1, <3>4
      <4>2. QED BY <3>3, <3>4, <4>1, FS_AddElement, FS_CardinalityType
    <3>5. CASE i # z
      <4>1. set(n + 1, i) = set(n, i)
        BY <3>1, <3>5
      <4>2. QED BY <3>3, <3>5, <4>1, FS_CardinalityType
    <3>6. QED BY <3>4, <3>5
  <2>3. \A i \in 0 .. c - 1 : After(f, y, n + 1, c)[i] = IF i = z THEN After(f, y, n, c)[i] + 1 ELSE After(f, y, n, c)[i]
    <3> SUFFICES ASSUME NEW i \in 0 .. c - 1
                 PROVE  After(f, y, n + 1, c)[i] = IF i = z THEN After(f, y, n, c)[i] + 1 ELSE After(f, y, n, c)[i]
      OBVIOUS
    <3>1. /\ After(f, y, n, c)[i] = f[i] + Cardinality(set(n, i))
          /\ After(f, y, n + 1, c)[i] = f[i] + Cardinality(set(n + 1, i))
          /\ f[i] \in Nat
      BY DEF After
    <3> HIDE DEF set, z
    <3>2. QED BY <2>2, <3>1
  <2> HIDE DEF x, z
  <2>4. Level(After(f, y, n, c), x, c)
    BY <1>2 DEF x
  <2> HIDE DEF turn, set
  <2>5. Level(After(f, y, n + 1, c), z, c)
    <3>1. PICK g, h : g = After(f, y, n, c) /\ h = After(f, y, n + 1, c)
      OBVIOUS
    <3>2. Level(g, x, c) /\ \A i \in 0 .. c - 1 : h[i] = IF i = z THEN g[i] + 1 ELSE g[i]
      BY <2>3, <2>4, <3>1
    <3>3. Level(h, z, c)
      BY ONLY c \in Nat, c > 0, <2>1, <3>2, OneTurn
    <3>4. QED BY <3>1, <3>3
  <2>6. QED BY <2>5 DEF z
<1> HIDE DEF Good
<1>3. bad = {}
  <2> SUFFICES ASSUME bad # {} PROVE FALSE
    OBVIOUS
  <2>1. PICK i \in bad : \A j \in bad : ~ j < i
    BY LeastIndex
  <2>2. i # 0 /\ i \in Nat
    BY <1>1, <2>1
  <2>3. i - 1 \in Nat /\ i - 1 < i /\ (i - 1) + 1 = i
    BY <2>2
  <2>4. Good(i - 1)
    BY <2>1, <2>3
  <2>5. Good((i - 1) + 1)
    BY <1>2, <2>3, <2>4
  <2>6. QED BY <2>1, <2>3, <2>5
<1>4. QED BY <1>3 DEF Good

\* A pass of the timer numbers the due tasks of a queue from 1.
LEMMA Ranks ==
    ASSUME NEW D, D \subseteq Nat, IsFiniteSet(D)
    PROVE  /\ Cardinality(D) \in Nat
           /\ [i \in D |-> Cardinality({j \in D : j <= i})] \in Bijection(D, 1 .. Cardinality(D))
<1> DEFINE below(i) == {j \in D : j <= i}
           rank == [i \in D |-> Cardinality(below(i))]
           m == Cardinality(D)
<1>1. m \in Nat
  BY FS_CardinalityType
<1>2. ASSUME NEW i \in D PROVE IsFiniteSet(below(i)) /\ Cardinality(below(i)) \in 1 .. m
  <2>1. IsFiniteSet(below(i)) /\ Cardinality(below(i)) <= m
    BY FS_Subset
  <2>2. Cardinality(below(i)) \in Nat /\ below(i) # {}
    BY <2>1, FS_CardinalityType
  <2>3. Cardinality(below(i)) # 0
    BY <2>1, <2>2, FS_EmptySet
  <2> HIDE DEF below, m
  <2>4. QED BY <1>1, <2>1, <2>2, <2>3
<1>3. ASSUME NEW i \in D, NEW k \in D, i < k PROVE Cardinality(below(i)) # Cardinality(below(k))
  <2>1. k \in below(k) /\ k \notin below(i) /\ \A j \in below(i) : j \in below(k)
    BY <1>3
  <2>2. below(i) \in SUBSET below(k) /\ below(i) # below(k)
    BY <2>1
  <2>3. QED BY <1>2, <2>2, FS_Subset
<1>4. rank \in [D -> 1 .. m]
  BY <1>2
<1>5. \A i, k \in D : rank[i] = rank[k] => i = k
  BY <1>3
<1> HIDE DEF rank, below
<1>6. rank \in Injection(D, 1 .. m)
  BY <1>4, <1>5 DEF Injection, IsInjective
<1>7. IsFiniteSet(1 .. m) /\ Cardinality(1 .. m) = m
  BY <1>1, FS_Interval
<1>8. rank \in Surjection(D, 1 .. m)
  BY <1>6, <1>7, FS_Injection
<1>9. QED BY <1>1, <1>6, <1>8 DEF Bijection, rank, below

-----------------------------------------------------------------------------
\* What a step makes of the shares of a queue whose consumers stay.
LEMMA ListFacts ==
    ASSUME ConsumersTyped, Registered, NEW q \in Queues
    PROVE  /\ consumers[q] \in Seq(Listeners) /\ Len(consumers[q]) \in Nat
           /\ DOMAIN consumers[q] = 1 .. Len(consumers[q])
           /\ consumers[q] # <<>> => Len(consumers[q]) > 0
           /\ SharesOf(q) \in [0 .. Len(consumers[q]) - 1 -> Nat]
           /\ \A i \in 1 .. Len(consumers[q]) :
                 consumers[q][i] \in Listeners /\ handle[consumers[q][i]] = q
           /\ \A i, j \in 1 .. Len(consumers[q]) : consumers[q][i] = consumers[q][j] => i = j
           /\ next[q] \in Int
<1>1. consumers[q] \in Seq(Listeners) /\ next[q] \in Int /\ share \in [Listeners -> Nat]
  BY DEF ConsumersTyped
<1>2. /\ Len(consumers[q]) \in Nat /\ DOMAIN consumers[q] = 1 .. Len(consumers[q])
      /\ consumers[q] # <<>> => Len(consumers[q]) > 0
      /\ \A i \in 1 .. Len(consumers[q]) : consumers[q][i] \in Listeners
  BY <1>1
<1>3. /\ \A i \in 1 .. Len(consumers[q]) : handle[consumers[q][i]] = q
      /\ \A i, j \in 1 .. Len(consumers[q]) : consumers[q][i] = consumers[q][j] => i = j
  BY <1>2 DEF Registered, IsInjective
<1>4. SharesOf(q) \in [0 .. Len(consumers[q]) - 1 -> Nat]
  BY <1>1, <1>2 DEF SharesOf
<1>5. QED BY <1>1, <1>2, <1>3, <1>4

\* A queue that nothing happens to.
LEMMA QueueRests ==
    ASSUME ConsumersTyped, Registered, Turns, NEW q \in Queues, consumers[q] # <<>>,
           consumers'[q] = consumers[q], next'[q] = next[q],
           \A i \in 1 .. Len(consumers[q]) : share'[consumers[q][i]] = share[consumers[q][i]]
    PROVE  Level(SharesOf(q)', next'[q] % Len(consumers'[q]), Len(consumers'[q]))
<1>1. \A i \in 0 .. Len(consumers[q]) - 1 : i + 1 \in 1 .. Len(consumers[q])
  BY ListFacts
<1>2. SharesOf(q)' = SharesOf(q)
  BY <1>1 DEF SharesOf
<1>3. Level(SharesOf(q), next[q] % Len(consumers[q]), Len(consumers[q]))
  BY DEF Turns
<1>4. QED BY <1>2, <1>3

\* A task that is sent, or asked, takes the next turn.
LEMMA AdvanceTurns ==
    ASSUME ConsumersTyped, Registered, Turns, NEW q \in Queues, consumers[q] # <<>>,
           Advance(q, 1), UNCHANGED <<connected, consumers, handle>>
    PROVE  Turns'
<1> DEFINE c == Len(consumers[q])
           x == next[q] % c
           z == (next[q] + 1) % c
           k == consumers[q][z + 1]
<1>1. /\ c \in Nat /\ c > 0 /\ next[q] \in Int /\ SharesOf(q) \in [0 .. c - 1 -> Nat]
      /\ \A i \in 1 .. c : consumers[q][i] \in Listeners /\ handle[consumers[q][i]] = q
      /\ \A i, j \in 1 .. c : consumers[q][i] = consumers[q][j] => i = j
  BY ListFacts
<1>2. x \in 0 .. c - 1 /\ z \in 0 .. c - 1 /\ z = (IF x = c - 1 THEN 0 ELSE x + 1) /\ z % c = z
  <2>1. next[q] + 1 \in Int
    BY <1>1
  <2>2. QED BY <1>1, <2>1, Remainders, NextRemainder, SameRemainder
<1>3. share' = [share EXCEPT ![k] = share[k] + 1] /\ next' = [next EXCEPT ![q] = z]
  BY DEF Advance, InTurn
<1>4. Level(SharesOf(q), x, c)
  BY DEF Turns
<1> HIDE DEF c, x, z
<1>5. z + 1 \in 1 .. c /\ k \in Listeners /\ handle[k] = q
  BY <1>1, <1>2
<1> HIDE DEF k
<1>6. share \in [Listeners -> Nat] /\ next \in [Queues -> -1 .. Cardinality(Listeners) - 1]
  BY DEF ConsumersTyped
<1>7. Level(SharesOf(q)', next'[q] % Len(consumers'[q]), Len(consumers'[q]))
  <2>1. \A i \in 0 .. c - 1 : SharesOf(q)'[i] = IF i = z THEN SharesOf(q)[i] + 1 ELSE SharesOf(q)[i]
    <3> SUFFICES ASSUME NEW i \in 0 .. c - 1
                 PROVE  SharesOf(q)'[i] = IF i = z THEN SharesOf(q)[i] + 1 ELSE SharesOf(q)[i]
      OBVIOUS
    <3>1. i + 1 \in 1 .. c /\ consumers[q][i + 1] \in Listeners
      BY <1>1
    <3>2. SharesOf(q)[i] = share[consumers[q][i + 1]] /\ SharesOf(q)'[i] = share'[consumers[q][i + 1]]
      BY DEF SharesOf, c
    <3>3. consumers[q][i + 1] = k <=> i = z
      BY <1>1, <1>2, <1>5, <3>1 DEF k
    <3>4. QED BY <1>3, <1>5, <1>6, <3>1, <3>2, <3>3
  <2> DEFINE f == SharesOf(q)
             g == SharesOf(q)'
  <2>2. Level(g, z, c)
    <3>1. /\ \A i \in 0 .. c - 1 : g[i] = IF i = z THEN f[i] + 1 ELSE f[i]
          /\ Level(f, x, c)
      BY <1>4, <2>1
    <3>2. c \in Nat /\ c > 0 /\ x \in 0 .. c - 1 /\ z = (IF x = c - 1 THEN 0 ELSE x + 1)
      BY <1>1, <1>2
    <3> HIDE DEF f, g
    <3>3. QED BY ONLY <3>1, <3>2, OneTurn
  <2>3. next'[q] % c = z /\ Len(consumers'[q]) = c
    BY <1>2, <1>3, <1>6 DEF c
  <2>4. QED BY <2>2, <2>3
<1>8. ASSUME NEW p \in Queues, p # q, consumers[p] # <<>>
      PROVE  Level(SharesOf(p)', next'[p] % Len(consumers'[p]), Len(consumers'[p]))
  <2>1. next'[p] = next[p]
    BY <1>3, <1>6, <1>8
  <2>2. \A i \in 1 .. Len(consumers[p]) : consumers[p][i] \in Listeners /\ consumers[p][i] # k
    BY <1>5, <1>8, ListFacts
  <2>3. \A i \in 1 .. Len(consumers[p]) : share'[consumers[p][i]] = share[consumers[p][i]]
    BY <1>3, <1>6, <2>2
  <2>4. QED BY <1>8, <2>1, <2>3, QueueRests
<1>9. \A l \in Listeners : handle'[l] = None => share'[l] = 0
  BY <1>3, <1>5, <1>6, QueueAssumption DEF Turns
<1>10. QED BY <1>7, <1>8, <1>9 DEF Turns

DueFor(q) == {i \in Due : QueueOf[pendingTasks[i]] = q}
Rank(i) == Cardinality({j \in DueFor(QueueOf[pendingTasks[i]]) : j <= i})
Taker(i) == InTurn(QueueOf[pendingTasks[i]], Rank(i))

\* Who takes a due task is in the list of its queue.
LEMMA TakerListens ==
    ASSUME ConsumersTyped, Registered, TasksTyped, NEW i \in Due
    PROVE  /\ QueueOf[pendingTasks[i]] \in Queues /\ Rank(i) \in Nat
           /\ handle[Taker(i)] = QueueOf[pendingTasks[i]]
<1> DEFINE r == QueueOf[pendingTasks[i]]
           e == Len(consumers[r])
           z == (next[r] + Rank(i)) % e
<1>1. /\ i \in DOMAIN pendingTasks /\ consumers[r] # <<>> /\ r \in Queues
      /\ DueFor(r) \subseteq DOMAIN pendingTasks
  BY QueueAssumption DEF TasksTyped, Due, DueFor
<1>2. Rank(i) \in Nat
  <2>1. IsFiniteSet(DOMAIN pendingTasks)
    BY FS_Interval DEF TasksTyped
  <2>2. {j \in DueFor(r) : j <= i} \subseteq DOMAIN pendingTasks
    BY <1>1
  <2>3. QED BY <2>1, <2>2, FS_Subset, FS_CardinalityType DEF Rank
<1>3. /\ next[r] \in Int /\ e \in Nat /\ e > 0
      /\ \A j \in 1 .. e : handle[consumers[r][j]] = r
  BY <1>1, ListFacts
<1>4. Taker(i) = consumers[r][z + 1]
  BY DEF Taker, InTurn
<1>5. next[r] + Rank(i) \in Int
  BY <1>2, <1>3
<1> HIDE DEF e, r
<1>6. z \in 0 .. e - 1
  BY <1>3, <1>5, Remainders
<1> HIDE DEF z
<1>7. z + 1 \in 1 .. e
  BY <1>3, <1>6
<1>8. handle[Taker(i)] = r
  BY <1>3, <1>4, <1>7
<1>9. QED BY <1>1, <1>2, <1>8 DEF r

\* A pass of the timer gives a queue as many turns as it has tasks due.
LEMMA DueTurns ==
    ASSUME ConsumersTyped, Registered, TasksTyped, Turns, RetryPendingTasks, NEW q \in Queues, consumers[q] # <<>>
    PROVE  Level(SharesOf(q)', next'[q] % Len(consumers'[q]), Len(consumers'[q]))
<1> DEFINE taken(k) == {i \in Due : Taker(i) = k}
           c == Len(consumers[q])
           y == next[q]
           E == DueFor(q)
           m == Cardinality(E)
           count(i) == Cardinality({j \in E : j <= i})
           order == [i \in E |-> count(i)]
           f == SharesOf(q)
           g == SharesOf(q)'
           turns(p) == {j \in 1 .. m : (y + j) % c = p}
<1>1. /\ c \in Nat /\ c > 0 /\ y \in Int /\ f \in [0 .. c - 1 -> Nat]
      /\ \A i \in 1 .. c : consumers[q][i] \in Listeners /\ handle[consumers[q][i]] = q
      /\ \A i, j \in 1 .. c : consumers[q][i] = consumers[q][j] => i = j
      /\ share \in [Listeners -> Nat]
  BY ListFacts DEF ConsumersTyped
<1>2. /\ next' = [p \in Queues |-> IF DueFor(p) = {} THEN next[p]
                                   ELSE (next[p] + Cardinality(DueFor(p))) % Len(consumers[p])]
      /\ share' = [k \in Listeners |-> share[k] + Cardinality(taken(k))]
      /\ consumers' = consumers
  BY DEF RetryPendingTasks, listVars, DueFor, Rank, Taker
<1>3. E \subseteq Due /\ E \subseteq Nat /\ IsFiniteSet(E)
  <2>1. pendingTasks \in Seq(Tasks)
    BY DEF TasksTyped
  <2>2. IsFiniteSet(DOMAIN pendingTasks) /\ E \subseteq DOMAIN pendingTasks /\ DOMAIN pendingTasks \subseteq Nat
    BY <2>1, FS_Interval DEF Due, DueFor
  <2>3. QED BY <2>2, FS_Subset DEF DueFor
<1>4. m \in Nat /\ order \in Bijection(E, 1 .. m)
  BY <1>3, Ranks
<1>6. ASSUME NEW p \in 0 .. c - 1
      PROVE  taken(consumers[q][p + 1]) = {i \in E : (y + count(i)) % c = p}
  <2> DEFINE k == consumers[q][p + 1]
  <2>1. k \in Listeners /\ handle[k] = q /\ p + 1 \in 1 .. c
    BY <1>1
  <2>2. \A i \in Due : Taker(i) = k => i \in E
    BY <2>1, TakerListens DEF DueFor
  <2>3. ASSUME NEW i \in E PROVE Taker(i) = k <=> (y + count(i)) % c = p
    <3>1. QueueOf[pendingTasks[i]] = q /\ Rank(i) = count(i) /\ i \in Due
      BY DEF DueFor, Rank
    <3>2. Taker(i) = consumers[q][((y + count(i)) % c) + 1] /\ count(i) \in Int
      BY <3>1, TakerListens DEF Taker, InTurn
    <3>3. (y + count(i)) % c \in 0 .. c - 1
      <4>1. y + count(i) \in Int
        BY <1>1, <3>2
      <4>2. QED BY <1>1, <4>1, Remainders
    <3> HIDE DEF count, y
    <3> DEFINE z == (y + count(i)) % c
    <3>4. z + 1 \in 1 .. c /\ p + 1 \in 1 .. c /\ Taker(i) = consumers[q][z + 1]
      BY <1>1, <3>2, <3>3
    <3> HIDE DEF z
    <3>5. Taker(i) = k <=> z + 1 = p + 1
      BY <1>1, <3>4
    <3>6. z \in Int /\ p \in Int
      BY <1>1, <3>3 DEF z
    <3>7. QED BY <3>5, <3>6 DEF z
  <2> HIDE DEF count, E
  <2>4. QED BY <1>3, <2>2, <2>3
<1>7. ASSUME NEW p \in 0 .. c - 1
      PROVE  Cardinality(taken(consumers[q][p + 1])) = Cardinality(turns(p))
  <2> DEFINE S == {i \in E : (y + count(i)) % c = p}
             h == [i \in S |-> order[i]]
  <2>1. IsFiniteSet(S) /\ S \subseteq E
    BY <1>3, FS_Subset
  <2>2. \A i \in E : order[i] = count(i)
    OBVIOUS
  <2>3. /\ order \in [E -> 1 .. m] /\ (\A i, j \in E : order[i] = order[j] => i = j)
        /\ \A j \in 1 .. m : \E i \in E : order[i] = j
    BY <1>4 DEF Bijection, Injection, Surjection, IsInjective
  <2> HIDE DEF order, count, E
  <2>4. h \in [S -> turns(p)]
    BY <2>1, <2>2, <2>3
  <2>5. \A i, j \in S : h[i] = h[j] => i = j
    BY <2>1, <2>3
  <2>6. \A j \in turns(p) : \E i \in S : h[i] = j
    <3> SUFFICES ASSUME NEW j \in turns(p) PROVE \E i \in S : h[i] = j
      OBVIOUS
    <3>1. PICK i \in E : order[i] = j
      BY <2>3
    <3>2. i \in S
      BY <2>2, <3>1
    <3>3. QED BY <3>1, <3>2
  <2> HIDE DEF S, h, turns
  <2>7. h \in Bijection(S, turns(p)) /\ ExistsBijection(S, turns(p))
    BY <2>4, <2>5, <2>6 DEF Bijection, Injection, Surjection, IsInjective, ExistsBijection
  <2>8. Cardinality(S) = Cardinality(turns(p))
    BY <2>1, <2>7, FS_Bijection
  <2>9. QED BY <1>6, <2>8 DEF S
<1>8. ASSUME NEW p \in 0 .. c - 1 PROVE g[p] = f[p] + Cardinality(turns(p))
  <2>1. p + 1 \in 1 .. c
    BY <1>1
  <2>2. f[p] = share[consumers[q][p + 1]] /\ g[p] = share'[consumers[q][p + 1]]
    BY <1>2 DEF SharesOf
  <2> HIDE DEF taken, turns, f, g
  <2>3. share'[consumers[q][p + 1]] = share[consumers[q][p + 1]] + Cardinality(taken(consumers[q][p + 1]))
    BY <1>1, <1>2, <2>1
  <2>4. QED BY <1>7, <2>2, <2>3
<1>9. CASE E = {}
  <2>1. m = 0
    BY <1>9, FS_EmptySet
  <2>2. \A p \in 0 .. c - 1 : Cardinality(turns(p)) = 0
    <3>1. 1 .. m = {}
      BY <2>1
    <3> HIDE DEF m
    <3>2. \A p : turns(p) = {}
      BY <3>1
    <3>3. QED BY <3>2, FS_EmptySet
  <2> HIDE DEF f, g, turns, c
  <2>3. \A p \in 0 .. c - 1 : g[p] = f[p]
    BY <1>1, <1>8, <2>2
  <2> USE DEF f, g, c
  <2>4. next'[q] = next[q]
    BY <1>2, <1>9
  <2>5. Level(f, next[q] % c, c)
    BY DEF Turns
  <2> HIDE DEF f, g
  <2>6. Level(g, next[q] % c, c)
    BY <2>3, <2>5, LevelOfEqual
  <2>7. QED BY <1>2, <2>4, <2>6 DEF g
<1>10. CASE E # {}
  <2>1. next'[q] = (y + m) % c
    BY <1>2, <1>10
  <2>2. y + m \in Int
    BY <1>1, <1>4
  <2>3. next'[q] % c = (y + m) % c
    BY <1>1, <2>1, <2>2, SameRemainder
  <2>4. Level(f, y % c, c)
    BY DEF Turns
  <2>5. \A p \in 0 .. c - 1 : g[p] = After(f, y, m, c)[p]
    BY <1>8 DEF After
  <2> HIDE DEF f, g, y, m, c
  <2>6. Level(After(f, y, m, c), (y + m) % c, c)
    BY <1>1, <1>4, <2>4, ManyTurns
  <2>7. Level(g, (y + m) % c, c)
    BY <2>5, <2>6, LevelOfEqual
  <2>8. QED BY <1>2, <2>3, <2>7 DEF g, c
<1>11. QED BY <1>9, <1>10

LEMMA RetryTurns ==
    ASSUME ConsumersTyped, Registered, TasksTyped, Turns, RetryPendingTasks
    PROVE  Turns'
<1> DEFINE taken(k) == {i \in Due : Taker(i) = k}
<1>1. /\ share' = [k \in Listeners |-> share[k] + Cardinality(taken(k))]
      /\ UNCHANGED <<connected, consumers, handle>>
  BY DEF RetryPendingTasks, listVars, DueFor, Rank, Taker
<1>2. ASSUME NEW k \in Listeners, handle[k] = None PROVE share'[k] = 0
  <2>1. taken(k) = {}
    BY <1>2, TakerListens, QueueAssumption
  <2>2. share[k] = 0
    BY <1>2 DEF Turns
  <2> HIDE DEF taken
  <2>3. QED BY <1>1, <2>1, <2>2, FS_EmptySet
<1>3. QED BY <1>1, <1>2, DueTurns DEF Turns

\* A queue whose consumers change counts afresh.
LEMMA ListsOfOthers ==
    ASSUME ConsumersTyped, Registered, Turns, NEW q \in Queues, Recount(q),
           NEW p \in Queues, p # q, consumers[p] # <<>>,
           consumers'[p] = consumers[p], next'[p] = next[p]
    PROVE  Level(SharesOf(p)', next'[p] % Len(consumers'[p]), Len(consumers'[p]))
<1>1. ASSUME NEW i \in 1 .. Len(consumers[p]) PROVE share'[consumers[p][i]] = share[consumers[p][i]]
  <2>1. consumers[p][i] \in Listeners /\ handle[consumers[p][i]] = p
    BY ListFacts
  <2>2. consumers[p][i] \notin ToSet(consumers[q])
    BY <2>1 DEF Registered, ToSet
  <2>3. QED BY <2>1, <2>2 DEF Recount, ConsumersTyped
<1>2. QED BY <1>1, QueueRests

LEMMA ZeroShares ==
    ASSUME ConsumersTyped', Registered', NEW q \in Queues, consumers'[q] # <<>>,
           \A i \in 1 .. Len(consumers'[q]) : share'[consumers'[q][i]] = 0
    PROVE  Level(SharesOf(q)', next'[q] % Len(consumers'[q]), Len(consumers'[q]))
<1> DEFINE c == Len(consumers'[q])
           g == SharesOf(q)'
<1>1. c \in Nat /\ c > 0 /\ next'[q] \in Int
  BY DEF ConsumersTyped
<1>2. next'[q] % c \in 0 .. c - 1
  BY <1>1, Remainders
<1>3. \A i \in 0 .. c - 1 : i + 1 \in 1 .. c /\ g[i] = share'[consumers'[q][i + 1]]
  BY <1>1 DEF SharesOf
<1>4. \A i \in 0 .. c - 1 : g[i] = 0
  BY <1>3
<1> HIDE DEF g, c
<1>5. Level(g, next'[q] % c, c)
  BY <1>1, <1>2, <1>4, LevelAtZero
<1>6. QED BY <1>5 DEF g, c

LEMMA ConsumeTurns ==
    ASSUME Inv, Inv', Turns, NEW k \in Listeners, NEW q \in Queues, Consume(k, q)
    PROVE  Turns'
<1>1. /\ ConsumersTyped /\ Registered /\ ConsumersTyped' /\ Registered'
  BY DEF Inv
<1>2. /\ handle[k] = None /\ handle' = [handle EXCEPT ![k] = q] /\ connected' = connected
      /\ consumers' = [consumers EXCEPT ![q] = Append(consumers[q], k)]
      /\ next' = [next EXCEPT ![q] = IF consumers[q] = <<>> THEN -1 ELSE next[q]]
      /\ Recount(q) /\ share[k] = 0
  BY DEF Consume, Turns
<1>3. consumers'[q] = Append(consumers[q], k) /\ consumers[q] \in Seq(Listeners)
  BY <1>1, <1>2 DEF ConsumersTyped
<1>4. /\ Len(consumers'[q]) = Len(consumers[q]) + 1 /\ Len(consumers[q]) \in Nat
      /\ \A i \in 1 .. Len(consumers[q]) : consumers'[q][i] = consumers[q][i]
      /\ consumers'[q][Len(consumers[q]) + 1] = k
  BY <1>3, AppendProperties
<1>5. ToSet(consumers'[q]) = ToSet(consumers[q]) \cup {k}
  <2>1. DOMAIN consumers'[q] = 1 .. Len(consumers[q]) + 1 /\ DOMAIN consumers[q] = 1 .. Len(consumers[q])
    BY <1>3, <1>4
  <2>2. QED BY <1>4, <2>1 DEF ToSet
<1>6. \A l \in Listeners : handle'[l] = None => share'[l] = 0
  BY <1>1, <1>2, QueueAssumption DEF ConsumersTyped, Recount, Turns
<1>7. ASSUME connected', \A l \in Listeners : handle'[l] # "disposed", NEW p \in Queues
      PROVE  {l \in Listeners : handle'[l] = p} = ToSet(consumers'[p])
  <2>1. connected /\ \A l \in Listeners : handle[l] # "disposed"
    BY <1>1, <1>2, <1>7, QueueAssumption DEF ConsumersTyped
  <2>2. {l \in Listeners : handle[l] = p} = ToSet(consumers[p])
    BY <2>1 DEF Turns
  <2>3. CASE p = q
    BY <1>1, <1>2, <1>5, <2>2, <2>3, QueueAssumption DEF ConsumersTyped
  <2>4. CASE p # q
    BY <1>1, <1>2, <2>2, <2>4, QueueAssumption DEF ConsumersTyped
  <2>5. QED BY <2>3, <2>4
<1>8. Level(SharesOf(q)', next'[q] % Len(consumers'[q]), Len(consumers'[q]))
  <2>1. ASSUME NEW i \in 1 .. Len(consumers'[q]) PROVE share'[consumers'[q][i]] = 0
    <3>1. CASE i \in 1 .. Len(consumers[q])
      <4>1. consumers[q][i] \in ToSet(consumers[q]) /\ consumers[q][i] \in Listeners
        BY <1>3, <3>1 DEF ToSet
      <4>2. QED BY <1>2, <1>4, <3>1, <4>1 DEF Recount
    <3>2. CASE i = Len(consumers[q]) + 1
      BY <1>2, <1>4, <3>2 DEF Recount
    <3>3. QED BY <1>4, <3>1, <3>2
  <2>2. consumers'[q] # <<>>
    BY <1>3, <1>4
  <2>3. QED BY <1>1, <2>1, <2>2, ZeroShares
<1>9. ASSUME NEW p \in Queues, p # q, consumers'[p] # <<>>
      PROVE  Level(SharesOf(p)', next'[p] % Len(consumers'[p]), Len(consumers'[p]))
  <2>1. consumers'[p] = consumers[p] /\ next'[p] = next[p]
    BY <1>1, <1>2, <1>9 DEF ConsumersTyped
  <2>2. QED BY <1>1, <1>2, <1>9, <2>1, ListsOfOthers
<1>10. QED BY <1>6, <1>7, <1>8, <1>9 DEF Turns

LEMMA StopTurns ==
    ASSUME Inv, Inv', Turns, NEW k \in Listeners, StopConsuming(k)
    PROVE  Turns'
<1>0. PICK q : q = handle[k]
  OBVIOUS
<1>1. /\ ConsumersTyped /\ Registered /\ ConsumersTyped' /\ Registered'
  BY DEF Inv
<1>2. /\ q \in Queues /\ handle' = [handle EXCEPT ![k] = "disposed"] /\ connected' = connected
      /\ consumers' = [consumers EXCEPT ![q] = Without(consumers[q], k)]
      /\ next' = next /\ Recount(q)
  BY <1>0 DEF StopConsuming
<1>3. consumers'[q] = Without(consumers[q], k) /\ ToSet(consumers'[q]) \subseteq ToSet(consumers[q])
  <2>1. consumers[q] \in Seq(Listeners) /\ IsInjective(consumers[q])
    BY <1>1, <1>2 DEF ConsumersTyped, Registered
  <2>2. ToSet(Without(consumers[q], k)) \subseteq ToSet(consumers[q])
    BY <2>1, WithoutKeeps
  <2>3. QED BY <1>1, <1>2, <2>2 DEF ConsumersTyped
<1>4. \A l \in Listeners : handle'[l] = None => share'[l] = 0
  BY <1>1, <1>2, QueueAssumption DEF ConsumersTyped, Recount, Turns
<1>5. handle'[k] = "disposed"
  BY <1>1, <1>2 DEF ConsumersTyped
<1>6. ASSUME consumers'[q] # <<>>
      PROVE  Level(SharesOf(q)', next'[q] % Len(consumers'[q]), Len(consumers'[q]))
  <2>1. ASSUME NEW i \in 1 .. Len(consumers'[q]) PROVE share'[consumers'[q][i]] = 0
    <3>1. consumers'[q][i] \in ToSet(consumers'[q]) /\ consumers'[q][i] \in Listeners
      BY <1>1, <1>2 DEF ConsumersTyped, ToSet
    <3>2. consumers'[q][i] \in ToSet(consumers[q])
      BY <1>3, <3>1
    <3>3. QED BY <1>2, <3>1, <3>2 DEF Recount
  <2>2. QED BY <1>1, <1>2, <1>6, <2>1, ZeroShares
<1>7. ASSUME NEW p \in Queues, p # q, consumers'[p] # <<>>
      PROVE  Level(SharesOf(p)', next'[p] % Len(consumers'[p]), Len(consumers'[p]))
  <2>1. consumers'[p] = consumers[p] /\ next'[p] = next[p]
    BY <1>1, <1>2, <1>7 DEF ConsumersTyped
  <2>2. QED BY <1>1, <1>2, <1>7, <2>1, ListsOfOthers
<1>8. QED BY <1>4, <1>5, <1>6, <1>7 DEF Turns

LEMMA InitTurns == Init => Turns
<1> SUFFICES ASSUME Init PROVE Turns
  OBVIOUS
<1>1. \A q \in Queues : consumers[q] = <<>> /\ {k \in Listeners : handle[k] = q} = {}
  BY QueueAssumption DEF Init
<1>2. ToSet(<<>>) = {}
  BY DEF ToSet
<1>3. QED BY <1>1, <1>2 DEF Init, Turns

LEMMA NextTurns == Inv /\ Inv' /\ Turns /\ [Next]_vars => Turns'
<1> SUFFICES ASSUME Inv, Inv', Turns, [Next]_vars PROVE Turns'
  OBVIOUS
<1>1. ConsumersTyped /\ Registered /\ TasksTyped
  BY DEF Inv
<1>2. ASSUME UNCHANGED <<connected, consumers, handle, next, share>> PROVE Turns'
  <2>1. ASSUME NEW q \in Queues, consumers'[q] # <<>>
        PROVE  Level(SharesOf(q)', next'[q] % Len(consumers'[q]), Len(consumers'[q]))
    BY <1>1, <1>2, <2>1, QueueRests
  <2>2. QED BY <1>2, <2>1 DEF Turns
<1>3. ASSUME NEW t \in Tasks, Send(t) \/ Rpc(t) PROVE Turns'
  <2>1. QueueOf[t] \in Queues
    BY QueueAssumption
  <2>2. /\ UNCHANGED <<connected, consumers, handle>>
        /\ \/ consumers[QueueOf[t]] # <<>> /\ Advance(QueueOf[t], 1)
           \/ UNCHANGED <<next, share>>
    BY <1>3 DEF Send, Rpc, listVars
  <2>3. QED BY <1>1, <1>2, <2>1, <2>2, AdvanceTurns
<1>4. ASSUME NEW t \in Rpcs, Answer(t) \/ Throw(t) \/ Timeout(t) PROVE Turns'
  <2>1. UNCHANGED <<connected, consumers, handle, next, share>>
    BY <1>4 DEF Answer, Throw, Timeout, listVars
  <2>2. QED BY <1>2, <2>1
<1>5. ASSUME Disconnect PROVE Turns'
  <2>1. /\ connected' = FALSE /\ consumers' = [q \in Queues |-> <<>>]
        /\ share' = [k \in Listeners |-> 0]
    BY <1>5 DEF Disconnect
  <2>2. QED BY <2>1 DEF Turns
<1>6. ASSUME UNCHANGED vars PROVE Turns'
  <2>1. UNCHANGED <<connected, consumers, handle, next, share>>
    BY <1>6 DEF vars
  <2>2. QED BY <1>2, <2>1
<1>7. QED BY <1>1, <1>3, <1>4, <1>5, <1>6, RetryTurns, ConsumeTurns, StopTurns DEF Next, Tasks

\* Round robin: every consumer is in the list of its queue until some handle is
\* disposed, and as long as the consumers of a queue stay the same none of them gets
\* two tasks more than another, sent, asked or retried in one pass of the timer.
THEOREM ConsumersTakeTurns == Spec => []TakeTurns
<1>1. ASSUME Inv, Turns PROVE TakeTurns
  <2>1. ASSUME NEW q \in Queues, NEW k \in ToSet(consumers[q]), NEW l \in ToSet(consumers[q])
        PROVE  share[k] <= share[l] + 1
    <3> DEFINE c == Len(consumers[q])
    <3>1. ConsumersTyped /\ Registered
      BY <1>1 DEF Inv
    <3>2. c \in Nat /\ DOMAIN consumers[q] = 1 .. c
      BY <3>1, ListFacts
    <3>3. PICK i \in 1 .. c, j \in 1 .. c : consumers[q][i] = k /\ consumers[q][j] = l
      BY <2>1, <3>2 DEF ToSet
    <3>4. i - 1 \in 0 .. c - 1 /\ j - 1 \in 0 .. c - 1 /\ (i - 1) + 1 = i /\ (j - 1) + 1 = j
      BY <3>2, <3>3
    <3>5. SharesOf(q)[i - 1] = share[k] /\ SharesOf(q)[j - 1] = share[l]
      BY <3>3, <3>4 DEF SharesOf
    <3>6. consumers[q] # <<>>
      BY <3>2, <3>3
    <3>7. Level(SharesOf(q), next[q] % c, c)
      BY <1>1, <3>6 DEF Turns
    <3> HIDE DEF c
    <3>8. SharesOf(q)[i - 1] <= SharesOf(q)[j - 1] + 1
      BY <3>2, <3>4, <3>7, LevelMeans
    <3>9. QED BY <3>5, <3>8
  <2>2. QED BY <1>1, <2>1 DEF Turns, TakeTurns
<1>2. QED BY <1>1, Invariance, InitTurns, NextTurns, PTL DEF Spec
=============================================================================
