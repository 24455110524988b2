------------------------- MODULE MessageQueueMemory -------------------------
(***************************************************************************)
(* mq-memory/src/MessageQueueMemory.ts, the task half: send, rpc, consume  *)
(* and the timer that retries the tasks no consumer took.  Consumers are   *)
(* called synchronously, in turn; a send whose consumer throws, or that    *)
(* finds none, goes to pendingTasks; an rpc waits for the result of its    *)
(* consumer beside a timeout nothing but that result clears.               *)
(***************************************************************************)
EXTENDS Integers, Sequences, FiniteSets, SequencesExt

CONSTANTS Queues,
          Listeners,   \* each is registered by one call of consume()
          Sends,       \* the tasks given to send(), each once
          Rpcs,        \* the tasks given to rpc(), each once
          QueueOf,     \* the queue each task is for
          Reasons,     \* what a consumer may throw: "error" is an instance of
                       \* Error, "value" is anything else
          None

Tasks == Sends \cup Rpcs

ASSUME QueueAssumption == /\ Sends \cap Rpcs = {}
                          /\ IsFiniteSet(Listeners)
                          /\ None \notin Queues \cup {"disposed"} /\ "disposed" \notin Queues
                          /\ QueueOf \in [Tasks -> Queues]
                          /\ Reasons \subseteq {"error", "value"}

VARIABLES connected,   \* the retry timer runs
          consumers,   \* consumers[q]: its ConsumerList, <<>> when q has none
          next,        \* next[q]: ConsumerList.next
          handle,      \* handle[k]: the Disposable consume() returned for k
          pendingTasks,
          promise,     \* promise[t]: what the caller of send or rpc sees
          running,     \* running[t]: how the rpc reached a consumer, or "no"
          result,      \* result[t]: how the consumer of t ended, or "none"
          handled,     \* handled[t]: how many consumers completed the task
          threw,       \* the sends that a consumer threw at in a retry
          share        \* share[k]: tasks k got since its queue's consumers changed

vars == <<connected, consumers, next, handle, pendingTasks, promise, running,
          result, handled, threw, share>>

Init == /\ connected = TRUE
        /\ consumers = [q \in Queues |-> <<>>]
        /\ next = [q \in Queues |-> -1]
        /\ handle = [k \in Listeners |-> None]
        /\ pendingTasks = <<>>
        /\ promise = [t \in Tasks |-> "uncalled"]
        /\ running = [t \in Tasks |-> "no"]
        /\ result = [t \in Tasks |-> "none"]
        /\ handled = [t \in Tasks |-> 0]
        /\ threw = {}
        /\ share = [k \in Listeners |-> 0]

taskVars == <<promise, running, result, handled, threw>>
listVars == <<consumers, handle>>

-----------------------------------------------------------------------------
\* The consumer whose turn it is, n tasks after the one that had the last.
InTurn(q, n) == consumers[q][((next[q] + n) % Len(consumers[q])) + 1]

\* A slip: the turn is not recorded.
AdvanceWithoutRecord(q, n) == /\ UNCHANGED next
                              /\ share' = [share EXCEPT ![InTurn(q, n)] = @ + 1]

\* q's consumers take n tasks in turn.
Advance(q, n) ==
    /\ next' = [next EXCEPT ![q] = (@ + n) % Len(consumers[q])]
    /\ share' = [share EXCEPT ![InTurn(q, n)] = @ + 1]

Postpone(t) == pendingTasks' = Append(pendingTasks, t)

\* send(): a consumer completes the task, or the task becomes pending.
Send(t) ==
    LET q == QueueOf[t] IN
    /\ promise[t] = "uncalled"
    /\ promise' = [promise EXCEPT ![t] = "resolved"]
    /\ \/ /\ consumers[q] # <<>>
          /\ Advance(q, 1)
          /\ handled' = [handled EXCEPT ![t] = @ + 1]
          /\ UNCHANGED pendingTasks
       \/ /\ consumers[q] # <<>>
          /\ Advance(q, 1)
          /\ Postpone(t)
          /\ UNCHANGED handled
       \/ /\ consumers[q] = <<>>
          /\ Postpone(t)
          /\ UNCHANGED <<next, share, handled>>
    /\ UNCHANGED <<connected, listVars, running, result, threw>>

\* rpc(): a consumer starts on the task, or the task becomes pending.
Rpc(t) ==
    LET q == QueueOf[t] IN
    /\ promise[t] = "uncalled"
    /\ promise' = [promise EXCEPT ![t] = "pending"]
    /\ \/ /\ consumers[q] # <<>>
          /\ Advance(q, 1)
          /\ running' = [running EXCEPT ![t] = "direct"]
          /\ UNCHANGED pendingTasks
       \/ /\ consumers[q] = <<>>
          /\ Postpone(t)
          /\ UNCHANGED <<next, share, running>>
    /\ UNCHANGED <<connected, listVars, result, handled, threw>>

\* A promise is settled once.
Settle(t, outcome) ==
    promise' = [promise EXCEPT ![t] = IF @ = "pending" THEN outcome ELSE @]

\* The consumer of an rpc completes.
Answer(t) ==
    /\ running[t] \in {"direct", "retried"}
    /\ running' = [running EXCEPT ![t] = "done"]
    /\ result' = [result EXCEPT ![t] = "completed"]
    /\ handled' = [handled EXCEPT ![t] = @ + 1]
    /\ Settle(t, "resolved")
    /\ UNCHANGED <<connected, listVars, next, pendingTasks, threw, share>>

\* What the caller sees when the consumer throws.  A pending task's done() is given the reason of the
\* inner rpc, and takes what is no Error for the response.
Rejection(t, reason) ==
    IF running[t] = "retried" /\ reason = "value" THEN "resolved" ELSE "rejected"

\* The consumer of an rpc throws or rejects.
Throw(t) ==
    \E reason \in Reasons :
        /\ running[t] \in {"direct", "retried"}
        /\ Settle(t, Rejection(t, reason))
        /\ running' = [running EXCEPT ![t] = "done"]
        /\ result' = [result EXCEPT ![t] = reason]
        /\ UNCHANGED <<connected, listVars, next, pendingTasks, handled, threw, share>>

\* The timeout of the rpc, or of the inner rpc of a retry.  The task stays
\* where it is, pending or with its consumer.
Timeout(t) == /\ promise[t] = "pending"
              /\ Settle(t, "rejected")
              /\ UNCHANGED <<connected, listVars, next, pendingTasks, running,
                             result, handled, threw, share>>

-----------------------------------------------------------------------------
\* A slip: the tasks retried are kept.
RestIsEverything(due) == pendingTasks

\* What the reduce keeps of the pending tasks when those at due are retried.
Rest(due) ==
    LET kept[n \in 0 .. Len(pendingTasks)] ==
          IF n = 0 THEN <<>>
          ELSE IF n \in due THEN kept[n - 1] ELSE Append(kept[n - 1], pendingTasks[n])
    IN  kept[Len(pendingTasks)]

\* A slip: only the tasks of an rpc are retried.
DueRpcs == {i \in DOMAIN pendingTasks :
              /\ pendingTasks[i] \in Rpcs
              /\ consumers[QueueOf[pendingTasks[i]]] # <<>>}

\* The positions of the tasks whose queue has consumers.
Due == {i \in DOMAIN pendingTasks : consumers[QueueOf[pendingTasks[i]]] # <<>>}

\* The timer: one pass over the pending tasks.  Those whose queue has consumers
\* are sent or asked again, in turn, and forgotten, even the sends whose
\* consumer throws: send() puts them back into the list this pass replaces.
RetryPendingTasks ==
    LET due == Due
        dueFor(q) == {i \in due : QueueOf[pendingTasks[i]] = q}
        rank(i) == Cardinality({j \in dueFor(QueueOf[pendingTasks[i]]) : j <= i})
        taker(i) == InTurn(QueueOf[pendingTasks[i]], rank(i))
        tasks == {pendingTasks[i] : i \in due}
    IN
    /\ connected
    /\ due # {}
    /\ \E throwing \in SUBSET (tasks \cap Sends) :
          /\ handled' = [t \in Tasks |-> IF t \in (tasks \cap Sends) \ throwing
                                         THEN handled[t] + 1 ELSE handled[t]]
          /\ threw' = threw \cup throwing
    /\ running' = [t \in Tasks |-> IF t \in tasks \cap Rpcs THEN "retried" ELSE running[t]]
    /\ next' = [q \in Queues |-> IF dueFor(q) = {} THEN next[q]
                                 ELSE (next[q] + Cardinality(dueFor(q))) % Len(consumers[q])]
    /\ share' = [k \in Listeners |-> share[k] + Cardinality({i \in due : taker(i) = k})]
    /\ pendingTasks' = Rest(due)
    /\ UNCHANGED <<connected, listVars, promise, result>>

-----------------------------------------------------------------------------
\* The shares of q's consumers are counted afresh.
Recount(q) == share' = [k \in Listeners |-> IF k \in ToSet(consumers[q]) THEN 0 ELSE share[k]]

\* consume()
Consume(k, q) ==
    /\ handle[k] = None
    /\ handle' = [handle EXCEPT ![k] = q]
    /\ consumers' = [consumers EXCEPT ![q] = Append(@, k)]
    /\ next' = [next EXCEPT ![q] = IF consumers[q] = <<>> THEN -1 ELSE @]
    /\ Recount(q)
    /\ UNCHANGED <<connected, pendingTasks, taskVars>>

\* What the callback of k's Disposable leaves of a list of consumers: splice()
\* without a count removes k and all that follow it.
Without(list, k) ==
    IF k \in ToSet(list)
    THEN SubSeq(list, 1, SelectInSeq(list, LAMBDA l : l = k) - 1)
    ELSE list

\* The Disposable consume() returned is disposed.
StopConsuming(k) ==
    /\ handle[k] \in Queues
    /\ handle' = [handle EXCEPT ![k] = "disposed"]
    /\ consumers' = [consumers EXCEPT ![handle[k]] = Without(@, k)]
    /\ Recount(handle[k])
    /\ UNCHANGED <<connected, next, pendingTasks, taskVars>>

\* disconnect(): the timer and every registered Disposable.
Disconnect ==
    /\ connected
    /\ connected' = FALSE
    /\ consumers' = [q \in Queues |-> <<>>]
    /\ handle' = [k \in Listeners |-> IF handle[k] = None THEN None ELSE "disposed"]
    /\ share' = [k \in Listeners |-> 0]
    /\ UNCHANGED <<next, pendingTasks, taskVars>>

Next == \/ \E t \in Sends : Send(t)
        \/ \E t \in Rpcs : Rpc(t) \/ Answer(t) \/ Throw(t) \/ Timeout(t)
        \/ RetryPendingTasks
        \/ \E k \in Listeners : (\E q \in Queues : Consume(k, q)) \/ StopConsuming(k)
        \/ Disconnect

\* Timers fire.  Nothing makes a consumer answer.
Fairness == WF_vars(RetryPendingTasks) /\ \A t \in Rpcs : WF_vars(Timeout(t))

Spec == Init /\ [][Next]_vars
FairSpec == Spec /\ Fairness
-----------------------------------------------------------------------------
\* Type correctness; a queue's consumers are among those registered for it.
TypeOK ==
    /\ connected \in BOOLEAN
    /\ \A q \in Queues : /\ consumers[q] \in Seq({k \in Listeners : handle[k] = q})
                         /\ next[q] \in -1 .. Cardinality(Listeners) - 1
    /\ handle \in [Listeners -> Queues \cup {None, "disposed"}]
    /\ pendingTasks \in Seq(Tasks)
    /\ promise \in [Tasks -> {"uncalled", "pending", "resolved", "rejected"}]
    /\ running \in [Tasks -> {"no", "direct", "retried", "done"}]
    /\ result \in [Tasks -> Reasons \cup {"none", "completed"}]
    /\ handled \in [Tasks -> Nat]
    /\ threw \subseteq Sends
    /\ share \in [Listeners -> Nat]

IsPending(t) == t \in ToSet(pendingTasks)

\* Types hold, and every task is accounted for.  It is pending once, with a
\* consumer, or past one, and completed once at most, whatever was retried, thrown
\* or timed out.  A sent task disappears unhandled only if a consumer throws at it
\* when the timer retries it.  An rpc that resolves was completed by a consumer,
\* or, pending at first, by one that rejected with something that is no Error.
TasksAccountedFor ==
    /\ TypeOK
    /\ IsInjective(pendingTasks)
    /\ \A t \in Tasks : /\ handled[t] <= 1
                        /\ IsPending(t) => handled[t] = 0 /\ running[t] = "no"
    /\ \A t \in Sends : promise[t] = "resolved" =>
          handled[t] = 1 \/ IsPending(t) \/ t \in threw
    /\ \A t \in Rpcs : promise[t] = "resolved" => result[t] \in {"completed", "value"}

\* Every consumer is in its queue until a handle, not always its own, is disposed.
\* Round robin: as long as the consumers of a queue stay the same, none gets two
\* tasks more than another, whether tasks are sent, asked or retried.
TakeTurns ==
    \A q \in Queues :
       /\ connected /\ (\A k \in Listeners : handle[k] # "disposed")
             => {k \in Listeners : handle[k] = q} = ToSet(consumers[q])
       /\ \A k, l \in ToSet(consumers[q]) : share[k] <= share[l] + 1

\* A pending task does not stay pending beside consumers of its queue.
PendingTasksAreTaken ==
    \A t \in Tasks : []<>(~IsPending(t) \/ consumers[QueueOf[t]] = <<>> \/ ~connected)
=============================================================================
