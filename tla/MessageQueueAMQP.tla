-------------------------- MODULE MessageQueueAMQP --------------------------
(***************************************************************************)
(* mq-amqp/src/MessageQueueAMQP.ts.  send, rpc and consume work on one      *)
(* queue of a broker, which hands a message to one consumer, one at a time *)
(* each (prefetch), until it is acknowledged.  An rpc registers a          *)
(* once() handler under its id in the EventEmitter, arms a timer and sends *)
(* its task with that id; the consumer's reply carries the id and a        *)
(* status.  The reply's id is cut off with substr(0, -4), which is "", and *)
(* emit("") matches every event: a reply runs the handlers of all rpcs.    *)
(* publish and subscribe open a channel for their name and topic once,     *)
(* with a queue of its own that the broker copies each message to; what    *)
(* arrives there is emitted under the channel's name, which is a pattern,  *)
(* too.                                                                    *)
(***************************************************************************)
EXTENDS Naturals, FiniteSets, Sequences, SequencesExt

CONSTANTS Sends, Rpcs,  \* the tasks, each given to send() or rpc() once
          Consumers,    \* each registered by one call of consume()
          Answers,      \* what listeners return: "value", or "nothing"
          Publications, Subscribers,   \* each one call of publish or subscribe
          Channels,     \* pairs of a name and a topic
          ChannelOf,    \* of a publication or a subscriber
          Matches,      \* Matches[c]: the channels whose event c's matches
          None

Tasks == Sends \cup Rpcs
ChannelCalls == Publications \cup Subscribers

ASSUME TaskAssumption == /\ Sends \cap Rpcs = {}
                         /\ Answers \subseteq {"value", "nothing"}
                         /\ None \notin Tasks
ASSUME ChannelAssumption == /\ Publications \cap Subscribers = {}
                            /\ Channels \cap Rpcs = {}
                            /\ ChannelOf \in [ChannelCalls -> Channels]
                            /\ Matches \in [Channels -> SUBSET Channels]
                            /\ \A c \in Channels : c \in Matches[c]

VARIABLES connected,
          queue,      \* the broker's queue: messages ready for a consumer
          replies,    \* the messages of the replyTo queue
          promise,    \* promise[t]: what the caller of send or rpc sees
          sent,       \* sent[t]: where its message is on the way to the broker
          timer,      \* timer[t]: the timeout of an rpc is armed
          handlers,   \* the events with handlers in the emitter, in order
          got,        \* got[t]: the task whose reply resolved the rpc
          listening,  \* listening[k]: the subscription of a consumer
          unacked,    \* unacked[k]: the message it has not acknowledged
          running,    \* running[k]: its listener runs on that message
          outcome,    \* outcome[t]: how the listener of t ended
          call,       \* call[u]: where a publish or subscribe stands
          bound,      \* bound[c]: the queues bound to c, with what they hold
          heard,      \* heard[s][p]: how often s was called with p
          threw,      \* threw[s]: what the listener of s threw at
          listeners,  \* the subscribers in the order they subscribed
          before,     \* before[s]: what had been published when s subscribed
          copies,     \* copies[p]: the queues that p was put in
          overlapped, \* the channels that two calls opened at a time
          confused    \* the subscribers that were called with a reply

channelVars == <<call, bound, heard, threw, listeners, before, copies, overlapped, confused>>
vars == <<connected, queue, replies, promise, sent, timer, handlers, got,
          listening, unacked, running, outcome, channelVars>>
callVars == <<promise, timer, handlers, got>>
consumerVars == <<listening, unacked, running>>

Init == /\ connected = TRUE
        /\ queue = <<>> /\ replies = <<>> /\ handlers = <<>>
        /\ promise = [t \in Tasks |-> "uncalled"]
        /\ sent = [t \in Tasks |-> "no"]
        /\ timer = [t \in Rpcs |-> FALSE]
        /\ got = [t \in Rpcs |-> None]
        /\ listening = [k \in Consumers |-> "no"]
        /\ unacked = [k \in Consumers |-> None]
        /\ running = [k \in Consumers |-> FALSE]
        /\ outcome = [t \in Tasks |-> "none"]
        /\ call = [u \in ChannelCalls |-> "uncalled"]
        /\ bound = [c \in Channels |-> <<>>]
        /\ heard = [s \in Subscribers |-> [p \in Publications |-> 0]]
        /\ threw = [s \in Subscribers |-> {}]
        /\ listeners = <<>>
        /\ before = [s \in Subscribers |-> {}]
        /\ copies = [p \in Publications |-> 0]
        /\ overlapped = {} /\ confused = {}

-----------------------------------------------------------------------------
\* send() and its getQueue().
Send(t) == /\ promise[t] = "uncalled"
           /\ promise' = [promise EXCEPT ![t] = "pending"]
           /\ sent' = [sent EXCEPT ![t] = "opening"]
           /\ UNCHANGED <<connected, queue, replies, timer, handlers, got, consumerVars, outcome, channelVars>>

\* A slip: the timer is armed after once().
RpcTimedLate(t) ==
    /\ promise[t] = "uncalled"
    /\ promise' = [promise EXCEPT ![t] = "pending"]
    /\ timer' = [timer EXCEPT ![t] = connected]
    /\ \/ /\ connected
          /\ handlers' = Append(handlers, t)
          /\ sent' = [sent EXCEPT ![t] = "opening"]
       \/ ~connected /\ UNCHANGED <<handlers, sent>>
    /\ UNCHANGED <<connected, queue, replies, got, consumerVars, outcome, channelVars>>

\* rpc(): the timer, the handler and getQueue().  Once the emitter is disposed
\* once() throws, and only the timer is left.
Rpc(t) ==
    /\ promise[t] = "uncalled"
    /\ promise' = [promise EXCEPT ![t] = "pending"]
    /\ timer' = [timer EXCEPT ![t] = TRUE]
    /\ \/ /\ connected
          /\ handlers' = Append(handlers, t)
          /\ sent' = [sent EXCEPT ![t] = "opening"]
       \/ ~connected /\ UNCHANGED <<handlers, sent>>
    /\ UNCHANGED <<connected, queue, replies, got, consumerVars, outcome, channelVars>>

\* The channel is open: the message goes to the broker.
QueueOpens(t) ==
    /\ sent[t] = "opening" /\ connected
    /\ sent' = [sent EXCEPT ![t] = "sent"]
    /\ queue' = Append(queue, t)
    /\ promise' = [promise EXCEPT ![t] = IF t \in Sends THEN "resolved" ELSE @]
    /\ UNCHANGED <<connected, replies, timer, handlers, got, consumerVars, outcome, channelVars>>

\* It cannot be opened: send() rejects, rpc() has no catch and waits.
QueueFails(t) ==
    /\ sent[t] = "opening"
    /\ sent' = [sent EXCEPT ![t] = "failed"]
    /\ promise' = [promise EXCEPT ![t] = IF t \in Sends THEN "rejected" ELSE @]
    /\ UNCHANGED <<connected, queue, replies, timer, handlers, got, consumerVars, outcome, channelVars>>

\* The timeout; the handler stays in the emitter.
Timeout(t) ==
    /\ timer[t]
    /\ timer' = [timer EXCEPT ![t] = FALSE]
    /\ promise' = [promise EXCEPT ![t] = IF @ = "pending" THEN "rejected" ELSE @]
    /\ UNCHANGED <<connected, queue, replies, sent, handlers, got, consumerVars, outcome, channelVars>>

\* A slip: the status is not looked at.
VerdictUnchecked(reply) == "resolved"

Verdict(reply) == IF reply.status = 500 THEN "rejected" ELSE "resolved"

\* The events of list that are in S, in order.
Kept(list, S) ==
    LET kept[n \in 0 .. Len(list)] ==
          IF n = 0 THEN <<>>
          ELSE IF list[n] \in S THEN Append(kept[n - 1], list[n]) ELSE kept[n - 1]
    IN  kept[Len(list)]

\* The subscribers whose handlers are among those of the events H.
Confuse(H) ==
    confused' = confused \cup {s \in Subscribers : call[s] = "on" /\ ChannelOf[s] \in H}

\* A reply runs every handler, a subscriber's too.  That of an rpc clears its
\* timer and settles its promise, unless JSON.parse throws on an empty reply:
\* that ends the emission.
ReplyArrives ==
    LET reply == Head(replies)
        waiting == ToSet(handlers) \cap Rpcs
        settled == {t \in waiting : promise[t] = "pending"}
        throws == reply.answer = "nothing" /\ waiting # {}
        first == Min({i \in DOMAIN handlers : handlers[i] \in Rpcs})
    IN  /\ connected /\ replies # <<>>
        /\ replies' = Tail(replies)
        /\ \/ /\ throws
              /\ timer' = [timer EXCEPT ![handlers[first]] = FALSE]
              /\ Confuse(ToSet(SubSeq(handlers, 1, first)))
              /\ UNCHANGED <<promise, got, handlers>>
           \/ /\ ~throws
              /\ handlers' = Kept(handlers, Channels)
              /\ timer' = [t \in Rpcs |-> timer[t] /\ t \notin waiting]
              /\ promise' = [t \in Tasks |->
                    IF t \in settled THEN Verdict(reply) ELSE promise[t]]
              /\ got' = [t \in Rpcs |->
                    IF t \in settled /\ reply.status = 200 THEN reply.task ELSE got[t]]
              /\ Confuse(ToSet(handlers))
        /\ UNCHANGED <<connected, queue, sent, consumerVars, outcome,
                       call, bound, heard, threw, listeners, before, copies, overlapped>>

-----------------------------------------------------------------------------
\* consume(), and the Disposable it returns: cancel, the channel stays open.
Consume(k) == /\ connected /\ listening[k] = "no"
              /\ listening' = [listening EXCEPT ![k] = "on"]
              /\ UNCHANGED <<connected, queue, replies, callVars, sent, unacked, running, outcome, channelVars>>

Cancel(k) == /\ listening[k] = "on"
             /\ listening' = [listening EXCEPT ![k] = "off"]
             /\ UNCHANGED <<connected, queue, replies, callVars, sent, unacked, running, outcome, channelVars>>

\* The broker delivers a message and the listener starts on it.
Deliver(k) == /\ connected /\ listening[k] = "on" /\ unacked[k] = None
              /\ queue # <<>>
              /\ unacked' = [unacked EXCEPT ![k] = Head(queue)]
              /\ running' = [running EXCEPT ![k] = TRUE]
              /\ queue' = Tail(queue)
              /\ UNCHANGED <<connected, replies, callVars, sent, listening, outcome, channelVars>>

\* Only an rpc has a replyTo.
Reply(t, status, answer) ==
    replies' = IF t \in Rpcs
               THEN Append(replies, [task |-> t, status |-> status, answer |-> answer])
               ELSE replies

\* A slip: only the message of an rpc is acknowledged.
AckRpc(k) == unacked' = [unacked EXCEPT ![k] = IF @ \in Rpcs THEN None ELSE @]

Ack(k) == unacked' = [unacked EXCEPT ![k] = None]

\* The listener returns: ack, and the reply of an rpc.  On a closed channel
\* both throw and nothing more happens.
Returns(k) ==
    /\ running[k]
    /\ running' = [running EXCEPT ![k] = FALSE]
    /\ \E a \in Answers :
          /\ outcome' = [outcome EXCEPT ![unacked[k]] = a]
          /\ \/ connected /\ Ack(k) /\ Reply(unacked[k], 200, a)
             \/ ~connected /\ UNCHANGED <<unacked, replies>>
    /\ UNCHANGED <<connected, queue, callVars, sent, listening, channelVars>>

\* The message of an rpc is acknowledged, that of a send is not.
AckFailedRpc(k) == unacked' = [unacked EXCEPT ![k] = IF @ \in Rpcs THEN None ELSE @]

\* The listener throws.  What has no message to reply with, such as undefined, makes
\* the catch throw after the acknowledgement.
Throws(k) ==
    /\ running[k]
    /\ running' = [running EXCEPT ![k] = FALSE]
    /\ outcome' = [outcome EXCEPT ![unacked[k]] = "threw"]
    /\ \/ connected /\ AckFailedRpc(k) /\ (Reply(unacked[k], 500, "error") \/ UNCHANGED replies)
       \/ ~connected /\ UNCHANGED <<unacked, replies>>
    /\ UNCHANGED <<connected, queue, callVars, sent, listening, channelVars>>

-----------------------------------------------------------------------------
taskVars == <<queue, replies, promise, sent, timer, got, consumerVars, outcome>>

\* publish() with its channel: a copy for each of the queues qs.
Publish(p, qs) ==
    /\ bound' = [bound EXCEPT ![ChannelOf[p]] = [i \in DOMAIN qs |-> Append(qs[i], p)]]
    /\ copies' = [copies EXCEPT ![p] = Len(qs)]
    /\ call' = [call EXCEPT ![p] = "done"]
    /\ UNCHANGED <<handlers, listeners, before>>

\* subscribe() with its channel: on().
Register(s, qs) ==
    /\ bound' = [bound EXCEPT ![ChannelOf[s]] = qs]
    /\ handlers' = IF ChannelOf[s] \in ToSet(handlers) THEN handlers
                   ELSE Append(handlers, ChannelOf[s])
    /\ listeners' = Append(listeners, s)
    /\ before' = [before EXCEPT ![s] = {p \in Publications : call[p] = "done"}]
    /\ call' = [call EXCEPT ![s] = "on"]
    /\ UNCHANGED copies

Proceed(u, qs) == \/ u \in Publications /\ Publish(u, qs)
                  \/ u \in Subscribers /\ Register(u, qs)

\* A slip: the channels opened are not looked up.
NeverKnown(c) == FALSE

Known(c) == bound[c] # <<>>

\* publish() or subscribe() up to the first callback of getChannel().
GetChannel(u) ==
    LET c == ChannelOf[u] IN
    /\ call[u] = "uncalled"
    /\ \/ /\ ~connected
          /\ call' = [call EXCEPT ![u] = "failed"]
          /\ UNCHANGED <<handlers, bound, listeners, before, copies, overlapped>>
       \/ /\ connected /\ Known(c)
          /\ Proceed(u, bound[c])
          /\ UNCHANGED overlapped
       \/ /\ connected /\ ~Known(c)
          /\ call' = [call EXCEPT ![u] = "opening"]
          /\ overlapped' = overlapped \cup
                {d \in {c} : \E v \in ChannelCalls : call[v] = "opening" /\ ChannelOf[v] = d}
          /\ UNCHANGED <<handlers, bound, listeners, before, copies>>
    /\ UNCHANGED <<connected, taskVars, heard, threw, confused>>

\* The channel is open, with a new queue, whatever was opened meanwhile.
ChannelOpens(u) ==
    /\ connected /\ call[u] = "opening"
    /\ Proceed(u, Append(bound[ChannelOf[u]], <<>>))
    /\ UNCHANGED <<connected, taskVars, heard, threw, overlapped, confused>>

ChannelFails(u) ==
    /\ call[u] = "opening"
    /\ call' = [call EXCEPT ![u] = "failed"]
    /\ UNCHANGED <<connected, taskVars, handlers, bound, heard, threw, listeners, before, copies, overlapped, confused>>

\* emit() calls r before s: in the order of the events, then of their handlers.
Sooner(r, s) ==
    \E i, j \in DOMAIN handlers :
        /\ handlers[i] = ChannelOf[r] /\ handlers[j] = ChannelOf[s]
        /\ i < j \/ (i = j /\ \E m, n \in DOMAIN listeners : m < n /\ listeners[m] = r /\ listeners[n] = s)

\* A message arrives in a queue of c: emit() under c's name, a pattern.  A listener
\* that throws ends the emission.
Emit(c, i) ==
    LET p == Head(bound[c][i])
        reached == {s \in Subscribers : call[s] = "on" /\ ChannelOf[s] \in Matches[c]}
        Hear(S) == heard' = [s \in Subscribers |-> IF s \in S THEN [heard[s] EXCEPT ![p] = @ + 1] ELSE heard[s]]
    IN  /\ connected /\ bound[c][i] # <<>>
        /\ bound' = [bound EXCEPT ![c][i] = Tail(@)]
        /\ \/ Hear(reached) /\ UNCHANGED threw
           \/ \E r \in reached : /\ Hear({r} \cup {s \in reached : Sooner(s, r)})
                                 /\ threw' = [threw EXCEPT ![r] = @ \cup {p}]
        /\ UNCHANGED <<connected, taskVars, handlers, call, listeners, before, copies, overlapped, confused>>

\* The Disposable of subscribe(): off().  The queue stays.
Unsubscribe(s) ==
    /\ connected /\ call[s] = "on"
    /\ call' = [call EXCEPT ![s] = "off"]
    /\ handlers' = Kept(handlers, {h \in Rpcs \cup Channels :
          h # ChannelOf[s] \/ \E r \in Subscribers \ {s} : call[r] = "on" /\ ChannelOf[r] = h})
    /\ UNCHANGED <<connected, taskVars, bound, heard, threw, listeners, before, copies, overlapped, confused>>

\* disconnect(): the emitter, the consumers and the connection.
Disconnect == /\ connected
              /\ connected' = FALSE
              /\ handlers' = <<>>
              /\ listening' = [k \in Consumers |-> IF listening[k] = "on" THEN "off" ELSE listening[k]]
              /\ UNCHANGED <<queue, replies, promise, sent, timer, got, unacked, running, outcome, channelVars>>

Next == \/ \E t \in Sends : Send(t)
        \/ \E t \in Rpcs : Rpc(t) \/ Timeout(t)
        \/ \E t \in Tasks : QueueOpens(t) \/ QueueFails(t)
        \/ ReplyArrives
        \/ \E k \in Consumers : Consume(k) \/ Cancel(k) \/ Deliver(k) \/ Returns(k) \/ Throws(k)
        \/ \E u \in ChannelCalls : GetChannel(u) \/ ChannelOpens(u) \/ ChannelFails(u)
        \/ \E c \in Channels : \E i \in DOMAIN bound[c] : Emit(c, i)
        \/ \E s \in Subscribers : Unsubscribe(s)
        \/ Disconnect

\* Timers fire, the broker delivers what it holds, and listeners end.
Fairness == /\ \A t \in Rpcs : WF_vars(Timeout(t))
            /\ \A k \in Consumers : WF_vars(Deliver(k)) /\ WF_vars(Returns(k) \/ Throws(k))

Spec == Init /\ [][Next]_vars
FairSpec == Spec /\ Fairness
-----------------------------------------------------------------------------
\* Type correctness; a handler is registered once and an rpc that waits has its
\* handler or its timer, until the connection ends.
TypeOK ==
    /\ connected \in BOOLEAN
    /\ queue \in Seq(Tasks) /\ IsInjective(queue)
    /\ replies \in Seq([task : Rpcs, status : {200, 500}, answer : Answers \cup {"error"}])
    /\ promise \in [Tasks -> {"uncalled", "pending", "resolved", "rejected"}]
    /\ sent \in [Tasks -> {"no", "opening", "sent", "failed"}]
    /\ timer \in [Rpcs -> BOOLEAN]
    /\ handlers \in Seq(Rpcs \cup Channels) /\ IsInjective(handlers)
    /\ got \in [Rpcs -> Rpcs \cup {None}]
    /\ listening \in [Consumers -> {"no", "on", "off"}]
    /\ unacked \in [Consumers -> Tasks \cup {None}]
    /\ running \in [Consumers -> BOOLEAN]
    /\ outcome \in [Tasks -> Answers \cup {"none", "threw"}]
    /\ call \in [ChannelCalls -> {"uncalled", "opening", "failed", "done", "on", "off"}]
    /\ bound \in [Channels -> Seq(Seq(Publications))]
    /\ heard \in [Subscribers -> [Publications -> Nat]]
    /\ threw \in [Subscribers -> SUBSET Publications]
    /\ listeners \in Seq(Subscribers) /\ IsInjective(listeners)
    /\ before \in [Subscribers -> SUBSET Publications]
    /\ copies \in [Publications -> Nat]
    /\ overlapped \subseteq Channels /\ confused \subseteq Subscribers
    /\ connected => ToSet(handlers) \cap Channels
                        = {ChannelOf[s] : s \in {r \in Subscribers : call[r] = "on"}}
    /\ connected => \A t \in Rpcs : promise[t] = "pending" => timer[t] \/ t \in ToSet(handlers)

\* A consumer whose listener threw at a sent task: it gets no other message.
Stuck(k) == unacked[k] \in Sends /\ outcome[unacked[k]] = "threw"

\* A message does not stay in the queue beside a consumer that can take it.
TasksAreTaken ==
    \A t \in Tasks :
        t \in ToSet(queue) ~> \/ t \notin ToSet(queue) \/ ~connected
                              \/ \A k \in Consumers : listening[k] = "on" => Stuck(k)

\* Every rpc settles, whatever becomes of its task, its consumer and the
\* connection, as long as no listener answers an rpc with nothing.
EveryRpcSettles ==
    \A t \in Rpcs :
        promise[t] = "pending" ~> \/ promise[t] \in {"resolved", "rejected"}
                                  \/ \E r \in Rpcs : outcome[r] = "nothing"

\* Types hold, and no rpc resolves unless a consumer completed some rpc that was
\* called before its promise settled, not always this one: timeouts, errors and
\* lost channels never resolve one.
ResolvedByACompletedTask ==
    TypeOK /\ \A t \in Rpcs : promise[t] = "resolved" <=> got[t] # None /\ outcome[got[t]] = "value"

\* The copies of p still in a queue.
Undelivered(p) == Cardinality({i \in DOMAIN bound[ChannelOf[p]] : Contains(bound[ChannelOf[p]][i], p)})

\* A subscriber is called with each message published since it subscribed, once
\* for each queue of the channel and for no other channel's than those its event
\* matches, less often only if another's listener threw at that message; there is a
\* second queue only if two calls opened the channel at the same time.  It is called
\* with what nobody published only by an rpc's reply.
HeardAsPublished ==
    /\ \A s \in Subscribers, p \in Publications :
          LET reaches == ChannelOf[s] \in Matches[ChannelOf[p]] IN
          /\ heard[s][p] > 0 => reaches
          /\ connected /\ call[s] = "on" /\ call[p] = "done" /\ p \notin before[s] /\ reaches
                => /\ heard[s][p] + Undelivered(p) <= copies[p]
                   /\ \/ heard[s][p] + Undelivered(p) = copies[p]
                      \/ \E r \in Subscribers \ {s} :
                            p \in threw[r] /\ ChannelOf[r] \in Matches[ChannelOf[p]]
    /\ \A p \in Publications : copies[p] > 1 => ChannelOf[p] \in overlapped
    /\ confused # {} => \E t \in Rpcs : outcome[t] # "none"
=============================================================================
