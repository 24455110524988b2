------------------------- MODULE MCMessageQueueAMQP -------------------------
(* A send and two rpcs to one queue with two consumers, or two publications  *)
(* and two subscribers on a name without a topic and with one, or some of    *)
(* both.  The event of the name alone, a pattern, matches that of the name   *)
(* with a topic.                                                             *)
EXTENDS MessageQueueAMQP, TLC

CONSTANTS news, sport, p1, p2, a, b, s1, r1, r2, k1, k2

MCChannels == {news, sport}
MCChannelOf == (p1 :> news) @@ (p2 :> sport) @@ (a :> news) @@ (b :> sport)
MCMatches == (news :> {news, sport}) @@ (sport :> {sport})

\* Bound: an rpc and its consumer meet one subscriber and one publication only.
ChannelsOrTasks ==
    LET opened == {u \in ChannelCalls : call[u] # "uncalled"}
        tasks == {t \in Tasks : promise[t] # "uncalled"}
        consumers == {k \in Consumers : listening[k] # "no"}
    IN  opened = {} \/ (tasks = {} /\ consumers = {})
        \/ (opened \subseteq {a, p1} /\ tasks \subseteq {r1} /\ consumers \subseteq {k1})
=============================================================================
