SPECIFICATION FairSpec
CONSTANTS
    news = news
    sport = sport
    p1 = p1
    p2 = p2
    a = a
    b = b
    s1 = s1
    r1 = r1
    r2 = r2
    k1 = k1
    k2 = k2
    None = None
    Sends = {s1}
    Rpcs = {r1, r2}
    Consumers = {k1, k2}
    Answers = {"value", "nothing"}
    Publications = {p1, p2}
    Subscribers = {a, b}
    Channels <- MCChannels
    ChannelOf <- MCChannelOf
    Matches <- MCMatches
CONSTRAINT ChannelsOrTasks
INVARIANTS ResolvedByACompletedTask HeardAsPublished
PROPERTIES TasksAreTaken EveryRpcSettles
CHECK_DEADLOCK FALSE
