SPECIFICATION FairSpec
CONSTANTS
    s1 = s1
    s2 = s2
    r1 = r1
    q1 = q1
    None = None
    Queues <- MCQueues
    Listeners = {k1, k2, k3}
    Sends = {s1, s2}
    Rpcs = {r1}
    QueueOf <- MCQueueOf
    Reasons = {"error", "value"}
INVARIANTS TasksAccountedFor TakeTurns
PROPERTIES PendingTasksAreTaken
CHECK_DEADLOCK FALSE
