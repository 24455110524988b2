SPECIFICATION FairTransformSpec
CONSTANTS
    o1 = o1
    o2 = o2
    NoObject = NoObject
    Objects <- MCObjects
    InitialObjects <- MCInitialObjects
    Streams = {s1, s2}
    ChunkCount = 2
INVARIANTS LostToFailureOnly
PROPERTIES EveryStreamEnds
CHECK_DEADLOCK FALSE
