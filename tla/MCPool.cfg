SPECIFICATION FairSpec
CONSTANTS
    o1 = o1
    o2 = o2
    None = None
    Clients = {c1, c2, c3}
    Objects <- MCObjects
    InitialObjects <- MCInitialObjects
INVARIANTS TypeOK WaitersQueuedOnce OnePlace NoIdleWhileWaiting
PROPERTIES FirstComeFirstServed ServedWhileCirculating LeasesObjects
