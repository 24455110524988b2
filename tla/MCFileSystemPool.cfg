SPECIFICATION FairSpec
CONSTANTS
    f1 = f1
    f2 = f2
    None = None
    FileSystems <- MCFileSystems
    Fss <- MCFss
    Calls = {c1, c2, c3}
    Endings <- MCEndings
INVARIANTS Conservation
PROPERTIES EveryCallSettles
CHECK_DEADLOCK FALSE
