SPECIFICATION Spec
CONSTANTS
    a = a
    b = b
    persistent = persistent
    single = single
    double = double
    Forever = Forever
    NoHandler = NoHandler
    Events <- MCEvents
    Regs <- MCRegs
    Count <- MCCount
    Patterns <- MCPatterns
    MaxDepth = 2
INVARIANTS CountIsRespected
PROPERTIES ClosingEmitterIsQuiet
CHECK_DEADLOCK FALSE
