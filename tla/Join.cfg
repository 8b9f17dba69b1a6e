SPECIFICATION PartSpec
CONSTANTS
    Fiber = {m, a, b}
    workerFiber = wf
    main = m
    Size = 3
    LateJoins = FALSE
    NoValue = none
INVARIANTS
    FuturesTellEnds
    GateIsBarrier
PROPERTIES
    JoinedHaveEnded
    JoinReturns
    GateOpens
