SPECIFICATION LibrarySpec
CONSTANTS
    A1 = A1
    A2 = A2
    A3 = A3
    A4 = A4
    nullptr = nullptr
    noop = noop
    Fiber = {A1, A2, A3, A4}
    workerFiber = wf
    Size = 1
    Counts = {1, 2}
    Initial = 1
    CountMax = 3
INVARIANTS
    BigWaitersSeen
    UnitsAreOffered
    DataIsKept
    TimeIsExact
    TraceIsTrue
    CoroutinesTakeTurns
    ApiTellsTruth
    ContextsAreSound
    ProcessIsTended
    
PROPERTIES
    PromisesAreKept
CHECK_DEADLOCK FALSE
