SPECIFICATION SemaphoreSpec
CONSTANTS
    Fiber = {a, b, c, d}
    workerFiber = wf
    Size = 1
    Counts = {1, 2, 3}
    Initial = 0
    CountMax = 3
INVARIANTS
    ServableIsTried
