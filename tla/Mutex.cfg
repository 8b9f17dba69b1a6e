SPECIFICATION MutexFairSpec
CONSTANTS
    Fiber = {a, b, c, d}
    workerFiber = wf
    Size = 1
INVARIANTS
    MutualExclusion
    NoLostWakeup
PROPERTIES
    FreeMutexIsTaken
    ImplementsLock
