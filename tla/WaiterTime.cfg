SPECIFICATION FairSpec
CONSTANTS
    Fiber = {wt, a, b}
    workerFiber = wf
    waiterFiber = wt
    Delays = {0, 1, 2}
    Intervals = {0, 1}
    Durations = {0, 2}
    Ops = {"signals"}
    MaxTime = 5
INVARIANTS
    SleepsAsLongAsNeeded
PROPERTIES
    NoEarlyWakeup
    NapEnds
    ReadyRuns
    RunAndDestructorEnd
