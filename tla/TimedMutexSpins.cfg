CONSTANTS
    workerFiber = workerFiber
    waiterFiber = waiter
    Fiber = {a, b, waiter}
    Delays = {1}
    Intervals = {}
    Durations = {0}
    Ops = {}
    MaxTime = 3
SPECIFICATION TimedFairSpec
PROPERTY TrylockEnds
