CONSTANTS
    workerFiber = workerFiber
    waiterFiber = waiter
    Fiber = {a, b, c, waiter}
    Delays = {0, 1}
    Intervals = {}
    Durations = {0}
    Ops = {}
    MaxTime = 4
SPECIFICATION TimedSpec
INVARIANTS
    AlarmsAreAlive
    TimedNoLostWakeup
    TimedLockIsSound
