SPECIFICATION PollSpec
CONSTANTS
    Fiber = {wt, a, b, c}
    workerFiber = wf
    waiterFiber = wt
    Delays = {0, 1}
    Intervals = {1}
    Durations = {0}
    Ops = {"signals"}
    MaxTime = 4
    a = a
    x = x
    y = y
    Fd = {x, y}
    Lists <- MCLists
    Timeouts <- MCTimeouts
    Pollers = {a, b}
    MaxResult = 1
    PollTime = 3
    NewPollers = {"other", "null"}
PROPERTIES
    PollReturnsEvents
