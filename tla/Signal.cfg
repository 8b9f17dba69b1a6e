SPECIFICATION FsmSpec
CONSTANTS
    Fiber = {a, b, c}
    workerFiber = wf
    Size = 1
    MaxSignalled = 2
    Programs <- MCPrograms
    Listings <- MCListings
    Inputs = {"i"}
    runner = a
    Users = {b}
    Durations = {1}
    MaxInputs = 1
    MaxTime = 3
INVARIANTS
    QueuedSignalsAreSeen
    EdslIsCompiledAsWritten
    PopReturnsToCaller
    TriggersAreNotLost
PROPERTIES
    SignalledUntilReset
    SignalledGoesOn
