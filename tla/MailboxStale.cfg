SPECIFICATION MailboxFairSpec
CONSTANTS
    Fiber = {a, b, c}
    workerFiber = wf
    Size = 2
    Values = {1}
    NoValue = 0
    Ops = {}
INVARIANTS
    ValueIsTaken
