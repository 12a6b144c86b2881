SPECIFICATION MCSpec
CONSTANTS
    Components = {"locks"}
    Waiter = {w1, w2, w3}
    Timed = {w3}
    Signaler = {s1, s2}
    MaxThreads = 2
    None = None
    MaxWaits = 3
    MaxSignals = 3
    MaxWakeUps = 1
    Application = {"owner", "user"}
    Calls <- MCCalls
INVARIANT JoinedNodeCanEnd
CHECK_DEADLOCK FALSE
