SPECIFICATION MCSpec
CONSTANTS
    Components = {"monitor", "locks"}
    Waiter = {w1, w2, w3}
    Timed = {w3}
    Signaler = {s1, s2}
    MaxThreads = 2
    None = None
    MaxWaits = 3
    MaxSignals = 3
    MaxWakeUps = 1
    Application = {"owner", "user"}
    Calls <- MCCalls
INVARIANTS ThreadsTypeOK NoLostWakeup WaitersCounted SignalsAsserted OnlyKnownCircles JoinedIsWoken
PROPERTY SignalTaken
CHECK_DEADLOCK FALSE
