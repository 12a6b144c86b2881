SPECIFICATION WaitForSpec
CONSTANTS
    Waiter = {w1, w2}
    First = {w1}
    Timed = {}
    Signaler = {reader}
    MaxThreads = 1
    None = None
    count <- MCCount
    MaxSubscribers = 2
PROPERTY WaitersReturn
CHECK_DEADLOCK FALSE
