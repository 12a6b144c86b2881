SPECIFICATION MCSpec
CONSTANTS
    Manager = {"a", "b", "c"}
    Service = {"ping", "echo", "time"}
    Filter = {"both", "echoes", "other"}
    ReqId = {q1, q2}
    host <- MCHost
    asker <- MCAsker
    Matches <- MCMatches
    Stub = {"s1", "s2"}
    Caller = {"x", "y", "z"}
    stubOf <- MCStubOf
    Void = {"y"}
    MaxCalls = 2
    File = {"f1", "f2"}
    MaxTime = 3
    Item <- MCItem
    Pointer = {p1, p2}
    name <- MCName
    band <- MCBand
    Null = Null
    Infinity = 99
    Scenarios = {"settled", "joining", "losing", "finding", "calls", "directory", "cache"}
    Joining = {"a", "b"}
    MaxChanges = 3
INVARIANTS ServicesTypeOK SettledListed QuietQueriesKnown StoppedForgotten FoundMatches
           OwnReply QuietCallsReturned
           RescanDue ListenerMirrors
           ListsInOrder ElementIdsInverse CurrentInBand CacheDistancesLeast
CHECK_DEADLOCK FALSE
