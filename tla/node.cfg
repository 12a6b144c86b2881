SPECIFICATION MCFairSpec
CONSTANTS
    Node = {"n1", "n2", "n3"}
    Pub = {"p1", "p2"}
    Sub = {"s1"}
    None = None
    OtherChannel = {"p2"}
    channelName <- MCChannelName
    domain <- MCDomain
    Scenarios = {"changing", "moving", "settling"}
INVARIANTS TypeOK ValidateState PendingOnlyForUndiscovered MatchedSubscribersConnected
           SettlingInSync PartsAttributedToSender
PROPERTY SettlingEventuallyInSync
CHECK_DEADLOCK FALSE
