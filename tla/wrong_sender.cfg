SPECIFICATION MCSpec
CONSTANTS
    Node = {"n1", "n2", "n3"}
    Pub = {"p1", "p2"}
    Sub = {"s1"}
    None = None
    OtherChannel = {}
    channelName <- MCChannelName
    domain <- MCDomain
    Scenarios = {"publishing"}
INVARIANT PartsAttributedToSender
CHECK_DEADLOCK FALSE
