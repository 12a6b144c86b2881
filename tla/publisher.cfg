SPECIFICATION MCPubSubFairSpec
CONSTANTS
    Node = {n1, n2}
    Pub = {p1, p2}
    Sub = {s1, s2}
    None = None
    Greeted = {p1}
    PubHome = {n1}
    SubHome = {n2}
    channelName <- MCPubSubChannelName
    domain <- MCPubSubDomain
    Scenarios = {"growing", "changing"}
INVARIANTS PubSubTypeOK SubscriptionsTracked GrowingAreSolid GrowingCountsExact
PROPERTY GrowingEventuallyCounted
CHECK_DEADLOCK FALSE
