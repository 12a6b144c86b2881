SPECIFICATION MCPubSubFairSpec
CONSTANTS
    Node = {n1, n2}
    Pub = {p1}
    Sub = {s1}
    None = None
    Greeted = {}
    PubHome = {n1}
    SubHome = {n2}
    channelName <- MCPubSubChannelName
    domain <- MCPubSubDomain
    Scenarios = {"readding"}
PROPERTY EventuallyCounted
CHECK_DEADLOCK FALSE
