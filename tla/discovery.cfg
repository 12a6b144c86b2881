SPECIFICATION MCFairSpec
CONSTANTS
    Node = {m1}
    Name = {a, b}
    If = {i1, i2}
    IPv4 <- MCIPv4
    Backend = {"bonjour", "avahi"}
    MaxChanges = 4
    MaxAvChanges = 3
    Steady = {b}
    OnlyIPv6 = {}
INVARIANTS
    ValidateState
    StubsOfQueries
    QuietStubsPresent
    AvahiTypeOK
    AvahiValidateState
PROPERTIES
    BonjourListing
    BonjourEventuallyListed
    AvahiListing
