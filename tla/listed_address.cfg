SPECIFICATION MCSpec
CONSTANTS
    Node = {m1}
    Name = {a}
    If = {i1, i2}
    IPv4 <- MCIPv4
    Backend = {"bonjour"}
    MaxChanges = 4
    MaxAvChanges = 3
    Steady = {}
    OnlyIPv6 = {}
INVARIANT ListedHaveAddress
