SPECIFICATION FlowSafety
CONSTANTS
    p1 = p1
    p2 = p2
    u1 = u1
    i1 = i1
    i2 = i2
    Purchases = {p1, p2}
    Users = {u1}
    Items = {i1}
    UserOf <- OneUser
    Quantities = {1}
    Prices = {4}
    InitialGil <- Rich
    InitialKnown <- AllKnown
    MaxRestarts = 0
    MaxMishaps = 0
    MaxFailures = 0
    InventoryRetries = 1
    DebitRetries = 1
PROPERTY GrantsKept
CHECK_DEADLOCK FALSE
