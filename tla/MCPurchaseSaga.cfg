SPECIFICATION MCSpec
CONSTANTS
    p1 = p1
    p2 = p2
    u1 = u1
    i1 = i1
    i2 = i2
    Purchases = {p1}
    Users = {u1}
    Items = {i1}
    UserOf <- MCUserOf
    Quantities = {1, 2}
    Prices = {1, 3}
    MaxRestarts = 1
    MaxMishaps = 1
INVARIANTS
    TypeOK
    CommandsUnique
    DebitForGrantedItems
    CompensationMirrorsGrant
    OutcomeJustified
PROPERTIES
    OutcomeStable
    TermsFixed
CHECK_DEADLOCK FALSE
