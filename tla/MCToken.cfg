SPECIFICATION TokenSpec
CONSTANTS
    c1 = c1
    c2 = c2
    Callers = {c1, c2}
    Free = Free
    NoToken = NoToken
    Lifetimes = {0, 2}
    Margin = 1
    Fallback = 2
    Delays = {1, 2}
    MaxTime = 3
INVARIANTS
    TokenTypeOK
    NoNeedlessFetch
    TokenFresh
PROPERTIES
    CallsEnd
CHECK_DEADLOCK FALSE
