SPECIFICATION MCSpec
CONSTANTS
    alice = alice
    bob = bob
    carol = carol
    sword = sword
    potion = potion
    Focuses = {"session", "pages", "retries", "statuses"}
    People = {alice, bob, carol}
    Nobody = nobody
    RoleOf <- MCRoleOf
    MaxCalls = 2
    Ids = {sword, potion}
    NoId = none
    Contents = {1, 2}
    MaxRequests = 2
    MaxActs = 3
    Quantities = {1, 2}
    Tries = 2
    HubMethods = {"ReceiveStatus", "ReceivePurchaseStatus"}
    MaxPurchases = 2
    MaxPushes = 1
    MaxRestarts = 1
INVARIANTS
    SessionTypeOK
    ActsAsShown
    MenuFitsPage
    PagesTypeOK
    ShownWasHeld
    CalmPageIsTrue
    FormTypeOK
    OnePurchaseAtATime
    ConfirmedBuysOnce
PROPERTIES
    AuthEnds
    LoadingEnds
    SendingEnds
CHECK_DEADLOCK FALSE
