SPECIFICATION MCSafety
CONSTANTS
    alice = alice
    bob = bob
    carol = carol
    sword = sword
    potion = potion
    Focuses = {"retries"}
    People = {alice, bob, carol}
    Nobody = nobody
    RoleOf <- MCRoleOf
    MaxCalls = 1
    Ids = {sword}
    NoId = none
    Contents = {1}
    MaxRequests = 1
    MaxActs = 0
    Quantities = {1, 2}
    Tries = 3
    HubMethods = {"ReceiveStatus"}
    MaxPurchases = 1
    MaxPushes = 0
    MaxRestarts = 0
INVARIANT AcceptedAsConfirmed
CHECK_DEADLOCK FALSE
