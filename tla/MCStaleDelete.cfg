SPECIFICATION MCSafety
CONSTANTS
    alice = alice
    bob = bob
    carol = carol
    sword = sword
    potion = potion
    Focuses = {"pages"}
    People = {alice, bob, carol}
    Nobody = nobody
    RoleOf <- MCRoleOf
    MaxCalls = 1
    Ids = {sword, potion}
    NoId = none
    Contents = {1}
    MaxRequests = 2
    MaxActs = 2
    Quantities = {1, 2}
    Tries = 2
    HubMethods = {"ReceiveStatus", "ReceivePurchaseStatus"}
    MaxPurchases = 0
    MaxPushes = 0
    MaxRestarts = 0
PROPERTY DeletionTakesOneRow
CHECK_DEADLOCK FALSE
