SPECIFICATION FairSpec
CONSTANTS
    a1 = a1
    a2 = a2
    b1 = b1
    shopA = shopA
    shopB = shopB
    Clients = {a1, a2}
    Tenants = {shopA, shopB}
    Tenant <- OneShop
    Cap = 1
    Says <- BothTalk
PROPERTIES
    LostIsRemoved
    BroadcastEnds
CHECK_DEADLOCK FALSE
