SPECIFICATION Spec
CONSTANTS
    a1 = a1
    a2 = a2
    b1 = b1
    shopA = shopA
    shopB = shopB
    Clients = {a1, a2, b1}
    Tenants = {shopA, shopB}
    Tenant <- ThreeDevices
    Cap = 1
    Says <- OneTalks
INVARIANTS
    SlowClientIsOnlyRemoved
CHECK_DEADLOCK FALSE
