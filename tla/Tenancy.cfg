\* One shop, two plans, the owner and two more users, two requests at once.
SPECIFICATION Spec
CONSTANTS
    r1 = r1
    r2 = r2
    p1 = p1
    p2 = p2
    a = a
    b = b
    owner = owner
    Requests = {r1, r2}
    Tenants = {"shop"}
    Plans = {p1, p2}
    Names = {owner, a, b}
    Owner = owner
    Limits = {1, 2}
    NoLimit = NoLimit
    NoPlan = NoPlan
    None = None
SYMMETRY Symmetry
INVARIANTS
    UsersWithinPlan
PROPERTIES
    GoneStaysGone
