SPECIFICATION FairSpec
CONSTANTS
    login = login
    list = list
    product = product
    pay = pay
    import = import
    Requests = {product, pay, import}
    Conns = {k1, k2, k3, k4, k5}
    Kind <- KindOfThese
    Load <- Statements
    Idle = Idle
INVARIANTS
    TypeOK
    NothingLeftBehind
    OnePerUse
    AmpleIsEnough
PROPERTIES
    EveryRequestEnds
CHECK_DEADLOCK FALSE
