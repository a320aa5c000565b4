SPECIFICATION Spec
CONSTANTS
    login = login
    list = list
    product = product
    pay = pay
    import = import
    Requests = {list, pay}
    Conns = {k1, k2}
    Kind <- KindOfThese
    Load <- Statements
    Idle = Idle
INVARIANTS
    RequestsDoNotBlockEachOther
CHECK_DEADLOCK FALSE
