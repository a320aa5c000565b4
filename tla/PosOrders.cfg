\* Two requests in flight on one order, two cashiers, two shifts.
SPECIFICATION Spec
CONSTANTS
    s1 = s1
    s2 = s2
    h1 = h1
    h2 = h2
    Cashiers = {c1, c2}
    Orders = {o1}
    Shifts = {s1, s2}
    Handlers = {h1, h2}
    Totals <- Prices
    Methods <- AllMethods
    Foreign = {"THB"}
    Rates = {2}
    One = 4
    Half = 3
    Tenders <- Payloads
    NoShift = NoShift
    NoOrder = NoOrder
    MaxRows = 2
SYMMETRY Interchangeable
INVARIANTS
    IInv
    PaidIsCovered
    RefundIsBacked
    StatusIsLogged
    VoidIsAttributed
    ForeignIsConfigured
    TakingsCoverSales
    VoidCountsAgree
PROPERTIES
    ImplementsBook
    RowsAreKept
