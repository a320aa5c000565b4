\* Two cashiers who share a tablet, two calls of the screens at once.
SPECIFICATION Spec
CONSTANTS
    a = a
    b = b
    r1 = r1
    r2 = r2
    Users = {a, b}
    Requests = {r1, r2}
    Ui = Ui
    None = None
    AccessTTL = 1
    RefreshTTL = 2
    MaxTime = 2
    MaxMishaps = 1
SYMMETRY Interchangeable
INVARIANTS
    TypeOK
    SessionKept
    NothingElseIsLive
    OneUserAtATime
    WrongPinIsAnswered
\* Only because of the bound on accidents.
CHECK_DEADLOCK FALSE
