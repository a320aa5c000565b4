\* Two changes of one product, two flushes, two requests at once.
SPECIFICATION Spec
CONSTANTS
    f1 = f1
    f2 = f2
    p1 = p1
    p2 = p2
    NumOps = 2
    EntityOf <- TwoChanges
    Flushes = {f1, f2}
    Pushes = {p1, p2}
    Gone = Gone
    MaxLost = 2
SYMMETRY Symmetry
INVARIANTS
    AppliedFewTimes
    InOrder
    NothingDisappears
PROPERTY
    ImplementsOutbox
