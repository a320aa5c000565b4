\* Three products, two requests at once, a file of two rows uploaded twice.
SPECIFICATION Spec
CONSTANTS
    r1 = r1
    r2 = r2
    a = a
    b = b
    c = c
    low = low
    high = high
    Requests = {r1, r2}
    Products = {a, b, c}
    Prices = {low, high}
    Limits = {1}
    NoLimit = NoLimit
    None = None
    FileRows = 2
    MaxTries = 2
SYMMETRY Symmetry
INVARIANTS
    TypeOK
    ProductsWithinPlan
    AsAsked
    ImportedInOrder
PROPERTIES
    GoneUnlessUndone
