SPECIFICATION Spec
CONSTANTS
    a = a
    b = b
    c = c
    d = d
    app = app
    itc = itc
    ext = ext
    red = red
    blue = blue
    high = high
    runsOn = runsOn
    w1 = w1
    w2 = w2
    None = None
    Sheets = {a, b, c, d}
    Space = w1
    Facts <- SmallFacts
    KindSpace <- KindSpaces
    Like <- SmallLike
    Filters <- Asked
    Fetched <- FetchedFilters
    Sorts <- Orders
    Firsts = {0, 1, 3}
    MaxFirst = 2
    Names = {1, 2, 3, 4, 5}
    InitialRow <- FirstRows
    MaxWrites = 2
INVARIANTS FiltersExact PagesAddUp
PROPERTIES TraversalEnds
CHECK_DEADLOCK FALSE
