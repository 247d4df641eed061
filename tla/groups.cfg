SPECIFICATION MCSpec
CONSTANTS
    g1 = g1
    g2 = g2
    g3 = g3
    sales = sales
    info = info
    None = None
    Pks = {g1, g2, g3}
    Targets = {sales, info}
CHECK_DEADLOCK FALSE
INVARIANTS
    TypeOK
    ClosureExact
    PayloadExact
PROPERTIES
    WalkEnds
