SPECIFICATION Spec
CONSTANTS
    w1 = w1
    w2 = w2
    p1 = p1
    p2 = p2
    alice = alice
    bob = bob
    sales = sales
    info = info
    laptop = laptop
    desktop = desktop
    Users = {alice, bob}
    Targets = {sales, info}
    Devices = {laptop, desktop}
    None = None
    Workers = {w1}
    Processes = {p1, p2}
    ProcessOf <- OneWorker
    Faults = {}
    DropsMailboxes = TRUE
    MaxRequests = 3
    MaxOthers = 1
SYMMETRY Symmetry
INVARIANTS
    NoSprawl
    RowIsHanded
PROPERTIES
    SweepRevokes
