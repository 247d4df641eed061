SPECIFICATION Spec
CONSTANTS
    w1 = w1
    w2 = w2
    p1 = p1
    p2 = p2
    alice = alice
    bob = bob
    sales = sales
    info = info
    laptop = laptop
    desktop = desktop
    Users = {alice, bob}
    Targets = {sales}
    Devices = {laptop}
    None = None
    Workers = {w1, w2}
    Processes = {p1, p2}
    ProcessOf <- TwoProcesses
    Faults = {"call", "lost", "db", "crash"}
    DropsMailboxes = TRUE
    MaxRequests = 3
    MaxOthers = 2
SYMMETRY Symmetry
INVARIANTS
    TypeOK
    TbRecordedIsOurs
PROPERTIES
    TbDeletesOnlyOwn
    TbForgetsOnlyRevoked
