SPECIFICATION Spec
CONSTANTS
    w1 = w1
    w2 = w2
    p1 = p1
    p2 = p2
    alice = alice
    bob = bob
    sales = sales
    info = info
    Users = {alice, bob}
    Targets = {sales}
    Devices = {}
    None = None
    Workers = {w1, w2}
    Processes = {p1, p2}
    ProcessOf <- TwoProcesses
    Faults = {"lost", "call", "db", "crash"}
    Environment = {"mailbox", "foreign", "account"}
    DryRuns = {FALSE}
    MaxRequests = 2
    MaxEvents = 2
SYMMETRY UserSymmetry
INVARIANTS
    TypeOK
    RecordedIsOurs
PROPERTIES
    DeletesOnlyOwn
