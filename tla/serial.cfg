SPECIFICATION Spec
CONSTANTS
    w1 = w1
    w2 = w2
    p1 = p1
    p2 = p2
    alice = alice
    bob = bob
    sales = sales
    info = info
    Users = {alice}
    Targets = {sales, info}
    Devices = {}
    None = None
    Workers = {w1, w2}
    Processes = {p1, p2}
    ProcessOf <- OneProcess
    Faults = {}
    Environment = {"dbLoss"}
    DryRuns = {TRUE, FALSE}
    MaxRequests = 3
    MaxEvents = 1
SYMMETRY TargetSymmetry
INVARIANTS
    PairComplete
    LedgerExact
PROPERTIES
    NoAccountOutlivesPwd
    ForgetsOnlyRevoked
    DryRunChangesNothing
