SPECIFICATION FairSpec
CONSTANTS
    w1 = w1
    w2 = w2
    p1 = p1
    p2 = p2
    alice = alice
    bob = bob
    sales = sales
    info = info
    Users = {alice}
    Targets = {sales, info}
    Devices = {}
    None = None
    Workers = {w1, w2}
    Processes = {p1, p2}
    ProcessOf <- OneProcess
    Faults = {"call", "lost"}
    Environment = {}
    DryRuns = {FALSE}
    MaxRequests = 2
    MaxEvents = 0
INVARIANTS
    RowsMeanSeen
PROPERTIES
    FinishClears
    FinishConverges
    RequestsEnd
