SPECIFICATION Spec
CONSTANTS
    w1 = w1
    w2 = w2
    p1 = p1
    p2 = p2
    alice = alice
    bob = bob
    sales = sales
    info = info
    Users = {alice}
    Targets = {sales, info}
    Devices = {}
    None = None
    Workers = {w1}
    Processes = {p1, p2}
    ProcessOf <- LoneWorker
    Faults = {"call"}
    Environment = {}
    DryRuns = {FALSE}
    MaxRequests = 2
    MaxEvents = 0
PROPERTIES
    ForgetsOnlyFindable
