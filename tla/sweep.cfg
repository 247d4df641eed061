SPECIFICATION FairSpec
CONSTANTS
    w1 = w1
    w2 = w2
    p1 = p1
    alice = alice
    bob = bob
    carol = carol
    boxA = boxA
    boxB = boxB
    boxC = boxC
    sales = sales
    Users = {alice, bob}
    Targets = {boxA, boxB, boxC, sales}
    Own <- OwnMailbox
    Mailboxes = {boxA, sales}
    Shared = {sales}
    Workers = {w1}
    Processes = {p1}
    ProcessOf <- OneProcess
    PageSize = 1
    Faults = {"reconcile", "list", "fetch", "crash"}
    Environment = {"join", "leave", "claims", "login", "mint"}
    MaxEvents = 3
    MaxInbox = 1
INVARIANTS
    TypeOK
PROPERTIES
    CollectsOnlyVanished
    SweepConverges
    EventuallyExact
