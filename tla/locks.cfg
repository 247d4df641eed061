SPECIFICATION FairSpec
CONSTANTS
    t1 = t1
    t2 = t2
    t3 = t3
    alice = alice
    bob = bob
    l1 = l1
    l2 = l2
    Keys = {alice, bob}
    Threads = {t1, t2, t3}
    Locks = {l1, l2}
    None = None
INVARIANTS
    TypeOK
PROPERTIES
    ImplementsMutex
    OthersDoNotBlock
