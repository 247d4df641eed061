SPECIFICATION MCSpec
CONSTANTS
    w1 = w1
    w2 = w2
    p1 = p1
    alice = alice
    bob = bob
    sales = sales
    inbox = inbox
    archive = archive
    acc1 = acc1
    acc2 = acc2
    sent = sent
    trash = trash
    sent1 = sent1
    sent2 = sent2
    trash1 = trash1
    gmail = gmail
    Users = {alice, bob}
    Targets = {alice, sales}
    Devices = {}
    None = None
    Folders = {inbox, archive}
    Inbox = inbox
    Accounts = {acc1, acc2}
    AccountOf <- MCAccountOf
    Columns = {sent, trash}
    Boxes = {sent1, sent2, trash1, gmail}
    BoxOf <- MCBoxOf
    BoxName <- MCBoxName
    Workers = {w1, w2}
    Processes = {p1}
    ProcessOf <- OneProcess
    Deployments = {{"db"}, {"maildb"}}
    Faults = {"call", "rc", "lost", "flush", "crash"}
    Environment = {"hand", "folder"}
    DryRuns = {TRUE, FALSE}
    MaxRequests = 2
    MaxEvents = 1
SYMMETRY Symmetry
INVARIANTS
    TypeOK
    InboxSpeaks
    CacheFlushed
PROPERTIES
    SharingConverges
    OthersKept
    OnlyOwnEntries
    DryRunWritesNothing
    MailDbConverges
    MailDbRepairsOnly
