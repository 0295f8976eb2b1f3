SPECIFICATION Spec
CONSTANTS
    j1 = j1
    s1 = s1
    s2 = s2
    k1 = k1
    k2 = k2
    a = a
    b = b
    Job = {j1}
    Session = {s1, s2}
    Launcher <- MCLauncher
    Consumer = {k1, k2}
    SessionOf <- MCSessionOf
    MaxFaults = 2
    NoJob = NoJob
    NoFile = NoFile
    Torn = Torn
    Provider = {a, b}
    Caller = {c1, c2}
    Concurrency = 1
    AtStart <- OneOfTwo
    MaxChanges = 1
    NoPass = NoPass
    Proc = {p1, p2}
    Stamp = {1, 2}
    NoProc = NoProc
    Empty = Empty
INVARIANTS
    DelegationTypeOK
    OutcomeIsReadable
    ForcedAsksAnew
    SnapshotIsCurrent
PROPERTIES
    EventuallyAnnounced
    WritersGetThrough
    CatalogSettles
CHECK_DEADLOCK FALSE
