\* One connection, two contending requests, a lister, every fault: everything
\* still ends, and lists and searches answer what was asked for.
SPECIFICATION LFairSpec
CONSTANTS
    Requests = {r1, r2}
    Ids = {u1, u2}
    u1 = u1
    u2 = u2
    u3 = u3
    Emails = {e1}
    e1 = e1
    e2 = e2
    Names = {n1, n2}
    n1 = n1
    n2 = n2
    Roles = {user, admin}
    user = user
    admin = admin
    NoRow = NoRow
    Nil = Nil
    InitialRows <- MCInitialRows
    Workload <- MCContenders
    MaxOpenConns = 1
    Faults = {"db", "es", "redis", "crash"}
    LockingRead = FALSE
    Listers = {l1}
    Queries <- MCQueries
    DefaultSize = 2
    MaxSize = 2
    IntLimit = 4
    ResultWindow = 4
INVARIANTS
    ListedAreWanted
    TotalsAgree
PROPERTIES
    EveryRequestEnds
    AcknowledgedIsAudited
