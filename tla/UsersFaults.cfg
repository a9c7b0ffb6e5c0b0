\* The code as built (no lock on the read) under every fault.
SPECIFICATION Spec
CONSTANTS
    Requests = {r1, r2, r3}
    Ids = {u1, u2, u3}
    u1 = u1
    u2 = u2
    u3 = u3
    Emails = {e1, e2}
    e1 = e1
    e2 = e2
    Names = {n1, n2}
    n1 = n1
    n2 = n2
    Roles = {user, admin}
    user = user
    admin = admin
    NoRow = NoRow
    Nil = Nil
    InitialRows <- MCInitialRows
    Workload <- MCWorkload
    MaxOpenConns = 2
    Faults = {"db", "es", "redis", "crash"}
    LockingRead = FALSE
SYMMETRY Symmetric
INVARIANTS
    TypeOK
    UniqueActiveEmail
    IndexMirrorsStore
    ReadsAreCommitted
    AcknowledgedIsCommitted
    StaleOnlyIfOvertaken
    SomeoneProceeds
PROPERTY ImplementsDirectory
