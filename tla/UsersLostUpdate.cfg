\* The code as built, with no fault at all.
SPECIFICATION Spec
CONSTANTS
    Requests = {r1, r2, r3}
    Ids = {u1}
    u1 = u1
    u2 = u2
    u3 = u3
    Emails = {e1}
    e1 = e1
    e2 = e2
    Names = {n1, n2}
    n1 = n1
    n2 = n2
    Roles = {user, admin}
    user = user
    admin = admin
    NoRow = NoRow
    Nil = Nil
    InitialRows <- MCInitialRows
    Workload <- MCOneUser
    MaxOpenConns = 2
    Faults = {}
    LockingRead = FALSE
PROPERTY AppliesOnlyTheRequest
