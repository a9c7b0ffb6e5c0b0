\* Four requests, every fault, the account removed and revived at any time.
SPECIFICATION Spec
CONSTANTS
    Requests = {r1, r2, r3, r4}
    Accounts = {alice}
    MaxClock = 2
    NoToken = NoToken
    Faults = {"db", "redis", "crash", "removal"}
SYMMETRY Symmetric
CHECK_DEADLOCK FALSE
INVARIANTS
    TypeOK
    SpentStaysSpent
    QuietSessionLives
PROPERTY RemovedGetsNoToken
