\* Four requests without faults.
SPECIFICATION Spec
CONSTANTS
    Requests = {r1, r2, r3, r4}
    Accounts = {alice}
    MaxClock = 2
    NoToken = NoToken
    Faults = {}
SYMMETRY Symmetric
CHECK_DEADLOCK FALSE
INVARIANT ExchangedOnce
