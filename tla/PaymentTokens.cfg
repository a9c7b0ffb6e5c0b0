\* Calls that share a token, a bank that may revoke it, copies that come late.
SPECIFICATION Spec
CONSTANTS
    Calls = {c1, c2}
    Kinds = {"transfer", "inquiry", "invalid"}
    MaxAttempts = 2
    Timeout = 1
    TTLs <- MCTTLs
    Margin = 2
    Fallback = 1
    Life = 3
    MaxTokens = 2
    MaxClock = 3
    MaxFaults = 1
    NoEntry = NoEntry
SYMMETRY MCSymmetry
INVARIANTS
    TypeOK
    SuccessIsTrue
    RefusalIsTrue
    TokenLastsTheCall
