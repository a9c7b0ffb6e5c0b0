\* Two processes, two tasks, one of them malformed; two faults, one signal.
SPECIFICATION FairSpec
CONSTANTS
    Tasks = {refund, broken}
    refund = refund
    broken = broken
    Malformed = {broken}
    Servers = {s1, s2}
    Nobody = Nobody
    MaxRetry <- MCMaxRetry
    Concurrency = 1
    MaxStops = 1
    MaxFaults = 2
    Faults = {"redis", "crash"}
INVARIANTS
    TypeOK
    OnlyDisturbedRepeat
    OnlyFaultsOrphan
PROPERTIES
    EveryTaskSettles
    ImplementsLedger
