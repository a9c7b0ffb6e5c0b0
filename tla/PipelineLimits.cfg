\* Two processes, the validator as di builds it, Redis that may fail.
SPECIFICATION MCSpec
CONSTANTS
    Requests = {1, 2, 3}
    Procs = {p1, p2}
    p1 = p1
    Workload <- MCWorkload
    DefaultMax = 3
    AuthMax = 1
    Window = 1
    MaxClock = 1
    NoEntry = NoEntry
    MaxFaults = 1
    Outcomes <- MCOutcomes
    RuleRegistered = FALSE
INVARIANTS
    TypeOK
    OnlyRacesOvershoot
    RefusalDeserved
    AnswerTellsOutcome
PROPERTY EveryRequestAnswered
