\* Two places for calls of two attempts each, two failures open the breaker.
SPECIFICATION FairSpec
CONSTANTS
    Calls = {c1, c2}
    MaxAttempts = 2
    MaxFailures = 2
    HalfOpenMaxReqs = 1
INVARIANTS
    TypeOK
    ProbesLimited
PROPERTIES
    EveryCallEnds
    RecoversWithUpstream
    ImplementsCall
    ClosesOnProbes
