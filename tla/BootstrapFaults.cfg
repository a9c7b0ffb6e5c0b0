\* Three processes set up two indexes; two faults of any kind.
SPECIFICATION FairSpec
CONSTANTS
    Instances = {i1, i2, i3}
    NumIndexes = 2
    MaxFaults = 2
    Faults = {"es", "crash"}
INVARIANTS
    TypeOK
    ServesLinked
    OnlyFaultsStrand
PROPERTY ServesUnlessStranded
