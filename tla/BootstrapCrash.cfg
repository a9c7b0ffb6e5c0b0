\* Two processes, the one index the code configures, one crash.
SPECIFICATION FairSpec
CONSTANTS
    Instances = {i1, i2}
    NumIndexes = 1
    MaxFaults = 1
    Faults = {"crash"}
PROPERTY EveryInstanceServes
