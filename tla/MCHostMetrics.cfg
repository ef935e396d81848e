SPECIFICATION Spec
CONSTANTS
    LineRate = 2
    None = None
    MaxBefore = 2
    MaxTime = 3
    MaxResets = 1
    MaxRestarts = 1
    MaxFaults = 1
INVARIANTS TypeOK NeverOverstated SamplesAdjoin
PROPERTIES RateBounded
