SPECIFICATION FairSpec
CONSTANTS
    Cmds = {c1, c2}
    Versions = {v1, v2}
    Oldest = v1
    None = None
    MaxFaults = 2
    MaxDeaths = 1
    MaxTimers = 1
INVARIANT TypeOK
PROPERTIES
    UpdatedAgentRuns UpdatedCoreInstalled RestartedCoreRuns
    EveryCommandAnswered HeartbeatConverges
