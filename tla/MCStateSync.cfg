SPECIFICATION Spec
CONSTANTS
    Emails = {e1, e2}
    Protos = {vless, trojan, other}
    Supported = {vless, trojan}
    Secrets = {s1, s2}
    Tags = {t1}
    RouteRules = {r1, r2}
    Buildable = {r1}
    Versions = {0}
    None = None
    SyncRetries = 2
    ManualStarts = TRUE
    HttpFaults = TRUE
    RpcFaults = TRUE
    MaxRev = 4
    MaxFaults = 1
    MaxCrashes = 1
    MaxAgentRestarts = 1
    MaxCommands = 1
SYMMETRY Sym
INVARIANTS TypeOK CleanSyncExact StoreApplicable
PROPERTIES StoreMonotonic OnlyDeltas CommitLanded RestartRestores
