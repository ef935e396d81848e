SPECIFICATION FairSpec
CONSTANTS
    Emails = {e1, e2}
    Protos = {vless}
    Supported = {vless}
    Secrets = {s1}
    Tags = {t1}
    RouteRules = {r1}
    Buildable = {r1}
    Versions = {0}
    None = None
    SyncRetries = 1
    ManualStarts = FALSE
    HttpFaults = FALSE
    RpcFaults = FALSE
    MaxRev = 4
    MaxFaults = 0
    MaxCrashes = 0
    MaxAgentRestarts = 0
    MaxCommands = 1
PROPERTIES StaleUsersGo
