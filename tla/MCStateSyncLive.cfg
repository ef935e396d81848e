SPECIFICATION FairSpec
CONSTANTS
    Emails = {e1}
    Protos = {vless, trojan}
    Supported = {vless, trojan}
    Secrets = {s1}
    Tags = {t1}
    RouteRules = {r1, r2}
    Buildable = {r1}
    Versions = {0}
    None = None
    SyncRetries = 2
    ManualStarts = FALSE
    HttpFaults = TRUE
    RpcFaults = TRUE
    MaxRev = 4
    MaxFaults = 2
    MaxCrashes = 0
    MaxAgentRestarts = 1
    MaxCommands = 1
INVARIANT IInv
PROPERTIES ConvergesUndisturbed CommandAnswered KeepsPromise
