SPECIFICATION Spec
CONSTANTS
    alice = alice
    Alice = Alice
    bob = bob
    Emails = {Alice, bob}
    Keys = {alice, bob}
    Lower <- LowerEmail
    None = None
    MaxBytes = 2
    MaxEdits = 3
    MaxFaults = 1
    MaxCrashes = 1
    MaxAgentRestarts = 1
INVARIANTS TypeOK NeverOverReport ResetConserves DeltaConserves NoUsageAcrossAbsence
