SPECIFICATION Spec
CHECK_DEADLOCK FALSE
CONSTANTS
    Versions = {v1, v2}
    Target = v1
    Fields = {control, github}
    Values = {x}
    Sample = Sample
    None = None
    Cut = Cut
    Whole = Whole
    MaxFaults = 2
    MaxAdmin = 3
    MaxUpdates = 0
INVARIANT CoreForAgent
