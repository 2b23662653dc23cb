SPECIFICATION StudioSpec
CONSTANTS
    builtin = builtin
    custom = custom
    Default = builtin
    Profiles <- MCProfiles
    MaxStarts = 3
INVARIANTS
    StopReachesTheRun
CHECK_DEADLOCK FALSE
