SPECIFICATION CacheSpec
CONSTANTS
    Roots = {"system", "own"}
    Nothing = Nothing
    MaxSwitches = 2
    MaxAnalyses = 2
INVARIANTS
    SwitchClearsCachedData
CHECK_DEADLOCK FALSE
