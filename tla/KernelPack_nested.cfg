SPECIFICATION PackSpec
CONSTANTS
    nt = nt
    NT = NT
    amd64 = amd64
    user = user
    Paths <- MCNested
    Given <- MCNowhere
    Fold <- MCFold
    NonAscii <- MCNowhere
    Missing = Missing
    Broken = Broken
    MaxIndexes = 1
    MaxBuilds = 1
    MaxDerived = 2
    MaxMoves = 1
    MaxKills = 0
    MaxClock = 0
INVARIANTS
    RelocationRepairs
CHECK_DEADLOCK FALSE
