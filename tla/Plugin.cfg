SPECIFICATION MCSpec
CONSTANTS
    f1 = f1
    f2 = f2
    v1 = v1
    v2 = v2
    v3 = v3
    n1 = n1
    n2 = n2
    n3 = n3
    n4 = n4
    Absent = Absent
    NoSession = NoSession
    Funcs <- MCFuncs
    Vars <- MCVars
    Located <- MCLocated
    LvarNames <- MCLvarNames
    MaxEdits = 2
    Names <- MCNames
    Known <- MCKnown
    Reserved = {"int"}
    Status = "status"
    ObjectStyle <- MCObjectStyle
    Carriers <- MCCarriers
    Fallbacks <- MCFallbacks
    ObjectStatus <- MCObjectStatus
    Suffixed <- MCSuffixed
    NoName = "none"
    Sources <- MCSources
    Rank <- MCRank
    Repeatable <- MCRepeatable
    Filtered <- MCFiltered
    Suggested <- MCSuggested
    MaxSuggestions = 4
    Helpers <- MCHelpers
    RootLists <- MCRootLists
    CallLists <- MCCallLists
    MaxDepth = 3
    MaxHelpers = 3
    Roots = {"system", "own"}
    Nothing = Nothing
    MaxSwitches = 2
    MaxAnalyses = 2
    t1 = t1
    t2 = t2
    RuleSets <- MCRuleSets
    PhaseSets <- MCPhaseSets
    Places <- MCPlaces
    Target <- MCTarget
    First <- MCFirst
    Beyond <- MCBeyond
    MatchLists <- MCMatchLists
    Refused = "refused"
    Callers <- MCCallers
    NFiles = 2
    NotListed = NotListed
    Vanished = Vanished
    MaxChanges = 2
    MaxAsks = 2
SYMMETRY Symmetry
INVARIANTS
    PluginTypeOK
    TargetsDistinct
    TargetsFresh
    AppliedNotShadowed
    ClaimOnStatusHonoured
    HelpersAccounted
    FocusFirst
    ClearedCachesFollow
    WinnersDoNotCompete
    LosersNameTheirWinner
    PacksAreCurrent
PROPERTIES
    NamesStayDistinct
    AppliesToTheAnalysedFunction
    RenamesHitTheirVariable
CHECK_DEADLOCK FALSE
