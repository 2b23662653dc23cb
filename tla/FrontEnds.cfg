SPECIFICATION MCSpec
CONSTANTS
    builtin = builtin
    custom = custom
    Default = builtin
    Profiles <- MCProfiles
    MaxStarts = 3
    openai = openai
    lmstudio = lmstudio
    codex = codex
    remote = remote
    local = local
    none = none
    typed = typed
    Http <- MCHttp
    Keyed <- MCKeyed
    Cli <- MCCli
    Urls <- MCUrls
    Keys <- MCKeys
    DefaultUrl <- MCDefaultUrl
    NoKey = none
    NoUrl = NoUrl
    MaxEdits = 3
    Eas <- MCEas
    Texts <- MCTexts
    Escaped <- NoText
    rendering = rendering
    Mangled = Mangled
    NoSection = NoSection
    Options <- MCOptions
    MaxRuns = 2
    MaxCtrlC = 2
    Inputs = {"first", "second", "third"}
    MaxBatches = 3
    Stub = Stub
    NoAnswer = NoAnswer
    nt = nt
    NT = NT
    amd64 = amd64
    user = user
    Paths <- MCNested
    Given <- MCSpellings
    Fold <- MCFold
    NonAscii <- MCNonAscii
    Missing = Missing
    Broken = Broken
    MaxIndexes = 2
    MaxBuilds = 2
    MaxDerived = 2
    MaxMoves = 2
    MaxKills = 1
    MaxClock = 2
INVARIANTS
    FrontEndsTypeOK
    ShownResultIsWanted
    ProfileOfScope
    SettledCatalog
    CompleteRunIsWhole
    SectionGapIsKnown
    IndexedWereExported
    StopIsOwn
    StopLeavesNoIda
    ReplayReproducesBaseline
    WholePackIsOneBuild
    ValidPackIsCurrent
PROPERTIES
    RefreshComesBack
    StopEnds
    RelocationSettles
CHECK_DEADLOCK FALSE
