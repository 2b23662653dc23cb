SPECIFICATION MCRegistrySpec
CONSTANTS
    analyze = analyze
    export = export
    apply = apply
    lone = lone
    plugin = plugin
    r1 = r1
    r2 = r2
    r3 = r3
    NoTask = NoTask
    NoGroup = NoGroup
    NoRun = NoRun
    Names <- MCNames
    Groups <- MCGroups
    Runs <- MCRuns
    GroupOf <- MCGroupOf
    Polling <- MCPolling
    Raising <- MCRaising
    stable = stable
    other = other
    unknown = unknown
    p1 = p1
    p2 = p2
    NoArity = NoArity
    Params <- MCParams
    Arity <- MCArity
    Shows <- MCShows
    Proposals <- MCProposals
    Temp = Temp
    NoType = NoType
    Types <- MCTypes
    Unstable <- MCUnstable
    MaxEdits = 2
    e1 = e1
    e2 = e2
    e3 = e3
    t1 = t1
    newline = newline
    digit = digit
    NoSection = NoSection
    Mangled = Mangled
    Eas <- MCEas
    Texts <- NoEscapes
    Escaped <- NoText
    Rejected <- MCRejected
    Modes <- AllModes
    MaxWrites = 4
    MaxCrashes = 2
SYMMETRY Symmetry
INVARIANTS
    SingleFlightAlways
CHECK_DEADLOCK FALSE
