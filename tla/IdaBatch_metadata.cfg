SPECIFICATION Spec
CONSTANTS
    Eas <- MCEas
    Texts <- MCTexts
    Escaped <- NoText
    rendering = rendering
    Mangled = Mangled
    NoSection = NoSection
    Options <- MCResumed
    MaxRuns = 2
    MaxCtrlC = 0
INVARIANTS
    IndexedAreDescribed
CHECK_DEADLOCK FALSE
