SPECIFICATION ForgeSpec
CONSTANTS
    e1 = e1
    e2 = e2
    e3 = e3
    t1 = t1
    newline = newline
    digit = digit
    NoSection = NoSection
    Mangled = Mangled
    Eas <- MCEas
    Texts <- MCTexts
    Escaped <- MCEscaped
    Rejected <- MCRejected
    Modes <- AllModes
    MaxWrites = 3
    MaxCrashes = 0
PROPERTIES
    StoresWhatWasRendered
CHECK_DEADLOCK FALSE
