SPECIFICATION ForgeSpec
CONSTANTS
    e1 = e1
    e2 = e2
    e3 = e3
    t1 = t1
    newline = newline
    digit = digit
    NoSection = NoSection
    Mangled = Mangled
    Eas <- MCEas
    Texts <- NoEscapes
    Escaped <- NoText
    Rejected <- NoText
    Modes <- AllModes
    MaxWrites = 5
    MaxCrashes = 1
PROPERTIES
    OthersPreserved
CHECK_DEADLOCK FALSE
