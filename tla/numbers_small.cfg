CONSTANTS
    Files <- SmallFiles
    ChunkLimit = 2
    Half = 16
    HighestVar = 2
SPECIFICATION NumberSpec
INVARIANTS
    NumberTypeOK
    DeliversFile
    ReadsWhatFits
    RefusesOnlyTooHigh
    WrongIsTooLarge
