CONSTANTS
    Vars = {1, 2, 3, 4, 5}
    NoVar = NoVar
    Problems <- AllInputs
    ForwardGroup = 2
    MaxIters = 2
SPECIFICATION Spec
INVARIANTS
    TypeOK
    NoFailure
    AssumesGuessAndKept
    DroppedDetermined
    GroupsSupport
    AlignedSupport
    LeavesSeenClean
