CONSTANTS
    N = 3
    Inputs <- SmallInputs
    Simp = TRUE
SPECIFICATION ResultSpec
INVARIANTS
    CountIsKept
    CallsDecideSeparation
    EliminatedUnused
