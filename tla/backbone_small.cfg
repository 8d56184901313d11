CONSTANTS
    Vars = {1, 2, 3}
    Formulas <- AllFormulas
    MaxConfl = 4
    Overhead = 1
    CallCost = 1
SPECIFICATION Spec
INVARIANTS
    TypeOK
    UnitsAreImplied
    FindsAll
