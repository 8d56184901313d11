CONSTANTS
    Vars = {1, 2, 3, 4, 5, 6, 7, 8, 9, 10, 11}
    NoVar = NoVar
    Problems <- SmallInputs
    UpdatePeriod = 2
SPECIFICATION Spec
INVARIANTS
    TypeOK
    Inductive
    NoFailure
    AssumptionsAreRest
    PublishedSupports
    ResultIsWhole
    ResultIsMinimal
    DocumentedResult
PROPERTIES
    ImplementsElimination
