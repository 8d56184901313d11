CONSTANTS
    Vars = {1, 2, 3}
    NoVar = NoVar
    Problems <- SmallInputs
    Confs <- AllConfs
    MaxPairs = 2
SPECIFICATION PreSpec
INVARIANTS
    PreprocessingSupports
    NoDuplicateArises
