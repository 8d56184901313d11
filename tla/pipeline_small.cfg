CONSTANTS
    Vars = {1, 2, 3}
    NoVar = NoVar
    Problems <- SmallInputs
    Confs <- TwoConfs
    MaxPairs = 1
    GuessDiv = 2
    MinGuess = 1
    ForwardGroup = 1
    MaxIters = 100
    UpdatePeriod = 500
    Settings <- AllSettings
SPECIFICATION Spec
INVARIANTS
    PhasesKeepSupport
    ResultIsMinimal
    PhasesFit
PROPERTIES
    Returns
