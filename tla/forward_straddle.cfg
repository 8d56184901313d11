CONSTANTS
    Vars = {1, 2, 3, 4}
    NoVar = NoVar
    Problems <- StraddlingInputs
    ForwardGroup = 2
    MaxIters = 2
SPECIFICATION Spec
INVARIANTS
    ForwardSupport
