CONSTANTS
    Vars = {1, 2, 3, 4}
    NoVar = NoVar
    Problems <- SmallInputs
    GuessDiv = 3
    MinGuess = 1
SPECIFICATION Spec
INVARIANTS
    DroppedDetermined
    GuessSupports
