CONSTANTS
    Lines <- FewLines
    MaxLines = 4
    Options <- AllOptions
    MaxVar = 4
    NoVar = NoVar
SPECIFICATION Spec
INVARIANTS
    GroupsOfInterest
