CONSTANTS
    Numbers <- FewNumbers
    MaxLits = 2
    Lines <- AllLines
    MaxLines = 3
    Options <- SomeOptions
    MaxVar = 2
    NoVar = NoVar
SPECIFICATION ReaderSpec
INVARIANTS
    ReaderTypeOK
    GoodFilesWork
    LinesFollowGroups
PROPERTIES
    ReadsLines
    EndsReading
