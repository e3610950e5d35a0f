SPECIFICATION FairSpec
CONSTANTS
    TaskCapacity = 2
    ArgCapacity = 4
    ByteRange = 2
INVARIANTS
    TypeOK
    ArgumentsMatchTasks
    AnsweredAsAsked
PROPERTIES
    Drained
