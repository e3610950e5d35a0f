CONSTANTS
    Byte = {b1, b2}
    Zero = b1
    BufSize = 4
    Wraps = 3
SPECIFICATION FairSpec
INVARIANTS
    TypeOK
    NeverLapped
    GetKeepsItsByte
PROPERTIES
    ImplementsQueue
    WaitingIsTaken
