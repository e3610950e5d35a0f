SPECIFICATION Spec
CONSTANTS
    Lines = 5
    Icon = {2, 3}
INVARIANTS
    TypeOK
    BuffersAlive
    FrameWhole
PROPERTY
    FlushEnds
