SPECIFICATION FairSpec
CONSTANTS
    HeaderSize = 2
    AckHeaderSize = 3
    Widths <- MCWidths
    FifoSize = 13
    IndexRange = 26
    MaxFaults = 2
INVARIANTS
    TypeOK
    

    
    
CHECK_DEADLOCK FALSE
