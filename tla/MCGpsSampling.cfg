SPECIFICATION Spec
CONSTANTS
    Intervals = {0, 1, 2}
    DefaultInterval = 2
    MaxSentences = 4
    MaxTracks = 2
INVARIANTS
    TypeOK
    NoSentenceTwice
    Spaced
    
