SPECIFICATION Spec
CONSTANTS
    Wrap <- MCWrap
    Duration <- MCDuration
INVARIANTS
    TypeOK
    WaitGuarded
    NoEarlyTimeout
PROPERTY
    WaitsEnd
