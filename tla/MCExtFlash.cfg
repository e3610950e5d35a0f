SPECIFICATION Spec
INVARIANTS
    TypeOK
    Powered
