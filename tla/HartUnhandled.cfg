SPECIFICATION Spec
CONSTANTS
    Pcs = {8}
    EntryPc = 8
    Guests <- VectoredOnly
INVARIANT UnhandledVectorsToZero
CHECK_DEADLOCK FALSE
