SPECIFICATION Spec
CONSTANTS
    Entries = 2
    Ram = {0, 1, 2, 4}
    TLB_ENTRIES = 2
    Guests <- FencedGuests
INVARIANTS HitIsWalk
PROPERTIES PageFaultIsAtomic UserConfined
CHECK_DEADLOCK FALSE
