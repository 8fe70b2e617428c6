SPECIFICATION Spec
CONSTANTS
    Entries = 2
    Ram = {0, 1, 2, 4}
    TLB_ENTRIES = 2
    Guests <- CrossingGuest
PROPERTIES FaultIsAtomic
CHECK_DEADLOCK FALSE
