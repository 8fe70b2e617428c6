SPECIFICATION Spec
CONSTANTS
    MAX_SOURCES = 3
    CONTEXTS = {M, S}
    MaxWord = 2
SYMMETRY ContextSymmetry
INVARIANTS ClaimedIsHeld Exclusive BestAgrees
