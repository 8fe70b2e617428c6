SPECIFICATION Spec
CONSTANTS
    Threads = {t1, t2, t3}
    Addrs = {x, y}
    Scratch = scratch
    None = none
    Modulus = 4
SYMMETRY Interchangeable
INVARIANTS ReservationIsCurrent NoLostUpdate
