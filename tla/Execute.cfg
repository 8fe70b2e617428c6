SPECIFICATION Spec
CONSTANTS
    Narrow = 6
    Wide = 8
    Word = 14
    SingleBits = 6
    SingleSig = 2
    DoubleBits = 8
    DoubleSig = 3
    Guests <- AllGuests
INVARIANTS TypeOK ArithmeticRounded FusedRoundsOnce ConversionsRounded OrderIsNumeric ExpansionIsAlias NarrowIsRv32 DivisionAndHalves OrdersAgree ContextKept CountsRetired
CHECK_DEADLOCK FALSE
