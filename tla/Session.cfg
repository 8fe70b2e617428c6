SPECIFICATION Spec
CONSTANTS
    DRAM_BASE = 4
    DramSize = 6
    KERNEL_OFFSET = 2
    DTB_RESERVE = 2
    Byte = 4
    Invocations <- AllInvocations
INVARIANTS LoadedAsLinked StatusIsThePayloads
PROPERTIES RunIsOneLoop
CHECK_DEADLOCK FALSE
