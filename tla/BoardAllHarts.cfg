SPECIFICATION Spec
CONSTANTS
    MAX_SOURCES = 2
    CONTEXTS = {m, s}
    CONTEXT_MACHINE = m
    CONTEXT_SUPERVISOR = s
    MaxWord = 1
    Bytes = {0}
    MaxQueue = 2
    UART_IRQ = 1
    DEVICE_POLL_INTERVAL = 4
    TimeModulus = 4
    Buffers <- SomeBuffers
    Guests <- Rv32KernelOnly
INVARIANT EveryHartReached
