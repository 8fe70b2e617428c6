SPECIFICATION DriverSpec
CONSTANTS
    MAX_SOURCES = 2
    CONTEXTS = {m, s}
    CONTEXT_MACHINE = m
    CONTEXT_SUPERVISOR = s
    MaxWord = 1
    Bytes = {0, 1}
    MaxQueue = 3
    UART_IRQ = 1
    DEVICE_POLL_INTERVAL = 4
    TimeModulus = 1
    Buffers = {}
    Guests <- DriverOnly
    Context = s
    MaxTyped = 3
PROPERTIES ConsoleIsChannel NoStorm
