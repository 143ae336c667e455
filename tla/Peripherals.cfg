\* Every driver of a chip port, on every platform.  The RP2350 reboots at the
\* end of a panic, which stops it: no deadlock is looked for.
SPECIFICATION Spec
INVARIANTS
    I2cWireAsPromised
    NoSilentLoss
    SpiAsPromised
    TimerKeepsTime
    PwmAsPromised
    UsbLosesNothing
PROPERTIES
    ImplementsLossyLink
    EverythingReadable
    Core0NeverHangs
CHECK_DEADLOCK FALSE
CONSTANTS
    Platforms = {"rp2", "h7", "f4", "host"}
    I2cContexts = {"touch", "oled"}
    I2cPort <- MCI2cPort
    MaxPayload = 2
    Ports = {"rp2", "h7"}
    Depth <- MCDepth
    Threshold <- MCThreshold
    BufferSizes = {2, 3, 4}
    MaxRead = 2
    MaxBytes = 5
    SpiContexts = {"panel", "link", "pio"}
    SpiType <- MCSpiType
    SpiPort <- MCSpiPort
    HasReset = {"pio"}
    MaxBurst = 2
    FifoDepth = 2
    KernelRates = {0, 600}
    AskedRates = {1, 50}
    MaxTimers = 1
    HalfRange = 8
    AskedMs = {0, 1, 7}
    Garbage = {5}
    PwmPins = {"pinA", "pinB"}
    Block <- MCBlock
    Channel <- MCChannel
    MaxPwms = 2
    DmaChannels = {"d1", "d2"}
    PacingTimers = {"t1"}
    Wraps = {3}
    Dividers = {0}
    MaxDivider = 2
    MaxPrescale = 12
    PwmSourceHz = 60
    AskedHz = {1, 9}
    HandoffTimeout = 4
    PumpTime = 2
    QueueDepth = 1
    MaxStreams = 2
    LineMax = 1
    MaxLogs = 3
    MaxLines = 2
