CONSTANTS
    CPUs = {cpu1, cpu2}
    Clients = {ip1}
    Frames <- MCFrames
    ServerPort = 2049
    RingCap = 4
    EnableKernelProcessing = TRUE
    EnableKernelCache = TRUE
    ReqHandle <- MCZeroHandle
    CacheTtlSeconds = 2
    BootWall = 1000
    MaxFrames = 3
    MaxTicks = 0
SPECIFICATION Spec
SYMMETRY MCSymmetry
INVARIANTS
    TypeOK
    DecisionsCounted
    KernelReportBounded
