CONSTANTS
    CPUs = {cpu1, cpu2}
    Clients = {ip1}
    Frames <- MCTestFrames
    ServerPort = 8080
    FileNames <- MCTestNames
    Disk0 <- MCTestDisk0
    Sizes <- MCSizes
    NoFile = NoFile
    RingCap = 4
    ConnTrackCap = 4096
    EnableKernelProcessing = TRUE
    EnableKernelCache = TRUE
    MaxFrames = 4
    MaxFileChanges = 0
    MaxTicks = 0
    CacheTtlSeconds = 300
SPECIFICATION Spec
SYMMETRY MCSymmetry
INVARIANTS
    HitsNeverOvercount
