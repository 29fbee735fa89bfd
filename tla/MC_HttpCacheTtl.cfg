CONSTANTS
    CPUs = {cpu1, cpu2}
    Clients = {ip1}
    Frames <- MCFrames
    ServerPort = 8080
    FileNames <- MCServedNames
    Disk0 <- MCServedDisk0
    Sizes <- MCSizes
    NoFile = NoFile
    RingCap = 4
    ConnTrackCap = 4096
    EnableKernelProcessing = TRUE
    EnableKernelCache = TRUE
    MaxFrames = 2
    MaxFileChanges = 1
    MaxTicks = 1
    CacheTtlSeconds = 1
SPECIFICATION Spec
SYMMETRY MCSymmetry
INVARIANTS
    HitTrustworthy
