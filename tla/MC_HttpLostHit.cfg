CONSTANTS
    CPUs = {cpu1, cpu2}
    Clients = {ip1}
    Frames <- MCFrames
    ServerPort = 8080
    FileNames <- MCFileNames
    Disk0 <- MCDisk0
    Sizes <- MCSizes
    NoFile = NoFile
    RingCap = 4
    ConnTrackCap = 4096
    EnableKernelProcessing = TRUE
    EnableKernelCache = TRUE
    MaxFrames = 3
    MaxFileChanges = 0
    MaxTicks = 0
    CacheTtlSeconds = 300
SPECIFICATION Spec
INVARIANTS
    HitsExact
