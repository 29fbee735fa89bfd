CONSTANTS
    CPUs = {cpu1}
    Clients = {ip1}
    Frames <- MCDocRootFrames
    ServerPort = 8080
    FileNames <- MCDocRootNames
    Disk0 <- MCDocRootDisk0
    Sizes <- MCSizes
    NoFile = NoFile
    RingCap = 4
    ConnTrackCap = 4096
    EnableKernelProcessing = TRUE
    EnableKernelCache = TRUE
    MaxFrames = 3
    MaxFileChanges = 1
    MaxTicks = 1
    CacheTtlSeconds = 300
SPECIFICATION Spec
PROPERTIES
    SocketDrained
