CONSTANTS
    CPUs = {cpu1, cpu2}
    Clients = {ip1}
    Frames <- MCGetattrFrames
    ServerPort = 2049
    RingCap = 4
    EnableKernelProcessing = TRUE
    EnableKernelCache = TRUE
    ReqHandle <- MCTestHandle
    CacheTtlSeconds = 2
    BootWall = 1000
    MaxFrames = 3
    MaxTicks = 1
SPECIFICATION Spec
SYMMETRY MCSymmetry
INVARIANTS
    RefreshedIsServed
