\* nfs_server_tc and main()'s loop against RequestLog, with liveness: two
\* frames and a ring of two records, so that a reserve fails and a
\* discarded record sits in the ring.  No symmetry: liveness is checked.
CONSTANTS
    CPUs = {cpu1, cpu2}
    Clients = {ip1}
    Frames <- MCFrames
    ServerPort = 2049
    RingCap = 2
    EnableKernelProcessing = TRUE
    EnableKernelCache = TRUE
    ReqHandle <- MCZeroHandle
    CacheTtlSeconds = 2
    BootWall = 1000
    MaxFrames = 2
    MaxTicks = 1
SPECIFICATION Spec
PROPERTIES
    NfsLogRefined
    SocketDrained
