\* Kernels that end or hang, with and without a timeout; every call may fail.
CONSTANTS
    Forever = Forever
    Timeouts = {1, Forever}
    InitialSize = 1
    Sizes = {1, 2}
    Buffers = {x}
    HsaFaults <- AllHsaFaults
    MaxLoads = 2
    MaxLaunches = 2
SPECIFICATION Spec
INVARIANTS
    TypeOK
    ReturnsOwnResult
    RunningKernelsWhole
    HandlesThere
    FailedLoadsLeaveNothing
PROPERTIES
    BoundedLaunchReturns
CHECK_DEADLOCK FALSE
