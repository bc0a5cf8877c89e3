\* The return code 1 is required, and is what the command exits with.
CONSTANTS
    gpu = gpu
    cpu = cpu
    addr1 = addr1
    size1 = size1
    addr3 = addr3
    path1 = path1
    path3 = path3
    logFile = logFile
    file = file
    crc = crc
    kernel = kernel
    Absent = Absent
    Mistyped = Mistyped
    OutOfRange = OutOfRange
    HsaAgents = {gpu, cpu}
    RegionsOf <- MCRegionsOf
    Docs <- MCDocsReturn1
    Names = {addr1, size1, addr3}
    Paths = {path1, path3}
    Nothing = Nothing
    ExitCodes = {0, 1}
    Signals = {9}
    Faults = {}
    Addresses = {m1, m2, m3, m4}
    Data = {x, y}
SPECIFICATION Spec
INVARIANTS
    AbortedByReturnCode
CHECK_DEADLOCK FALSE
