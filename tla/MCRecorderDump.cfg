\* Four loads of colliding and redundant code objects, with failing opens,
\* failing reads, writes cut short and the dumps of an earlier run in the directory.
CONSTANTS
    a = a
    b = b
    d = d
    e = e
    f = f
    crc1 = crc1
    crc2 = crc2
    p1 = p1
    r1 = r1
    s1 = s1
    k1 = k1
    Contents = {a, b, d, e, f}
    Crcs = {crc1, crc2}
    CrcOf <- MCCrcOf
    SizeOf <- MCSizeOf
    Ptrs = {p1}
    Hsacos = {r1}
    SymHandles = {s1}
    SymNames = {k1}
    DumpEnabled = TRUE
    IoFaults = {"open", "read", "short"}
    Leftovers = {a, e}
    NoFile = NoFile
    Partial = Partial
    MaxLoads = 4
    MaxGetInfos = 1
SPECIFICATION Spec
INVARIANTS
    TypeOK
    LoadIdsOrdered
    SavedOrReported
    VerdictsHoldOnDisk
PROPERTIES
    DumpKept
CHECK_DEADLOCK FALSE
