\* Code objects of two sizes that share a CRC, and no fault: the file of the
\* longer one is read back for the shorter ones.
CONSTANTS
    a = a
    b = b
    d = d
    e = e
    f = f
    crc1 = crc1
    crc2 = crc2
    p1 = p1
    r1 = r1
    s1 = s1
    k1 = k1
    Contents = {a, b, d, e, f}
    Crcs = {crc1, crc2}
    CrcOf <- MCCrcOf
    SizeOf <- MCSizeOf
    Ptrs = {p1}
    Hsacos = {r1}
    SymHandles = {s1}
    SymNames = {k1}
    DumpEnabled = TRUE
    IoFaults = {}
    Leftovers = {}
    NoFile = NoFile
    Partial = Partial
    MaxLoads = 3
    MaxGetInfos = 1
SPECIFICATION Spec
INVARIANTS
    ComparedWithinBuffer
CHECK_DEADLOCK FALSE
