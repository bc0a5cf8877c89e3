\* A deserialized code object whose memory the application used again is replaced.
CONSTANTS
    a = a
    b = b
    new = new
    newB = newB
    crcA = crcA
    crcB = crcB
    crcNew = crcNew
    k = k
    Threads = {t1}
    NoThread = NoThread
    Readers = {}
    CodeObjs = {o1, o2}
    Execs = {e1, e2}
    ShadowExec = ShadowExec
    NamesOf <- MCNamesOf
    CoSubs <- MCCoSubs
    SymbolSubs <- MCSymbolSubs
    RtFaults = {}
    AppMay = {}
    NoContent = NoContent
    NoPtr = NoPtr
    AppContents = {a, b}
    MaxCalls = 4
    Contents = {a, b, new, newB}
    Crcs = {crcA, crcB, crcNew}
    CrcOf <- MCCrcOf
    SizeOf <- MCSizeOf
    Ptrs = {p1, p2}
    SymNames = {k}
    DumpEnabled = FALSE
    IoFaults = {}
    Leftovers = {}
    NoFile = NoFile
    Partial = Partial
    MaxLoads = 4
    MaxGetInfos = 4
SPECIFICATION Spec
INVARIANTS
    ReadsLiveMemory
CHECK_DEADLOCK FALSE
