\* A reader made from a file gets the handle of a reader that was destroyed.
CONSTANTS
    a = a
    b = b
    new = new
    newB = newB
    crcA = crcA
    crcB = crcB
    crcNew = crcNew
    k = k
    Threads = {t1}
    NoThread = NoThread
    Readers = {r1}
    CodeObjs = {}
    Execs = {e1, e2}
    ShadowExec = ShadowExec
    NamesOf <- MCNamesOf
    CoSubs <- MCCoSubs
    SymbolSubs <- MCSymbolSubs
    RtFaults = {}
    AppMay = {"read files"}
    NoContent = NoContent
    NoPtr = NoPtr
    AppContents = {a, b}
    MaxCalls = 4
    Contents = {a, b, new, newB}
    Crcs = {crcA, crcB, crcNew}
    CrcOf <- MCCrcOf
    SizeOf <- MCSizeOf
    Ptrs = {p1, p2}
    SymNames = {k}
    DumpEnabled = FALSE
    IoFaults = {}
    Leftovers = {}
    NoFile = NoFile
    Partial = Partial
    MaxLoads = 4
    MaxGetInfos = 4
SPECIFICATION Spec
INVARIANTS
    ReplacedByRule
CHECK_DEADLOCK FALSE
