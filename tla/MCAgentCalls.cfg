\* Two threads make five calls with a reader and a code object whose handles are
\* used again, two rules of each kind, and calls that fail.
CONSTANTS
    a = a
    b = b
    new = new
    newB = newB
    crcA = crcA
    crcB = crcB
    crcNew = crcNew
    k = k
    Threads = {t1, t2}
    NoThread = NoThread
    Readers = {r1}
    CodeObjs = {o1}
    Execs = {e1, e2}
    ShadowExec = ShadowExec
    NamesOf <- MCNamesOf
    CoSubs <- MCCoSubs
    SymbolSubs <- MCSymbolSubs
    RtFaults = {"symbols", "init command", "replacement file"}
    AppMay = {}
    NoContent = NoContent
    NoPtr = NoPtr
    AppContents = {a, b}
    MaxCalls = 5
    Contents = {a, b, new, newB}
    Crcs = {crcA, crcB, crcNew}
    CrcOf <- MCCrcOf
    SizeOf <- MCSizeOf
    Ptrs = {p1, p2}
    SymNames = {k}
    DumpEnabled = FALSE
    IoFaults = {}
    Leftovers = {}
    NoFile = NoFile
    Partial = Partial
    MaxLoads = 4
    MaxGetInfos = 4
SPECIFICATION Spec
SYMMETRY Symmetry
INVARIANTS
    TypeOK
    HandleFindsItsLoad
    ReplacedByRule
    AnsweredByRule
    ReadersReadLiveMemory
PROPERTIES
    ImplementsAtomicAgent
CHECK_DEADLOCK FALSE
