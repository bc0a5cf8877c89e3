\* Every outside call may fail and the application has every habit: the mutex,
\* the once-only initialization, whose rule answers a query, and that every call
\* returns.
CONSTANTS
    a = a
    b = b
    new = new
    newB = newB
    crcA = crcA
    crcB = crcB
    crcNew = crcNew
    k = k
    Threads = {t1, t2}
    NoThread = NoThread
    Readers = {r1}
    CodeObjs = {}
    Execs = {e1, e2}
    ShadowExec = ShadowExec
    NamesOf <- MCNamesOf
    CoSubs <- MCCoSubs
    SymbolSubs <- MCSymbolSubsByLoad
    RtFaults = {"load", "replacement load", "shadow", "executable", "symbols", "init command", "prepare", "replacement file"}
    AppMay = {"destroy executables", "load again", "fill executables", "read files"}
    NoContent = NoContent
    NoPtr = NoPtr
    AppContents = {a}
    MaxCalls = 5
    Contents = {a, b, new, newB}
    Crcs = {crcA, crcB, crcNew}
    CrcOf <- MCCrcOf
    SizeOf <- MCSizeOf
    Ptrs = {p1}
    SymNames = {k}
    DumpEnabled = FALSE
    IoFaults = {}
    Leftovers = {}
    NoFile = NoFile
    Partial = Partial
    MaxLoads = 4
    MaxGetInfos = 4
SPECIFICATION FairSpec
INVARIANTS
    MutexHeldInHandlers
    InitOnceBeforeLoads
PROPERTIES
    AnsweredForItsExecutable
    EveryCallReturns
CHECK_DEADLOCK FALSE
