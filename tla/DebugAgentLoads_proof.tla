---- MODULE DebugAgentLoads_proof ----
(***************************************************************************)
(* Proofs about the handles of the application and the records that the    *)
(* library finds by them: that a handle is found under the load that       *)
(* returned it last, and that what is loaded into executables follows the  *)
(* rules, for any number of threads, handles, buffers, rules and calls.    *)
(***************************************************************************)
EXTENDS DebugAgent_proof

----------------------------------------------------------------------------
(* What a step does to handles, buffers and records                        *)

\* A call that is about to return a handle.
IsLoad(t) == call[t].for = "load" /\ call[t].loaded
Loading(t, h) == IsLoad(t) /\ call[t].hsaco = h

\* No load begins or ends.
SameLoads == \A t \in Threads : IsLoad(t) \/ IsLoad(t)' => call'[t] = call[t]

\* No record is added, and none changes but in its symbols.
SameRecords ==
    /\ Positions' = Positions
    /\ \A i \in Positions : /\ codeObjects'[i].id = codeObjects[i].id
                            /\ codeObjects'[i].ptr = codeObjects[i].ptr
                            /\ codeObjects'[i].content = codeObjects[i].content
                            /\ codeObjects'[i].hsaco = codeObjects[i].hsaco

\* Memory that is in use is not written to.
SafeMemory == \A p \in Ptrs : BufferUsed(p) => memory'[p] = memory[p]

\* A step that neither makes, destroys nor records a handle.
HandlesQuiet ==
    SameLoads /\ SameRecords /\ SafeMemory /\ UNCHANGED hsacos

Frees(h) ==
    /\ SameLoads /\ SameRecords /\ UNCHANGED memory
    /\ ~HsacoUsed(h)
    /\ hsacos' = [hsacos EXCEPT ![h] = Dead]

Reads(h) ==
    /\ SameLoads /\ SameRecords /\ UNCHANGED memory
    /\ "read files" \in AppMay
    /\ ~IsLive(h) /\ ~HsacoUsed(h)
    /\ \E content \in Contents :
          hsacos' = [hsacos EXCEPT ![h] = [Dead EXCEPT !.content = content]]

Creates(t, h, ptr, content) ==
    /\ SameRecords /\ SafeMemory
    /\ ~IsLive(h) /\ ~HsacoUsed(h)
    /\ ~IsLoad(t)
    /\ memory' = [memory EXCEPT ![ptr] = content]
    /\ hsacos' = [hsacos EXCEPT ![h] = [content |-> content, ptr |-> ptr, id |-> 0]]
    /\ call'[t] = [for |-> "load", hsaco |-> h, ptr |-> ptr, loaded |-> TRUE]
    /\ \A u \in Threads \ {t} : call'[u] = call[u]

\* The handle that thread t is about to return is recorded.
Records(t) ==
    LET c == call[t] IN
    /\ IsLoad(t) /\ ~IsLoad(t)'
    /\ \A u \in Threads \ {t} : call'[u] = call[u]
    /\ UNCHANGED memory
    /\ hsacos' = [hsacos EXCEPT ![c.hsaco].id = loadCallCounter + 1]
    /\ 1 \in Positions' /\ Positions' \subseteq Nat \ {0}
    /\ codeObjects'[1] = NewRecord(c.ptr, memory[c.ptr], c.hsaco)
    /\ \A i \in Positions : i + 1 \in Positions' /\ codeObjects'[i + 1] = codeObjects[i]
    /\ \A i \in Positions' : i # 1 =>
          i - 1 \in Positions /\ codeObjects'[i] = codeObjects[i - 1]

HandlesMove ==
    \/ HandlesQuiet
    \/ \E h \in Hsacos : Frees(h) \/ Reads(h)
    \/ \E t \in Threads, h \in Hsacos, ptr \in Ptrs, content \in Contents :
          Creates(t, h, ptr, content)
    \/ \E t \in Threads : Records(t)

LEMMA SameUnchanged ==
    /\ UNCHANGED codeObjects => SameRecords
    /\ UNCHANGED call => SameLoads
    /\ UNCHANGED memory => SafeMemory
BY DEF SameRecords, SameLoads, SafeMemory, IsLoad, Positions

\* A thread that moves from a place that is no load to another one.
LEMMA NoLoadMoves ==
    ASSUME TypeInv, NEW t \in Threads, NEW label, NEW c, Moves(t, label, c),
           ~IsLoad(t), ~(c.for = "load" /\ c.loaded)
    PROVE  SameLoads
BY DEF Moves, SameLoads, IsLoad

LEMMA ApplicationMovesHandles ==
    ASSUME TypeInv, Application
    PROVE  HandlesMove
<1>1. ASSUME NEW h \in Hsacos, DestroyHsaco(h) PROVE HandlesMove
  BY <1>1, SameUnchanged DEF DestroyHsaco, recorderVars, HandlesMove, Frees
<1>2. ASSUME NEW e \in Execs, DestroyExec(e) PROVE HandlesMove
  BY <1>2, SameUnchanged DEF DestroyExec, recorderVars, HandlesMove, HandlesQuiet
<1>3. ASSUME NEW h \in Hsacos, NEW content \in AppContents, ReadFile(h, content)
      PROVE  HandlesMove
  BY <1>3, SameUnchanged, AgentAssumption DEF ReadFile, recorderVars, HandlesMove, Reads
<1>4. ASSUME NEW t \in Threads, NEW label \in Labels, NEW c, Begin(t, label, c)
      PROVE  /\ ~IsLoad(t) /\ call'[t] = c
             /\ \A u \in Threads \ {t} : call'[u] = call[u]
             /\ ~(c.for = "load" /\ c.loaded) => SameLoads
  <2>1. pc[t] = "idle" /\ call[t] = NoCall /\ Moves(t, label, c)
    BY <1>4, Beginning
  <2>2. ~IsLoad(t)
    BY <2>1 DEF IsLoad, NoCall
  <2>. QED
    BY <2>1, <2>2, NoLoadMoves DEF Moves
<1>5. ASSUME NEW t \in Threads, NEW h \in Hsacos, NEW ptr \in Ptrs,
             NEW content \in AppContents, CreateFromMemory(t, h, ptr, content)
      PROVE  HandlesMove
  <2>. DEFINE c(loaded) == [for |-> "load", hsaco |-> h, ptr |-> ptr, loaded |-> loaded]
  <2>1. content \in Contents
    BY AgentAssumption
  <2>2. /\ BufferUsed(ptr) => memory[ptr] = content
        /\ memory' = [memory EXCEPT ![ptr] = content]
        /\ UNCHANGED recorderVars
    BY <1>5 DEF CreateFromMemory
  <2>3. SafeMemory
    BY <2>2 DEF SafeMemory, TypeInv, TypeOK
  <2>4. SameRecords
    BY <2>2, SameUnchanged DEF recorderVars
  <2>5. CASE /\ ~IsLive(h) /\ ~HsacoUsed(h)
             /\ hsacos' = [hsacos EXCEPT ![h] = [content |-> content, ptr |-> ptr, id |-> 0]]
             /\ Begin(t, "record_co_load", c(TRUE))
    <3>1. ~IsLoad(t) /\ call'[t] = c(TRUE) /\ \A u \in Threads \ {t} : call'[u] = call[u]
      BY <1>4, <2>5 DEF Labels
    <3>2. Creates(t, h, ptr, content)
      BY <2>2, <2>3, <2>4, <2>5, <3>1 DEF Creates
    <3>. QED
      BY <2>1, <3>2 DEF HandlesMove
  <2>6. CASE UNCHANGED hsacos /\ Begin(t, "record_co_load", c(FALSE))
    <3>1. SameLoads
      BY <1>4, <2>6 DEF Labels
    <3>. QED
      BY <2>3, <2>4, <2>6, <3>1 DEF HandlesMove, HandlesQuiet
  <2>. QED
    BY <1>5, <2>5, <2>6 DEF CreateFromMemory
<1>6. ASSUME NEW t \in Threads, NEW label \in Labels, NEW c, Begin(t, label, c),
             c.for # "load", UNCHANGED <<runtimeVars, recorderVars>>
      PROVE  HandlesMove
  BY <1>4, <1>6, SameUnchanged DEF runtimeVars, recorderVars, HandlesMove, HandlesQuiet
<1>7. ASSUME NEW t \in Threads, CreateQueue(t) PROVE HandlesMove
  BY <1>6, <1>7 DEF CreateQueue, Labels
<1>8. ASSUME NEW t \in Threads, NEW h \in Hsacos, NEW e \in Execs, LoadIntoExec(t, h, e)
      PROVE  HandlesMove
  BY <1>6, <1>8 DEF LoadIntoExec, Labels
<1>9. ASSUME NEW t \in Threads, NEW s \in Execs \X SymNames,
             NEW attribute \in {"name", "kernel object"}, GetInfo(t, s, attribute)
      PROVE  HandlesMove
  <2>. DEFINE c == [for |-> "info", symbol |-> s, attribute |-> attribute,
                    number |-> 0, answer |-> 0]
  <2>1. Begin(t, "symbol_get_info", c) /\ UNCHANGED <<agentVars, runtimeVars, recorderVars>>
    BY <1>9 DEF GetInfo
  <2>2. c \in InfoCall
    BY DEF InfoCall
  <2>. HIDE DEF c
  <2>3. c.for # "load"
    BY <2>2 DEF InfoCall
  <2>. QED
    BY <1>6, <2>1, <2>3 DEF Labels
<1>. QED
  BY <1>1, <1>2, <1>3, <1>5, <1>7, <1>8, <1>9 DEF Application

LEMMA RecordStores ==
    ASSUME TypeInv, NEW t \in Threads, record_co_load(t)
    PROVE  Records(t) \/ (UNCHANGED codeObjects /\ HandlesQuiet)
<1>. DEFINE c == call[t]
<1>1. c \in LoadCall
  BY DEF record_co_load, TypeInv, TypeOK, LocalsAt
<1>2. /\ c.for = "load" /\ c.ptr \in Ptrs /\ c.hsaco \in Hsacos /\ c.loaded \in BOOLEAN
      /\ memory[c.ptr] \in Contents
  <2>1. c.for = "load" => memory[c.ptr] \in Contents
    BY DEF TypeInv, LocalsInv
  <2>. QED
    BY <1>1, <2>1 DEF LoadCall
<1>3. /\ Recorder!record_code_object(c.ptr, memory[c.ptr], c.hsaco, c.loaded)
      /\ hsacos' = IF c.loaded THEN [hsacos EXCEPT ![c.hsaco].id = loadCallCounter']
                   ELSE hsacos
      /\ UNCHANGED memory /\ Return(t)
  BY DEF record_co_load
<1>4. Moves(t, "idle", NoCall)
  BY <1>3, Returning
<1>5. ~IsLoad(t)' /\ \A u \in Threads \ {t} : call'[u] = call[u]
  BY <1>4 DEF Moves, IsLoad, NoCall
<1>6. Recorder!TypeOK /\ Recorder!LoadIdsOrdered
  BY DEF TypeInv, TypeOK
<1>7. CASE c.loaded
  <2>. HIDE DEF c
  <2>1. /\ loadCallCounter' = loadCallCounter + 1
        /\ Positions' = 1..(Len(codeObjects) + 1)
        /\ codeObjects'[1] = NewRecord(c.ptr, memory[c.ptr], c.hsaco)
        /\ \A i \in Positions : i + 1 \in Positions' /\ codeObjects'[i + 1] = codeObjects[i]
        /\ \A i \in Positions' : i # 1 =>
             i - 1 \in Positions /\ codeObjects'[i] = codeObjects[i - 1]
    BY <1>2, <1>3, <1>6, <1>7, LoadStep
  <2>2. 1 \in Positions' /\ Positions' \subseteq Nat \ {0}
    BY <2>1, RecordAt, <1>6
  <2>3. IsLoad(t)
    BY <1>2, <1>7 DEF IsLoad, c
  <2>. QED
    BY <1>3, <1>5, <1>7, <2>1, <2>2, <2>3 DEF Records, c
<1>8. CASE ~c.loaded
  <2>1. codeObjects' = codeObjects /\ hsacos' = hsacos
    BY <1>2, <1>3, <1>6, <1>8, LoadStep
  <2>2. SameLoads
    BY <1>5, <1>8 DEF SameLoads, IsLoad
  <2>. QED
    BY <1>3, <2>1, <2>2, SameUnchanged DEF HandlesQuiet
<1>. QED
  BY <1>2, <1>7, <1>8

LEMMA RecordMovesHandles ==
    ASSUME TypeInv, NEW t \in Threads, record_co_load(t)
    PROVE  HandlesMove
BY RecordStores DEF HandlesMove

LEMMA NotLoading ==
    ASSUME TypeInv, NEW t \in Threads, pc[t] # "record_co_load"
    PROVE  call[t].for # "load"
<1>1. pc[t] \in Labels /\ LocalsAt(t)
  BY DEF TypeInv, TypeOK
<1>2. call[t] \in {NoCall} \cup QueueCall \cup ExecCall \cup InfoCall
  BY <1>1 DEF Labels, LocalsAt
<1>3. NoCall.for # "load" /\ \A c \in QueueCall : c.for # "load"
  BY DEF NoCall, QueueCall
<1>4. (\A c \in ExecCall : c.for # "load") /\ \A c \in InfoCall : c.for # "load"
  BY DEF ExecCall, InfoCall
<1>. QED
  BY <1>2, <1>3, <1>4

\* The other handlers neither make nor record handles.
LEMMA QuietMove ==
    ASSUME TypeInv, NEW t \in Threads, pc[t] # "record_co_load",
           NEW label \in Labels, Goto(t, label),
           \/ UNCHANGED call
           \/ \E c : Locals(t, c) /\ c.for # "load",
           UNCHANGED <<memory, hsacos>>, SameRecords
    PROVE  HandlesMove
<1>1. call[t].for # "load"
  BY NotLoading
<1>2. SameLoads
  <2>1. CASE UNCHANGED call
    BY <2>1, SameUnchanged
  <2>2. CASE \E c : Locals(t, c) /\ c.for # "load"
    BY <1>1, <2>2, Moving, NoLoadMoves DEF IsLoad, TypeInv
  <2>. QED
    BY <2>1, <2>2
<1>. QED
  BY <1>2, SameUnchanged DEF HandlesMove, HandlesQuiet

\* The symbols of a record are replaced, and nothing else of it.
LEMMA SymbolsRecorded ==
    ASSUME TypeInv, NEW t \in Threads, pc[t] = "enum_symbols",
           Recorder!record_symbols(RecordOf(call[t].co), [s \in EnumSymbols(t) |-> s[2]])
    PROVE  /\ SameRecords
           /\ RecordOf(call[t].co) \in Positions
           /\ FoundCo(t).id = call[t].co
           /\ \A j \in Positions : codeObjects'[j].symbols =
                IF j = RecordOf(call[t].co) THEN [s \in EnumSymbols(t) |-> s[2]]
                ELSE codeObjects[j].symbols
<1>. DEFINE symbols == [s \in EnumSymbols(t) |-> s[2]]
            i == RecordOf(call[t].co)
<1>1. symbols \in Recorder!SymbolMaps
  BY SymbolsTyped
<1>2. i \in Positions /\ FoundCo(t).id = call[t].co
  <2>1. PICK j \in Positions : codeObjects[j].id = call[t].co
    BY LoadingLocals DEF LocalsInv, InLoad
  <2>2. i = j
    BY <2>1, RecordOfId DEF TypeInv, TypeOK
  <2>. QED
    BY <2>1, <2>2 DEF FoundCo
<1>. HIDE DEF symbols, i
<1>3. /\ Positions' = Positions
      /\ \A j \in Positions : codeObjects'[j] =
           IF j = i THEN [codeObjects[i] EXCEPT !.symbols = symbols] ELSE codeObjects[j]
  BY <1>1, <1>2, SymbolsStep DEF TypeInv, TypeOK, symbols, i
<1>4. \A j \in Positions : codeObjects[j] \in Recorder!RecordedCodeObject
  BY RecordAt DEF TypeInv, TypeOK
<1>5. SameRecords /\ \A j \in Positions : codeObjects'[j].symbols =
                        IF j = i THEN symbols ELSE codeObjects[j].symbols
  BY <1>2, <1>3, <1>4 DEF SameRecords, Recorder!RecordedCodeObject
<1>. QED
  BY <1>2, <1>5 DEF symbols, i

LEMMA HandlerMovesHandles ==
    ASSUME TypeInv, NEW t \in Threads, Handler(t)
    PROVE  HandlesMove
<1>. USE DEF runtimeVars
<1>1. NoCall.for # "load"
  BY DEF NoCall
<1>2. ASSUME Return(t)
      PROVE  Goto(t, "idle") /\ \E c : Locals(t, c) /\ c.for # "load"
  BY <1>1, <1>2 DEF Return
<1>3. UNCHANGED recorderVars => SameRecords
  BY SameUnchanged DEF recorderVars
<1>4. ASSUME FailLocked(t), pc[t] # "record_co_load"
      PROVE  HandlesMove
  BY <1>2, <1>3, <1>4, QuietMove DEF FailLocked, Labels
<1>5. ASSUME AfterInit(t), pc[t] # "record_co_load", UNCHANGED <<runtimeVars, recorderVars>>
      PROVE  HandlesMove
  <2>1. CASE Return(t)
    BY <1>2, <1>3, <1>5, <2>1, QuietMove DEF Labels
  <2>2. CASE Goto(t, "find") /\ UNCHANGED call
    BY <1>3, <1>5, <2>2, QuietMove DEF Labels, InLoad
  <2>. QED
    BY <1>5, <2>1, <2>2 DEF AfterInit
<1>6. ASSUME execute_init_command_once(t), pc[t] # "record_co_load",
             UNCHANGED <<runtimeVars, recorderVars>>
      PROVE  HandlesMove
  <2>1. CASE AfterInit(t)
    BY <1>5, <1>6, <2>1
  <2>2. CASE Goto(t, "init_command") /\ UNCHANGED call
    BY <1>3, <1>6, <2>2, QuietMove DEF Labels, InInit
  <2>. QED
    BY <1>6, <2>1, <2>2 DEF execute_init_command_once
<1>7. CASE record_queue_creation(t)
  BY <1>6, <1>7 DEF record_queue_creation
<1>8. CASE executable_load_co(t)
  BY <1>6, <1>8 DEF executable_load_co
<1>9. CASE run_init_command(t)
  <2>1. pc[t] # "record_co_load" /\ UNCHANGED <<runtimeVars, recorderVars>>
    BY <1>9 DEF run_init_command
  <2>2. CASE Goto(t, "prepare") /\ UNCHANGED call
    BY <1>3, <2>1, <2>2, QuietMove DEF Labels, InInit
  <2>3. CASE Return(t)
    BY <1>2, <1>3, <2>1, <2>3, QuietMove DEF Labels
  <2>. QED
    BY <1>9, <2>2, <2>3 DEF run_init_command
<1>10. CASE prepare_symbol_substitutes(t)
  BY <1>5, <1>10 DEF prepare_symbol_substitutes
<1>11. CASE find_code_object(t)
  <2>1. /\ pc[t] # "record_co_load" /\ UNCHANGED <<runtimeVars, recorderVars>>
        /\ \E label \in InLoad : Goto(t, label)
    BY <1>11 DEF find_code_object, InLoad
  <2>2. call[t] \in ExecCall
    BY <1>11, LoadingLocals DEF find_code_object, InLoad
  <2>3. UNCHANGED call \/ \E co, sub : Locals(t, [[call[t] EXCEPT !.co = co] EXCEPT !.sub = sub])
                       \/ \E id : Locals(t, [call[t] EXCEPT !.co = id])
    BY <1>11 DEF find_code_object
  <2>4. \A id, sub : /\ [call[t] EXCEPT !.co = id].for # "load"
                     /\ [[call[t] EXCEPT !.co = id] EXCEPT !.sub = sub].for # "load"
    BY <2>2 DEF ExecCall
  <2>. QED
    BY <1>3, <2>1, <2>3, <2>4, QuietMove DEF Labels
<1>12. CASE load_from_memory(t)
  BY <1>3, <1>4, <1>12, QuietMove DEF load_from_memory, Labels, InLoad
<1>13. CASE create_executable(t)
  <2>1. pc[t] # "record_co_load" /\ call[t] \in ExecCall
    BY <1>13, LoadingLocals DEF create_executable, InLoad
  <2>2. \A p : [call[t] EXCEPT !.shadow = p].for # "load"
    BY <2>1 DEF ExecCall
  <2>. QED
    BY <1>3, <1>4, <1>13, <2>1, <2>2, QuietMove DEF create_executable, Labels, InLoad
<1>14. CASE loader(t)
  <2>1. pc[t] # "record_co_load"
    BY <1>14 DEF loader
  <2>2. CASE FailLocked(t)
    BY <1>4, <2>1, <2>2
  <2>3. CASE /\ UNCHANGED <<memory, hsacos, recorderVars>>
             /\ Return(t) \/ (Goto(t, "enum_symbols") /\ UNCHANGED call)
    BY <1>2, <1>3, <2>1, <2>3, QuietMove DEF Labels, InLoad
  <2>. QED
    BY <1>14, <2>2, <2>3 DEF loader
<1>15. CASE enum_executable_symbols(t)
  <2>1. /\ pc[t] = "enum_symbols" /\ Return(t) /\ UNCHANGED <<memory, hsacos>>
        /\ \/ Recorder!record_symbols(RecordOf(call[t].co), [s \in EnumSymbols(t) |-> s[2]])
           \/ UNCHANGED recorderVars
    BY <1>15 DEF enum_executable_symbols
  <2>2. SameRecords
    BY <1>3, <2>1, SymbolsRecorded
  <2>. QED
    BY <1>2, <2>1, <2>2, QuietMove DEF Labels
<1>16. CASE symbol_get_info(t)
  <2>1. /\ pc[t] = "symbol_get_info" /\ Goto(t, "runtime_get_info")
        /\ UNCHANGED <<memory, hsacos, codeObjects>>
        /\ \E n, a : Locals(t, [call[t] EXCEPT !.number = n, !.answer = a])
    BY <1>16 DEF symbol_get_info, Recorder!record_get_info
  <2>2. call[t] \in InfoCall
    BY <2>1 DEF TypeInv, TypeOK, LocalsAt
  <2>3. \A n, a : [call[t] EXCEPT !.number = n, !.answer = a].for # "load"
    BY <2>2 DEF InfoCall
  <2>. QED
    BY <2>1, <2>3, SameUnchanged, QuietMove DEF Labels
<1>17. CASE RuntimeGetInfo(t)
  BY <1>2, <1>3, <1>17, QuietMove DEF RuntimeGetInfo, Labels
<1>. QED
  BY <1>7, <1>8, <1>9, <1>10, <1>11, <1>12, <1>13, <1>14, <1>15, <1>16, <1>17,
     RecordMovesHandles DEF Handler

LEMMA NextMovesHandles ==
    ASSUME TypeInv, [Next]_vars
    PROVE  HandlesMove
<1>1. CASE UNCHANGED vars
  BY <1>1, SameUnchanged DEF vars, runtimeVars, recorderVars, HandlesMove, HandlesQuiet
<1>. QED
  BY <1>1, ApplicationMovesHandles, HandlerMovesHandles DEF Next

----------------------------------------------------------------------------
(* A handle is found under its load                                        *)

\* The handles that calls are about to return are new, of the memory the calls
\* were given, and each belongs to one call.
LoadsInFlight ==
    \A t \in Threads : \A h \in Hsacos : Loading(t, h) =>
        /\ hsacos[h].content = memory[call[t].ptr]
        /\ hsacos[h].ptr = call[t].ptr
        /\ hsacos[h].id = 0
        /\ \A u \in Threads : Loading(u, h) => u = t

\* The record at position i is the newest of the handle.
NewestOf(h, i) ==
    /\ codeObjects[i].hsaco = h
    /\ \A j \in Positions : codeObjects[j].hsaco = h => i <= j

RecordsOfHandle(h, i) ==
    /\ NewestOf(h, i)
    /\ codeObjects[i].id = hsacos[h].id
    /\ codeObjects[i].content = hsacos[h].content
    /\ codeObjects[i].ptr = hsacos[h].ptr

HandlesRecorded ==
    \A h \in Hsacos : IsLive(h) /\ hsacos[h].id # 0 =>
        \E i \in Positions : RecordsOfHandle(h, i)

\* The memory of a reader outlives it.
ReadersHoldMemory ==
    \A h \in Readers : IsLive(h) /\ hsacos[h].ptr # NoPtr =>
        memory[hsacos[h].ptr] = hsacos[h].content

HandleInv == LoadsInFlight /\ HandlesRecorded /\ ReadersHoldMemory

\* A search among records that only changed in their symbols ends where it did.
LEMMA RecordedSame ==
    ASSUME TypeInv, SameRecords, NEW h, NEW i \in Positions,
           RecordsOfHandle(h, i), hsacos'[h] = hsacos[h]
    PROVE  i \in Positions' /\ RecordsOfHandle(h, i)'
BY DEF SameRecords, RecordsOfHandle, NewestOf

\* A handle that is used is neither destroyed nor made.
LEMMA LoadingUses ==
    ASSUME NEW t \in Threads, NEW h, Loading(t, h)
    PROVE  HsacoUsed(h) /\ BufferUsed(call[t].ptr)
BY DEF Loading, IsLoad, HsacoUsed, BufferUsed

LEMMA LoadingTyped ==
    ASSUME TypeInv, NEW t \in Threads, IsLoad(t)
    PROVE  call[t].ptr \in Ptrs /\ call[t].hsaco \in Hsacos
           /\ memory[call[t].ptr] \in Contents
<1>1. call[t] \in LoadCall /\ LocalsInv(t)
  BY LocalsTyped DEF IsLoad, TypeInv
<1>. QED
  BY <1>1 DEF LoadCall, LocalsInv

\* What keeps a load in flight as it is.
LEMMA InFlightSame ==
    ASSUME TypeInv, LoadsInFlight, NEW t \in Threads, NEW h \in Hsacos,
           Loading(t, h)', call'[t] = call[t], hsacos'[h] = hsacos[h], SafeMemory,
           \A u \in Threads : Loading(u, h)' => call'[u] = call[u]
    PROVE  /\ hsacos'[h].content = memory'[call'[t].ptr]
           /\ hsacos'[h].ptr = call'[t].ptr
           /\ hsacos'[h].id = 0
           /\ \A u \in Threads : Loading(u, h)' => u = t
<1>1. Loading(t, h)
  BY DEF Loading, IsLoad
<1>2. memory'[call[t].ptr] = memory[call[t].ptr]
  BY <1>1, LoadingUses, LoadingTyped DEF SafeMemory, Loading
<1>3. \A u \in Threads : Loading(u, h)' => Loading(u, h)
  BY DEF Loading, IsLoad
<1>. QED
  BY <1>1, <1>2, <1>3 DEF LoadsInFlight

LEMMA QuietKeepsHandleInv ==
    ASSUME TypeInv, HandleInv, SameRecords, SafeMemory, SameLoads, DOMAIN hsacos' = Hsacos,
           \A h \in Hsacos : \/ hsacos'[h] = hsacos[h]
                             \/ hsacos'[h].content = NoContent /\ ~HsacoUsed(h)
                             \/ hsacos'[h].id = 0 /\ hsacos'[h].ptr = NoPtr /\ ~HsacoUsed(h)
    PROVE  HandleInv'
<1>1. LoadsInFlight'
  <2>. SUFFICES ASSUME NEW t \in Threads, NEW h \in Hsacos, Loading(t, h)'
                PROVE  /\ hsacos'[h].content = memory'[call'[t].ptr]
                       /\ hsacos'[h].ptr = call'[t].ptr
                       /\ hsacos'[h].id = 0
                       /\ \A u \in Threads : Loading(u, h)' => u = t
    BY DEF LoadsInFlight
  <2>1. \A u \in Threads : Loading(u, h)' => call'[u] = call[u]
    BY DEF SameLoads, Loading
  <2>2. Loading(t, h)
    BY <2>1 DEF Loading, IsLoad
  <2>3. HsacoUsed(h)
    BY <2>2, LoadingUses
  <2>. QED
    BY <2>1, <2>3, InFlightSame DEF HandleInv
<1>2. HandlesRecorded'
  <2>. SUFFICES ASSUME NEW h \in Hsacos, IsLive(h)', hsacos'[h].id # 0
                PROVE  \E i \in Positions' : RecordsOfHandle(h, i)'
    BY DEF HandlesRecorded
  <2>1. hsacos'[h] = hsacos[h] /\ IsLive(h)
    BY DEF IsLive
  <2>2. PICK i \in Positions : RecordsOfHandle(h, i)
    BY <2>1 DEF HandleInv, HandlesRecorded
  <2>. QED
    BY <2>1, <2>2, RecordedSame
<1>3. ReadersHoldMemory'
  <2>. SUFFICES ASSUME NEW h \in Readers, IsLive(h)', hsacos'[h].ptr # NoPtr
                PROVE  memory'[hsacos'[h].ptr] = hsacos'[h].content
    BY DEF ReadersHoldMemory
  <2>1. h \in Hsacos
    BY DEF Hsacos
  <2>2. hsacos'[h] = hsacos[h] /\ IsLive(h)
    BY <2>1 DEF IsLive
  <2>3. BufferUsed(hsacos[h].ptr)
    BY <2>2 DEF BufferUsed
  <2>4. hsacos[h].ptr \in Ptrs
    BY <2>1, <2>2 DEF TypeInv, TypeOK
  <2>. QED
    BY <2>2, <2>3, <2>4 DEF SafeMemory, HandleInv, ReadersHoldMemory
<1>. QED
  BY <1>1, <1>2, <1>3 DEF HandleInv

LEMMA CreateKeepsHandleInv ==
    ASSUME TypeInv, HandleInv, NEW t \in Threads, NEW h \in Hsacos, NEW ptr \in Ptrs,
           NEW content \in Contents, Creates(t, h, ptr, content)
    PROVE  HandleInv'
<1>1. /\ SameRecords /\ SafeMemory /\ ~IsLive(h) /\ ~HsacoUsed(h)
      /\ memory' = [memory EXCEPT ![ptr] = content]
      /\ hsacos' = [hsacos EXCEPT ![h] = [content |-> content, ptr |-> ptr, id |-> 0]]
      /\ call'[t] = [for |-> "load", hsaco |-> h, ptr |-> ptr, loaded |-> TRUE]
      /\ \A u \in Threads \ {t} : call'[u] = call[u]
  BY DEF Creates
<1>2. /\ hsacos'[h] = [content |-> content, ptr |-> ptr, id |-> 0]
      /\ \A g \in Hsacos \ {h} : hsacos'[g] = hsacos[g]
      /\ memory'[ptr] = content
  BY <1>1 DEF TypeInv, TypeOK
<1>3. \A u \in Threads \ {t} : ~Loading(u, h)'
  <2>1. \A u \in Threads : ~Loading(u, h)
    BY <1>1, LoadingUses
  <2>. QED
    BY <1>1, <2>1 DEF Loading, IsLoad
<1>4. \A g : Loading(t, g)' => g = h
  BY <1>1 DEF Loading, IsLoad
<1>5. LoadsInFlight'
  <2>. SUFFICES ASSUME NEW u \in Threads, NEW g \in Hsacos, Loading(u, g)'
                PROVE  /\ hsacos'[g].content = memory'[call'[u].ptr]
                       /\ hsacos'[g].ptr = call'[u].ptr
                       /\ hsacos'[g].id = 0
                       /\ \A v \in Threads : Loading(v, g)' => v = u
    BY DEF LoadsInFlight
  <2>1. CASE u = t
    BY <1>1, <1>2, <1>3, <1>4, <2>1
  <2>2. CASE u # t
    <3>1. g # h
      BY <1>3, <2>2
    <3>2. \A v \in Threads : Loading(v, g)' => call'[v] = call[v]
      BY <1>1, <1>4, <3>1
    <3>. QED
      BY <1>1, <1>2, <2>2, <3>1, <3>2, InFlightSame DEF HandleInv
  <2>. QED
    BY <2>1, <2>2
<1>6. HandlesRecorded'
  <2>. SUFFICES ASSUME NEW g \in Hsacos, IsLive(g)', hsacos'[g].id # 0
                PROVE  \E i \in Positions' : RecordsOfHandle(g, i)'
    BY DEF HandlesRecorded
  <2>1. hsacos'[g] = hsacos[g] /\ IsLive(g)
    BY <1>2 DEF IsLive
  <2>2. PICK i \in Positions : RecordsOfHandle(g, i)
    BY <2>1 DEF HandleInv, HandlesRecorded
  <2>. QED
    BY <1>1, <2>1, <2>2, RecordedSame
<1>7. ReadersHoldMemory'
  <2>. SUFFICES ASSUME NEW g \in Readers, IsLive(g)', hsacos'[g].ptr # NoPtr
                PROVE  memory'[hsacos'[g].ptr] = hsacos'[g].content
    BY DEF ReadersHoldMemory
  <2>1. CASE g = h
    BY <1>2, <2>1
  <2>2. CASE g # h
    <3>1. g \in Hsacos /\ hsacos'[g] = hsacos[g] /\ IsLive(g)
      BY <1>2, <2>2 DEF IsLive, Hsacos
    <3>2. BufferUsed(hsacos[g].ptr) /\ hsacos[g].ptr \in Ptrs
      BY <3>1 DEF BufferUsed, TypeInv, TypeOK
    <3>. QED
      BY <1>1, <3>1, <3>2 DEF SafeMemory, HandleInv, ReadersHoldMemory
  <2>. QED
    BY <2>1, <2>2
<1>. QED
  BY <1>5, <1>6, <1>7 DEF HandleInv

LEMMA RecordKeepsHandleInv ==
    ASSUME TypeInv, HandleInv, NEW t \in Threads, Records(t)
    PROVE  HandleInv'
<1>0. PICK h \in Hsacos, ptr \in Ptrs : h = call[t].hsaco /\ ptr = call[t].ptr
  BY LoadingTyped DEF Records
<1>1. /\ IsLoad(t) /\ ~IsLoad(t)'
      /\ \A u \in Threads \ {t} : call'[u] = call[u]
      /\ UNCHANGED memory
      /\ hsacos' = [hsacos EXCEPT ![h].id = loadCallCounter + 1]
      /\ 1 \in Positions' /\ Positions' \subseteq Nat \ {0}
      /\ codeObjects'[1] = NewRecord(ptr, memory[ptr], h)
      /\ \A i \in Positions : i + 1 \in Positions' /\ codeObjects'[i + 1] = codeObjects[i]
      /\ \A i \in Positions' : i # 1 =>
           i - 1 \in Positions /\ codeObjects'[i] = codeObjects[i - 1]
  BY <1>0 DEF Records
<1>2. Loading(t, h)
  BY <1>0, <1>1 DEF Loading
<1>3. /\ hsacos'[h] = [hsacos[h] EXCEPT !.id = loadCallCounter + 1]
      /\ \A g \in Hsacos \ {h} : hsacos'[g] = hsacos[g]
  BY <1>1, <1>2 DEF TypeInv, TypeOK
<1>4. /\ hsacos'[h].id = loadCallCounter + 1 /\ hsacos'[h].ptr = ptr
      /\ hsacos'[h].content = memory[ptr]
  <2>1. hsacos[h].content = memory[ptr] /\ hsacos[h].ptr = ptr
    BY <1>0, <1>2 DEF HandleInv, LoadsInFlight
  <2>2. hsacos[h] \in [content : Contents \cup {NoContent}, ptr : Ptrs \cup {NoPtr}, id : Nat]
    BY <1>2 DEF TypeInv, TypeOK
  <2>. QED
    BY <1>3, <2>1, <2>2
<1>5. \A u \in Threads : ~Loading(u, h)'
  <2>1. \A u \in Threads \ {t} : ~Loading(u, h)
    BY <1>2 DEF HandleInv, LoadsInFlight
  <2>. QED
    BY <1>1, <2>1 DEF Loading, IsLoad
<1>6. /\ \A i \in Positions : i \in Nat \ {0}
      /\ \A i \in Positions' : i \in Nat \ {0}
  BY <1>1, RecordAt DEF TypeInv, TypeOK
<1>7. LoadsInFlight'
  <2>. SUFFICES ASSUME NEW u \in Threads, NEW g \in Hsacos, Loading(u, g)'
                PROVE  /\ hsacos'[g].content = memory'[call'[u].ptr]
                       /\ hsacos'[g].ptr = call'[u].ptr
                       /\ hsacos'[g].id = 0
                       /\ \A v \in Threads : Loading(v, g)' => v = u
    BY DEF LoadsInFlight
  <2>1. \A v \in Threads : Loading(v, g)' => call'[v] = call[v]
    BY <1>1 DEF Loading
  <2>2. g # h
    BY <1>5
  <2>. QED
    BY <1>1, <1>3, <2>1, <2>2, InFlightSame DEF HandleInv, SafeMemory
<1>8. HandlesRecorded'
  <2>. SUFFICES ASSUME NEW g \in Hsacos, IsLive(g)', hsacos'[g].id # 0
                PROVE  \E i \in Positions' : RecordsOfHandle(g, i)'
    BY DEF HandlesRecorded
  <2>1. CASE g = h
    <3>1. \A j \in Positions' : 1 <= j
      BY <1>6
    <3>2. /\ codeObjects'[1].hsaco = h /\ codeObjects'[1].ptr = ptr
          /\ codeObjects'[1].id = loadCallCounter + 1
          /\ codeObjects'[1].content = memory[ptr]
      BY <1>1 DEF NewRecord
    <3>3. RecordsOfHandle(g, 1)'
      BY <1>4, <2>1, <3>1, <3>2 DEF RecordsOfHandle, NewestOf
    <3>. QED
      BY <1>1, <3>3
  <2>2. CASE g # h
    <3>1. hsacos'[g] = hsacos[g] /\ IsLive(g)
      BY <1>3, <2>2 DEF IsLive
    <3>2. PICK i \in Positions : RecordsOfHandle(g, i)
      BY <3>1 DEF HandleInv, HandlesRecorded
    <3>3. i + 1 \in Positions' /\ codeObjects'[i + 1] = codeObjects[i]
      BY <1>1
    <3>4. ASSUME NEW j \in Positions', codeObjects'[j].hsaco = g
          PROVE  i + 1 <= j
      <4>1. j # 1
        BY <1>1, <2>2, <3>4 DEF NewRecord
      <4>2. j - 1 \in Positions /\ codeObjects'[j] = codeObjects[j - 1]
        BY <1>1, <4>1
      <4>3. i <= j - 1
        BY <3>2, <3>4, <4>2 DEF RecordsOfHandle, NewestOf
      <4>. QED
        BY <1>6, <4>3
    <3>5. RecordsOfHandle(g, i + 1)'
      BY <3>1, <3>2, <3>3, <3>4 DEF RecordsOfHandle, NewestOf
    <3>. QED
      BY <3>3, <3>5
  <2>. QED
    BY <2>1, <2>2
<1>9. ReadersHoldMemory'
  <2>. SUFFICES ASSUME NEW g \in Readers, IsLive(g)', hsacos'[g].ptr # NoPtr
                PROVE  memory'[hsacos'[g].ptr] = hsacos'[g].content
    BY DEF ReadersHoldMemory
  <2>1. CASE g = h
    BY <1>1, <1>4, <2>1
  <2>2. CASE g # h
    BY <1>1, <1>3, <2>2 DEF IsLive, HandleInv, ReadersHoldMemory, Hsacos
  <2>. QED
    BY <2>1, <2>2
<1>. QED
  BY <1>7, <1>8, <1>9 DEF HandleInv

LEMMA NextKeepsHandleInv ==
    ASSUME TypeInv, HandleInv, [Next]_vars
    PROVE  HandleInv'
<1>1. DOMAIN hsacos = Hsacos /\ Dead.content = NoContent /\ Dead.id = 0 /\ Dead.ptr = NoPtr
  BY DEF TypeInv, TypeOK, Dead
<1>2. CASE HandlesQuiet
  BY <1>1, <1>2, QuietKeepsHandleInv DEF HandlesQuiet
<1>3. ASSUME NEW h \in Hsacos, Frees(h) PROVE HandleInv'
  BY <1>1, <1>3, SameUnchanged, QuietKeepsHandleInv DEF Frees
<1>4. ASSUME NEW h \in Hsacos, Reads(h) PROVE HandleInv'
  <2>1. PICK content \in Contents :
          hsacos' = [hsacos EXCEPT ![h] = [Dead EXCEPT !.content = content]]
    BY <1>4 DEF Reads
  <2>2. hsacos'[h].id = 0 /\ hsacos'[h].ptr = NoPtr
    BY <1>1, <2>1 DEF Dead
  <2>. QED
    BY <1>1, <1>4, <2>1, <2>2, SameUnchanged, QuietKeepsHandleInv DEF Reads
<1>. QED
  BY <1>2, <1>3, <1>4, NextMovesHandles, CreateKeepsHandleInv, RecordKeepsHandleInv
  DEF HandlesMove

LEMMA HandleInvCorrect == Spec => []HandleInv
<1>1. Init => HandleInv
  <2>. SUFFICES ASSUME Init PROVE HandleInv
    OBVIOUS
  <2>1. \A h \in Hsacos : ~IsLive(h)
    BY DEF Init, IsLive, Dead
  <2>2. \A t \in Threads : ~IsLoad(t)
    BY DEF Init, IsLoad, NoCall
  <2>. QED
    BY <2>1, <2>2 DEF HandleInv, LoadsInFlight, HandlesRecorded, ReadersHoldMemory,
                      Loading, Hsacos
<1>. QED
  BY <1>1, NextKeepsHandleInv, TypeInvCorrect, PTL DEF Spec

LEMMA HandleFoundByLoad ==
    ASSUME TypeInv, HandleInv PROVE HandleFindsItsLoad
<1>. SUFFICES ASSUME NEW h \in Hsacos, IsLive(h), hsacos[h].id # 0
              PROVE  LET i == Recorder!find_code_object(h)
                     IN  i # 0 /\ codeObjects[i].id = hsacos[h].id
                               /\ codeObjects[i].content = hsacos[h].content
  BY DEF HandleFindsItsLoad
<1>. DEFINE i == Recorder!find_code_object(h)
<1>1. PICK j \in Positions : RecordsOfHandle(h, j)
  BY DEF HandleInv, HandlesRecorded
<1>2. codeObjects[j].hsaco = h
  BY <1>1 DEF RecordsOfHandle, NewestOf
<1>3. /\ i # 0 /\ i \in Positions /\ codeObjects[i].hsaco = h /\ i <= j
  BY <1>2, HandleFound DEF TypeInv, TypeOK
<1>4. j <= i
  BY <1>1, <1>3 DEF RecordsOfHandle, NewestOf
<1>5. i = j
  BY <1>3, <1>4, RecordAt DEF TypeInv, TypeOK
<1>. QED
  BY <1>1, <1>3, <1>5 DEF RecordsOfHandle

\* HandleFindsItsLoad holds in every reachable state.
THEOREM HandlesFindTheirLoads == Spec => []HandleFindsItsLoad
BY HandleFoundByLoad, TypeInvCorrect, HandleInvCorrect, PTL

----------------------------------------------------------------------------
(* What is loaded into executables                                         *)

\* The application reads no code objects from files: the library is told of
\* every code object that is loaded.
AllRecorded == "read files" \notin AppMay

\* A handle that is in use is recorded, or about to be.
LiveAreLoads ==
    \A h \in Hsacos : IsLive(h) /\ hsacos[h].id = 0 => \E t \in Threads : Loading(t, h)

RuleOf(h) == Atomic!Rule(hsacos[h].id, hsacos[h].content)
PastFind == InLoad \ {"find"}

\* The handle that is loaded is not being made, and past the search the locals
\* of the call are those of its load, if it was recorded.
FollowsRule(t) ==
    LET c == call[t] IN
    c.for = "executable" =>
        /\ \A u \in Threads : ~Loading(u, c.hsaco)
        /\ hsacos[c.hsaco].id # 0 /\ pc[t] \in PastFind =>
             /\ c.co = hsacos[c.hsaco].id
             /\ c.sub # 0 => c.sub = RuleOf(c.hsaco)
             /\ c.sub = 0 => RuleOf(c.hsaco) = 0 \/ "replacement file" \in RtFaults

\* What an executable is loaded with is what the rules ask for.
LoadedByRule(l) ==
    LET rule == Atomic!Rule(l.id, l.was)
    IN  \/ /\ l.id # 0 /\ rule # 0
           /\ l.by = rule /\ l.is = CoSubs[rule].content
        \/ /\ l.by = 0 /\ l.is = l.was
           /\ l.id # 0 /\ rule # 0 => "replacement file" \in RtFaults
RecordedByRule == \A e \in Execs : \A l \in execs[e] : l.id # 0 => LoadedByRule(l)

RuleInv == (\A t \in Threads : FollowsRule(t)) /\ RecordedByRule

\* If all is recorded, so is what is being loaded, and what is in executables.
RecordedInv ==
    /\ LiveAreLoads
    /\ \A t \in Threads : call[t].for = "executable" => hsacos[call[t].hsaco].id # 0
    /\ \A e \in Execs : \A l \in execs[e] : l.id # 0

\* What a step does to a call that loads into an executable.
KeepsPlace(t) ==
    /\ call[t].for = "executable"
    /\ call'[t].hsaco = call[t].hsaco
    /\ call'[t].co = call[t].co /\ call'[t].sub = call[t].sub
    /\ pc'[t] \in PastFind => pc[t] \in PastFind

ExecMove(t) ==
    \/ call'[t].for # "executable"
    \/ \E h \in Hsacos, e \in Execs : LoadIntoExec(t, h, e)
    \/ find_code_object(t)
    \/ KeepsPlace(t)

LEMMA PlaceKept ==
    ASSUME NEW t \in Threads, NEW label, NEW c, Moves(t, label, c),
           c.for = "executable" => /\ call[t].for = "executable"
                                   /\ c.hsaco = call[t].hsaco
                                   /\ c.co = call[t].co /\ c.sub = call[t].sub
                                   /\ label \in PastFind => pc[t] \in PastFind
    PROVE  \A u \in Threads : ExecMove(u)
BY DEF Moves, ExecMove, KeepsPlace

LEMMA SameStays ==
    ASSUME UNCHANGED <<pc, call>>
    PROVE  \A u \in Threads : ExecMove(u)
BY DEF ExecMove, KeepsPlace

LEMMA ApplicationMovesExecs ==
    ASSUME TypeInv, Application
    PROVE  \A u \in Threads : ExecMove(u)
<1>1. ASSUME NEW h \in Hsacos,
             DestroyHsaco(h) \/ \E content \in AppContents : ReadFile(h, content)
      PROVE  \A u \in Threads : ExecMove(u)
  BY <1>1, SameStays DEF DestroyHsaco, ReadFile
<1>2. ASSUME NEW e \in Execs, DestroyExec(e) PROVE \A u \in Threads : ExecMove(u)
  BY <1>2, SameStays DEF DestroyExec
<1>3. ASSUME NEW t \in Threads, NEW label \in Labels, NEW c, Begin(t, label, c),
             c.for # "executable"
      PROVE  \A u \in Threads : ExecMove(u)
  BY <1>3, Beginning, PlaceKept
<1>4. ASSUME NEW t \in Threads, NEW h \in Hsacos, NEW ptr \in Ptrs,
             NEW content \in AppContents, CreateFromMemory(t, h, ptr, content)
      PROVE  \A u \in Threads : ExecMove(u)
  <2>1. PICK loaded \in BOOLEAN :
          Begin(t, "record_co_load",
                [for |-> "load", hsaco |-> h, ptr |-> ptr, loaded |-> loaded])
    BY <1>4 DEF CreateFromMemory
  <2>. QED
    BY <1>3, <2>1 DEF Labels
<1>5. ASSUME NEW t \in Threads, CreateQueue(t) PROVE \A u \in Threads : ExecMove(u)
  BY <1>3, <1>5 DEF CreateQueue, Labels
<1>6. ASSUME NEW t \in Threads, NEW h \in Hsacos, NEW e \in Execs, LoadIntoExec(t, h, e)
      PROVE  \A u \in Threads : ExecMove(u)
  <2>. DEFINE c == [for |-> "executable", hsaco |-> h, exec |-> e, co |-> 0,
                    sub |-> 0, shadow |-> NoContent]
  <2>1. Begin(t, "executable_load_co", c)
    BY <1>6 DEF LoadIntoExec
  <2>. HIDE DEF c
  <2>2. Moves(t, "executable_load_co", c)
    BY <2>1, Beginning DEF Labels
  <2>3. \A u \in Threads \ {t} : ExecMove(u)
    BY <2>2 DEF Moves, ExecMove, KeepsPlace
  <2>. QED
    BY <1>6, <2>3 DEF ExecMove
<1>7. ASSUME NEW t \in Threads, NEW s \in Execs \X SymNames,
             NEW attribute \in {"name", "kernel object"}, GetInfo(t, s, attribute)
      PROVE  \A u \in Threads : ExecMove(u)
  <2>. DEFINE c == [for |-> "info", symbol |-> s, attribute |-> attribute,
                    number |-> 0, answer |-> 0]
  <2>1. Begin(t, "symbol_get_info", c)
    BY <1>7 DEF GetInfo
  <2>2. c \in InfoCall
    BY DEF InfoCall
  <2>. HIDE DEF c
  <2>3. c.for # "executable"
    BY <2>2 DEF InfoCall
  <2>. QED
    BY <1>3, <2>1, <2>3 DEF Labels
<1>. QED
  BY <1>1, <1>2, <1>4, <1>5, <1>6, <1>7 DEF Application

LEMMA HandlerMovesExecs ==
    ASSUME TypeInv, NEW t \in Threads, Handler(t)
    PROVE  \A u \in Threads : ExecMove(u)
<1>. USE DEF PastFind
<1>1. ASSUME Return(t) PROVE \A u \in Threads : ExecMove(u)
  <2>1. Moves(t, "idle", NoCall) /\ NoCall.for # "executable"
    BY <1>1, Returning DEF NoCall
  <2>. QED
    BY <2>1, PlaceKept
<1>2. ASSUME NEW label \in Labels, Goto(t, label), UNCHANGED call,
             label \in PastFind => pc[t] \in PastFind
      PROVE  \A u \in Threads : ExecMove(u)
  BY <1>2, Moving, PlaceKept DEF TypeInv
<1>3. FailLocked(t) => \A u \in Threads : ExecMove(u)
  BY <1>1 DEF FailLocked
<1>4. AfterInit(t) => \A u \in Threads : ExecMove(u)
  BY <1>1, <1>2 DEF AfterInit, Labels, InLoad
<1>5. execute_init_command_once(t) => \A u \in Threads : ExecMove(u)
  BY <1>2, <1>4 DEF execute_init_command_once, Labels, InInit, InLoad
<1>6. CASE \/ record_co_load(t) \/ RuntimeGetInfo(t)
  BY <1>1, <1>6 DEF record_co_load, RuntimeGetInfo
<1>7. CASE record_queue_creation(t) \/ executable_load_co(t)
  BY <1>5, <1>7 DEF record_queue_creation, executable_load_co
<1>8. CASE run_init_command(t)
  BY <1>1, <1>2, <1>8 DEF run_init_command, Labels, InInit, InLoad
<1>9. CASE prepare_symbol_substitutes(t)
  BY <1>4, <1>9 DEF prepare_symbol_substitutes
<1>10. CASE find_code_object(t)
  <2>1. \E label \in Labels : \E c : Moves(t, label, c)
    BY <1>10, Moving DEF find_code_object, Labels, InLoad, TypeInv
  <2>2. \A u \in Threads \ {t} : ExecMove(u)
    BY <2>1 DEF Moves, ExecMove, KeepsPlace
  <2>. QED
    BY <1>10, <2>2 DEF ExecMove
<1>11. CASE load_from_memory(t)
  BY <1>2, <1>3, <1>11 DEF load_from_memory, Labels, InLoad
<1>12. CASE create_executable(t)
  <2>1. CASE FailLocked(t)
    BY <1>3, <2>1
  <2>2. ASSUME NEW p, Goto(t, "load"), Locals(t, [call[t] EXCEPT !.shadow = p])
        PROVE  \A u \in Threads : ExecMove(u)
    <3>1. pc[t] \in PastFind
      BY <1>12 DEF create_executable, InLoad
    <3>2. call[t] \in ExecCall /\ call[t].for = "executable"
      BY <3>1, LoadingLocals
    <3>. DEFINE c == [call[t] EXCEPT !.shadow = p]
    <3>3. c.hsaco = call[t].hsaco /\ c.co = call[t].co /\ c.sub = call[t].sub
      BY <3>2 DEF ExecCall
    <3>4. Moves(t, "load", c)
      BY <2>2, Moving DEF TypeInv, Labels, InLoad
    <3>. HIDE DEF c
    <3>. QED
      BY <3>1, <3>2, <3>3, <3>4, PlaceKept
  <2>. QED
    BY <1>12, <2>1, <2>2 DEF create_executable
<1>13. CASE loader(t)
  BY <1>1, <1>2, <1>3, <1>13 DEF loader, Labels, InLoad
<1>14. CASE enum_executable_symbols(t)
  BY <1>1, <1>14 DEF enum_executable_symbols
<1>15. CASE symbol_get_info(t)
  <2>1. PICK n, a : Locals(t, [call[t] EXCEPT !.number = n, !.answer = a])
    BY <1>15 DEF symbol_get_info
  <2>2. call[t] \in InfoCall
    BY <1>15 DEF symbol_get_info, TypeInv, TypeOK, LocalsAt
  <2>. DEFINE c == [call[t] EXCEPT !.number = n, !.answer = a]
  <2>3. c.for # "executable"
    BY <2>2 DEF InfoCall
  <2>4. Goto(t, "runtime_get_info") /\ "runtime_get_info" \in Labels
    BY <1>15 DEF symbol_get_info, Labels
  <2>. HIDE DEF c
  <2>5. Moves(t, "runtime_get_info", c)
    BY <2>1, <2>4, Moving DEF TypeInv, c
  <2>. QED
    BY <2>3, <2>5, PlaceKept
<1>. QED
  BY <1>6, <1>7, <1>8, <1>9, <1>10, <1>11, <1>12, <1>13, <1>14, <1>15 DEF Handler

LEMMA NextMovesExecs ==
    ASSUME TypeInv, [Next]_vars
    PROVE  \A u \in Threads : ExecMove(u)
<1>1. CASE UNCHANGED vars
  BY <1>1, SameStays DEF vars
<1>. QED
  BY <1>1, ApplicationMovesExecs, HandlerMovesExecs DEF Next

\* The rule that the agent finds for a record is the one that its load and its
\* content ask for.
LEMMA RuleOfRecord ==
    ASSUME NEW co
    PROVE  substitute(co) = Atomic!Rule(co.id, co.content)
BY DEF substitute, Atomic!Rule, Recorder!Crc, SelectInSeq, Atomic!SelectInSeq,
       Min, Atomic!Min

LEMMA NextKeepsLive ==
    ASSUME TypeInv, HandleInv, LiveAreLoads, AllRecorded, [Next]_vars
    PROVE  LiveAreLoads'
<1>. SUFFICES ASSUME NEW h \in Hsacos, IsLive(h)', hsacos'[h].id = 0
              PROVE  \E t \in Threads : Loading(t, h)'
  BY DEF LiveAreLoads
<1>1. ASSUME SameLoads, hsacos'[h] = hsacos[h] PROVE \E t \in Threads : Loading(t, h)'
  <2>1. PICK t \in Threads : Loading(t, h)
    BY <1>1 DEF LiveAreLoads, IsLive
  <2>. QED
    BY <1>1, <2>1 DEF SameLoads, Loading, IsLoad
<1>2. CASE HandlesQuiet
  BY <1>1, <1>2 DEF HandlesQuiet
<1>3. ASSUME NEW g \in Hsacos, Frees(g) PROVE \E t \in Threads : Loading(t, h)'
  BY <1>1, <1>3 DEF Frees, IsLive, Dead, TypeInv, TypeOK
<1>4. ASSUME NEW g \in Hsacos, Reads(g) PROVE FALSE
  BY <1>4 DEF Reads, AllRecorded
<1>5. ASSUME NEW t \in Threads, NEW g \in Hsacos, NEW ptr \in Ptrs,
             NEW content \in Contents, Creates(t, g, ptr, content)
      PROVE  \E u \in Threads : Loading(u, h)'
  <2>1. /\ ~IsLoad(t)
        /\ hsacos' = [hsacos EXCEPT ![g] = [content |-> content, ptr |-> ptr, id |-> 0]]
        /\ call'[t] = [for |-> "load", hsaco |-> g, ptr |-> ptr, loaded |-> TRUE]
        /\ \A u \in Threads \ {t} : call'[u] = call[u]
    BY <1>5 DEF Creates
  <2>2. CASE h = g
    BY <2>1, <2>2 DEF Loading, IsLoad
  <2>3. CASE h # g
    <3>1. hsacos'[h] = hsacos[h]
      BY <2>1, <2>3 DEF TypeInv, TypeOK
    <3>2. PICK u \in Threads : Loading(u, h)
      BY <3>1 DEF LiveAreLoads, IsLive
    <3>3. u # t
      BY <2>1, <3>2 DEF Loading
    <3>. QED
      BY <2>1, <3>2, <3>3 DEF Loading, IsLoad
  <2>. QED
    BY <2>2, <2>3
<1>6. ASSUME NEW t \in Threads, Records(t) PROVE \E u \in Threads : Loading(u, h)'
  <2>1. PICK g \in Hsacos : g = call[t].hsaco
    BY <1>6, LoadingTyped DEF Records
  <2>2. /\ \A u \in Threads \ {t} : call'[u] = call[u]
        /\ hsacos' = [hsacos EXCEPT ![g].id = loadCallCounter + 1]
    BY <1>6, <2>1 DEF Records
  <2>3. loadCallCounter + 1 # 0
    BY DEF TypeInv, TypeOK, Recorder!TypeOK
  <2>4. hsacos \in [Hsacos -> [content : Contents \cup {NoContent},
                              ptr : Ptrs \cup {NoPtr}, id : Nat]]
    BY DEF TypeInv, TypeOK
  <2>5. h # g /\ hsacos'[h] = hsacos[h]
    BY <2>2, <2>3, <2>4
  <2>6. PICK u \in Threads : Loading(u, h)
    BY <2>5 DEF LiveAreLoads, IsLive
  <2>. QED
    BY <2>1, <2>2, <2>5, <2>6 DEF Loading, IsLoad
<1>. QED
  BY <1>2, <1>3, <1>4, <1>5, <1>6, NextMovesHandles DEF HandlesMove

\* The handle that a call loads from stays what it is.
LEMMA UsedHandleStays ==
    ASSUME TypeInv, HandleInv, [Next]_vars, NEW t \in Threads, FollowsRule(t),
           call[t].for = "executable", NEW h \in Hsacos, h = call[t].hsaco
    PROVE  hsacos'[h] = hsacos[h] /\ \A u \in Threads : ~Loading(u, h)'
<1>1. HsacoUsed(h) /\ IsLive(h) /\ \A u \in Threads : ~Loading(u, h)
  BY DEF HsacoUsed, TypeInv, LocalsInv, FollowsRule
<1>2. DOMAIN hsacos = Hsacos
  BY DEF TypeInv, TypeOK
<1>3. SameLoads => \A u \in Threads : ~Loading(u, h)'
  BY <1>1 DEF SameLoads, Loading, IsLoad
<1>4. CASE HandlesQuiet
  BY <1>3, <1>4 DEF HandlesQuiet
<1>5. ASSUME NEW g \in Hsacos, Frees(g) \/ Reads(g)
      PROVE  hsacos'[h] = hsacos[h] /\ \A u \in Threads : ~Loading(u, h)'
  BY <1>1, <1>2, <1>3, <1>5 DEF Frees, Reads
<1>6. ASSUME NEW u \in Threads, NEW g \in Hsacos, NEW ptr \in Ptrs,
             NEW content \in Contents, Creates(u, g, ptr, content)
      PROVE  hsacos'[h] = hsacos[h] /\ \A v \in Threads : ~Loading(v, h)'
  BY <1>1, <1>2, <1>6 DEF Creates, Loading, IsLoad
<1>7. ASSUME NEW u \in Threads, Records(u)
      PROVE  hsacos'[h] = hsacos[h] /\ \A v \in Threads : ~Loading(v, h)'
  <2>1. PICK g \in Hsacos : g = call[u].hsaco /\ Loading(u, g)
    BY <1>7, LoadingTyped DEF Records, Loading
  <2>2. g # h
    BY <1>1, <2>1
  <2>3. hsacos'[h] = hsacos[h]
    BY <1>2, <1>7, <2>1, <2>2 DEF Records
  <2>4. ~IsLoad(u)' /\ \A v \in Threads \ {u} : call'[v] = call[v]
    BY <1>7 DEF Records
  <2>. QED
    BY <1>1, <2>3, <2>4 DEF Loading, IsLoad
<1>. QED
  BY <1>4, <1>5, <1>6, <1>7, NextMovesHandles DEF HandlesMove

\* The search leaves the call its handle.
LEMMA FoundForHandle ==
    ASSUME TypeInv, NEW t \in Threads, find_code_object(t)
    PROVE  call[t].for = "executable" /\ call'[t].hsaco = call[t].hsaco
<1>. DEFINE i == Recorder!find_code_object(call[t].hsaco)
            found == [call[t] EXCEPT !.co = codeObjects[i].id]
            replaced == [found EXCEPT !.sub = substitute(codeObjects[i])]
<1>1. call[t] \in ExecCall /\ call[t].for = "executable"
  BY LoadingLocals DEF find_code_object, InLoad
<1>2. found.hsaco = call[t].hsaco /\ replaced.hsaco = call[t].hsaco
  BY <1>1 DEF ExecCall
<1>3. \A c : Locals(t, c) => call'[t] = c
  BY DEF Locals, TypeInv, TypeOK
<1>4. UNCHANGED call \/ Locals(t, found) \/ Locals(t, replaced)
  BY DEF find_code_object
<1>. HIDE DEF found, replaced
<1>. QED
  BY <1>1, <1>2, <1>3, <1>4

\* The search gives the call the load of the handle, and the rule for it.
LEMMA FindFollowsRule ==
    ASSUME TypeInv, HandleInv, [Next]_vars, NEW t \in Threads, FollowsRule(t),
           find_code_object(t)
    PROVE  FollowsRule(t)'
<1>. DEFINE i == Recorder!find_code_object(call[t].hsaco)
            sub == substitute(codeObjects[i])
            found == [call[t] EXCEPT !.co = codeObjects[i].id]
            replaced == [found EXCEPT !.sub = sub]
<1>1. pc[t] \in InLoad /\ pc[t] = "find" /\ UNCHANGED hsacos
  BY DEF find_code_object, InLoad, runtimeVars
<1>2. PICK h \in Hsacos : h = call[t].hsaco
  BY <1>1, LoadingLocals DEF ExecCall
<1>3. /\ call[t] \in ExecCall /\ IsLive(h)
      /\ call[t].for = "executable" /\ call[t].sub = 0
  BY <1>1, <1>2, LoadingLocals DEF LocalsInv
<1>4. /\ found.for = "executable" /\ found.hsaco = h /\ found.sub = 0
      /\ found.co = codeObjects[i].id
      /\ replaced.for = "executable" /\ replaced.hsaco = h /\ replaced.sub = sub
      /\ replaced.co = codeObjects[i].id
  BY <1>2, <1>3 DEF ExecCall
<1>5. \A u \in Threads : ~Loading(u, h)'
  BY <1>2, <1>3, UsedHandleStays
<1>6. \/ i = 0 /\ UNCHANGED call
      \/ Locals(t, found) /\ (sub = 0 \/ "replacement file" \in RtFaults)
      \/ Locals(t, replaced) /\ sub # 0
  BY DEF find_code_object
<1>7. \A c : Locals(t, c) => call'[t] = c
  BY DEF Locals, TypeInv, TypeOK
<1>8. call'[t].hsaco = h
  BY <1>2, <1>4, <1>6, <1>7
<1>9. CASE hsacos[h].id = 0
  BY <1>1, <1>5, <1>8, <1>9 DEF FollowsRule
<1>10. CASE hsacos[h].id # 0
  <2>1. i # 0 /\ codeObjects[i].id = hsacos[h].id /\ codeObjects[i].content = hsacos[h].content
    BY <1>2, <1>3, <1>10, HandleFoundByLoad DEF HandleFindsItsLoad
  <2>2. sub = RuleOf(h)
    BY <2>1, RuleOfRecord DEF RuleOf
  <2>. HIDE DEF i, sub, found, replaced
  <2>3. CASE Locals(t, found) /\ (sub = 0 \/ "replacement file" \in RtFaults)
    <3>1. call'[t] = found
      BY <1>7, <2>3
    <3>2. RuleOf(h) = 0 \/ "replacement file" \in RtFaults
      BY <2>2, <2>3
    <3>. QED
      BY <1>1, <1>4, <1>5, <2>1, <3>1, <3>2 DEF FollowsRule, RuleOf
  <2>4. CASE Locals(t, replaced) /\ sub # 0
    <3>1. call'[t] = replaced
      BY <1>7, <2>4
    <3>. QED
      BY <1>1, <1>4, <1>5, <2>1, <2>2, <2>4, <3>1 DEF FollowsRule, RuleOf
  <2>. QED
    BY <1>6, <2>1, <2>3, <2>4
<1>. QED
  BY <1>9, <1>10

LEMMA NextFollowsRule ==
    ASSUME TypeInv, HandleInv, [Next]_vars, NEW t \in Threads, FollowsRule(t)
    PROVE  FollowsRule(t)'
<1>1. CASE call'[t].for # "executable"
  BY <1>1 DEF FollowsRule
<1>2. ASSUME NEW h \in Hsacos, NEW e \in Execs, LoadIntoExec(t, h, e)
      PROVE  FollowsRule(t)'
  <2>. DEFINE c == [for |-> "executable", hsaco |-> h, exec |-> e, co |-> 0,
                    sub |-> 0, shadow |-> NoContent]
  <2>1. /\ \A u \in Threads : ~(call[u].for = "load" /\ call[u].hsaco = h)
        /\ Begin(t, "executable_load_co", c)
    BY <1>2 DEF LoadIntoExec
  <2>2. /\ call'[t] = c /\ pc'[t] = "executable_load_co"
        /\ \A u \in Threads \ {t} : call'[u] = call[u]
    BY <2>1, Beginning DEF Labels, Moves
  <2>3. call'[t].hsaco = h /\ call'[t].for = "executable"
    BY <2>2
  <2>4. \A u \in Threads : ~Loading(u, h)'
    BY <2>1, <2>2, <2>3 DEF Loading, IsLoad
  <2>. QED
    BY <2>2, <2>3, <2>4 DEF FollowsRule, PastFind, InLoad
<1>3. CASE find_code_object(t)
  BY <1>3, FindFollowsRule
<1>4. CASE KeepsPlace(t)
  <2>1. PICK h \in Hsacos : h = call[t].hsaco
    BY <1>4, LocalsTyped DEF TypeInv, ExecCall, KeepsPlace
  <2>2. hsacos'[h] = hsacos[h] /\ \A u \in Threads : ~Loading(u, h)'
    BY <1>4, <2>1, UsedHandleStays DEF KeepsPlace
  <2>. QED
    BY <1>4, <2>1, <2>2 DEF FollowsRule, KeepsPlace, RuleOf
<1>. QED
  BY <1>1, <1>2, <1>3, <1>4, NextMovesExecs DEF ExecMove

\* What the runtime's load adds to an executable.
NewLoad(t) ==
    LET c == call[t]
        was == hsacos[c.hsaco].content
    IN  [id |-> hsacos[c.hsaco].id, was |-> was, by |-> c.sub,
         is |-> IF c.sub = 0 THEN was ELSE CoSubs[c.sub].content]

\* Executables are only filled by the runtime's load.
Fills(t) ==
    /\ pc[t] = "load" /\ loader(t)
    /\ execs' = [execs EXCEPT ![call[t].exec] = @ \cup {NewLoad(t)}]
Empties(e) == execs' = [execs EXCEPT ![e] = {}]

LEMMA ExecsMove ==
    ASSUME TypeInv, [Next]_vars
    PROVE  \/ UNCHANGED execs
           \/ \E e \in Execs : DestroyExec(e) /\ Empties(e)
           \/ \E t \in Threads : /\ enum_executable_symbols(t)
                                 /\ call[t].exec \in Execs /\ Empties(call[t].exec)
           \/ \E t \in Threads : Fills(t)
<1>. USE DEF runtimeVars
<1>1. CASE UNCHANGED vars
  BY <1>1 DEF vars
<1>2. CASE Application
  BY <1>2 DEF Application, DestroyHsaco, DestroyExec, ReadFile, CreateFromMemory,
              CreateQueue, LoadIntoExec, GetInfo, Empties
<1>3. ASSUME NEW t \in Threads, Handler(t)
      PROVE  \/ UNCHANGED execs
             \/ /\ enum_executable_symbols(t)
                /\ call[t].exec \in Execs /\ Empties(call[t].exec)
             \/ Fills(t)
  <2>1. FailLocked(t) => UNCHANGED execs
    BY DEF FailLocked
  <2>2. CASE loader(t)
    BY <2>1, <2>2 DEF loader, Fills, NewLoad
  <2>3. CASE enum_executable_symbols(t)
    <3>1. call[t].exec \in Execs
      BY <2>3, LoadingLocals DEF enum_executable_symbols, InLoad, ExecCall
    <3>. QED
      BY <2>3, <3>1 DEF enum_executable_symbols, Empties
  <2>4. CASE ~loader(t) /\ ~enum_executable_symbols(t)
    BY <1>3, <2>1, <2>4 DEF Handler, record_co_load, record_queue_creation,
       executable_load_co, run_init_command, prepare_symbol_substitutes,
       find_code_object, load_from_memory, create_executable, symbol_get_info,
       RuntimeGetInfo
  <2>. QED
    BY <2>2, <2>3, <2>4
<1>. QED
  BY <1>1, <1>2, <1>3 DEF Next

\* What is in an executable after a step was there before, or is new.
LEMMA InExec ==
    ASSUME TypeInv, [Next]_vars, NEW e \in Execs, NEW l \in execs'[e]
    PROVE  \/ l \in execs[e]
           \/ \E t \in Threads : Fills(t) /\ call[t].exec = e /\ l = NewLoad(t)
<1>1. \A f \in Execs : Empties(f) => l \in execs[e]
  BY DEF Empties, TypeInv, TypeOK
<1>2. ASSUME NEW t \in Threads, Fills(t), l \notin execs[e]
      PROVE  call[t].exec = e /\ l = NewLoad(t)
  BY <1>2 DEF Fills, TypeInv, TypeOK
<1>. QED
  BY <1>1, <1>2, ExecsMove

LEMMA NextFollowsRecorded ==
    ASSUME TypeInv, RuleInv, [Next]_vars
    PROVE  RecordedByRule'
<1>. SUFFICES ASSUME NEW e \in Execs, NEW l \in execs'[e], l.id # 0
              PROVE  LoadedByRule(l)
  BY DEF RecordedByRule, LoadedByRule
<1>1. CASE l \in execs[e]
  BY <1>1 DEF RuleInv, RecordedByRule
<1>2. ASSUME NEW t \in Threads, Fills(t), l = NewLoad(t)
      PROVE  LoadedByRule(l)
  <2>1. pc[t] = "load" /\ pc[t] \in InLoad
    BY <1>2 DEF Fills, InLoad
  <2>2. FollowsRule(t) /\ call[t].for = "executable"
    BY <2>1, LoadingLocals DEF RuleInv
  <2>. DEFINE c == call[t]
              h == c.hsaco
  <2>3. hsacos[h].id # 0
    BY <1>2 DEF NewLoad
  <2>4. /\ c.sub # 0 => c.sub = RuleOf(h)
        /\ c.sub = 0 => RuleOf(h) = 0 \/ "replacement file" \in RtFaults
    BY <2>1, <2>2, <2>3 DEF FollowsRule, PastFind
  <2>. QED
    BY <1>2, <2>3, <2>4 DEF LoadedByRule, RuleOf, NewLoad
<1>. QED
  BY <1>1, <1>2, InExec

LEMMA RuleInvCorrect == Spec => []RuleInv
<1>1. Init => RuleInv
  <2>. SUFFICES ASSUME Init PROVE RuleInv
    OBVIOUS
  <2>1. \A t \in Threads : call[t].for = "nothing"
    BY DEF Init, NoCall
  <2>. QED
    BY <2>1 DEF Init, RuleInv, FollowsRule, RecordedByRule
<1>2. TypeInv /\ HandleInv /\ RuleInv /\ [Next]_vars => RuleInv'
  BY NextFollowsRule, NextFollowsRecorded DEF RuleInv
<1>. QED
  BY <1>1, <1>2, TypeInvCorrect, HandleInvCorrect, PTL DEF Spec

LEMMA NextKeepsRecorded ==
    ASSUME TypeInv, HandleInv, RuleInv, RecordedInv, AllRecorded, [Next]_vars
    PROVE  RecordedInv'
<1>1. LiveAreLoads'
  BY NextKeepsLive DEF RecordedInv
<1>2. ASSUME NEW t \in Threads, call'[t].for = "executable"
      PROVE  hsacos'[call'[t].hsaco].id # 0
  <2>1. ASSUME NEW h \in Hsacos, NEW e \in Execs, LoadIntoExec(t, h, e)
        PROVE  hsacos'[call'[t].hsaco].id # 0
    <3>. DEFINE c == [for |-> "executable", hsaco |-> h, exec |-> e, co |-> 0,
                      sub |-> 0, shadow |-> NoContent]
    <3>1. /\ IsLive(h) /\ UNCHANGED hsacos
          /\ \A u \in Threads : ~(call[u].for = "load" /\ call[u].hsaco = h)
          /\ Begin(t, "executable_load_co", c)
      BY <2>1 DEF LoadIntoExec, runtimeVars
    <3>2. hsacos[h].id # 0
      BY <3>1 DEF RecordedInv, LiveAreLoads, Loading, IsLoad
    <3>3. call'[t] = c
      BY <3>1, Beginning DEF Labels, Moves
    <3>4. call'[t].hsaco = h
      BY <3>3
    <3>. QED
      BY <3>1, <3>2, <3>4
  <2>2. ASSUME call[t].for = "executable", call'[t].hsaco = call[t].hsaco
        PROVE  hsacos'[call'[t].hsaco].id # 0
    <3>1. PICK h \in Hsacos : h = call[t].hsaco
      BY <2>2, LocalsTyped DEF TypeInv, ExecCall
    <3>2. hsacos'[h] = hsacos[h]
      BY <2>2, <3>1, UsedHandleStays DEF RuleInv
    <3>. QED
      BY <2>2, <3>1, <3>2 DEF RecordedInv
  <2>3. CASE find_code_object(t)
    BY <2>2, <2>3, FoundForHandle
  <2>. QED
    BY <1>2, <2>1, <2>2, <2>3, NextMovesExecs DEF ExecMove, KeepsPlace
<1>3. ASSUME NEW e \in Execs, NEW l \in execs'[e]
      PROVE  l.id # 0
  <2>1. ASSUME NEW t \in Threads, Fills(t) PROVE NewLoad(t).id # 0
    BY <2>1, LoadingLocals DEF Fills, NewLoad, InLoad, RecordedInv
  <2>. QED
    BY <2>1, InExec DEF RecordedInv
<1>. QED
  BY <1>1, <1>2, <1>3 DEF RecordedInv

LEMMA RecordedInvCorrect ==
    ASSUME AllRecorded PROVE Spec => []RecordedInv
<1>1. Init => RecordedInv
  BY DEF Init, RecordedInv, LiveAreLoads, IsLive, Dead, NoCall
<1>. QED
  BY <1>1, NextKeepsRecorded, RuleInvCorrect, TypeInvCorrect, HandleInvCorrect, PTL DEF Spec

\* ReplacedByRule holds in every reachable state, for any rules, faults and
\* other habits, if the library is told of every code object.
THEOREM LoadsReplacedByRule ==
    ASSUME "read files" \notin AppMay PROVE Spec => []ReplacedByRule
<1>1. AllRecorded
  BY DEF AllRecorded
<1>2. RuleInv /\ RecordedInv => ReplacedByRule
  BY DEF RuleInv, RecordedInv, RecordedByRule, LoadedByRule, ReplacedByRule
<1>. QED
  BY <1>1, <1>2, RuleInvCorrect, RecordedInvCorrect, PTL

\* ReadersReadLiveMemory: the address recorded for a reader still holds the code
\* object when the original is loaded a second time, since the application keeps
\* the memory of a reader as long as the reader.
THEOREM ReadersAddressesLive ==
    ASSUME "read files" \notin AppMay PROVE Spec => []ReadersReadLiveMemory
<1>1. AllRecorded
  BY DEF AllRecorded
<1>2. TypeInv /\ HandleInv /\ RuleInv /\ RecordedInv => ReadersReadLiveMemory
  <2>. SUFFICES ASSUME TypeInv, HandleInv, RuleInv, RecordedInv, NEW t \in Threads,
                       pc[t] = "create_executable", call[t].hsaco \in Readers
                PROVE  memory[FoundCo(t).ptr] = FoundCo(t).content
    BY DEF ReadersReadLiveMemory, ReadsRecordedContent
  <2>1. PICK h \in Readers : h = call[t].hsaco
    OBVIOUS
  <2>2. /\ call[t].for = "executable" /\ IsLive(h) /\ h \in Hsacos
        /\ hsacos[h].id # 0 /\ call[t].co = hsacos[h].id
    BY <2>1, LoadingLocals DEF RuleInv, RecordedInv, FollowsRule, InLoad, PastFind, Hsacos
  <2>3. PICK i \in Positions : RecordsOfHandle(h, i)
    BY <2>2 DEF HandleInv, HandlesRecorded
  <2>4. FoundCo(t) = codeObjects[i]
    BY <2>2, <2>3, RecordOfId DEF FoundCo, TypeInv, TypeOK, RecordsOfHandle
  <2>5. codeObjects[i].ptr \in Ptrs
    BY <2>3, RecordAt DEF TypeInv, TypeOK, Recorder!RecordedCodeObject
  <2>6. /\ codeObjects[i].ptr = hsacos[h].ptr
        /\ codeObjects[i].content = hsacos[h].content
    BY <2>3 DEF RecordsOfHandle
  <2>7. hsacos[h].ptr # NoPtr
    BY <2>5, <2>6, AgentAssumption
  <2>8. memory[hsacos[h].ptr] = hsacos[h].content
    BY <2>2, <2>7 DEF HandleInv, ReadersHoldMemory
  <2>. QED
    BY <2>4, <2>6, <2>8
<1>. QED
  BY <1>1, <1>2, RuleInvCorrect, RecordedInvCorrect, TypeInvCorrect, HandleInvCorrect, PTL
====
