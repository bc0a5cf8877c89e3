---- MODULE DebugAgentQueries_proof ----
(***************************************************************************)
(* Proofs about symbol queries: that the symbols recorded for a code       *)
(* object are those of executables it was loaded into, and that a query is *)
(* answered from a replacement only for a load of the executable it asks   *)
(* about, for any number of threads, handles, executables, rules and calls.*)
(***************************************************************************)
EXTENDS DebugAgentLoads_proof

----------------------------------------------------------------------------
(* What a step does to threads, records and executables                    *)

Begins(t) ==
    \/ \E h \in Hsacos, ptr \in Ptrs, content \in AppContents :
          CreateFromMemory(t, h, ptr, content)
    \/ CreateQueue(t)
    \/ \E h \in Hsacos, e \in Execs : LoadIntoExec(t, h, e)
    \/ \E s \in Execs \X SymNames, attribute \in {"name", "kernel object"} :
          GetInfo(t, s, attribute)

Stays(t) == pc'[t] = pc[t] /\ call'[t] = call[t]

LEMMA HandlerMoves ==
    ASSUME TypeInv, NEW t \in Threads, Handler(t)
    PROVE  \A u \in Threads \ {t} : Stays(u)
<1>. USE DEF Labels, InInit, InLoad
<1>1. ASSUME NEW label \in Labels, Goto(t, label),
             UNCHANGED call \/ \E c : Locals(t, c)
      PROVE  \A u \in Threads \ {t} : Stays(u)
  BY <1>1, Moving DEF Moves, Stays, TypeInv
<1>2. Return(t) => \A u \in Threads \ {t} : Stays(u)
  BY <1>1 DEF Return
<1>3. FailLocked(t) => \A u \in Threads \ {t} : Stays(u)
  BY <1>2 DEF FailLocked
<1>4. AfterInit(t) => \A u \in Threads \ {t} : Stays(u)
  BY <1>1, <1>2 DEF AfterInit
<1>5. execute_init_command_once(t) => \A u \in Threads \ {t} : Stays(u)
  BY <1>1, <1>4 DEF execute_init_command_once
<1>6. CASE record_co_load(t) \/ enum_executable_symbols(t) \/ RuntimeGetInfo(t)
  BY <1>2, <1>6 DEF record_co_load, enum_executable_symbols, RuntimeGetInfo
<1>7. CASE record_queue_creation(t) \/ executable_load_co(t) \/ prepare_symbol_substitutes(t)
  BY <1>4, <1>5, <1>7 DEF record_queue_creation, executable_load_co,
                          prepare_symbol_substitutes
<1>8. CASE run_init_command(t)
  BY <1>1, <1>2, <1>8 DEF run_init_command
<1>9. CASE find_code_object(t)
  BY <1>1, <1>9 DEF find_code_object
<1>10. CASE load_from_memory(t)
  BY <1>1, <1>3, <1>10 DEF load_from_memory
<1>11. CASE create_executable(t)
  BY <1>1, <1>3, <1>11 DEF create_executable
<1>12. CASE loader(t)
  BY <1>1, <1>2, <1>3, <1>12 DEF loader
<1>13. CASE symbol_get_info(t)
  BY <1>1, <1>13 DEF symbol_get_info
<1>. QED
  BY <1>6, <1>7, <1>8, <1>9, <1>10, <1>11, <1>12, <1>13 DEF Handler

\* A thread stays where it is, begins a call, or goes on with one.
LEMMA ThreadMoves ==
    ASSUME TypeInv, [Next]_vars, NEW u \in Threads
    PROVE  Stays(u) \/ Begins(u) \/ Handler(u)
<1>1. CASE UNCHANGED vars
  BY <1>1 DEF vars, Stays
<1>2. CASE \E t \in Threads : Handler(t)
  BY <1>2, HandlerMoves
<1>3. CASE Application
  <2>1. UNCHANGED <<pc, call>> \/ \E t \in Threads : Begins(t)
    BY <1>3 DEF Application, DestroyHsaco, DestroyExec, ReadFile, Begins
  <2>2. ASSUME NEW t \in Threads, Begins(t), u # t PROVE Stays(u)
    <3>1. ASSUME NEW label \in Labels, NEW c, Begin(t, label, c) PROVE Stays(u)
      BY <2>2, <3>1, Beginning DEF Moves, Stays
    <3>2. "record_co_load" \in Labels /\ "record_queue_creation" \in Labels
          /\ "executable_load_co" \in Labels /\ "symbol_get_info" \in Labels
      BY DEF Labels
    <3>. QED
      BY <2>2, <3>1, <3>2 DEF Begins, CreateFromMemory, CreateQueue, LoadIntoExec, GetInfo
  <2>. QED
    BY <2>1, <2>2 DEF Stays
<1>. QED
  BY <1>1, <1>2, <1>3 DEF Next

\* Only an idle thread begins a call.
LEMMA BeginsIdle ==
    ASSUME NEW t \in Threads, Begins(t)
    PROVE  pc[t] = "idle"
BY DEF Begins, CreateFromMemory, CreateQueue, LoadIntoExec, GetInfo, Begin

\* The symbols of an executable are stored in a record.
Stores(t) ==
    /\ pc[t] = "enum_symbols" /\ UNCHANGED <<execs, hsacos>>
    /\ Recorder!record_symbols(RecordOf(call[t].co), [s \in EnumSymbols(t) |-> s[2]])
Discards(t) ==
    /\ pc[t] = "enum_symbols" /\ UNCHANGED codeObjects
    /\ call[t].exec \in Execs /\ Empties(call[t].exec)

Ends(t) == pc'[t] = "idle" /\ call'[t] = NoCall

\* No thread leaves the listing of symbols.
ListingStays == \A u \in Threads : pc[u] = "enum_symbols" => Stays(u)

RecordsMove ==
    \/ UNCHANGED <<codeObjects, execs>> /\ ListingStays
    \/ UNCHANGED execs /\ ListingStays /\ \E t \in Threads : Records(t)
    \/ UNCHANGED codeObjects /\ ListingStays /\ \E e \in Execs : DestroyExec(e) /\ Empties(e)
    \/ UNCHANGED codeObjects /\ ListingStays /\ \E t \in Threads : Fills(t)
    \/ \E t \in Threads : /\ Stores(t) \/ Discards(t)
                          /\ Ends(t) /\ \A u \in Threads \ {t} : Stays(u)

LEMMA EnumStep ==
    ASSUME TypeInv, NEW t \in Threads, Handler(t), pc[t] = "enum_symbols"
    PROVE  (Stores(t) \/ Discards(t)) /\ Ends(t)
<1>1. enum_executable_symbols(t)
  BY DEF Handler, record_co_load, record_queue_creation, executable_load_co,
         run_init_command, prepare_symbol_substitutes, find_code_object,
         load_from_memory, create_executable, loader, symbol_get_info, RuntimeGetInfo
<1>2. call[t].exec \in Execs
  BY LoadingLocals DEF InLoad, ExecCall
<1>3. Ends(t)
  BY <1>1, Returning DEF enum_executable_symbols, Moves, Ends
<1>. QED
  BY <1>1, <1>2, <1>3 DEF enum_executable_symbols, Stores, Discards, Empties, runtimeVars,
                          recorderVars

LEMMA NextMovesRecords ==
    ASSUME TypeInv, [Next]_vars
    PROVE  RecordsMove
<1>. USE DEF runtimeVars, recorderVars
<1>1. CASE \E t \in Threads : Handler(t) /\ pc[t] = "enum_symbols"
  BY <1>1, EnumStep, HandlerMoves DEF RecordsMove
<1>2. CASE ~\E t \in Threads : Handler(t) /\ pc[t] = "enum_symbols"
  <2>1. ListingStays
    BY <1>2, ThreadMoves, BeginsIdle DEF ListingStays
  <2>2. UNCHANGED <<codeObjects, execs>> => RecordsMove
    BY <2>1 DEF RecordsMove
  <2>3. CASE UNCHANGED vars
    BY <2>2, <2>3 DEF vars
  <2>4. CASE Application
    <3>1. /\ UNCHANGED codeObjects
          /\ UNCHANGED execs \/ \E e \in Execs : DestroyExec(e) /\ Empties(e)
      BY <2>4 DEF Application, DestroyHsaco, DestroyExec, ReadFile, CreateFromMemory,
                  CreateQueue, LoadIntoExec, GetInfo, Empties
    <3>. QED
      BY <2>1, <3>1 DEF RecordsMove
  <2>5. ASSUME NEW t \in Threads, Handler(t) PROVE RecordsMove
    <3>1. pc[t] # "enum_symbols"
      BY <1>2, <2>5
    <3>2. FailLocked(t) => UNCHANGED <<codeObjects, execs>>
      BY DEF FailLocked
    <3>3. CASE record_co_load(t)
      <4>1. UNCHANGED execs
        BY <3>3 DEF record_co_load
      <4>2. UNCHANGED codeObjects \/ Records(t)
        BY <3>3, RecordStores
      <4>. QED
        BY <2>1, <4>1, <4>2 DEF RecordsMove
    <3>4. CASE loader(t)
      <4>1. UNCHANGED codeObjects
        BY <3>2, <3>4 DEF loader
      <4>2. UNCHANGED execs \/ Fills(t)
        BY <3>2, <3>4 DEF loader, Fills, NewLoad
      <4>. QED
        BY <2>1, <4>1, <4>2 DEF RecordsMove
    <3>5. CASE ~record_co_load(t) /\ ~loader(t)
      <4>1. ~enum_executable_symbols(t)
        BY <3>1 DEF enum_executable_symbols
      <4>2. UNCHANGED <<codeObjects, execs>>
        BY <2>5, <3>2, <3>5, <4>1 DEF Handler, record_queue_creation,
           executable_load_co, run_init_command, prepare_symbol_substitutes,
           find_code_object, load_from_memory, create_executable, symbol_get_info,
           RuntimeGetInfo, Recorder!record_get_info
      <4>. QED
        BY <2>2, <4>2
    <3>. QED
      BY <3>3, <3>4, <3>5
  <2>. QED
    BY <2>3, <2>4, <2>5 DEF Next
<1>. QED
  BY <1>1, <1>2

----------------------------------------------------------------------------
(* The records' symbols                                                    *)

\* A call that lists symbols has loaded its executable.
EndsLoad(t) == pc[t] = "enum_symbols" => NewLoad(t) \in execs[call[t].exec]

\* The executable holds a load, unreplaced.
Covers(id, content, e) == \E l \in execs[e] : l.id = id /\ l.was = content /\ l.by = 0

\* The executable was never destroyed or given up, and holds nothing that the
\* library was not told of.
Kept(e) == e \in Execs \ discarded /\ \A l \in execs[e] : l.id # 0

\* A record names each symbol as it is, and the symbols it has of a kept
\* executable are of its own load, which is in there as the application loaded it.
Attributed(i) ==
    LET co == codeObjects[i] IN
    \A s \in DOMAIN co.symbols :
        /\ co.symbols[s] = s[2]
        /\ Kept(s[1]) => Covers(co.id, co.content, s[1])

SymbolInv ==
    /\ \A t \in Threads : EndsLoad(t)
    /\ \A i \in Positions : Attributed(i)

\* Two calls do not list symbols, or load, at the same time.
LEMMA OneLists ==
    ASSUME MutexInv, NEW t \in Threads, pc[t] \in InLoad
    PROVE  \A u \in Threads \ {t} : pc[u] # "enum_symbols"
BY OneHolder DEF HoldsMutex, InLoad

\* The record that a call stores symbols in is that of its handle's load.
LEMMA StoredRecord ==
    ASSUME TypeInv, HandleInv, RuleInv, NEW t \in Threads, pc[t] = "enum_symbols",
           hsacos[call[t].hsaco].id # 0
    PROVE  /\ call[t].co = hsacos[call[t].hsaco].id
           /\ FoundCo(t).content = hsacos[call[t].hsaco].content
<1>1. /\ call[t] \in ExecCall /\ call[t].for = "executable" /\ IsLive(call[t].hsaco)
  BY LoadingLocals DEF InLoad
<1>2. PICK h \in Hsacos : h = call[t].hsaco
  BY <1>1 DEF ExecCall
<1>3. call[t].co = hsacos[h].id
  BY <1>1, <1>2 DEF RuleInv, FollowsRule, PastFind, InLoad
<1>4. PICK i \in Positions : RecordsOfHandle(h, i)
  BY <1>1, <1>2 DEF HandleInv, HandlesRecorded
<1>5. FoundCo(t) = codeObjects[i]
  BY <1>3, <1>4, RecordOfId DEF FoundCo, TypeInv, TypeOK, RecordsOfHandle
<1>. QED
  BY <1>2, <1>3, <1>4, <1>5 DEF RecordsOfHandle

LEMMA NextEndsLoad ==
    ASSUME TypeInv, HandleInv, RuleInv, MutexInv, [Next]_vars, NEW t \in Threads,
           EndsLoad(t)
    PROVE  EndsLoad(t)'
<1>. SUFFICES ASSUME pc'[t] = "enum_symbols" PROVE NewLoad(t)' \in execs'[call'[t].exec]
  BY DEF EndsLoad
<1>1. CASE Stays(t)
  <2>1. pc[t] = "enum_symbols" /\ NewLoad(t) \in execs[call[t].exec]
    BY <1>1 DEF Stays, EndsLoad
  <2>2. /\ call[t] \in ExecCall /\ call[t].for = "executable"
    BY <2>1, LoadingLocals DEF InLoad
  <2>3. hsacos'[call[t].hsaco] = hsacos[call[t].hsaco]
    BY <2>2, UsedHandleStays DEF RuleInv, ExecCall
  <2>4. NewLoad(t)' = NewLoad(t)
    BY <1>1, <2>3 DEF NewLoad, Stays
  <2>5. PICK e \in Execs : e = call[t].exec
    BY <2>2 DEF ExecCall
  <2>6. ASSUME NEW f \in Execs, DestroyExec(f) PROVE execs'[e] = execs[e]
    <3>1. f # e
      BY <2>2, <2>5, <2>6 DEF DestroyExec, ExecUsed
    <3>. QED
      BY <2>6, <3>1 DEF DestroyExec, TypeInv, TypeOK
  <2>7. ASSUME NEW u \in Threads, enum_executable_symbols(u) PROVE FALSE
    <3>1. u = t
      BY <2>1, <2>7, OneLists DEF enum_executable_symbols, InLoad
    <3>2. pc'[t] = "idle"
      BY <2>7, <3>1, Returning DEF enum_executable_symbols, Moves
    <3>. QED
      BY <3>2
  <2>8. ASSUME NEW u \in Threads, Fills(u) PROVE execs[e] \subseteq execs'[e]
    BY <2>5, <2>8 DEF Fills, TypeInv, TypeOK
  <2>9. execs[e] \subseteq execs'[e]
    BY <2>6, <2>7, <2>8, ExecsMove
  <2>. QED
    BY <1>1, <2>1, <2>4, <2>5, <2>9 DEF Stays
<1>2. CASE Handler(t)
  <2>. USE DEF Goto, TypeInv, TypeOK
  <2>1. ASSUME Return(t) PROVE FALSE
    BY <2>1, Returning DEF Moves
  <2>2. FailLocked(t) \/ AfterInit(t) \/ execute_init_command_once(t) => FALSE
    BY <2>1 DEF FailLocked, AfterInit, execute_init_command_once
  <2>3. loader(t)
    BY <1>2, <2>1, <2>2 DEF Handler, record_co_load, record_queue_creation,
       executable_load_co, run_init_command, prepare_symbol_substitutes,
       find_code_object, load_from_memory, create_executable,
       enum_executable_symbols, symbol_get_info, RuntimeGetInfo
  <2>4. Fills(t) /\ UNCHANGED <<call, hsacos>>
    BY <2>1, <2>2, <2>3 DEF loader, Fills, NewLoad
  <2>5. call[t].exec \in Execs
    BY <2>3, LoadingLocals DEF loader, InLoad, ExecCall
  <2>6. NewLoad(t)' = NewLoad(t)
    BY <2>4 DEF NewLoad
  <2>. QED
    BY <2>4, <2>5, <2>6 DEF Fills
<1>3. CASE Begins(t)
  <2>1. ASSUME NEW label \in Labels, NEW c, Begin(t, label, c) PROVE pc'[t] = label
    BY <2>1, Beginning DEF Moves
  <2>. QED
    BY <1>3, <2>1 DEF Begins, CreateFromMemory, CreateQueue, LoadIntoExec, GetInfo, Labels
<1>. QED
  BY <1>1, <1>2, <1>3, ThreadMoves

LEMMA DiscardedStay ==
    ASSUME [Next]_vars
    PROVE  discarded \subseteq discarded'
<1>. USE DEF runtimeVars
<1>1. CASE UNCHANGED vars
  BY <1>1 DEF vars
<1>2. CASE Application
  BY <1>2 DEF Application, DestroyHsaco, DestroyExec, ReadFile, CreateFromMemory,
              CreateQueue, LoadIntoExec, GetInfo
<1>3. ASSUME NEW t \in Threads, Handler(t) PROVE discarded \subseteq discarded'
  <2>1. FailLocked(t) => UNCHANGED discarded
    BY DEF FailLocked
  <2>. QED
    BY <1>3, <2>1 DEF Handler, record_co_load, record_queue_creation,
       executable_load_co, run_init_command, prepare_symbol_substitutes,
       find_code_object, load_from_memory, create_executable, loader,
       enum_executable_symbols, symbol_get_info, RuntimeGetInfo
<1>. QED
  BY <1>1, <1>2, <1>3 DEF Next

\* A step leaves in an executable what was loaded there, or gives it up.
LEMMA KeptStays ==
    ASSUME TypeInv, [Next]_vars, NEW e, Kept(e)'
    PROVE  Kept(e) /\ execs[e] \subseteq execs'[e]
<1>1. e \in Execs /\ e \notin discarded' /\ \A l \in execs'[e] : l.id # 0
  BY DEF Kept
<1>2. discarded \subseteq discarded'
  BY DiscardedStay
<1>3. execs[e] \subseteq execs'[e]
  <2>1. ASSUME NEW f \in Execs, Empties(f), f # e PROVE execs'[e] = execs[e]
    BY <1>1, <2>1 DEF Empties, TypeInv, TypeOK
  <2>2. ASSUME NEW f \in Execs, DestroyExec(f) PROVE f # e
    BY <1>1, <2>2 DEF DestroyExec
  <2>3. ASSUME NEW t \in Threads, enum_executable_symbols(t), execs' # execs
        PROVE  call[t].exec # e
    BY <1>1, <2>3 DEF enum_executable_symbols, runtimeVars
  <2>4. ASSUME NEW t \in Threads, Fills(t) PROVE execs[e] \subseteq execs'[e]
    BY <1>1, <2>4 DEF Fills, TypeInv, TypeOK
  <2>. QED
    BY <2>1, <2>2, <2>3, <2>4, ExecsMove
<1>. QED
  BY <1>1, <1>2, <1>3 DEF Kept

LEMMA AttributedStays ==
    ASSUME TypeInv, [Next]_vars,
           NEW i, NEW j, NEW id, NEW content, NEW symbols, Attributed(i),
           codeObjects[i].id = id, codeObjects'[j].id = id,
           codeObjects[i].content = content, codeObjects'[j].content = content,
           codeObjects[i].symbols = symbols, codeObjects'[j].symbols = symbols
    PROVE  Attributed(j)'
<1>. SUFFICES ASSUME NEW s \in DOMAIN symbols
              PROVE  /\ symbols[s] = s[2]
                     /\ Kept(s[1])' => Covers(id, content, s[1])'
  BY DEF Attributed, Kept, Covers
<1>1. symbols[s] = s[2] /\ (Kept(s[1]) => Covers(id, content, s[1]))
  BY DEF Attributed
<1>2. Kept(s[1])' => Kept(s[1]) /\ execs[s[1]] \subseteq execs'[s[1]]
  BY KeptStays
<1>3. Covers(id, content, s[1]) /\ execs[s[1]] \subseteq execs'[s[1]] => Covers(id, content, s[1])'
  BY DEF Covers
<1>. QED
  BY <1>1, <1>2, <1>3

LEMMA NextKeepsAttributed ==
    ASSUME TypeInv, MutexInv, HandleInv, RuleInv, SymbolInv, [Next]_vars,
           NEW j \in Positions'
    PROVE  Attributed(j)'
<1>. USE DEF Positions
<1>1. ASSUME NEW i \in Positions,
             codeObjects'[j].id = codeObjects[i].id,
             codeObjects'[j].content = codeObjects[i].content,
             codeObjects'[j].symbols = codeObjects[i].symbols
      PROVE  Attributed(j)'
  <2>1. Attributed(i)
    BY DEF SymbolInv
  <2>. QED
    BY <1>1, <2>1, AttributedStays
<1>2. CASE UNCHANGED codeObjects
  BY <1>1, <1>2
<1>3. ASSUME NEW t \in Threads, Records(t)
      PROVE  Attributed(j)'
  <2>1. CASE j = 1
    <3>1. codeObjects'[j].symbols = [s \in {} |-> s]
      BY <1>3, <2>1 DEF Records, NewRecord, Recorder!NoSymbols
    <3>. QED
      BY <3>1 DEF Attributed
  <2>2. CASE j # 1
    <3>1. j - 1 \in Positions /\ codeObjects'[j] = codeObjects[j - 1]
      BY <1>3, <2>2 DEF Records
    <3>. QED
      BY <1>1, <1>3, <3>1
  <2>. QED
    BY <2>1, <2>2
<1>4. ASSUME NEW t \in Threads, Stores(t)
      PROVE  Attributed(j)'
  <2>. DEFINE c == call[t]
              i == RecordOf(c.co)
              symbols == [s \in EnumSymbols(t) |-> s[2]]
  <2>1. /\ pc[t] = "enum_symbols" /\ pc[t] \in InLoad /\ UNCHANGED execs
        /\ Recorder!record_symbols(i, symbols)
    BY <1>4 DEF Stores, InLoad
  <2>2. /\ SameRecords /\ i \in Positions
        /\ codeObjects[i].id = c.co
        /\ \A k \in Positions : codeObjects'[k].symbols =
              IF k = i THEN symbols ELSE codeObjects[k].symbols
    BY <2>1, SymbolsRecorded DEF FoundCo
  <2>. HIDE DEF symbols
  <2>3. /\ j \in Positions
        /\ codeObjects'[j].id = codeObjects[j].id
        /\ codeObjects'[j].content = codeObjects[j].content
    BY <2>2 DEF SameRecords
  <2>4. CASE j # i
    <3>1. codeObjects'[j].symbols = codeObjects[j].symbols
      BY <2>2, <2>3, <2>4
    <3>. QED
      BY <1>1, <2>3, <3>1
  <2>5. CASE j = i
    <3>1. PICK id, content : id = codeObjects[j].id /\ content = codeObjects[j].content
      OBVIOUS
    <3>2. codeObjects'[j].symbols = symbols
      BY <2>2, <2>3, <2>5
    <3>3. SUFFICES ASSUME NEW s \in DOMAIN symbols
                   PROVE  /\ symbols[s] = s[2]
                          /\ Kept(s[1])' => Covers(id, content, s[1])'
      BY <2>3, <3>1, <3>2 DEF Attributed, Kept, Covers
    <3>4. s \in EnumSymbols(t) /\ symbols[s] = s[2]
      BY <3>3 DEF symbols
    <3>5. CASE c.sub # 0
      <4>1. s[1] = ShadowExec
        BY <3>4, <3>5 DEF EnumSymbols
      <4>. QED
        BY <3>4, <4>1, AgentAssumption DEF Kept
    <3>6. CASE c.sub = 0
      <4>1. s[1] = c.exec
        BY <3>4, <3>6 DEF EnumSymbols, ExecSymbols
      <4>2. PICK e : e = c.exec
        OBVIOUS
      <4>3. NewLoad(t) \in execs[e]
        BY <2>1, <4>2 DEF SymbolInv, EndsLoad
      <4>4. SUFFICES ASSUME Kept(e)' PROVE Covers(id, content, e)'
        BY <3>4, <4>1, <4>2
      <4>5. hsacos[c.hsaco].id # 0
        BY <2>1, <4>3, <4>4 DEF Kept, NewLoad
      <4>6. /\ c.co = hsacos[c.hsaco].id
            /\ codeObjects[i].content = hsacos[c.hsaco].content
        BY <2>1, <4>5, StoredRecord DEF FoundCo
      <4>7. NewLoad(t).id = id /\ NewLoad(t).was = content /\ NewLoad(t).by = 0
        BY <2>2, <2>5, <3>1, <3>6, <4>6 DEF NewLoad
      <4>8. NewLoad(t) \in execs'[e]
        BY <2>1, <4>3
      <4>9. PICK l \in execs'[e] : l.id = id /\ l.was = content /\ l.by = 0
        BY <4>7, <4>8
      <4>. QED
        BY <4>9 DEF Covers
    <3>. QED
      BY <3>5, <3>6
  <2>. QED
    BY <2>4, <2>5
<1>. QED
  BY <1>2, <1>3, <1>4, NextMovesRecords DEF RecordsMove, Discards

LEMMA SymbolInvCorrect == Spec => []SymbolInv
<1>1. Init => SymbolInv
  BY DEF Init, Recorder!Init, SymbolInv, EndsLoad, Positions
<1>2. TypeInv /\ MutexInv /\ HandleInv /\ RuleInv /\ SymbolInv /\ [Next]_vars => SymbolInv'
  <2>. SUFFICES ASSUME TypeInv, MutexInv, HandleInv, RuleInv, SymbolInv, [Next]_vars
                PROVE  SymbolInv'
    OBVIOUS
  <2>1. \A t \in Threads : EndsLoad(t)'
    BY NextEndsLoad DEF SymbolInv
  <2>2. \A j \in Positions' : Attributed(j)'
    BY NextKeepsAttributed
  <2>. QED
    BY <2>1, <2>2 DEF SymbolInv
<1>. QED
  BY <1>1, <1>2, TypeInvCorrect, MutexInvCorrect, HandleInvCorrect, RuleInvCorrect, PTL DEF Spec

----------------------------------------------------------------------------
(* The answer to a query                                                   *)

\* A search by symbol stops at a record that holds the symbol, if there is one.
LEMMA SymbolFound ==
    ASSUME Recorder!TypeOK, NEW s
    PROVE  LET i == Recorder!symbol_code_object(s)
           IN  /\ i # 0 => i \in Positions /\ s \in DOMAIN codeObjects[i].symbols
               /\ (\E j \in Positions : s \in DOMAIN codeObjects[j].symbols) => i # 0
<1>. DEFINE I == {i \in 1..Len(codeObjects) : s \in DOMAIN codeObjects[i].symbols}
            m == Recorder!symbol_code_object(s)
<1>1. Len(codeObjects) \in Nat /\ Positions = 1..Len(codeObjects)
  BY RecordAt
<1>2. m = IF I # {} THEN Min(I) ELSE 0
  BY DEF Recorder!symbol_code_object, Recorder!SelectInSeq, Recorder!Min, Min
<1>3. I \in SUBSET (1..Len(codeObjects))
  OBVIOUS
<1>. HIDE DEF I, m
<1>4. (m # 0 => m \in I) /\ (I # {} => m # 0)
  BY <1>1, <1>2, <1>3, FirstOrZero
<1>. QED
  BY <1>1, <1>4 DEF I, m

\* What a query's step does to its locals.
LEMMA Answered ==
    ASSUME TypeInv, NEW t \in Threads, symbol_get_info(t)
    PROVE  LET c == call[t]
               i == Recorder!symbol_code_object(c.symbol)
           IN  /\ call'[t].symbol = c.symbol /\ call'[t].attribute = c.attribute
               /\ call'[t].number = getInfoCallCounter + 1
               /\ call'[t].answer =
                    IF i = 0 \/ c.attribute = "name" THEN 0
                    ELSE substitute_symbol(i, c.symbol, getInfoCallCounter + 1)
<1>. DEFINE c == call[t]
            i == Recorder!symbol_code_object(c.symbol)
            n == getInfoCallCounter + 1
            answer == IF i = 0 \/ c.attribute = "name" THEN 0
                      ELSE substitute_symbol(i, c.symbol, n)
            answered == [c EXCEPT !.number = n, !.answer = answer]
<1>1. c \in InfoCall
  BY DEF symbol_get_info, TypeInv, TypeOK, LocalsAt
<1>2. Locals(t, answered)
  <2>1. getInfoCallCounter' = n
    BY DEF symbol_get_info, Recorder!record_get_info
  <2>. QED
    BY <2>1 DEF symbol_get_info
<1>. HIDE DEF answer, n
<1>3. /\ answered.symbol = c.symbol /\ answered.attribute = c.attribute
      /\ answered.number = n /\ answered.answer = answer
  BY <1>1 DEF InfoCall
<1>. HIDE DEF answered
<1>4. call'[t] = answered
  BY <1>2 DEF Locals, TypeInv, TypeOK
<1>. QED
  BY <1>3, <1>4 DEF answer, n

\* The record that answers is of a load of the executable, unreplaced.
LEMMA AnswerFromExecutable ==
    ASSUME TypeInv, SymbolInv, NEW t \in Threads, symbol_get_info(t)
    PROVE  AnsweredFromExecutable(call'[t])
<1>. DEFINE s == call[t].symbol
            i == Recorder!symbol_code_object(s)
            n == getInfoCallCounter + 1
<1>1. PICK c : c = call'[t]
  OBVIOUS
<1>2. /\ c.symbol = s /\ c.number = n
      /\ c.answer # 0 => i # 0 /\ c.answer = substitute_symbol(i, s, n)
  BY <1>1, Answered
<1>3. s \in Execs \X SymNames
  BY DEF symbol_get_info, TypeInv, TypeOK, LocalsAt, InfoCall
<1>. SUFFICES ASSUME c.answer # 0, ~HasEarlierLife(s), ~HasUnrecorded(s)
              PROVE  \E l \in execs[s[1]] :
                        AskedOf(l, c) # {} /\ c.answer = Atomic!First(AskedOf(l, c))
  BY <1>1, <1>2 DEF AnsweredFromExecutable
<1>4. i \in Positions /\ s \in DOMAIN codeObjects[i].symbols
  BY <1>2, SymbolFound DEF TypeInv, TypeOK
<1>. HIDE DEF i
<1>5. PICK co : co = codeObjects[i]
  OBVIOUS
<1>6. co.id # 0
  BY <1>4, <1>5, RecordedIds DEF TypeInv, TypeOK
<1>7. Kept(s[1])
  BY <1>3 DEF Kept, HasEarlierLife, HasUnrecorded
<1>8. co.symbols[s] = s[2] /\ Covers(co.id, co.content, s[1])
  BY <1>4, <1>5, <1>7 DEF SymbolInv, Attributed
<1>9. PICK l \in execs[s[1]] : l.id = co.id /\ l.was = co.content /\ l.by = 0
  BY <1>8 DEF Covers
<1>. DEFINE holds == {r \in evaluated :
                        /\ n \in SymbolSubs[r].getInfoIds
                        /\ CrcOf[co.content] \in SymbolSubs[r].crcs
                        /\ co.id \in SymbolSubs[r].ids
                        /\ s[2] \in SymbolSubs[r].names}
<1>10. AskedOf(l, c) = holds
  BY <1>2, <1>6, <1>9 DEF AskedOf, Atomic!Asking
<1>11. c.answer = IF holds = {} THEN 0 ELSE Min(holds)
  BY <1>2, <1>5, <1>8 DEF substitute_symbol, Recorder!Crc
<1>12. Min(holds) = Atomic!First(holds)
  BY DEF Min, Atomic!First
<1>. HIDE DEF holds
<1>. QED
  BY <1>10, <1>11, <1>12

\* AnsweredForItsExecutable: also with several code objects in an executable, or
\* one in several, and with any order of the calls of any number of threads, a
\* query is answered by the first rule in force that asks for its kernel in a load
\* of its executable, unless an executable of that handle was destroyed or given up
\* before, or something in it was not recorded.
THEOREM QueriesAnsweredFromExecutables == Spec => AnsweredForItsExecutable
<1>1. TypeInv /\ SymbolInv /\ [Next]_vars
         => [\A t \in Threads :
               pc[t] = "symbol_get_info" /\ pc'[t] = "runtime_get_info"
                   => AnsweredFromExecutable(call'[t])]_vars
  <2>. SUFFICES ASSUME TypeInv, SymbolInv, [Next]_vars, NEW t \in Threads,
                       pc[t] = "symbol_get_info", pc'[t] = "runtime_get_info"
                PROVE  AnsweredFromExecutable(call'[t])
    OBVIOUS
  <2>1. Handler(t)
    BY ThreadMoves, BeginsIdle DEF Stays
  <2>2. symbol_get_info(t)
    BY <2>1 DEF Handler, record_co_load, record_queue_creation, executable_load_co,
       run_init_command, prepare_symbol_substitutes, find_code_object,
       load_from_memory, create_executable, loader, enum_executable_symbols,
       RuntimeGetInfo
  <2>. QED
    BY <2>2, AnswerFromExecutable
<1>. QED
  BY <1>1, TypeInvCorrect, SymbolInvCorrect, PTL
  DEF Spec, AnsweredForItsExecutable
====
