---- MODULE DebugAgentAtomic_proof ----
(***************************************************************************)
(* Proofs about an application that loads each code object once, into an   *)
(* executable of its own, and destroys no executables: that its symbol     *)
(* queries are answered as the rules say, and that the agent implements    *)
(* AtomicAgent, for any number of threads, handles, executables, rules and *)
(* calls.                                                                  *)
(***************************************************************************)
EXTENDS DebugAgentQueries_proof

----------------------------------------------------------------------------
(* Applications that load each code object once, into an executable of its *)
(* own, and destroy no executables                                         *)

LoadsOnce == AppMay = {}

\* What holds for any application of which the library sees all loads.
AgentInv == /\ TypeInv /\ MutexInv /\ InitInv /\ HandleInv
            /\ RuleInv /\ RecordedInv /\ SymbolInv

LEMMA AgentInvCorrect ==
    ASSUME AllRecorded PROVE Spec => []AgentInv
<1>1. TypeInv /\ MutexInv /\ InitInv /\ HandleInv /\ RuleInv /\ RecordedInv /\ SymbolInv
         => AgentInv
  BY DEF AgentInv
<1>. QED
  BY <1>1, TypeInvCorrect, MutexInvCorrect, InitInvCorrect, HandleInvCorrect,
     RuleInvCorrect, RecordedInvCorrect, SymbolInvCorrect, PTL

LoadsExec(t) == call[t].for = "executable"
Joins(t) == \E h \in Hsacos, e \in Execs : LoadIntoExec(t, h, e)
Asks(t) == \E s \in Execs \X SymNames, attribute \in {"name", "kernel object"} :
              GetInfo(t, s, attribute)

\* A call goes on with its handle and its executable.
KeepsExec(t) ==
    /\ LoadsExec(t)
    /\ call'[t].exec = call[t].exec /\ call'[t].hsaco = call[t].hsaco
    /\ hsacos'[call[t].hsaco] = hsacos[call[t].hsaco]
KeepsSymbol(t) == call[t].for = "info" /\ call'[t].symbol = call[t].symbol

LEMMA FoundForExec ==
    ASSUME TypeInv, NEW t \in Threads, find_code_object(t)
    PROVE  LoadsExec(t) /\ call'[t].exec = call[t].exec /\ call'[t].hsaco = call[t].hsaco
<1>. DEFINE i == Recorder!find_code_object(call[t].hsaco)
            found == [call[t] EXCEPT !.co = codeObjects[i].id]
            replaced == [found EXCEPT !.sub = substitute(codeObjects[i])]
<1>1. call[t] \in ExecCall /\ LoadsExec(t)
  BY LoadingLocals DEF find_code_object, InLoad, LoadsExec
<1>2. found.exec = call[t].exec /\ replaced.exec = call[t].exec
  BY <1>1 DEF ExecCall
<1>3. \A c : Locals(t, c) => call'[t] = c
  BY DEF Locals, TypeInv, TypeOK
<1>4. UNCHANGED call \/ Locals(t, found) \/ Locals(t, replaced)
  BY DEF find_code_object
<1>. HIDE DEF found, replaced
<1>. QED
  BY <1>1, <1>2, <1>3, <1>4, FoundForHandle

\* Where a handler leaves a thread with a call, it was with it before.
LEMMA HandlerKeepsCall ==
    ASSUME TypeInv, TypeInv', NEW t \in Threads, Handler(t)
    PROVE  /\ LoadsExec(t)' => /\ LoadsExec(t) /\ call'[t].exec = call[t].exec
                               /\ call'[t].hsaco = call[t].hsaco
           /\ call'[t].for = "info" => KeepsSymbol(t) /\ symbol_get_info(t)
<1>. DEFINE P == /\ LoadsExec(t)' => /\ LoadsExec(t) /\ call'[t].exec = call[t].exec
                                     /\ call'[t].hsaco = call[t].hsaco
                 /\ call'[t].for = "info" => KeepsSymbol(t) /\ symbol_get_info(t)
<1>1. Return(t) => P
  BY Returning DEF Moves, NoCall, LoadsExec
<1>2. UNCHANGED call /\ call[t].for # "info" => P
  BY DEF LoadsExec
<1>3. ASSUME pc[t] \in Labels \ {"symbol_get_info", "runtime_get_info"}
      PROVE  call[t].for # "info"
  BY <1>3 DEF TypeInv, TypeOK, LocalsAt, Labels, InInit, InLoad, NoCall, LoadCall,
              QueueCall, ExecCall
<1>4. FailLocked(t) => P
  BY <1>1 DEF FailLocked
<1>5. AfterInit(t) => P
  BY <1>1, <1>2 DEF AfterInit
<1>6. call[t].for # "info" /\ execute_init_command_once(t) => P
  BY <1>2, <1>5 DEF execute_init_command_once
<1>7. CASE record_co_load(t) \/ enum_executable_symbols(t) \/ RuntimeGetInfo(t)
  BY <1>1, <1>7 DEF record_co_load, enum_executable_symbols, RuntimeGetInfo
<1>8. CASE record_queue_creation(t) \/ executable_load_co(t) \/ prepare_symbol_substitutes(t)
  BY <1>3, <1>5, <1>6, <1>8 DEF record_queue_creation, executable_load_co,
     prepare_symbol_substitutes, Labels, InInit, InLoad
<1>9. CASE run_init_command(t)
  BY <1>1, <1>2, <1>3, <1>9 DEF run_init_command, Labels, InInit
<1>10. CASE find_code_object(t)
  <2>1. pc'[t] \in InLoad
    BY <1>10 DEF find_code_object, Goto, InLoad, TypeInv, TypeOK
  <2>2. (call[t] \in ExecCall)'
    BY <2>1 DEF TypeInv, TypeOK, LocalsAt
  <2>. QED
    BY <1>10, <2>2, FoundForExec DEF ExecCall
<1>11. CASE load_from_memory(t)
  BY <1>2, <1>3, <1>4, <1>11 DEF load_from_memory, Labels, InLoad
<1>12. CASE create_executable(t)
  <2>1. call[t] \in ExecCall /\ LoadsExec(t)
    BY <1>12, LoadingLocals DEF create_executable, InLoad, LoadsExec
  <2>2. PICK content : content = memory[FoundCo(t).ptr]
    OBVIOUS
  <2>3. CASE FailLocked(t)
    BY <1>4, <2>3
  <2>4. CASE Locals(t, [call[t] EXCEPT !.shadow = content])
    BY <2>1, <2>4 DEF ExecCall, Locals, TypeInv, TypeOK, LoadsExec
  <2>. QED
    BY <1>12, <2>2, <2>3, <2>4 DEF create_executable
<1>13. CASE loader(t)
  BY <1>1, <1>2, <1>3, <1>4, <1>13 DEF loader, Labels, InLoad
<1>14. CASE symbol_get_info(t)
  <2>1. pc'[t] = "runtime_get_info" /\ call[t] \in InfoCall
    BY <1>14 DEF symbol_get_info, Goto, TypeInv, TypeOK, LocalsAt
  <2>2. (call[t] \in InfoCall)'
    BY <2>1 DEF TypeInv, TypeOK, LocalsAt
  <2>3. ~LoadsExec(t)'
    BY <2>2 DEF InfoCall, LoadsExec
  <2>. QED
    BY <1>14, <2>1, <2>3, Answered DEF InfoCall, KeepsSymbol
<1>. QED
  BY <1>7, <1>8, <1>9, <1>10, <1>11, <1>12, <1>13, <1>14 DEF Handler

\* A call that begins is the only one that changes.
LEMMA OneBegins ==
    ASSUME TypeInv, NEW t \in Threads, Begins(t)
    PROVE  /\ \A u \in Threads \ {t} : Stays(u)
           /\ UNCHANGED <<codeObjects, execs, evaluated>>
           /\ LoadsExec(t)' => Joins(t) /\ UNCHANGED hsacos /\ pc'[t] = "executable_load_co"
           /\ call'[t].for = "info" => Asks(t) /\ pc'[t] = "symbol_get_info"
<1>. USE DEF recorderVars, runtimeVars, agentVars
<1>1. ASSUME NEW label \in Labels, NEW c, Begin(t, label, c)
      PROVE  pc'[t] = label /\ call'[t] = c /\ \A u \in Threads \ {t} : Stays(u)
  BY <1>1, Beginning DEF Moves, Stays
<1>2. "record_co_load" \in Labels /\ "record_queue_creation" \in Labels
      /\ "executable_load_co" \in Labels /\ "symbol_get_info" \in Labels
  BY DEF Labels
<1>3. CASE \E h \in Hsacos, ptr \in Ptrs, content \in AppContents :
             CreateFromMemory(t, h, ptr, content)
  <2>1. PICK h \in Hsacos, ptr \in Ptrs, content \in AppContents :
             CreateFromMemory(t, h, ptr, content)
    BY <1>3
  <2>2. PICK loaded \in BOOLEAN : Begin(t, "record_co_load",
                   [for |-> "load", hsaco |-> h, ptr |-> ptr, loaded |-> loaded])
    BY <2>1 DEF CreateFromMemory
  <2>3. call'[t].for = "load" /\ \A u \in Threads \ {t} : Stays(u)
    BY <1>1, <1>2, <2>2
  <2>. QED
    BY <2>1, <2>3 DEF CreateFromMemory, LoadsExec
<1>4. CASE CreateQueue(t)
  BY <1>1, <1>2, <1>4 DEF CreateQueue, LoadsExec
<1>5. CASE Joins(t)
  <2>1. PICK h \in Hsacos, e \in Execs : LoadIntoExec(t, h, e)
    BY <1>5 DEF Joins
  <2>2. PICK c : c.for = "executable" /\ Begin(t, "executable_load_co", c)
    BY <2>1 DEF LoadIntoExec
  <2>3. /\ call'[t].for = "executable" /\ \A u \in Threads \ {t} : Stays(u)
        /\ pc'[t] = "executable_load_co"
    BY <1>1, <1>2, <2>2
  <2>. QED
    BY <1>5, <2>1, <2>3 DEF LoadIntoExec, LoadsExec
<1>6. CASE Asks(t)
  <2>1. PICK s \in Execs \X SymNames, attribute \in {"name", "kernel object"} :
              GetInfo(t, s, attribute)
    BY <1>6 DEF Asks
  <2>2. PICK c : c.for = "info" /\ Begin(t, "symbol_get_info", c)
    BY <2>1 DEF GetInfo
  <2>3. /\ call'[t].for = "info" /\ \A u \in Threads \ {t} : Stays(u)
        /\ pc'[t] = "symbol_get_info"
    BY <1>1, <1>2, <2>2
  <2>. QED
    BY <1>6, <2>1, <2>3 DEF GetInfo, LoadsExec
<1>. QED
  BY <1>3, <1>4, <1>5, <1>6 DEF Begins, Joins, Asks

\* What a step does to records and executables, if no executable is destroyed.
OwnMove ==
    \/ UNCHANGED <<codeObjects, execs>> /\ ListingStays
    \/ UNCHANGED execs /\ ListingStays /\ \E t \in Threads : Records(t)
    \/ /\ UNCHANGED codeObjects /\ ListingStays
       /\ \E t \in Threads : Fills(t) /\ \A u \in Threads \ {t} : Stays(u)
    \/ \E t \in Threads : /\ Stores(t) \/ Discards(t)
                          /\ Ends(t) /\ \A u \in Threads \ {t} : Stays(u)

LEMMA NextMovesOwn ==
    ASSUME TypeInv, LoadsOnce, [Next]_vars
    PROVE  OwnMove
<1>1. \A e \in Execs : ~DestroyExec(e)
  BY DEF DestroyExec, LoadsOnce
<1>2. ASSUME NEW t \in Threads, Fills(t) PROVE \A u \in Threads \ {t} : Stays(u)
  BY <1>2, HandlerMoves DEF Fills, Handler
<1>. QED
  BY <1>1, <1>2, NextMovesRecords DEF RecordsMove, OwnMove

----------------------------------------------------------------------------
(* Every call has its load and its executable to itself                    *)

ListingInto(e) == \E t \in Threads : pc[t] = "enum_symbols" /\ call[t].exec = e

\* The executable of a call is empty until it is loaded, with what no executable
\* was loaded with.
OwnsPlace(t) ==
    LET c == call[t] IN
    LoadsExec(t) =>
        /\ \A u \in Threads \ {t} :
             LoadsExec(u) => call[u].exec # c.exec /\ call[u].hsaco # c.hsaco
        /\ pc[t] = "enum_symbols" => execs[c.exec] = {NewLoad(t)}
        /\ pc[t] # "enum_symbols" =>
             /\ execs[c.exec] = {}
             /\ \A e \in Execs : \A l \in execs[e] : l.id # hsacos[c.hsaco].id

LoadedOnce ==
    \A e, f \in Execs : \A l \in execs[e], m \in execs[f] :
        e = f \/ l.id = m.id => e = f /\ l = m

\* The symbols of a record are those of the load it is about, where that was not
\* replaced.
RecordOwns(i) ==
    LET co == codeObjects[i] IN
    \A s \in DOMAIN co.symbols : s[1] \in Execs =>
        /\ ~ListingInto(s[1])
        /\ \E l \in execs[s[1]] : /\ l.id = co.id /\ l.was = co.content
                                  /\ l.by = 0 /\ s[2] \in NamesOf[l.is]

LoadsListed ==
    \A e \in Execs : \A l \in execs[e] : l.by = 0 /\ ~ListingInto(e) =>
        \A n \in NamesOf[l.is] :
            \E i \in Positions : <<e, n>> \in DOMAIN codeObjects[i].symbols

\* A query is about an executable that is loaded and stays so.
AsksLoaded(t) ==
    LET c == call[t] IN
    c.for = "info" =>
        /\ c.symbol \in ExecSymbols(c.symbol[1])
        /\ \A u \in Threads : LoadsExec(u) => call[u].exec # c.symbol[1]

OwnInv ==
    /\ \A t \in Threads : OwnsPlace(t) /\ AsksLoaded(t)
    /\ LoadedOnce
    /\ \A i \in Positions : RecordOwns(i)
    /\ LoadsListed

LEMMA ExecLocals ==
    ASSUME AgentInv, NEW t \in Threads, LoadsExec(t)
    PROVE  /\ call[t] \in ExecCall /\ call[t].hsaco \in Hsacos /\ call[t].exec \in Execs
           /\ IsLive(call[t].hsaco) /\ hsacos[call[t].hsaco].id # 0
<1>1. call[t] \in ExecCall /\ LocalsInv(t)
  BY LocalsTyped DEF AgentInv, LoadsExec, TypeInv
<1>. QED
  BY <1>1 DEF LocalsInv, LoadsExec, ExecCall, AgentInv, RecordedInv

LEMMA LoadsAtPlace ==
    ASSUME AgentInv, NEW t \in Threads, pc[t] \in InLoad
    PROVE  LoadsExec(t)
BY LoadingLocals DEF AgentInv, LoadsExec

\* Two handles that are in use came from different loads.
LEMMA DifferentIds ==
    ASSUME AgentInv, NEW g \in Hsacos, NEW h \in Hsacos, g # h, IsLive(g), IsLive(h),
           hsacos[g].id # 0, hsacos[h].id # 0
    PROVE  hsacos[g].id # hsacos[h].id
<1>1. PICK i \in Positions : RecordsOfHandle(g, i)
  BY DEF AgentInv, HandleInv, HandlesRecorded
<1>2. PICK j \in Positions : RecordsOfHandle(h, j)
  BY DEF AgentInv, HandleInv, HandlesRecorded
<1>3. i # j
  BY <1>1, <1>2 DEF RecordsOfHandle, NewestOf
<1>4. RecordOf(codeObjects[i].id) = i /\ RecordOf(codeObjects[j].id) = j
  BY RecordOfId DEF AgentInv, TypeInv, TypeOK
<1>. QED
  BY <1>1, <1>2, <1>3, <1>4 DEF RecordsOfHandle

\* A call that begins to load an executable has it and the handle to itself.
LEMMA JoinStep ==
    ASSUME AgentInv, LoadsOnce, NEW t \in Threads, Joins(t)
    PROVE  /\ LoadsExec(t)' /\ pc'[t] = "executable_load_co"
           /\ \A u \in Threads \ {t} : Stays(u)
           /\ UNCHANGED <<codeObjects, execs, hsacos, evaluated>>
           /\ call'[t].exec \in Execs /\ execs[call'[t].exec] = {}
           /\ ~HsacoUsed(call'[t].hsaco) /\ ~ExecUsed(call'[t].exec)
           /\ \A e \in Execs : \A l \in execs[e] : l.id # hsacos[call'[t].hsaco].id
<1>1. PICK h \in Hsacos, e \in Execs : LoadIntoExec(t, h, e)
  BY DEF Joins
<1>2. PICK c : /\ c.for = "executable" /\ c.hsaco = h /\ c.exec = e
               /\ Begin(t, "executable_load_co", c)
  BY <1>1 DEF LoadIntoExec
<1>3. /\ call'[t] = c /\ pc'[t] = "executable_load_co"
      /\ \A u \in Threads \ {t} : Stays(u)
  <2>1. TypeInv /\ "executable_load_co" \in Labels
    BY DEF AgentInv, Labels
  <2>2. Moves(t, "executable_load_co", c)
    BY <1>2, <2>1, Beginning
  <2>. QED
    BY <2>2 DEF Moves, Stays
<1>4. \A f \in Execs : \A l \in execs[f] : l.id # hsacos[h].id
  BY <1>1 DEF LoadIntoExec, LoadsOnce, AgentInv, RecordedInv
<1>. QED
  BY <1>1, <1>2, <1>3, <1>4 DEF LoadIntoExec, LoadsOnce, LoadsExec, agentVars, runtimeVars,
                                recorderVars

LEMMA ExecSteps ==
    ASSUME AgentInv, TypeInv', [Next]_vars, NEW t \in Threads, LoadsExec(t)'
    PROVE  Joins(t) \/ KeepsExec(t)
<1>1. ASSUME LoadsExec(t), call'[t].exec = call[t].exec, call'[t].hsaco = call[t].hsaco
      PROVE  KeepsExec(t)
  BY <1>1, ExecLocals, UsedHandleStays DEF KeepsExec, AgentInv, RuleInv, LoadsExec
<1>2. CASE Stays(t)
  BY <1>1, <1>2 DEF Stays, LoadsExec
<1>3. CASE Begins(t)
  BY <1>3, OneBegins DEF AgentInv
<1>4. CASE Handler(t)
  BY <1>1, <1>4, HandlerKeepsCall DEF AgentInv
<1>. QED
  BY <1>2, <1>3, <1>4, ThreadMoves DEF AgentInv

\* A call that fills its executable goes on to list its symbols.
LEMMA FillStep ==
    ASSUME AgentInv, OwnInv, NEW t \in Threads, Fills(t)
    PROVE  /\ pc[t] = "load" /\ LoadsExec(t)
           /\ pc'[t] = "enum_symbols" /\ call'[t] = call[t] /\ UNCHANGED hsacos
           /\ execs[call[t].exec] = {} /\ execs'[call[t].exec] = {NewLoad(t)}
           /\ \A e \in Execs \ {call[t].exec} : execs'[e] = execs[e]
           /\ \A e \in Execs : \A l \in execs[e] : l.id # NewLoad(t).id
<1>1. /\ pc[t] = "load" /\ LoadsExec(t) /\ loader(t)
      /\ execs' = [execs EXCEPT ![call[t].exec] = @ \cup {NewLoad(t)}]
  BY LoadsAtPlace DEF Fills, InLoad
<1>2. /\ call[t].exec \in Execs /\ call[t].hsaco \in Hsacos
      /\ hsacos[call[t].hsaco].id # 0
  BY <1>1, ExecLocals
<1>3. /\ execs[call[t].exec] = {}
      /\ \A e \in Execs : \A l \in execs[e] : l.id # hsacos[call[t].hsaco].id
  BY <1>1 DEF OwnInv, OwnsPlace
<1>4. DOMAIN execs = Execs
  BY DEF AgentInv, TypeInv, TypeOK
<1>5. execs'[call[t].exec] = {NewLoad(t)} /\ \A e \in Execs \ {call[t].exec} : execs'[e] = execs[e]
  BY <1>1, <1>2, <1>3, <1>4
<1>6. ~FailLocked(t)
  BY <1>2, <1>3, <1>5 DEF FailLocked, runtimeVars
<1>7. call[t].co # 0
  BY <1>1, <1>2 DEF AgentInv, RuleInv, FollowsRule, LoadsExec, PastFind, InLoad
<1>8. Goto(t, "enum_symbols") /\ UNCHANGED <<call, hsacos>>
  BY <1>1, <1>6, <1>7 DEF loader
<1>9. pc'[t] = "enum_symbols"
  BY <1>8 DEF Goto, AgentInv, TypeInv, TypeOK
<1>10. NewLoad(t).id = hsacos[call[t].hsaco].id
  BY DEF NewLoad
<1>. QED
  BY <1>1, <1>3, <1>5, <1>8, <1>9, <1>10

\* Where executables stay as they are, no call comes to list symbols.
LEMMA ListedBefore ==
    ASSUME AgentInv, AgentInv', OwnInv, [Next]_vars, ListingStays, UNCHANGED execs,
           NEW t \in Threads, pc'[t] = "enum_symbols"
    PROVE  pc[t] = "enum_symbols" /\ Stays(t)
<1>1. LoadsExec(t)'
  <2>1. (call[t] \in ExecCall)'
    BY DEF AgentInv, TypeInv, TypeOK, LocalsAt, InLoad
  <2>. QED
    BY <2>1 DEF LoadsExec, ExecCall
<1>2. ~Joins(t)
  <2>1. Joins(t) => Begins(t)
    BY DEF Joins, Begins
  <2>. QED
    BY <1>1, <2>1, OneBegins DEF AgentInv
<1>3. KeepsExec(t)
  BY <1>1, <1>2, ExecSteps DEF AgentInv
<1>4. execs[call[t].exec] # {}
  <2>1. EndsLoad(t)'
    BY DEF AgentInv, SymbolInv
  <2>. QED
    BY <1>3, <2>1 DEF EndsLoad, KeepsExec
<1>5. pc[t] = "enum_symbols"
  BY <1>3, <1>4 DEF OwnInv, OwnsPlace, KeepsExec
<1>. QED
  BY <1>5 DEF ListingStays

LEMMA NextOwnsPlace ==
    ASSUME AgentInv, AgentInv', OwnInv, LoadsOnce, [Next]_vars, NEW t \in Threads
    PROVE  OwnsPlace(t)'
<1>. SUFFICES ASSUME LoadsExec(t)' PROVE OwnsPlace(t)'
  BY DEF OwnsPlace
<1>1. CASE \E u \in Threads : Joins(u)
  <2>1. PICK u \in Threads : Joins(u)
    BY <1>1
  <2>2. /\ LoadsExec(u)' /\ pc'[u] = "executable_load_co"
        /\ \A v \in Threads \ {u} : Stays(v)
        /\ UNCHANGED <<execs, hsacos>>
        /\ execs[call'[u].exec] = {}
        /\ ~HsacoUsed(call'[u].hsaco) /\ ~ExecUsed(call'[u].exec)
        /\ \A e \in Execs : \A l \in execs[e] : l.id # hsacos[call'[u].hsaco].id
    BY <2>1, JoinStep
  <2>3. ASSUME NEW v \in Threads \ {u}, LoadsExec(v)'
        PROVE  /\ LoadsExec(v)
               /\ call'[v].exec # call'[u].exec /\ call'[v].hsaco # call'[u].hsaco
    BY <2>2, <2>3 DEF Stays, LoadsExec, HsacoUsed, ExecUsed
  <2>4. CASE t = u
    BY <2>2, <2>3, <2>4 DEF OwnsPlace
  <2>5. CASE t # u
    <3>1. Stays(t) /\ OwnsPlace(t) /\ LoadsExec(t)
      BY <2>2, <2>3, <2>5 DEF OwnInv
    <3>2. NewLoad(t)' = NewLoad(t)
      BY <2>2, <3>1 DEF NewLoad, Stays
    <3>3. ASSUME NEW v \in Threads \ {t}, LoadsExec(v)'
          PROVE  call'[v].exec # call'[t].exec /\ call'[v].hsaco # call'[t].hsaco
      BY <2>2, <2>3, <2>5, <3>1, <3>3 DEF OwnsPlace, Stays, LoadsExec
    <3>. QED
      BY <2>2, <3>1, <3>2, <3>3 DEF OwnsPlace, Stays
  <2>. QED
    BY <2>4, <2>5
<1>2. CASE ~\E u \in Threads : Joins(u)
  <2>1. \A u \in Threads : LoadsExec(u)' => KeepsExec(u)
    BY <1>2, ExecSteps DEF AgentInv
  <2>2. OwnsPlace(t) /\ LoadsExec(t) /\ call[t].exec \in Execs
    BY <2>1, ExecLocals DEF OwnInv, KeepsExec
  <2>3. PICK e, h, id : /\ e = call[t].exec /\ h = call[t].hsaco /\ id = hsacos[h].id
                        /\ call'[t].exec = e /\ call'[t].hsaco = h /\ hsacos'[h].id = id
    BY <2>1 DEF KeepsExec
  <2>4. SUFFICES /\ pc'[t] = "enum_symbols" => execs'[e] = {NewLoad(t)'}
                 /\ pc'[t] # "enum_symbols" =>
                      /\ execs'[e] = {}
                      /\ \A f \in Execs : \A l \in execs'[f] : l.id # id
    BY <2>1, <2>2, <2>3 DEF OwnsPlace, KeepsExec
  <2>5. Stays(t) => NewLoad(t)' = NewLoad(t)
    BY <2>1 DEF NewLoad, KeepsExec, Stays
  <2>6. CASE UNCHANGED execs /\ ListingStays
    <3>1. pc'[t] = "enum_symbols" => pc[t] = "enum_symbols" /\ Stays(t)
      BY <2>6, ListedBefore
    <3>2. pc[t] = "enum_symbols" => pc'[t] = "enum_symbols"
      BY <2>6 DEF ListingStays, Stays
    <3>. QED
      BY <2>2, <2>3, <2>5, <2>6, <3>1, <3>2 DEF OwnsPlace
  <2>7. ASSUME NEW u \in Threads, Fills(u), \A v \in Threads \ {u} : Stays(v)
        PROVE  /\ pc'[t] = "enum_symbols" => execs'[e] = {NewLoad(t)'}
               /\ pc'[t] # "enum_symbols" =>
                    /\ execs'[e] = {}
                    /\ \A f \in Execs : \A l \in execs'[f] : l.id # id
    <3>1. /\ pc[u] = "load" /\ LoadsExec(u)
          /\ pc'[u] = "enum_symbols" /\ call'[u] = call[u] /\ UNCHANGED hsacos
          /\ execs'[call[u].exec] = {NewLoad(u)}
          /\ \A f \in Execs \ {call[u].exec} : execs'[f] = execs[f]
      BY <2>7, FillStep
    <3>2. CASE t = u
      BY <2>3, <3>1, <3>2 DEF NewLoad
    <3>3. CASE t # u
      <4>1. Stays(t) /\ call[u].exec # e /\ call[u].hsaco # h
        BY <2>2, <2>3, <2>7, <3>1, <3>3 DEF OwnsPlace
      <4>2. pc[t] # "enum_symbols"
        BY <3>1, <3>3, OneLists DEF AgentInv, InLoad
      <4>3. NewLoad(u).id # id
        BY <2>2, <2>3, <3>1, <4>1, ExecLocals, DifferentIds DEF NewLoad
      <4>. QED
        BY <2>2, <2>3, <3>1, <4>1, <4>2, <4>3 DEF OwnsPlace, Stays
    <3>. QED
      BY <3>2, <3>3
  <2>8. ASSUME NEW u \in Threads, Stores(u) \/ Discards(u), Ends(u),
               \A v \in Threads \ {u} : Stays(v)
        PROVE  /\ pc'[t] = "enum_symbols" => execs'[e] = {NewLoad(t)'}
               /\ pc'[t] # "enum_symbols" =>
                    /\ execs'[e] = {}
                    /\ \A f \in Execs : \A l \in execs'[f] : l.id # id
    <3>1. t # u
      BY <2>8 DEF Ends, LoadsExec, NoCall
    <3>2. LoadsExec(u)
      BY <2>8, LoadsAtPlace DEF Stores, Discards, InLoad
    <3>3. call[u].exec # e
      BY <2>2, <2>3, <3>1, <3>2 DEF OwnsPlace
    <3>4. execs'[e] = execs[e] /\ \A f \in Execs : execs'[f] \subseteq execs[f]
      BY <2>2, <2>3, <2>8, <3>3 DEF Stores, Discards, Empties, AgentInv, TypeInv, TypeOK
    <3>. QED
      BY <2>2, <2>3, <2>5, <2>8, <3>1, <3>4 DEF OwnsPlace, Stays
  <2>9. OwnMove
    BY NextMovesOwn DEF AgentInv
  <2>. QED
    BY <2>6, <2>7, <2>8, <2>9 DEF OwnMove
<1>. QED
  BY <1>1, <1>2

LEMMA NextLoadedOnce ==
    ASSUME AgentInv, AgentInv', OwnInv, LoadsOnce, [Next]_vars
    PROVE  LoadedOnce'
<1>1. ASSUME \A e \in Execs : execs'[e] \subseteq execs[e] PROVE LoadedOnce'
  BY <1>1 DEF OwnInv, LoadedOnce
<1>2. ASSUME NEW u \in Threads, Fills(u) PROVE LoadedOnce'
  <2>. SUFFICES ASSUME NEW e \in Execs, NEW f \in Execs, NEW l \in execs'[e],
                       NEW m \in execs'[f], e = f \/ l.id = m.id
                PROVE  e = f /\ l = m
    BY DEF LoadedOnce
  <2>1. PICK g, new : /\ g = call[u].exec /\ new = NewLoad(u)
                      /\ execs'[g] = {new}
                      /\ \A d \in Execs \ {g} : execs'[d] = execs[d]
                      /\ \A d \in Execs : \A k \in execs[d] : k.id # new.id
    BY <1>2, FillStep
  <2>. QED
    BY <2>1 DEF OwnInv, LoadedOnce
<1>3. ASSUME NEW u \in Threads, Discards(u) PROVE LoadedOnce'
  BY <1>1, <1>3 DEF Discards, Empties, AgentInv, TypeInv, TypeOK
<1>4. OwnMove
  BY NextMovesOwn DEF AgentInv
<1>. QED
  BY <1>1, <1>2, <1>3, <1>4 DEF OwnMove, Stores

\* Where symbols have been listed they stay so, and the executable is left alone.
LEMMA NextKeepsListed ==
    ASSUME AgentInv, AgentInv', OwnInv, LoadsOnce, [Next]_vars, NEW e \in Execs,
           execs[e] # {}, ~ListingInto(e)
    PROVE  ~ListingInto(e)' /\ execs'[e] = execs[e]
<1>1. CASE UNCHANGED execs /\ ListingStays
  BY <1>1, ListedBefore DEF ListingInto, Stays
<1>2. ASSUME NEW u \in Threads, Fills(u), \A v \in Threads \ {u} : Stays(v)
      PROVE  ~ListingInto(e)' /\ execs'[e] = execs[e]
  <2>1. e # call[u].exec /\ call'[u] = call[u] /\ execs'[e] = execs[e]
    BY <1>2, FillStep
  <2>. QED
    BY <1>2, <2>1 DEF ListingInto, Stays
<1>3. ASSUME NEW u \in Threads, Stores(u) \/ Discards(u), Ends(u),
             \A v \in Threads \ {u} : Stays(v)
      PROVE  ~ListingInto(e)' /\ execs'[e] = execs[e]
  <2>1. call[u].exec # e
    BY <1>3 DEF ListingInto, Stores, Discards
  <2>2. execs'[e] = execs[e]
    BY <1>3, <2>1 DEF Stores, Discards, Empties, AgentInv, TypeInv, TypeOK
  <2>3. ASSUME NEW v \in Threads, pc'[v] = "enum_symbols" PROVE call'[v].exec # e
    BY <1>3, <2>3 DEF ListingInto, Stays, Ends
  <2>. QED
    BY <2>2, <2>3 DEF ListingInto
<1>4. OwnMove
  BY NextMovesOwn DEF AgentInv
<1>. QED
  BY <1>1, <1>2, <1>3, <1>4 DEF OwnMove

\* A record that keeps its symbols keeps its executables.
LEMMA RecordKeepsOwns ==
    ASSUME AgentInv, AgentInv', OwnInv, LoadsOnce, [Next]_vars,
           NEW i, NEW j, RecordOwns(i),
           codeObjects'[j].id = codeObjects[i].id,
           codeObjects'[j].content = codeObjects[i].content,
           codeObjects'[j].symbols = codeObjects[i].symbols
    PROVE  RecordOwns(j)'
<1>. SUFFICES ASSUME NEW s \in DOMAIN codeObjects[i].symbols, s[1] \in Execs
              PROVE  /\ ~ListingInto(s[1])'
                     /\ \E l \in execs'[s[1]] :
                          /\ l.id = codeObjects[i].id /\ l.was = codeObjects[i].content
                          /\ l.by = 0 /\ s[2] \in NamesOf[l.is]
  BY DEF RecordOwns, ListingInto
<1>1. /\ ~ListingInto(s[1])
      /\ \E l \in execs[s[1]] :
           /\ l.id = codeObjects[i].id /\ l.was = codeObjects[i].content
           /\ l.by = 0 /\ s[2] \in NamesOf[l.is]
  BY DEF RecordOwns
<1>2. PICK e \in Execs : e = s[1]
  OBVIOUS
<1>3. ~ListingInto(e)' /\ execs'[e] = execs[e]
  BY <1>1, <1>2, NextKeepsListed
<1>. QED
  BY <1>1, <1>2, <1>3

\* Thread t stores the symbols of executable e, which holds l, in record i.
StoresIn(t, i, e, l, symbols) ==
    /\ i \in Positions /\ e \in Execs
    /\ e = call[t].exec /\ execs[e] = {l} /\ UNCHANGED execs
    /\ codeObjects[i].id = l.id /\ codeObjects[i].content = l.was
    /\ Positions' = Positions
    /\ \A j \in Positions : /\ codeObjects'[j].id = codeObjects[j].id
                            /\ codeObjects'[j].content = codeObjects[j].content
    /\ \A j \in Positions \ {i} : codeObjects'[j].symbols = codeObjects[j].symbols
    /\ codeObjects'[i].symbols = symbols
    /\ l.by = 0 => DOMAIN symbols = {e} \X NamesOf[l.is]
    /\ l.by # 0 => \A s \in DOMAIN symbols : s[1] \notin Execs

LEMMA StoreStep ==
    ASSUME AgentInv, OwnInv, NEW t \in Threads, Stores(t)
    PROVE  \E i, e, l, symbols : StoresIn(t, i, e, l, symbols)
<1>1. pc[t] = "enum_symbols" /\ LoadsExec(t)
  BY LoadsAtPlace DEF Stores, InLoad
<1>2. PICK e, l : e \in Execs /\ e = call[t].exec /\ l = NewLoad(t) /\ execs[e] = {l}
  BY <1>1, ExecLocals DEF OwnInv, OwnsPlace
<1>3. PICK i \in Positions : i = RecordOf(call[t].co)
  BY <1>1, SymbolsRecorded DEF AgentInv, Stores
<1>4. PICK symbols : symbols = [s \in EnumSymbols(t) |-> s[2]]
  OBVIOUS
<1>5. /\ SameRecords /\ codeObjects[i].id = call[t].co
      /\ \A j \in Positions : codeObjects'[j].symbols =
            IF j = i THEN symbols ELSE codeObjects[j].symbols
  BY <1>1, <1>3, <1>4, SymbolsRecorded DEF AgentInv, Stores, FoundCo
<1>6. call[t].co = l.id /\ codeObjects[i].content = l.was
  <2>1. hsacos[call[t].hsaco].id # 0
    BY <1>1, ExecLocals
  <2>. QED
    BY <1>1, <1>2, <1>3, <2>1, StoredRecord DEF AgentInv, NewLoad, FoundCo
<1>7. l.by = call[t].sub
  BY <1>2 DEF NewLoad
<1>8. l.by = 0 => DOMAIN symbols = {e} \X NamesOf[l.is]
  <2>1. ASSUME l.by = 0 PROVE EnumSymbols(t) = {e} \X UNION {NamesOf[k.is] : k \in execs[e]}
    BY <1>2, <1>7, <2>1 DEF EnumSymbols, ExecSymbols
  <2>2. UNION {NamesOf[k.is] : k \in execs[e]} = NamesOf[l.is]
    BY <1>2
  <2>. QED
    BY <1>4, <2>1, <2>2
<1>9. l.by # 0 => \A s \in DOMAIN symbols : s[1] \notin Execs
  BY <1>4, <1>7, AgentAssumption DEF EnumSymbols
<1>10. UNCHANGED execs
  BY DEF Stores
<1>11. StoresIn(t, i, e, l, symbols)
  BY <1>2, <1>3, <1>5, <1>6, <1>8, <1>9, <1>10 DEF SameRecords, StoresIn
<1>. QED
  BY <1>11

LEMMA NextRecordOwns ==
    ASSUME AgentInv, AgentInv', OwnInv, LoadsOnce, [Next]_vars, NEW j \in Positions'
    PROVE  RecordOwns(j)'
<1>1. ASSUME UNCHANGED codeObjects PROVE RecordOwns(j)'
  BY <1>1, RecordKeepsOwns DEF OwnInv, Positions
<1>2. ASSUME NEW u \in Threads, Records(u) PROVE RecordOwns(j)'
  <2>1. CASE j = 1
    BY <1>2, <2>1 DEF Records, NewRecord, RecordOwns, Recorder!NoSymbols
  <2>2. CASE j # 1
    <3>1. j - 1 \in Positions /\ codeObjects'[j] = codeObjects[j - 1]
      BY <1>2, <2>2 DEF Records
    <3>. QED
      BY <3>1, RecordKeepsOwns DEF OwnInv
  <2>. QED
    BY <2>1, <2>2
<1>3. ASSUME NEW u \in Threads, Stores(u), Ends(u), \A v \in Threads \ {u} : Stays(v)
      PROVE  RecordOwns(j)'
  <2>1. PICK i, e, l, symbols : StoresIn(u, i, e, l, symbols)
    BY <1>3, StoreStep
  <2>2. CASE j # i
    BY <2>1, <2>2, RecordKeepsOwns DEF OwnInv, StoresIn
  <2>3. CASE j = i
    <3>1. ASSUME NEW v \in Threads PROVE pc'[v] # "enum_symbols"
      <4>1. CASE v = u
        BY <1>3, <4>1 DEF Ends
      <4>2. CASE v # u
        BY <1>3, <4>2, OneLists DEF Stays, AgentInv, Stores, InLoad
      <4>. QED
        BY <4>1, <4>2
    <3>2. ASSUME NEW s \in DOMAIN symbols, s[1] \in Execs
          PROVE  l.by = 0 /\ s[1] = e /\ s[2] \in NamesOf[l.is]
      BY <2>1, <3>2 DEF StoresIn
    <3>3. /\ l \in execs'[e] /\ codeObjects'[j].symbols = symbols
          /\ codeObjects'[j].id = l.id /\ codeObjects'[j].content = l.was
      BY <2>1, <2>3 DEF StoresIn
    <3>. QED
      BY <3>1, <3>2, <3>3 DEF RecordOwns, ListingInto
  <2>. QED
    BY <2>2, <2>3
<1>4. OwnMove
  BY NextMovesOwn DEF AgentInv
<1>. QED
  BY <1>1, <1>2, <1>3, <1>4 DEF OwnMove, Discards

LEMMA NextLoadsListed ==
    ASSUME AgentInv, AgentInv', OwnInv, LoadsOnce, [Next]_vars
    PROVE  LoadsListed'
<1>. SUFFICES ASSUME NEW e \in Execs, NEW l \in execs'[e], l.by = 0, ~ListingInto(e)',
                     NEW n \in NamesOf[l.is]
              PROVE  \E i \in Positions' : <<e, n>> \in DOMAIN codeObjects'[i].symbols
  BY DEF LoadsListed
<1>1. ASSUME l \in execs[e], ~ListingInto(e)
      PROVE  \E i \in Positions : <<e, n>> \in DOMAIN codeObjects[i].symbols
  BY <1>1 DEF OwnInv, LoadsListed
<1>2. CASE UNCHANGED <<codeObjects, execs>> /\ ListingStays
  <2>1. ~ListingInto(e)
    BY <1>2 DEF ListingInto, ListingStays, Stays
  <2>. QED
    BY <1>1, <1>2, <2>1 DEF Positions
<1>3. ASSUME UNCHANGED execs, ListingStays, NEW u \in Threads, Records(u)
      PROVE  \E i \in Positions' : <<e, n>> \in DOMAIN codeObjects'[i].symbols
  <2>1. ~ListingInto(e)
    BY <1>3 DEF ListingInto, ListingStays, Stays
  <2>2. PICK i \in Positions : <<e, n>> \in DOMAIN codeObjects[i].symbols
    BY <1>1, <1>3, <2>1
  <2>. QED
    BY <1>3, <2>2 DEF Records
<1>4. ASSUME UNCHANGED codeObjects, ListingStays, NEW u \in Threads, Fills(u)
      PROVE  \E i \in Positions' : <<e, n>> \in DOMAIN codeObjects'[i].symbols
  <2>1. e # call[u].exec /\ execs'[e] = execs[e]
    BY <1>4, FillStep DEF ListingInto
  <2>2. ~ListingInto(e)
    BY <1>4 DEF ListingInto, ListingStays, Stays
  <2>. QED
    BY <1>1, <1>4, <2>1, <2>2 DEF Positions
<1>5. ASSUME NEW u \in Threads, Discards(u), \A v \in Threads \ {u} : Stays(v)
      PROVE  \E i \in Positions' : <<e, n>> \in DOMAIN codeObjects'[i].symbols
  <2>1. e # call[u].exec /\ execs'[e] = execs[e]
    BY <1>5 DEF Discards, Empties, AgentInv, TypeInv, TypeOK
  <2>2. ~ListingInto(e)
    BY <1>5, <2>1 DEF ListingInto, Stays
  <2>. QED
    BY <1>1, <1>5, <2>1, <2>2 DEF Positions, Discards
<1>6. ASSUME NEW u \in Threads, Stores(u), \A v \in Threads \ {u} : Stays(v)
      PROVE  \E i \in Positions' : <<e, n>> \in DOMAIN codeObjects'[i].symbols
  <2>1. PICK i, f, m, symbols : StoresIn(u, i, f, m, symbols)
    BY <1>6, StoreStep
  <2>2. CASE e = f
    BY <2>1, <2>2 DEF StoresIn
  <2>3. CASE e # f
    <3>1. ~ListingInto(e)
      BY <1>6, <2>1, <2>3 DEF ListingInto, Stays, StoresIn
    <3>2. PICK k \in Positions : <<e, n>> \in DOMAIN codeObjects[k].symbols
      BY <1>1, <2>1, <3>1 DEF StoresIn
    <3>3. k # i
      <4>1. PICK d \in execs[e] : d.id = codeObjects[k].id
        BY <3>2 DEF OwnInv, RecordOwns
      <4>. QED
        BY <2>1, <2>3, <4>1 DEF OwnInv, LoadedOnce, StoresIn
    <3>. QED
      BY <2>1, <3>2, <3>3 DEF StoresIn
  <2>. QED
    BY <2>2, <2>3
<1>7. OwnMove
  BY NextMovesOwn DEF AgentInv
<1>. QED
  BY <1>2, <1>3, <1>4, <1>5, <1>6, <1>7 DEF OwnMove

LEMMA AskStep ==
    ASSUME AgentInv, TypeInv', [Next]_vars, NEW t \in Threads, call'[t].for = "info"
    PROVE  Asks(t) \/ KeepsSymbol(t)
<1>1. CASE Stays(t)
  BY <1>1 DEF Stays, KeepsSymbol
<1>2. CASE Begins(t)
  BY <1>2, OneBegins DEF AgentInv
<1>3. CASE Handler(t)
  BY <1>3, HandlerKeepsCall DEF AgentInv
<1>. QED
  BY <1>1, <1>2, <1>3, ThreadMoves DEF AgentInv

\* The executable of a query is loaded, and its symbols are listed.
LEMMA AskedExec ==
    ASSUME AgentInv, OwnInv, NEW t \in Threads, call[t].for = "info"
    PROVE  /\ call[t].symbol \in Execs \X SymNames
           /\ execs[call[t].symbol[1]] # {} /\ ~ListingInto(call[t].symbol[1])
<1>1. call[t] \in InfoCall
  BY LocalsTyped DEF AgentInv, TypeInv
<1>2. execs[call[t].symbol[1]] # {}
  BY DEF OwnInv, AsksLoaded, ExecSymbols
<1>3. \A u \in Threads : pc[u] = "enum_symbols" => LoadsExec(u)
  BY LoadsAtPlace DEF InLoad
<1>4. ~ListingInto(call[t].symbol[1])
  BY <1>3 DEF OwnInv, AsksLoaded, ListingInto
<1>. QED
  BY <1>1, <1>2, <1>4 DEF InfoCall

LEMMA NextAsksLoaded ==
    ASSUME AgentInv, AgentInv', OwnInv, LoadsOnce, [Next]_vars, NEW t \in Threads
    PROVE  AsksLoaded(t)'
<1>. SUFFICES ASSUME call'[t].for = "info" PROVE AsksLoaded(t)'
  BY DEF AsksLoaded
<1>1. CASE Asks(t)
  <2>1. PICK s \in Execs \X SymNames, attribute \in {"name", "kernel object"} :
              GetInfo(t, s, attribute)
    BY <1>1 DEF Asks
  <2>2. PICK c : c.for = "info" /\ c.symbol = s /\ Begin(t, "symbol_get_info", c)
    BY <2>1 DEF GetInfo
  <2>3. call'[t].symbol = s /\ \A u \in Threads \ {t} : Stays(u)
    <3>1. TypeInv /\ "symbol_get_info" \in Labels
      BY DEF AgentInv, Labels
    <3>2. Moves(t, "symbol_get_info", c)
      BY <2>2, <3>1, Beginning
    <3>. QED
      BY <2>2, <3>2 DEF Moves, Stays
  <2>4. UNCHANGED execs /\ s \in ExecSymbols(s[1])
    BY <2>1 DEF GetInfo, runtimeVars
  <2>5. ASSUME NEW u \in Threads, LoadsExec(u)' PROVE call'[u].exec # s[1]
    BY <2>1, <2>3, <2>5 DEF LoadsExec, Stays, GetInfo
  <2>. QED
    BY <2>3, <2>4, <2>5 DEF AsksLoaded, ExecSymbols
<1>2. CASE KeepsSymbol(t)
  <2>1. PICK s : s = call[t].symbol /\ call'[t].symbol = s
    BY <1>2 DEF KeepsSymbol
  <2>2. execs'[s[1]] = execs[s[1]]
    BY <1>2, <2>1, AskedExec, NextKeepsListed DEF KeepsSymbol
  <2>3. s \in ExecSymbols(s[1])
    BY <1>2, <2>1 DEF KeepsSymbol, OwnInv, AsksLoaded
  <2>4. ASSUME NEW u \in Threads, LoadsExec(u)' PROVE call'[u].exec # s[1]
    <3>1. CASE Joins(u)
      BY <1>2, <2>1, <3>1, JoinStep DEF KeepsSymbol, ExecUsed
    <3>2. CASE KeepsExec(u)
      BY <1>2, <2>1, <3>2 DEF KeepsSymbol, KeepsExec, OwnInv, AsksLoaded
    <3>. QED
      BY <2>4, <3>1, <3>2, ExecSteps DEF AgentInv
  <2>. QED
    BY <2>1, <2>2, <2>3, <2>4 DEF AsksLoaded, ExecSymbols
<1>. QED
  BY <1>1, <1>2, AskStep DEF AgentInv

LEMMA OwnInvCorrect ==
    ASSUME LoadsOnce PROVE Spec => []OwnInv
<1>1. Init => OwnInv
  <2>. SUFFICES ASSUME Init PROVE OwnInv
    OBVIOUS
  <2>1. \A t \in Threads : call[t].for = "nothing"
    BY DEF Init, NoCall
  <2>2. Positions = {} /\ \A e \in Execs : execs[e] = {}
    BY DEF Init, Recorder!Init, Positions
  <2>. QED
    BY <2>1, <2>2 DEF OwnInv, OwnsPlace, AsksLoaded, LoadsExec, LoadedOnce, LoadsListed
<1>2. AgentInv /\ AgentInv' /\ OwnInv /\ [Next]_vars => OwnInv'
  <2>. SUFFICES ASSUME AgentInv, AgentInv', OwnInv, [Next]_vars PROVE OwnInv'
    OBVIOUS
  <2>. QED
    BY NextOwnsPlace, NextAsksLoaded, NextLoadedOnce, NextRecordOwns, NextLoadsListed
       DEF OwnInv
<1>3. Spec => []AgentInv
  BY AgentInvCorrect DEF LoadsOnce, AllRecorded
<1>. QED
  BY <1>1, <1>2, <1>3, PTL DEF Spec

----------------------------------------------------------------------------
(* Every query is answered by the rules                                    *)

\* Between handlers a query finds the load of its executable.
LEMMA AnswerByRule ==
    ASSUME AgentInv, OwnInv, NEW t \in Threads, symbol_get_info(t)
    PROVE  call'[t].answer = Atomic!Answer(call[t].symbol, call[t].attribute,
                                           getInfoCallCounter + 1)
<1>1. PICK s, a, n : s = call[t].symbol /\ a = call[t].attribute /\ n = getInfoCallCounter + 1
  OBVIOUS
<1>. DEFINE i == Recorder!symbol_code_object(s)
<1>2. call'[t].answer = IF i = 0 \/ a = "name" THEN 0 ELSE substitute_symbol(i, s, n)
  BY <1>1, Answered DEF AgentInv
<1>3. /\ s \in Execs \X SymNames /\ ~ListingInto(s[1]) /\ s \in ExecSymbols(s[1])
  <2>1. call[t].for = "info"
    BY DEF symbol_get_info, AgentInv, TypeInv, TypeOK, LocalsAt, InfoCall
  <2>. QED
    BY <1>1, <2>1, AskedExec DEF OwnInv, AsksLoaded
<1>4. PICK e \in Execs, name \in SymNames : s = <<e, name>> /\ s[1] = e /\ s[2] = name
  BY <1>3
<1>5. PICK l \in execs[e] : name \in NamesOf[l.is]
  BY <1>3, <1>4 DEF ExecSymbols
<1>6. execs[e] = {l}
  BY <1>5 DEF OwnInv, LoadedOnce
<1>7. Atomic!Answer(s, a, n) = IF Atomic!Asking(l, name, n) = {} \/ a = "name" THEN 0
                               ELSE Atomic!First(Atomic!Asking(l, name, n))
  <2>1. Atomic!Holding(l, name, n) = Atomic!Asking(l, name, n)
    BY <1>5 DEF Atomic!Holding
  <2>2. UNION {Atomic!Holding(load, name, n) : load \in execs[e]} = Atomic!Holding(l, name, n)
    BY <1>6
  <2>. QED
    BY <1>4, <2>1, <2>2 DEF Atomic!Answer
<1>8. /\ i # 0 => i \in Positions /\ s \in DOMAIN codeObjects[i].symbols
      /\ (\E j \in Positions : s \in DOMAIN codeObjects[j].symbols) => i # 0
  BY SymbolFound DEF AgentInv, TypeInv, TypeOK
<1>. HIDE DEF i
<1>9. i # 0 => l.by = 0 /\ codeObjects[i].id = l.id /\ codeObjects[i].content = l.was
  BY <1>4, <1>6, <1>8 DEF OwnInv, RecordOwns
<1>10. CASE l.by # 0
  <2>1. Atomic!Asking(l, name, n) = {}
    BY <1>10 DEF Atomic!Asking
  <2>. QED
    BY <1>1, <1>2, <1>7, <1>9, <1>10, <2>1
<1>11. CASE l.by = 0
  <2>1. i # 0
    BY <1>3, <1>4, <1>5, <1>8, <1>11 DEF OwnInv, LoadsListed
  <2>2. PICK co : /\ co = codeObjects[i] /\ s \in DOMAIN co.symbols
                  /\ co.id = l.id /\ co.content = l.was
    BY <1>8, <1>9, <2>1
  <2>3. co.symbols[s] = name /\ co.id # 0
    BY <1>4, <1>5, <1>8, <2>1, <2>2 DEF AgentInv, SymbolInv, Attributed, RecordedInv
  <2>. DEFINE holds == {r \in evaluated :
                        /\ n \in SymbolSubs[r].getInfoIds
                        /\ CrcOf[co.content] \in SymbolSubs[r].crcs
                        /\ co.id \in SymbolSubs[r].ids
                        /\ name \in SymbolSubs[r].names}
  <2>4. Atomic!Asking(l, name, n) = holds
    BY <1>11, <2>2, <2>3 DEF Atomic!Asking
  <2>5. substitute_symbol(i, s, n) = IF holds = {} THEN 0 ELSE Min(holds)
    BY <2>2, <2>3 DEF substitute_symbol, Recorder!Crc
  <2>6. Min(holds) = Atomic!First(holds)
    BY DEF Min, Atomic!First
  <2>. HIDE DEF holds
  <2>. QED
    BY <1>1, <1>2, <1>7, <2>1, <2>4, <2>5, <2>6
<1>. QED
  BY <1>10, <1>11

LEMMA AnswerKept ==
    ASSUME NEW s, NEW a, NEW n, execs'[s[1]] = execs[s[1]], UNCHANGED evaluated
    PROVE  Atomic!Answer(s, a, n)' = Atomic!Answer(s, a, n)
BY DEF Atomic!Answer, Atomic!Holding, Atomic!Asking

\* The rules in force do not change once something is loaded.
LEMMA RulesKept ==
    ASSUME AgentInv, [Next]_vars, NEW e \in Execs, execs[e] # {}
    PROVE  UNCHANGED evaluated
<1>. USE DEF agentVars
<1>1. \A t \in Threads : pc[t] # "prepare"
  BY DEF AgentInv, InitInv, InInit
<1>2. ASSUME NEW t \in Threads, Handler(t) PROVE UNCHANGED evaluated
  BY <1>1, <1>2 DEF Handler, FailLocked, record_co_load, record_queue_creation,
     executable_load_co, run_init_command, prepare_symbol_substitutes, find_code_object,
     load_from_memory, create_executable, loader, enum_executable_symbols,
     symbol_get_info, RuntimeGetInfo
<1>3. CASE Application
  BY <1>3 DEF Application, DestroyHsaco, DestroyExec, ReadFile, CreateFromMemory,
     CreateQueue, LoadIntoExec, GetInfo
<1>. QED
  BY <1>2, <1>3 DEF Next, vars

RightlyAnswered(t) ==
    pc[t] = "runtime_get_info" =>
        \E s, a, n : /\ s = call[t].symbol /\ a = call[t].attribute /\ n = call[t].number
                     /\ call[t].answer = Atomic!Answer(s, a, n)

LEMMA NextAnswers ==
    ASSUME AgentInv, AgentInv', OwnInv, LoadsOnce, [Next]_vars, NEW t \in Threads,
           RightlyAnswered(t)
    PROVE  RightlyAnswered(t)'
<1>. SUFFICES ASSUME pc'[t] = "runtime_get_info" PROVE RightlyAnswered(t)'
  BY DEF RightlyAnswered
<1>1. CASE Stays(t)
  <2>1. PICK s, a, n : /\ s = call[t].symbol /\ a = call[t].attribute /\ n = call[t].number
                       /\ call[t].answer = Atomic!Answer(s, a, n)
    BY <1>1 DEF Stays, RightlyAnswered
  <2>2. /\ call'[t].symbol = s /\ call'[t].attribute = a /\ call'[t].number = n
        /\ call'[t].answer = Atomic!Answer(s, a, n)
    BY <1>1, <2>1 DEF Stays
  <2>3. call[t].for = "info"
    BY <1>1 DEF Stays, AgentInv, TypeInv, TypeOK, LocalsAt, InfoCall
  <2>4. UNCHANGED evaluated /\ execs'[s[1]] = execs[s[1]]
    BY <2>1, <2>3, AskedExec, RulesKept, NextKeepsListed
  <2>5. Atomic!Answer(s, a, n)' = Atomic!Answer(s, a, n)
    BY <2>4, AnswerKept
  <2>. QED
    BY <2>2, <2>5 DEF RightlyAnswered
<1>2. CASE symbol_get_info(t)
  <2>1. PICK s, a, n : s = call[t].symbol /\ a = call[t].attribute /\ n = getInfoCallCounter + 1
    OBVIOUS
  <2>2. /\ call'[t].symbol = s /\ call'[t].attribute = a /\ call'[t].number = n
        /\ call'[t].answer = Atomic!Answer(s, a, n)
    BY <1>2, <2>1, Answered, AnswerByRule DEF AgentInv
  <2>3. UNCHANGED <<evaluated, execs>>
    BY <1>2 DEF symbol_get_info, agentVars, runtimeVars
  <2>4. Atomic!Answer(s, a, n)' = Atomic!Answer(s, a, n)
    BY <2>3, AnswerKept
  <2>. QED
    BY <2>2, <2>4 DEF RightlyAnswered
<1>3. Stays(t) \/ symbol_get_info(t)
  <2>1. (call[t].for = "info")'
    BY DEF AgentInv, TypeInv, TypeOK, LocalsAt, InfoCall
  <2>2. Begins(t) => FALSE
    BY <2>1, OneBegins DEF AgentInv
  <2>3. Handler(t) => symbol_get_info(t)
    BY <2>1, HandlerKeepsCall DEF AgentInv
  <2>. QED
    BY <2>2, <2>3, ThreadMoves DEF AgentInv
<1>. QED
  BY <1>1, <1>2, <1>3

\* AnsweredByRule: to an application that loads each code object once, into an
\* executable of its own, every query is answered by the first rule in force that
\* holds, from the replacement exactly if there is one, with any number of threads,
\* handles that are used again, and calls that fail.
THEOREM QueriesAnsweredByRule ==
    ASSUME AppMay = {} PROVE Spec => []AnsweredByRule
<1>. DEFINE Right == \A t \in Threads : RightlyAnswered(t)
<1>1. Init => Right
  BY DEF Init, RightlyAnswered
<1>2. AgentInv /\ AgentInv' /\ OwnInv /\ Right /\ [Next]_vars => Right'
  BY NextAnswers DEF LoadsOnce
<1>3. Spec => []AgentInv
  BY AgentInvCorrect DEF AllRecorded
<1>4. Spec => []OwnInv
  BY OwnInvCorrect DEF LoadsOnce
<1>5. Right => AnsweredByRule
  BY DEF RightlyAnswered, AnsweredByRule
<1>. QED
  BY <1>1, <1>2, <1>3, <1>4, <1>5, PTL DEF Spec

----------------------------------------------------------------------------
(* DebugAgent implements AtomicAgent                                       *)

\* What the application sees of records, handles and queries.
LoadsView == {[id |-> codeObjects[i].id, content |-> codeObjects[i].content] :
                 i \in DOMAIN codeObjects}
HandlesView == [h \in Hsacos |-> hsacos[h].id]
AnswersView == [t \in Threads |->
                  IF pc[t] = "runtime_get_info" THEN call[t].answer ELSE 0]

\* Nothing else than the records, the handles, the executables or the answers changes.
Quiet == /\ UNCHANGED <<evaluated, loadCallCounter, getInfoCallCounter>>
         /\ InitEnded' <=> InitEnded

LEMMA ViewKept ==
    ASSUME Quiet, LoadsView' = LoadsView, HandlesView' = HandlesView, UNCHANGED execs,
           AnswersView' = AnswersView
    PROVE  UNCHANGED Atomic!vars
<1>1. InitEnded' = InitEnded
  BY DEF Quiet
<1>. QED
  BY <1>1 DEF Quiet, LoadsView, HandlesView, AnswersView, Atomic!vars

LEMMA AnswersKept ==
    ASSUME \A t \in Threads : Stays(t) \/ (pc[t] # "runtime_get_info" /\ pc'[t] # "runtime_get_info")
    PROVE  AnswersView' = AnswersView
BY DEF AnswersView, Stays

LEMMA InitEndedKept ==
    ASSUME UNCHANGED initRuns, \A t \in Threads : pc[t] = "prepare" <=> pc'[t] = "prepare"
    PROVE  InitEnded' <=> InitEnded
BY DEF InitEnded

LEMMA LoadsKept ==
    ASSUME SameRecords PROVE LoadsView' = LoadsView
BY DEF SameRecords, LoadsView, Positions

\* A step that only moves thread t, to or from no answer.
LEMMA MoveStutters ==
    ASSUME TypeInv, NEW t \in Threads, \A u \in Threads \ {t} : Stays(u),
           pc[t] \notin {"prepare", "runtime_get_info"},
           pc'[t] \notin {"prepare", "runtime_get_info"},
           UNCHANGED <<evaluated, initRuns, hsacos, execs, loadCallCounter, getInfoCallCounter>>,
           SameRecords
    PROVE  UNCHANGED Atomic!vars
<1>1. AnswersView' = AnswersView
  BY AnswersKept
<1>2. InitEnded' <=> InitEnded
  BY InitEndedKept DEF Stays
<1>3. LoadsView' = LoadsView
  BY LoadsKept
<1>4. HandlesView' = HandlesView
  BY DEF HandlesView
<1>. QED
  BY <1>1, <1>2, <1>3, <1>4, ViewKept DEF Quiet

LEMMA ApplicationImplements ==
    ASSUME AgentInv, LoadsOnce, Application
    PROVE  [Atomic!Next]_(Atomic!vars)
<1>. USE DEF agentVars, recorderVars, runtimeVars
<1>1. UNCHANGED <<codeObjects, evaluated, initRuns, loadCallCounter, getInfoCallCounter>>
  BY DEF Application, DestroyHsaco, DestroyExec, ReadFile, CreateFromMemory,
         CreateQueue, LoadIntoExec, GetInfo
<1>2. LoadsView' = LoadsView
  BY <1>1 DEF LoadsView
<1>3. ASSUME NEW h \in Hsacos, HandlesView' = [HandlesView EXCEPT ![h] = 0], Quiet,
             UNCHANGED execs, AnswersView' = AnswersView
      PROVE  Atomic!Destroy(h)
  <2>1. InitEnded' = InitEnded
    BY <1>3 DEF Quiet
  <2>. QED
    BY <1>2, <1>3, <2>1 DEF Atomic!Destroy, Quiet, LoadsView, HandlesView, AnswersView
<1>4. ASSUME NEW h \in Hsacos, NEW r, r.id = 0, hsacos' = [hsacos EXCEPT ![h] = r]
      PROVE  HandlesView' = [HandlesView EXCEPT ![h] = 0]
  BY <1>4 DEF HandlesView, AgentInv, TypeInv, TypeOK
<1>5. ASSUME NEW t \in Threads, Begins(t)
      PROVE  AnswersView' = AnswersView /\ Quiet
  <2>1. /\ \A u \in Threads \ {t} : Stays(u)
        /\ pc[t] = "idle"
    BY <1>5, OneBegins, BeginsIdle DEF AgentInv
  <2>2. pc'[t] \notin {"prepare", "runtime_get_info"}
    BY <1>5, <2>1 DEF Begins, CreateFromMemory, CreateQueue, LoadIntoExec, GetInfo, Begin,
       Goto, AgentInv, TypeInv, TypeOK
  <2>. QED
    BY <1>1, <2>1, <2>2, AnswersKept, InitEndedKept DEF Stays, Quiet
<1>6. ASSUME NEW h \in Hsacos, DestroyHsaco(h) PROVE Atomic!Destroy(h)
  <2>1. /\ UNCHANGED <<pc, call, execs>>
        /\ hsacos' = [hsacos EXCEPT ![h] = Dead]
    BY <1>6 DEF DestroyHsaco
  <2>2. AnswersView' = AnswersView /\ Quiet
    BY <1>1, <2>1 DEF AnswersView, Quiet, InitEnded
  <2>. QED
    BY <1>3, <1>4, <2>1, <2>2 DEF Dead
<1>7. ASSUME NEW t \in Threads, NEW h \in Hsacos, NEW ptr \in Ptrs, NEW content \in AppContents,
             CreateFromMemory(t, h, ptr, content)
      PROVE  Atomic!Destroy(h) \/ UNCHANGED Atomic!vars
  <2>1. /\ UNCHANGED execs /\ Begins(t)
        /\ \/ UNCHANGED hsacos
           \/ hsacos' = [hsacos EXCEPT ![h] = [content |-> content, ptr |-> ptr, id |-> 0]]
    BY <1>7 DEF CreateFromMemory, Begins
  <2>2. UNCHANGED hsacos => HandlesView' = HandlesView
    BY DEF HandlesView
  <2>. QED
    BY <1>2, <1>3, <1>4, <1>5, <2>1, <2>2, ViewKept
<1>8. ASSUME NEW t \in Threads,
             \/ CreateQueue(t)
             \/ \E h \in Hsacos, e \in Execs : LoadIntoExec(t, h, e)
             \/ \E s \in Execs \X SymNames, attribute \in {"name", "kernel object"} :
                    GetInfo(t, s, attribute)
      PROVE  UNCHANGED Atomic!vars
  <2>1. UNCHANGED <<execs, hsacos>> /\ Begins(t)
    BY <1>8 DEF CreateQueue, LoadIntoExec, GetInfo, Begins
  <2>2. HandlesView' = HandlesView
    BY <2>1 DEF HandlesView
  <2>. QED
    BY <1>2, <1>5, <2>1, <2>2, ViewKept
<1>. QED
  BY <1>6, <1>7, <1>8 DEF Application, DestroyExec, ReadFile, LoadsOnce, Atomic!Next

\* What goes on in a handler of the runtime's or of the initialization's.
LEMMA HandlerFrame ==
    ASSUME AgentInv, NEW t \in Threads, Handler(t)
    PROVE  /\ \A u \in Threads \ {t} : Stays(u)
           /\ HoldsMutex(t) => \A u \in Threads \ {t} : ~HoldsMutex(u)
BY HandlerMoves, OneHolder DEF AgentInv

LEMMA QuietHandler ==
    ASSUME AgentInv, NEW t \in Threads, Handler(t),
           pc[t] \notin {"prepare", "runtime_get_info"},
           \/ UNCHANGED pc
           \/ \E label \in Labels \ {"prepare", "runtime_get_info"} : Goto(t, label),
           UNCHANGED <<evaluated, initRuns, hsacos, execs, loadCallCounter, getInfoCallCounter>>,
           SameRecords
    PROVE  UNCHANGED Atomic!vars
<1>1. pc'[t] \notin {"prepare", "runtime_get_info"}
  BY DEF Goto, AgentInv, TypeInv, TypeOK
<1>. QED
  BY <1>1, HandlerFrame, MoveStutters DEF AgentInv

\* Handlers that change nothing the application sees.
LEMMA SilentHandlers ==
    ASSUME AgentInv, NEW t \in Threads, Handler(t),
           \/ record_queue_creation(t) \/ executable_load_co(t) \/ find_code_object(t)
           \/ load_from_memory(t) \/ create_executable(t)
           \/ loader(t) /\ UNCHANGED execs
           \/ enum_executable_symbols(t) /\ UNCHANGED execs
    PROVE  UNCHANGED Atomic!vars
<1>. USE DEF agentVars, recorderVars, runtimeVars
<1>1. UNCHANGED codeObjects => SameRecords
  BY SameUnchanged
<1>2. \A label \in InLoad \cup {"idle", "init_command"} :
         label \in Labels \ {"prepare", "runtime_get_info"}
  BY DEF InLoad, InInit, Labels
<1>. DEFINE Left == /\ \E label \in InLoad \cup {"idle", "init_command"} : Goto(t, label)
                    /\ UNCHANGED <<evaluated, initRuns, hsacos, execs, recorderVars>>
<1>3. FailLocked(t) => Left
  BY DEF FailLocked, Return
<1>4. CASE record_queue_creation(t) \/ executable_load_co(t)
  <2>1. Left /\ pc[t] \notin {"prepare", "runtime_get_info"}
    BY <1>4 DEF record_queue_creation, executable_load_co, execute_init_command_once,
                AfterInit, Return, InLoad
  <2>. QED
    BY <1>1, <1>2, <2>1, QuietHandler
<1>5. CASE find_code_object(t) \/ load_from_memory(t) \/ create_executable(t)
  <2>1. Left /\ pc[t] \notin {"prepare", "runtime_get_info"}
    BY <1>3, <1>5 DEF find_code_object, load_from_memory, create_executable, InLoad
  <2>. QED
    BY <1>1, <1>2, <2>1, QuietHandler
<1>6. CASE loader(t) /\ UNCHANGED execs
  <2>1. Left /\ pc[t] \notin {"prepare", "runtime_get_info"}
    BY <1>3, <1>6 DEF loader, InLoad, Return
  <2>. QED
    BY <1>1, <1>2, <2>1, QuietHandler
<1>7. CASE enum_executable_symbols(t) /\ UNCHANGED execs
  <2>1. /\ pc[t] = "enum_symbols" /\ Goto(t, "idle")
        /\ UNCHANGED <<evaluated, initRuns, hsacos, execs>>
    BY <1>7 DEF enum_executable_symbols, Return
  <2>2. UNCHANGED <<loadCallCounter, getInfoCallCounter>> /\ SameRecords
    <3>1. CASE UNCHANGED recorderVars
      BY <1>1, <3>1
    <3>2. CASE Recorder!record_symbols(RecordOf(call[t].co), [s \in EnumSymbols(t) |-> s[2]])
      BY <2>1, <3>2, SymbolsRecorded DEF AgentInv, Recorder!record_symbols
    <3>. QED
      BY <1>7, <3>1, <3>2 DEF enum_executable_symbols
  <2>. QED
    BY <1>2, <2>1, <2>2, QuietHandler
<1>. QED
  BY <1>4, <1>5, <1>6, <1>7

\* A load takes effect when it is recorded.
LEMMA RecordImplements ==
    ASSUME AgentInv, NEW t \in Threads, Handler(t), record_co_load(t)
    PROVE  [Atomic!Next]_(Atomic!vars)
<1>. USE DEF agentVars, recorderVars, runtimeVars
<1>1. PICK c \in LoadCall : c = call[t]
  BY DEF record_co_load, AgentInv, TypeInv, TypeOK, LocalsAt
<1>2. PICK content \in Contents : content = memory[c.ptr]
  BY <1>1 DEF AgentInv, TypeInv, LocalsInv, LoadCall
<1>3. PICK h \in Hsacos : h = c.hsaco
  BY <1>1 DEF LoadCall
<1>4. /\ Recorder!record_code_object(c.ptr, content, h, c.loaded)
      /\ pc[t] = "record_co_load" /\ Goto(t, "idle")
      /\ hsacos' = IF c.loaded THEN [hsacos EXCEPT ![h].id = loadCallCounter'] ELSE hsacos
      /\ UNCHANGED <<evaluated, initRuns, execs>>
  BY <1>1, <1>2, <1>3 DEF record_co_load, Return
<1>5. AnswersView' = AnswersView /\ (InitEnded' <=> InitEnded)
  <2>1. pc'[t] = "idle" /\ \A u \in Threads \ {t} : Stays(u)
    BY <1>4, HandlerFrame DEF Goto, AgentInv, TypeInv, TypeOK
  <2>. QED
    BY <1>4, <2>1, AnswersKept, InitEndedKept DEF Stays
<1>6. InitEnded' = InitEnded
  BY <1>5
<1>7. /\ loadCallCounter' = loadCallCounter + 1
      /\ UNCHANGED getInfoCallCounter
      /\ ~c.loaded => codeObjects' = codeObjects
      /\ c.loaded => /\ Positions' = 1..(Len(codeObjects) + 1)
                     /\ codeObjects'[1] = NewRecord(c.ptr, content, h)
                     /\ \A i \in Positions : /\ i + 1 \in Positions'
                                              /\ codeObjects'[i + 1] = codeObjects[i]
                     /\ \A i \in Positions' : i # 1 =>
                           i - 1 \in Positions /\ codeObjects'[i] = codeObjects[i - 1]
  <2>1. c.ptr \in Ptrs /\ c.loaded \in BOOLEAN
    BY <1>1 DEF LoadCall
  <2>2. Recorder!TypeOK /\ Recorder!LoadIdsOrdered
    BY DEF AgentInv, TypeInv, TypeOK
  <2>. QED
    BY <1>4, <2>1, <2>2, LoadStep
<1>8. CASE ~c.loaded
  <2>1. LoadsView' = LoadsView /\ HandlesView' = HandlesView
    BY <1>4, <1>7, <1>8 DEF LoadsView, HandlesView
  <2>2. Atomic!FailedLoad
    BY <1>4, <1>5, <1>6, <1>7, <2>1 DEF Atomic!FailedLoad, LoadsView, HandlesView, AnswersView
  <2>. QED
    BY <2>2 DEF Atomic!Next
<1>9. CASE c.loaded
  <2>1. HandlesView' = [HandlesView EXCEPT ![h] = loadCallCounter']
    BY <1>3, <1>4, <1>9 DEF HandlesView, AgentInv, TypeInv, TypeOK
  <2>2. LoadsView' = LoadsView \cup {[id |-> loadCallCounter', content |-> content]}
    <3>1. /\ 1 \in Positions' /\ Positions' \subseteq Nat
          /\ codeObjects'[1].id = loadCallCounter' /\ codeObjects'[1].content = content
      <4>1. Len(codeObjects) \in Nat
        BY RecordAt DEF AgentInv, TypeInv, TypeOK
      <4>. QED
        BY <1>7, <1>9, <4>1 DEF NewRecord
    <3>2. Positions \subseteq Nat \ {0}
      <4>1. Recorder!TypeOK
        BY DEF AgentInv, TypeInv, TypeOK
      <4>. QED
        BY <4>1, RecordAt
    <3>3. ASSUME NEW x \in LoadsView
          PROVE  x \in LoadsView'
      <4>1. PICK i \in Positions : x = [id |-> codeObjects[i].id, content |-> codeObjects[i].content]
        BY <3>3 DEF LoadsView, Positions
      <4>. QED
        BY <1>7, <1>9, <4>1 DEF LoadsView, Positions
    <3>4. ASSUME NEW x \in LoadsView', x # [id |-> loadCallCounter', content |-> content]
          PROVE  x \in LoadsView
      <4>1. PICK i \in Positions' : x = [id |-> codeObjects'[i].id, content |-> codeObjects'[i].content]
        BY <3>4 DEF LoadsView, Positions
      <4>2. i # 1
        BY <3>1, <3>4, <4>1
      <4>. QED
        BY <1>7, <1>9, <4>1, <4>2 DEF LoadsView, Positions
    <3>5. [id |-> loadCallCounter', content |-> content] \in LoadsView'
      BY <3>1 DEF LoadsView, Positions
    <3>. QED
      BY <3>3, <3>4, <3>5
  <2>3. Atomic!Load(h, content)
    BY <1>4, <1>5, <1>6, <1>7, <2>1, <2>2 DEF Atomic!Load, LoadsView, HandlesView, AnswersView
  <2>. QED
    BY <2>3 DEF Atomic!Next
<1>. QED
  BY <1>8, <1>9

\* The initialization takes effect when it ends, well or not.
LEMMA InitImplements ==
    ASSUME AgentInv, AgentInv', NEW t \in Threads, Handler(t),
           run_init_command(t) \/ prepare_symbol_substitutes(t)
    PROVE  [Atomic!Next]_(Atomic!vars)
<1>. USE DEF agentVars, recorderVars, runtimeVars
<1>1. /\ pc[t] \in InInit
      /\ UNCHANGED <<hsacos, execs, loadCallCounter, getInfoCallCounter, codeObjects>>
      /\ \E label \in {"prepare", "idle", "find"} : Goto(t, label)
  BY DEF run_init_command, prepare_symbol_substitutes, AfterInit, Return, InInit
<1>2. /\ pc'[t] \in {"prepare", "idle", "find"}
      /\ \A u \in Threads \ {t} : Stays(u) /\ pc[u] # "prepare"
  BY <1>1, HandlerFrame DEF Goto, HoldsMutex, AgentInv, TypeInv, TypeOK, InInit
<1>3. /\ AnswersView' = AnswersView
      /\ LoadsView' = LoadsView /\ HandlesView' = HandlesView
  <2>1. AnswersView' = AnswersView
    BY <1>1, <1>2, AnswersKept DEF InInit
  <2>. QED
    BY <1>1, <2>1 DEF LoadsView, HandlesView
<1>4. ~InitEnded
  <2>1. pc[t] = "init_command" => initRuns = 0
    BY DEF AgentInv, InitInv
  <2>. QED
    BY <1>1, <2>1 DEF InitEnded, InInit
<1>5. initRuns' > 0
  <2>1. initRuns \in Nat /\ (pc[t] = "prepare" => initRuns = 1)
    BY DEF AgentInv, TypeInv, TypeOK, InitInv
  <2>2. CASE run_init_command(t)
    <3>1. initRuns' = initRuns + 1
      BY <2>2 DEF run_init_command
    <3>. QED
      BY <2>1, <3>1
  <2>3. CASE prepare_symbol_substitutes(t)
    <3>1. pc[t] = "prepare" /\ initRuns' = initRuns
      BY <2>3 DEF prepare_symbol_substitutes
    <3>. QED
      BY <2>1, <3>1
  <2>. QED
    BY <2>2, <2>3
<1>6. CASE pc'[t] = "prepare"
  <2>1. ~InitEnded'
    BY <1>6 DEF InitEnded
  <2>2. pc \in [Threads -> Labels]
    BY DEF AgentInv, TypeInv, TypeOK
  <2>3. ~ prepare_symbol_substitutes(t)
    BY <1>6, <2>2 DEF prepare_symbol_substitutes, AfterInit, Return, Goto
  <2>4. UNCHANGED evaluated
    BY <2>3 DEF run_init_command
  <2>. QED
    BY <1>1, <1>3, <1>4, <2>1, <2>4, ViewKept DEF Quiet
<1>7. CASE pc'[t] # "prepare"
  <2>1. InitEnded'
    BY <1>2, <1>5, <1>7 DEF InitEnded, Stays
  <2>2. InitEnded' = TRUE
    BY <2>1
  <2>3. evaluated' \in SUBSET DOMAIN SymbolSubs
    BY DEF AgentInv, TypeInv, TypeOK
  <2>4. Atomic!Initialize
    BY <1>1, <1>3, <1>4, <2>2, <2>3 DEF Atomic!Initialize, LoadsView, HandlesView, AnswersView
  <2>. QED
    BY <2>4 DEF Atomic!Next
<1>. QED
  BY <1>6, <1>7

\* What goes on around executables.
LEMMA ExecFrame ==
    ASSUME AgentInv, NEW t \in Threads, Handler(t), pc[t] \in InLoad,
           pc'[t] \in InLoad \cup {"idle"},
           UNCHANGED <<evaluated, initRuns, hsacos, codeObjects, loadCallCounter,
                       getInfoCallCounter>>
    PROVE  /\ Quiet /\ InitEnded' = InitEnded /\ AnswersView' = AnswersView
           /\ LoadsView' = LoadsView /\ HandlesView' = HandlesView
<1>1. \A u \in Threads \ {t} : Stays(u)
  BY HandlerFrame
<1>2. AnswersView' = AnswersView
  BY <1>1, AnswersKept DEF InLoad
<1>3. InitEnded' <=> InitEnded
  BY <1>1, InitEndedKept DEF Stays, InLoad
<1>. QED
  BY <1>2, <1>3 DEF Quiet, LoadsView, HandlesView

\* The load that a call fills its executable with is a recorded one, replaced as
\* the rules allow.
LEMMA FilledByRule ==
    ASSUME AgentInv, NEW t \in Threads, pc[t] = "load"
    PROVE  \E load \in LoadsView : \E by \in Atomic!Replacing(load.id, load.content) :
             /\ load.id = hsacos[call[t].hsaco].id
             /\ NewLoad(t) = [id |-> load.id, was |-> load.content, by |-> by,
                              is |-> Atomic!Replacement(load.content, by)]
<1>1. LoadsExec(t)
  BY LoadsAtPlace DEF InLoad
<1>2. PICK h \in Hsacos : /\ h = call[t].hsaco /\ IsLive(h) /\ hsacos[h].id # 0
  BY <1>1, ExecLocals
<1>3. PICK i \in Positions : /\ codeObjects[i].id = hsacos[h].id
                             /\ codeObjects[i].content = hsacos[h].content
  BY <1>2 DEF AgentInv, HandleInv, HandlesRecorded, RecordsOfHandle
<1>4. PICK id, content : id = hsacos[h].id /\ content = hsacos[h].content
  OBVIOUS
<1>5. PICK load \in LoadsView : load = [id |-> id, content |-> content]
  BY <1>3, <1>4 DEF LoadsView, Positions
<1>6. call[t].sub \in Atomic!Replacing(id, content)
  <2>1. /\ call[t].sub # 0 => call[t].sub = Atomic!Rule(id, content)
        /\ call[t].sub = 0 => Atomic!Rule(id, content) = 0 \/ "replacement file" \in RtFaults
    BY <1>1, <1>2, <1>4 DEF AgentInv, RuleInv, FollowsRule, LoadsExec, RuleOf, PastFind, InLoad
  <2>. QED
    BY <2>1 DEF Atomic!Replacing
<1>7. NewLoad(t) = [id |-> id, was |-> content, by |-> call[t].sub,
                    is |-> Atomic!Replacement(content, call[t].sub)]
  BY <1>2, <1>4 DEF NewLoad, Atomic!Replacement
<1>. QED
  BY <1>2, <1>4, <1>5, <1>6, <1>7

\* An executable is loaded when the runtime has done it.
LEMMA FillImplements ==
    ASSUME AgentInv, OwnInv, NEW t \in Threads, Handler(t), loader(t), execs' # execs
    PROVE  [Atomic!Next]_(Atomic!vars)
<1>. USE DEF agentVars, recorderVars, runtimeVars
<1>1. Fills(t)
  BY DEF Fills, NewLoad, loader, FailLocked
<1>2. /\ pc[t] = "load" /\ pc'[t] = "enum_symbols" /\ LoadsExec(t)
      /\ execs' = [execs EXCEPT ![call[t].exec] = @ \cup {NewLoad(t)}]
  BY <1>1, FillStep DEF Fills
<1>3. UNCHANGED <<evaluated, initRuns, hsacos, codeObjects, loadCallCounter,
                  getInfoCallCounter>>
  BY DEF loader, FailLocked
<1>4. /\ Quiet /\ InitEnded' = InitEnded /\ AnswersView' = AnswersView
      /\ LoadsView' = LoadsView /\ HandlesView' = HandlesView
  BY <1>2, <1>3, ExecFrame DEF InLoad
<1>5. InitEnded
  <2>1. initRuns = 1 /\ \A u \in Threads \ {t} : ~HoldsMutex(u)
    BY <1>2, HandlerFrame DEF AgentInv, InitInv, InLoad, HoldsMutex
  <2>. QED
    BY <1>2, <2>1 DEF InitEnded, HoldsMutex, InInit
<1>6. PICK h \in Hsacos, e \in Execs : h = call[t].hsaco /\ e = call[t].exec
  BY <1>2, ExecLocals
<1>7. PICK load, by :
             /\ load \in LoadsView /\ by \in Atomic!Replacing(load.id, load.content)
             /\ load.id = HandlesView[h]
             /\ NewLoad(t) = [id |-> load.id, was |-> load.content, by |-> by,
                              is |-> Atomic!Replacement(load.content, by)]
  <2>1. HandlesView[h] = hsacos[h].id
    BY DEF HandlesView
  <2>. QED
    BY <1>2, <1>6, <2>1, FilledByRule
<1>8. execs' = [execs EXCEPT ![e] = @ \cup
                  {[id |-> load.id, was |-> load.content, by |-> by,
                    is |-> Atomic!Replacement(load.content, by)]}]
  BY <1>2, <1>6, <1>7
<1>9. Atomic!LoadIntoExecutable(h, e)
  BY <1>4, <1>5, <1>7, <1>8 DEF Atomic!LoadIntoExecutable, LoadsView, HandlesView,
     AnswersView, Quiet
<1>. QED
  BY <1>9 DEF Atomic!Next

LEMMA DiscardImplements ==
    ASSUME AgentInv, NEW t \in Threads, Handler(t), enum_executable_symbols(t),
           execs' # execs
    PROVE  [Atomic!Next]_(Atomic!vars)
<1>. USE DEF agentVars, recorderVars, runtimeVars
<1>1. /\ pc[t] = "enum_symbols" /\ Goto(t, "idle")
      /\ execs' = [execs EXCEPT ![call[t].exec] = {}]
      /\ UNCHANGED <<evaluated, initRuns, hsacos, codeObjects, loadCallCounter,
                     getInfoCallCounter>>
  BY DEF enum_executable_symbols, Return
<1>2. pc'[t] = "idle"
  BY <1>1 DEF Goto, AgentInv, TypeInv, TypeOK
<1>3. /\ Quiet /\ InitEnded' = InitEnded /\ AnswersView' = AnswersView
      /\ LoadsView' = LoadsView /\ HandlesView' = HandlesView
  BY <1>1, <1>2, ExecFrame DEF InLoad
<1>4. PICK e \in Execs : e = call[t].exec
  BY <1>1, LoadsAtPlace, ExecLocals DEF InLoad
<1>5. Atomic!Discard(e)
  BY <1>1, <1>3, <1>4 DEF Atomic!Discard, LoadsView, HandlesView, AnswersView, Quiet
<1>. QED
  BY <1>5 DEF Atomic!Next

\* A query takes effect when its answer is chosen.
LEMMA QueryImplements ==
    ASSUME AgentInv, AgentInv', OwnInv, NEW t \in Threads, Handler(t),
           symbol_get_info(t) \/ RuntimeGetInfo(t)
    PROVE  [Atomic!Next]_(Atomic!vars)
<1>. USE DEF agentVars, recorderVars, runtimeVars
<1>1. /\ pc[t] \in {"symbol_get_info", "runtime_get_info"}
      /\ UNCHANGED <<evaluated, initRuns, hsacos, execs, codeObjects, loadCallCounter>>
  BY DEF symbol_get_info, RuntimeGetInfo, Recorder!record_get_info
<1>2. \A u \in Threads \ {t} : Stays(u)
  BY HandlerFrame
<1>3. LoadsView' = LoadsView /\ HandlesView' = HandlesView
  BY <1>1 DEF LoadsView, HandlesView
<1>4. pc'[t] # "prepare"
  BY DEF symbol_get_info, RuntimeGetInfo, Return, Goto, AgentInv, TypeInv, TypeOK
<1>5. InitEnded' = InitEnded
  <2>1. InitEnded' <=> InitEnded
    BY <1>1, <1>2, <1>4, InitEndedKept DEF Stays
  <2>. QED
    BY <2>1
<1>6. CASE symbol_get_info(t)
  <2>1. PICK s, a : s = call[t].symbol /\ a = call[t].attribute
    OBVIOUS
  <2>2. /\ s \in Execs \X SymNames /\ a \in {"name", "kernel object"}
    BY <1>6, <2>1 DEF symbol_get_info, AgentInv, TypeInv, TypeOK, LocalsAt, InfoCall
  <2>3. getInfoCallCounter' = getInfoCallCounter + 1
    BY <1>6 DEF symbol_get_info, Recorder!record_get_info
  <2>4. call'[t].answer = Atomic!Answer(s, a, getInfoCallCounter')
    BY <1>6, <2>1, <2>3, AnswerByRule
  <2>5. pc'[t] = "runtime_get_info"
    BY <1>6 DEF symbol_get_info, Goto, AgentInv, TypeInv, TypeOK
  <2>6. AnswersView' = [AnswersView EXCEPT ![t] = call'[t].answer]
    BY <1>2, <2>5 DEF AnswersView, Stays
  <2>7. Atomic!Query(t, s, a)
    BY <1>1, <1>3, <1>5, <2>3, <2>4, <2>6 DEF Atomic!Query, LoadsView, HandlesView, AnswersView
  <2>. QED
    BY <2>2, <2>7 DEF Atomic!Next
<1>7. CASE RuntimeGetInfo(t)
  <2>1. pc'[t] = "idle" /\ UNCHANGED getInfoCallCounter
    BY <1>7 DEF RuntimeGetInfo, Return, Goto, AgentInv, TypeInv, TypeOK
  <2>2. AnswersView' = [AnswersView EXCEPT ![t] = 0]
    BY <1>2, <2>1 DEF AnswersView, Stays
  <2>3. Atomic!Return(t)
    BY <1>1, <1>3, <1>5, <2>1, <2>2 DEF Atomic!Return, LoadsView, HandlesView, AnswersView
  <2>. QED
    BY <2>3 DEF Atomic!Next
<1>. QED
  BY <1>6, <1>7

\* ImplementsAtomicAgent: to an application that loads each code object once, into
\* an executable of its own, every call looks as if it took effect in one step.
\* Each action of DebugAgent is an action of AtomicAgent, or changes nothing that
\* the application sees.
THEOREM AgentImplementsAtomic ==
    ASSUME AppMay = {} PROVE Spec => ImplementsAtomicAgent
<1>1. Init => Atomic!Init
  <2>. SUFFICES ASSUME Init PROVE Atomic!Init
    OBVIOUS
  <2>1. InitEnded = FALSE
    BY DEF Init, InitEnded
  <2>2. LoadsView = {} /\ HandlesView = [h \in Hsacos |-> 0] /\ AnswersView = [t \in Threads |-> 0]
    BY DEF Init, Recorder!Init, LoadsView, HandlesView, AnswersView, Dead
  <2>. QED
    BY <2>1, <2>2 DEF Init, Recorder!Init, Atomic!Init, LoadsView, HandlesView, AnswersView
<1>2. AgentInv /\ AgentInv' /\ OwnInv /\ [Next]_vars => [Atomic!Next]_(Atomic!vars)
  <2>. SUFFICES ASSUME AgentInv, AgentInv', OwnInv, [Next]_vars
                PROVE  [Atomic!Next]_(Atomic!vars)
    OBVIOUS
  <2>1. CASE UNCHANGED vars
    <3>1. Quiet /\ UNCHANGED <<codeObjects, hsacos, execs, pc, call>>
      BY <2>1 DEF vars, agentVars, recorderVars, runtimeVars, Quiet, InitEnded
    <3>. QED
      BY <3>1, ViewKept DEF LoadsView, HandlesView, AnswersView
  <2>2. CASE Application
    BY <2>2, ApplicationImplements DEF LoadsOnce
  <2>3. ASSUME NEW t \in Threads, Handler(t) PROVE [Atomic!Next]_(Atomic!vars)
    BY <2>3, SilentHandlers, RecordImplements, InitImplements, FillImplements,
       DiscardImplements, QueryImplements DEF Handler
  <2>. QED
    BY <2>1, <2>2, <2>3 DEF Next
<1>3. Spec => []AgentInv
  BY AgentInvCorrect DEF AllRecorded
<1>4. Spec => []OwnInv
  BY OwnInvCorrect DEF LoadsOnce
<1>. QED
  BY <1>1, <1>2, <1>3, <1>4, PTL DEF Spec, ImplementsAtomicAgent, Atomic!Spec
====
