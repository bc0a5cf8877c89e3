---- MODULE DebugAgent ----
(***************************************************************************)
(* The debug agent (src/src/debug_agent.{hpp,cpp}) under the calls that    *)
(* the application's threads make through the intercepted HSA API          *)
(* (src/src/init.cpp), with the code object recorder, the substitutor and  *)
(* the loader it drives.                                                   *)
(*                                                                         *)
(* One mutex serializes the agent's handlers.  A handler that makes no     *)
(* call into the HSA runtime while it holds the mutex is one action; the   *)
(* handler of executable loads, which runs the init command and the        *)
(* runtime's own load under the mutex, is one action per such call, so     *)
(* that the other threads and the unlocked halves of their calls interleave*)
(* with it.                                                                *)
(*                                                                         *)
(* The HSA runtime and the application are external: they are modelled by  *)
(* what the library asks of them.  Handles come from small pools and are   *)
(* used again after the application destroys them, which the library does  *)
(* not see.  Handles that the library creates for itself (readers and      *)
(* executables of replacements, and the second executable of a replaced    *)
(* code object) are never destroyed, hence never used again: they are left *)
(* out of the pools.                                                       *)
(***************************************************************************)
EXTENDS Naturals, Sequences, FiniteSets, SequencesExt

CONSTANTS
    Threads,        \* the application's threads
    NoThread,       \* the owner of a free mutex
    Readers,        \* hsa_code_object_reader_t handles
    CodeObjs,       \* hsa_code_object_t handles
    Execs,          \* hsa_executable_t handles
    ShadowExec,     \* an executable the agent loads for its symbols
    NamesOf,        \* the kernels of each content
    CoSubs,         \* [[code-object-replace]]: conditions and replacements
    SymbolSubs,     \* [[kernel-replace]]: conditions
    RtFaults,       \* the outside calls that may fail
    AppMay,         \* habits of the application, see the actions
    AppContents,    \* the contents the application loads
    NoContent,      \* what a dead handle or unused memory holds
    NoPtr,          \* the buffer of a handle that has none
    MaxCalls        \* bound on the calls the application makes

CONSTANTS
    Contents, Crcs, CrcOf, SizeOf, Ptrs, SymNames, DumpEnabled, IoFaults,
    Leftovers, NoFile, Partial, MaxLoads, MaxGetInfos

Hsacos == Readers \cup CodeObjs
SymHandles == (Execs \cup {ShadowExec}) \X SymNames

\* Conditions.  An absent condition is the set of all values.
CoSub == [crcs : SUBSET Crcs, ids : SUBSET Nat, content : Contents]
SymbolSub == [getInfoIds : SUBSET Nat, crcs : SUBSET Crcs, ids : SUBSET Nat,
              names : SUBSET SymNames]

ASSUME AgentAssumption ==
    /\ NoThread \notin Threads
    /\ Readers \cap CodeObjs = {}
    /\ ShadowExec \notin Execs
    /\ NamesOf \in [Contents -> SUBSET SymNames]
    /\ CoSubs \in Seq(CoSub)
    /\ SymbolSubs \in Seq(SymbolSub)
    /\ RtFaults \subseteq {"load", "replacement file", "replacement load",
                           "shadow", "executable", "symbols",
                           "init command", "prepare"}
    /\ AppMay \subseteq {"destroy executables", "load again",
                         "fill executables", "read files"}
    /\ AppContents \subseteq Contents
    /\ NoContent \notin Contents
    /\ NoPtr \notin Ptrs
    /\ MaxCalls \in Nat

VARIABLES
    mutex,          \* _agent_mutex: the thread that holds it
    initExecuted,   \* _init_command_executed
    evaluated,      \* _evaluated_symbol_subs: the rules prepared
    pc, call,       \* where each thread is, and its arguments and locals
    calls,          \* calls the application has made
    memory, hsacos, execs,  \* external: the runtime and the application
    discarded,      \* external, history: the handles whose executable was
                    \* destroyed or given up at least once
    initRuns        \* how often the init command was run

VARIABLES loadCallCounter, getInfoCallCounter, codeObjects, files, verdicts

Recorder == INSTANCE CodeObjectRecorder

ASSUME RecorderAssumption == Recorder!RecorderAssumption

agentVars == <<mutex, initExecuted, evaluated, initRuns>>
runtimeVars == <<memory, hsacos, execs, discarded>>
recorderVars == <<loadCallCounter, getInfoCallCounter, codeObjects, files, verdicts>>
vars == <<agentVars, pc, call, calls, runtimeVars, recorderVars>>

----------------------------------------------------------------------------
(* The HSA runtime and the application (external)                          *)

\* What a handle stands for: the contents that were loaded, the buffer they
\* came from, and the number of the load (0 if the library was not told).
Dead == [content |-> NoContent, ptr |-> NoPtr, id |-> 0]
IsLive(h) == hsacos[h].content # NoContent

\* What an executable was loaded with: `was` is what the application's handle
\* stood for, `is` what the runtime was made to load in its place, `by` the rule
\* that replaced it, or 0.
Loaded == [id : Nat, was : Contents, is : Contents, by : Nat]
ExecSymbols(e) == {e} \X UNION {NamesOf[l.is] : l \in execs[e]}

\* The arguments and locals of a call.
NoCall == [for |-> "nothing"]
LoadCall == [for : {"load"}, hsaco : Hsacos, ptr : Ptrs, loaded : BOOLEAN]
QueueCall == [for : {"queue"}]
ExecCall == [for : {"executable"}, hsaco : Hsacos, exec : Execs, co : Nat,
             sub : Nat, shadow : Contents \cup {NoContent}]
InfoCall == [for : {"info"}, symbol : Execs \X SymNames,
             attribute : {"name", "kernel object"}, number : Nat, answer : Nat]

\* A thread uses a handle while it is inside a call it passed it to, or that
\* is about to return it.
HsacoUsed(h) == \E t \in Threads :
    \/ call[t].for = "executable" /\ call[t].hsaco = h
    \/ call[t].for = "load" /\ call[t].loaded /\ call[t].hsaco = h
ExecUsed(e) == \E t \in Threads :
    \/ call[t].for = "executable" /\ call[t].exec = e
    \/ call[t].for = "info" /\ call[t].symbol[1] = e

Goto(t, label) == pc' = [pc EXCEPT ![t] = label]
Locals(t, c) == call' = [call EXCEPT ![t] = c]

\* A call the application starts.
Begin(t, label, c) ==
    /\ pc[t] = "idle"
    /\ calls < MaxCalls
    /\ calls' = calls + 1
    /\ Goto(t, label)
    /\ Locals(t, c)

\* The library's handler has returned to the application.
Return(t) == Goto(t, "idle") /\ Locals(t, NoCall)

\* The memory of a reader has to outlive the reader, the memory of a
\* deserialized code object only the call: then the application may free it
\* and use it for something else.
BufferUsed(ptr) ==
    \/ \E h \in Readers : IsLive(h) /\ hsacos[h].ptr = ptr
    \/ \E t \in Threads : call[t].for = "load" /\ call[t].ptr = ptr

\* hsa_code_object_reader_destroy and hsa_code_object_destroy are not
\* intercepted: the handle is free again, and the record of it stays.
DestroyHsaco(h) ==
    /\ IsLive(h) /\ ~HsacoUsed(h)
    /\ hsacos' = [hsacos EXCEPT ![h] = Dead]
    /\ UNCHANGED <<agentVars, pc, call, calls, memory, execs, discarded,
                   recorderVars>>

\* Neither is hsa_executable_destroy.
DestroyExec(e) ==
    /\ "destroy executables" \in AppMay
    /\ execs[e] # {} /\ ~ExecUsed(e)
    /\ execs' = [execs EXCEPT ![e] = {}]
    /\ discarded' = discarded \cup {e}
    /\ UNCHANGED <<agentVars, pc, call, calls, memory, hsacos, recorderVars>>

\* Nor hsa_code_object_reader_create_from_file.
ReadFile(h, content) ==
    /\ "read files" \in AppMay
    /\ h \in Readers /\ ~IsLive(h) /\ ~HsacoUsed(h)
    /\ hsacos' = [hsacos EXCEPT ![h] = [Dead EXCEPT !.content = content]]
    /\ UNCHANGED <<agentVars, pc, call, calls, memory, execs, discarded,
                   recorderVars>>

----------------------------------------------------------------------------
(* hsa_code_object_reader_create_from_memory, hsa_code_object_deserialize  *)

\* The runtime's own function runs first, outside the mutex.  When it fails,
\* what is in the handle variable is anything.
CreateFromMemory(t, h, ptr, content) ==
    /\ BufferUsed(ptr) => memory[ptr] = content
    /\ memory' = [memory EXCEPT ![ptr] = content]
    /\ \/ /\ ~IsLive(h) /\ ~HsacoUsed(h)
          /\ hsacos' = [hsacos EXCEPT ![h] =
                           [content |-> content, ptr |-> ptr, id |-> 0]]
          /\ Begin(t, "record_co_load",
                   [for |-> "load", hsaco |-> h, ptr |-> ptr, loaded |-> TRUE])
       \/ /\ "load" \in RtFaults
          /\ UNCHANGED hsacos
          /\ Begin(t, "record_co_load",
                   [for |-> "load", hsaco |-> h, ptr |-> ptr, loaded |-> FALSE])
    /\ UNCHANGED <<agentVars, execs, discarded, recorderVars>>

record_co_load(t) ==
    /\ pc[t] = "record_co_load" /\ mutex = NoThread
    /\ LET c == call[t] IN
        /\ Recorder!record_code_object(c.ptr, memory[c.ptr], c.hsaco, c.loaded)
        /\ hsacos' = IF c.loaded
                     THEN [hsacos EXCEPT ![c.hsaco].id = loadCallCounter']
                     ELSE hsacos
    /\ Return(t)
    /\ UNCHANGED <<agentVars, calls, memory, execs, discarded>>

----------------------------------------------------------------------------
(* execute_init_command_once                                               *)

Lock(t) == mutex = NoThread /\ mutex' = t
Unlock(t) == mutex' = NoThread

\* What follows the initialization in the handler that asked for it.
AfterInit(t) ==
    \/ call[t].for = "queue" /\ Unlock(t) /\ Return(t)
    \/ call[t].for = "executable" /\ mutex' = t /\ Goto(t, "find") /\ UNCHANGED call

\* Mutant: the flag is looked at before the lock is taken.
execute_init_command_once_unlocked(t) ==
    \/ /\ initExecuted
       /\ AfterInit(t)
       /\ UNCHANGED initExecuted
    \/ /\ ~initExecuted
       /\ initExecuted' = TRUE
       /\ Lock(t)
       /\ Goto(t, "init_command") /\ UNCHANGED call

\* The handlers that may initialize take the lock and look at the flag; the
\* first one sets it before the work it stands for is done.
execute_init_command_once(t) ==
    /\ mutex = NoThread
    /\ \/ /\ initExecuted
          /\ AfterInit(t)
          /\ UNCHANGED initExecuted
       \/ /\ ~initExecuted
          /\ initExecuted' = TRUE
          /\ Lock(t)
          /\ Goto(t, "init_command") /\ UNCHANGED call

\* Buffer allocation and the external command.  If its return code is not
\* the one required, run_init_command throws: the lock is released and the
\* exception leaves the library.  (An application that does not catch it
\* ends here; the behaviours of one that does go on.)
run_init_command(t) ==
    /\ pc[t] = "init_command"
    /\ initRuns' = initRuns + 1
    /\ \/ Goto(t, "prepare") /\ UNCHANGED <<mutex, call>>
       \/ /\ "init command" \in RtFaults
          /\ Unlock(t) /\ Return(t)
    /\ UNCHANGED <<initExecuted, evaluated, calls, runtimeVars, recorderVars>>

\* Mutant: the rules are numbered from 0.
prepare_symbol_substitutes_from_zero(t) ==
    /\ pc[t] = "prepare"
    /\ evaluated' = {r - 1 : r \in DOMAIN SymbolSubs}
    /\ AfterInit(t)
    /\ UNCHANGED <<initExecuted, initRuns, calls, runtimeVars, recorderVars>>

\* The trap handler is set up and an executable is made of the replacement
\* of each [[kernel-replace]]; a rule for which this fails is left out.
prepare_symbol_substitutes(t) ==
    /\ pc[t] = "prepare"
    /\ IF "prepare" \in RtFaults
       THEN evaluated' \in SUBSET DOMAIN SymbolSubs
       ELSE evaluated' = DOMAIN SymbolSubs
    /\ AfterInit(t)
    /\ UNCHANGED <<initExecuted, initRuns, calls, runtimeVars, recorderVars>>

----------------------------------------------------------------------------
(* hsa_queue_create                                                        *)

CreateQueue(t) ==
    /\ Begin(t, "record_queue_creation", [for |-> "queue"])
    /\ UNCHANGED <<agentVars, runtimeVars, recorderVars>>

\* The result of the runtime's own call is not looked at.
record_queue_creation(t) ==
    /\ pc[t] = "record_queue_creation"
    /\ execute_init_command_once(t)
    /\ UNCHANGED <<evaluated, initRuns, calls, runtimeVars, recorderVars>>

----------------------------------------------------------------------------
(* hsa_executable_load_agent_code_object, hsa_executable_load_code_object  *)

LoadIntoExec(t, h, e) ==
    /\ IsLive(h)
    /\ \A u \in Threads : ~(call[u].for = "load" /\ call[u].hsaco = h)
    /\ ~ExecUsed(e)
    /\ execs[e] # {} => "fill executables" \in AppMay
    /\ HsacoUsed(h) => "load again" \in AppMay
    /\ (\E f \in Execs : \E l \in execs[f] : l.id # 0 /\ l.id = hsacos[h].id)
           => "load again" \in AppMay
    /\ Begin(t, "executable_load_co",
             [for |-> "executable", hsaco |-> h, exec |-> e, co |-> 0,
              sub |-> 0, shadow |-> NoContent])
    /\ UNCHANGED <<agentVars, runtimeVars, recorderVars>>

executable_load_co(t) ==
    /\ pc[t] = "executable_load_co"
    /\ execute_init_command_once(t)
    /\ UNCHANGED <<evaluated, initRuns, calls, runtimeVars, recorderVars>>

\* Mutant: one condition of a rule is enough.
substitute_any_condition(co) == SelectInSeq(CoSubs, LAMBDA sub :
                     Recorder!Crc(co) \in sub.crcs \/ co.id \in sub.ids)

\* The first rule whose conditions all hold; 0 if there is none.
substitute(co) == SelectInSeq(CoSubs, LAMBDA sub :
                     Recorder!Crc(co) \in sub.crcs /\ co.id \in sub.ids)

\* A rule whose replacement file cannot be read does not replace.
find_code_object(t) ==
    /\ pc[t] = "find"
    /\ LET i == Recorder!find_code_object(call[t].hsaco)
           sub == substitute(codeObjects[i])
           found == [call[t] EXCEPT !.co = codeObjects[i].id]
       IN  \/ /\ i = 0
              /\ Goto(t, "load") /\ UNCHANGED call
           \/ /\ i # 0 /\ sub = 0
              /\ Goto(t, "load") /\ Locals(t, found)
           \/ /\ i # 0 /\ sub # 0 /\ "replacement file" \in RtFaults
              /\ Goto(t, "load") /\ Locals(t, found)
           \/ /\ i # 0 /\ sub # 0
              /\ Goto(t, "load_from_memory")
              /\ Locals(t, [found EXCEPT !.sub = sub])
    /\ UNCHANGED <<agentVars, calls, runtimeVars, recorderVars>>

\* Mutant: an early return that does not release the lock.
FailLocked_keeps_lock(t) ==
    /\ Return(t)
    /\ UNCHANGED <<agentVars, calls, runtimeVars, recorderVars>>

\* A call that fails under the lock: its status goes to the application.
FailLocked(t) ==
    /\ Unlock(t) /\ Return(t)
    /\ UNCHANGED <<initExecuted, evaluated, initRuns, calls, runtimeVars,
                   recorderVars>>

\* A reader (or code object) of the replacement takes the place of the
\* application's in the rest of the handler.
load_from_memory(t) ==
    /\ pc[t] = "load_from_memory"
    /\ \/ /\ Goto(t, "create_executable") /\ UNCHANGED call
          /\ UNCHANGED <<agentVars, calls, runtimeVars, recorderVars>>
       \/ "replacement load" \in RtFaults /\ FailLocked(t)

\* The code object found in the record.
RecordOf(id) == SelectInSeq(codeObjects, LAMBDA co : co.id = id)
FoundCo(t) == codeObjects[RecordOf(call[t].co)]

\* The original is loaded as well, for its symbols: the runtime reads it at
\* the address it was recorded with, whatever is there by now.
create_executable(t) ==
    /\ pc[t] = "create_executable"
    /\ \/ /\ Goto(t, "load")
          /\ Locals(t, [call[t] EXCEPT !.shadow = memory[FoundCo(t).ptr]])
          /\ UNCHANGED <<agentVars, calls, runtimeVars, recorderVars>>
       \/ "shadow" \in RtFaults /\ FailLocked(t)

\* The runtime's own load, into the executable the application named.
loader(t) ==
    /\ pc[t] = "load"
    /\ LET c == call[t]
           was == hsacos[c.hsaco].content
           is == IF c.sub = 0 THEN was ELSE CoSubs[c.sub].content
       IN  \/ /\ execs' = [execs EXCEPT ![c.exec] = @ \cup
                    {[id |-> hsacos[c.hsaco].id, was |-> was, is |-> is,
                      by |-> c.sub]}]
              /\ \/ /\ c.co = 0
                    /\ Unlock(t) /\ Return(t)
                 \/ /\ c.co # 0
                    /\ Goto(t, "enum_symbols") /\ UNCHANGED <<mutex, call>>
              /\ UNCHANGED <<initExecuted, evaluated, initRuns, calls, memory,
                             hsacos, discarded, recorderVars>>
           \/ "executable" \in RtFaults /\ FailLocked(t)

\* Mutant: the symbols are those of the application's executable in any case.
EnumSymbols_of_application(t) == ExecSymbols(call[t].exec)

\* The symbols of the executable, or of the second executable if the code
\* object was replaced, become the record's.  If they cannot be listed the
\* application is told that the load failed, and (external) discards the
\* executable.
EnumSymbols(t) ==
    LET c == call[t] IN
    IF c.sub = 0 THEN ExecSymbols(c.exec) ELSE {ShadowExec} \X NamesOf[c.shadow]

\* Mutant: the symbols are listed through the intercepted functions, which
\* take the lock.
enum_executable_symbols_intercepted(t) ==
    /\ pc[t] = "enum_symbols" /\ mutex = NoThread
    /\ Recorder!record_symbols(RecordOf(call[t].co),
                               [s \in EnumSymbols(t) |-> s[2]])
    /\ Unlock(t) /\ Return(t)
    /\ UNCHANGED <<initExecuted, evaluated, initRuns, calls, runtimeVars>>

enum_executable_symbols(t) ==
    /\ pc[t] = "enum_symbols"
    /\ \/ /\ Recorder!record_symbols(RecordOf(call[t].co),
                                    [s \in EnumSymbols(t) |-> s[2]])
          /\ Unlock(t) /\ Return(t)
          /\ UNCHANGED <<initExecuted, evaluated, initRuns, calls, runtimeVars>>
       \/ /\ "symbols" \in RtFaults
          /\ execs' = [execs EXCEPT ![call[t].exec] = {}]
          /\ discarded' = discarded \cup {call[t].exec}
          /\ Unlock(t) /\ Return(t)
          /\ UNCHANGED <<initExecuted, evaluated, initRuns, calls, memory,
                         hsacos, recorderVars>>

----------------------------------------------------------------------------
(* hsa_executable_symbol_get_info                                          *)

GetInfo(t, s, attribute) ==
    /\ s \in ExecSymbols(s[1])
    /\ \A u \in Threads : ~(call[u].for = "executable" /\ call[u].exec = s[1])
    /\ Begin(t, "symbol_get_info",
             [for |-> "info", symbol |-> s, attribute |-> attribute,
              number |-> 0, answer |-> 0])
    /\ UNCHANGED <<agentVars, runtimeVars, recorderVars>>

\* The first rule that was prepared and whose conditions all hold.
substitute_symbol(i, s, number) ==
    LET co == codeObjects[i]
        holds == {r \in evaluated :
                    /\ number \in SymbolSubs[r].getInfoIds
                    /\ Recorder!Crc(co) \in SymbolSubs[r].crcs
                    /\ co.id \in SymbolSubs[r].ids
                    /\ co.symbols[s] \in SymbolSubs[r].names}
    IN  IF holds = {} THEN 0 ELSE Min(holds)

\* The name is always asked of the original symbol, everything else of the
\* replacement.  `answer` is the rule whose symbol is asked, 0 for none.
symbol_get_info(t) ==
    /\ pc[t] = "symbol_get_info" /\ mutex = NoThread
    /\ Recorder!record_get_info
    /\ LET c == call[t]
           i == Recorder!symbol_code_object(c.symbol)
       IN  Locals(t, [c EXCEPT !.number = getInfoCallCounter',
                        !.answer = IF i = 0 \/ c.attribute = "name" THEN 0
                                   ELSE substitute_symbol(i, c.symbol,
                                                          getInfoCallCounter')])
    /\ Goto(t, "runtime_get_info")
    /\ UNCHANGED <<agentVars, calls, runtimeVars>>

\* The runtime's own function answers last, outside the mutex.
RuntimeGetInfo(t) ==
    /\ pc[t] = "runtime_get_info"
    /\ Return(t)
    /\ UNCHANGED <<agentVars, calls, runtimeVars, recorderVars>>

----------------------------------------------------------------------------

Init ==
    /\ Recorder!Init
    /\ mutex = NoThread
    /\ initExecuted = FALSE /\ initRuns = 0
    /\ evaluated = {}
    /\ pc = [t \in Threads |-> "idle"]
    /\ call = [t \in Threads |-> NoCall]
    /\ calls = 0
    /\ memory = [p \in Ptrs |-> NoContent]
    /\ hsacos = [h \in Hsacos |-> Dead]
    /\ execs = [e \in Execs |-> {}]
    /\ discarded = {}

\* What the application does, and what is left of a call it made.
Application ==
    \/ \E h \in Hsacos : DestroyHsaco(h)
    \/ \E e \in Execs : DestroyExec(e)
    \/ \E h \in Hsacos, content \in AppContents : ReadFile(h, content)
    \/ \E t \in Threads :
        \/ \E h \in Hsacos, ptr \in Ptrs, content \in AppContents :
              CreateFromMemory(t, h, ptr, content)
        \/ CreateQueue(t)
        \/ \E h \in Hsacos, e \in Execs : LoadIntoExec(t, h, e)
        \/ \E s \in Execs \X SymNames, attribute \in {"name", "kernel object"} :
              GetInfo(t, s, attribute)

Handler(t) ==
    \/ record_co_load(t)
    \/ record_queue_creation(t)
    \/ executable_load_co(t)
    \/ run_init_command(t)
    \/ prepare_symbol_substitutes(t)
    \/ find_code_object(t)
    \/ load_from_memory(t)
    \/ create_executable(t)
    \/ loader(t)
    \/ enum_executable_symbols(t)
    \/ symbol_get_info(t)
    \/ RuntimeGetInfo(t)

Next == Application \/ \E t \in Threads : Handler(t)

Spec == Init /\ [][Next]_vars

\* A call the application has begun is carried on: the runtime's calls and
\* the init command return, and a thread that finds the mutex free takes it
\* sooner or later.
Fairness == \A t \in Threads : WF_vars(Handler(t))
FairSpec == Spec /\ Fairness

----------------------------------------------------------------------------
(* What it implements                                                      *)

\* A load takes effect when it is recorded, the initialization when it ends, an
\* executable's load when the runtime has made it, and a query when its answer
\* is chosen.
InitEnded == initRuns > 0 /\ \A t \in Threads : pc[t] # "prepare"

Atomic == INSTANCE AtomicAgent WITH
    loadCount <- loadCallCounter,
    loads <- {[id |-> codeObjects[i].id, content |-> codeObjects[i].content] :
                 i \in DOMAIN codeObjects},
    loadOf <- [h \in Hsacos |-> hsacos[h].id],
    initialized <- InitEnded,
    prepared <- evaluated,
    queries <- getInfoCallCounter,
    answers <- [t \in Threads |->
                  IF pc[t] = "runtime_get_info" THEN call[t].answer ELSE 0]

----------------------------------------------------------------------------
(* Properties                                                              *)

\* The calls that hold the mutex between two actions.
InInit == {"init_command", "prepare"}
InLoad == {"find", "load_from_memory", "create_executable", "load", "enum_symbols"}
Labels == InInit \cup InLoad \cup
          {"idle", "record_co_load", "record_queue_creation",
           "executable_load_co", "symbol_get_info", "runtime_get_info"}

\* The locals that go with each place in a handler.
LocalsAt(t) ==
    /\ pc[t] = "idle" => call[t] = NoCall
    /\ pc[t] = "record_co_load" => call[t] \in LoadCall
    /\ pc[t] = "record_queue_creation" => call[t] \in QueueCall
    /\ pc[t] \in InInit => call[t] \in QueueCall \cup ExecCall
    /\ pc[t] \in InLoad \cup {"executable_load_co"} => call[t] \in ExecCall
    /\ pc[t] \in {"symbol_get_info", "runtime_get_info"} => call[t] \in InfoCall

TypeOK ==
    /\ Recorder!TypeOK
    /\ mutex \in Threads \cup {NoThread}
    /\ initExecuted \in BOOLEAN /\ initRuns \in Nat
    /\ evaluated \subseteq DOMAIN SymbolSubs
    /\ pc \in [Threads -> Labels]
    /\ DOMAIN call = Threads /\ \A t \in Threads : LocalsAt(t)
    /\ calls \in Nat
    /\ memory \in [Ptrs -> Contents \cup {NoContent}]
    /\ hsacos \in [Hsacos -> [content : Contents \cup {NoContent},
                              ptr : Ptrs \cup {NoPtr}, id : Nat]]
    /\ execs \in [Execs -> SUBSET Loaded]
    /\ discarded \subseteq Execs

\* A thread is between two actions of a locked handler exactly while it holds
\* the mutex: no other thread is, and no way out of a handler keeps it.
HoldsMutex(t) == pc[t] \in InInit \cup InLoad
MutexHeldInHandlers == \A t \in Threads : HoldsMutex(t) <=> mutex = t

\* "A shell command executed after buffer allocation and before kernel
\* substitution" (config.toml:43): however many threads create queues and
\* executables, the command is run at most once, and nothing is substituted
\* or loaded before it has ended, well or not.
InitOnceBeforeLoads ==
    /\ initRuns <= 1
    /\ ((\E t \in Threads : pc[t] \in InLoad) \/ (\E e \in Execs : execs[e] # {}))
          => initRuns = 1 /\ \A t \in Threads : pc[t] \notin InInit

\* A handle of the application is found under the load that returned it last,
\* although destroyed handles are used again and their records stay.
HandleFindsItsLoad ==
    \A h \in Hsacos :
        IsLive(h) /\ hsacos[h].id # 0 =>
            LET i == Recorder!find_code_object(h)
            IN  i # 0 /\ codeObjects[i].id = hsacos[h].id
                      /\ codeObjects[i].content = hsacos[h].content

\* What an executable holds is the replacement where the rules ask for one,
\* of the load the application's handle came from ("the first code object
\* loaded by the application will be replaced", config.toml:73), and what the
\* application loaded everywhere else.
ReplacedByRule ==
    \A e \in Execs : \A l \in execs[e] :
        LET rule == Atomic!Rule(l.id, l.was)
        IN  \/ /\ l.id # 0 /\ rule # 0
               /\ l.by = rule /\ l.is = CoSubs[rule].content
            \/ /\ l.by = 0 /\ l.is = l.was
               /\ l.id # 0 /\ rule # 0 => "replacement file" \in RtFaults

\* A symbol query is answered from the replacement exactly when the first
\* prepared rule asks for it: a rule's conditions are about the code object
\* that the symbol's executable was loaded from.  Kernels of a replaced code
\* object are not replaced again.
AnsweredByRule ==
    \A t \in Threads : pc[t] = "runtime_get_info" =>
        call[t].answer = Atomic!Answer(call[t].symbol, call[t].attribute, call[t].number)

\* Also with several code objects in one executable, or one in several, loads
\* that are replaced, and two threads, a query is only answered from a replacement
\* that the rules ask for, of a load that is in the symbol's executable and was not
\* replaced: never of a load of another executable, whatever the records say.
\* Two things the library is not told of are left aside: the application destroyed
\* an executable of the same handle before, or loaded something into this one that
\* was not recorded.  (The load need not be the one the kernel came with: the last
\* load into an executable is recorded with all the symbols the executable has
\* then.)
HasEarlierLife(s) == s[1] \in discarded
HasUnrecorded(s) == \E l \in execs[s[1]] : l.id = 0
AskedOf(l, c) == Atomic!Asking(l, c.symbol[2], c.number)
AnsweredFromExecutable(c) ==
    c.answer # 0 /\ ~HasEarlierLife(c.symbol) /\ ~HasUnrecorded(c.symbol) =>
        \E l \in execs[c.symbol[1]] :
            AskedOf(l, c) # {} /\ c.answer = Atomic!First(AskedOf(l, c))
AnsweredForItsExecutable ==
    [][\A t \in Threads :
          pc[t] = "symbol_get_info" /\ pc'[t] = "runtime_get_info"
              => AnsweredFromExecutable(call'[t])]_vars

\* The runtime is never made to read a recorded address that no longer holds
\* the code object ("we cannot directly read it because the memory area
\* could've been already freed", code_object_recorder.cpp:61).
ReadsRecordedContent(t) ==
    pc[t] = "create_executable" => memory[FoundCo(t).ptr] = FoundCo(t).content
ReadsLiveMemory == \A t \in Threads : ReadsRecordedContent(t)
ReadersReadLiveMemory ==
    \A t \in Threads : pc[t] = "create_executable" /\ call[t].hsaco \in Readers
                        => ReadsRecordedContent(t)

\* To an application that loads each code object once, into an executable of its
\* own, every call looks as if it took effect in one step, in the promised way:
\* neither the unlocked halves of the calls of other threads, nor the records
\* the library finds by handles that are used again, show.
ImplementsAtomicAgent == Atomic!Spec

\* Every call returns, also those of other threads that come while the init
\* command runs: no handler waits for the mutex it holds, and every way out of
\* a handler releases it.
EveryCallReturns == \A t \in Threads : pc[t] # "idle" ~> pc[t] = "idle"
====
