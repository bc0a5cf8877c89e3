---- MODULE DebugAgent_proof ----
(***************************************************************************)
(* Proofs about the agent's mutex, its once-only initialization and the    *)
(* type of its state, for any number of threads, handles, rules, faults    *)
(* and calls, with the lemmas about the recorder that the agent drives and *)
(* about what a step of a thread leaves alone.                             *)
(***************************************************************************)
EXTENDS DebugAgent, SearchLemmas

----------------------------------------------------------------------------
(* The mutex                                                               *)

\* MutexHeldInHandlers with the types it needs.
MutexInv ==
    /\ mutex \in Threads \cup {NoThread}
    /\ DOMAIN pc = Threads
    /\ MutexHeldInHandlers

\* A step that moves thread t to a place where it does not hold the mutex.
LEMMA LeavesMutexFree ==
    ASSUME MutexInv, NEW t \in Threads, NEW label,
           label \notin InInit \cup InLoad, Goto(t, label),
           \/ ~HoldsMutex(t) /\ mutex' = mutex
           \/ mutex \in {t, NoThread} /\ mutex' = NoThread
    PROVE  MutexInv'
<1>1. /\ DOMAIN pc' = Threads /\ pc'[t] = label
      /\ \A u \in Threads \ {t} : pc'[u] = pc[u]
  BY DEF Goto, MutexInv
<1>2. mutex' \in Threads \cup {NoThread}
  BY DEF MutexInv
<1>3. ASSUME NEW u \in Threads PROVE HoldsMutex(u)' <=> mutex' = u
  BY <1>1, AgentAssumption DEF MutexInv, MutexHeldInHandlers, HoldsMutex
<1>. QED
  BY <1>1, <1>2, <1>3 DEF MutexInv, MutexHeldInHandlers

\* A step that moves thread t to a place where it holds the mutex.
LEMMA EntersMutex ==
    ASSUME MutexInv, NEW t \in Threads, NEW label,
           label \in InInit \cup InLoad, Goto(t, label),
           mutex \in {t, NoThread}, mutex' = t
    PROVE  MutexInv'
<1>1. /\ DOMAIN pc' = Threads /\ pc'[t] = label
      /\ \A u \in Threads \ {t} : pc'[u] = pc[u]
  BY DEF Goto, MutexInv
<1>2. ASSUME NEW u \in Threads PROVE HoldsMutex(u)' <=> mutex' = u
  BY <1>1, AgentAssumption DEF MutexInv, MutexHeldInHandlers, HoldsMutex
<1>. QED
  BY <1>1, <1>2 DEF MutexInv, MutexHeldInHandlers

LEMMA AfterInitKeepsMutexInv ==
    ASSUME MutexInv, NEW t \in Threads, mutex \in {t, NoThread}, AfterInit(t)
    PROVE  MutexInv'
<1>1. CASE Unlock(t) /\ Return(t)
  BY <1>1, LeavesMutexFree DEF Unlock, Return, InInit, InLoad
<1>2. CASE mutex' = t /\ Goto(t, "find")
  BY <1>2, EntersMutex DEF InInit, InLoad
<1>. QED
  BY <1>1, <1>2 DEF AfterInit

LEMMA OnceKeepsMutexInv ==
    ASSUME MutexInv, NEW t \in Threads, execute_init_command_once(t)
    PROVE  MutexInv'
<1>1. CASE mutex = NoThread /\ AfterInit(t)
  BY <1>1, AfterInitKeepsMutexInv
<1>2. CASE mutex = NoThread /\ Lock(t) /\ Goto(t, "init_command")
  BY <1>2, EntersMutex DEF Lock, InInit, InLoad
<1>. QED
  BY <1>1, <1>2 DEF execute_init_command_once

\* A step of the application: it may begin a call, and does not touch the mutex.
LEMMA ApplicationStep ==
    ASSUME Application
    PROVE  /\ UNCHANGED agentVars
           /\ DOMAIN execs = Execs =>
                DOMAIN execs' = Execs /\ \A e \in Execs : execs'[e] # {} => execs[e] # {}
           /\ \/ UNCHANGED pc
              \/ \E t \in Threads, label \in {"record_co_load", "record_queue_creation",
                                              "executable_load_co", "symbol_get_info"} :
                    pc[t] = "idle" /\ Goto(t, label)
<1>. USE DEF agentVars, runtimeVars
<1>1. ASSUME NEW h \in Hsacos, DestroyHsaco(h)
      PROVE  UNCHANGED agentVars /\ UNCHANGED pc /\ UNCHANGED execs
  BY <1>1 DEF DestroyHsaco
<1>2. ASSUME NEW e \in Execs, DestroyExec(e)
      PROVE  /\ UNCHANGED agentVars /\ UNCHANGED pc
             /\ DOMAIN execs = Execs =>
                  DOMAIN execs' = Execs /\ \A f \in Execs : execs'[f] # {} => execs[f] # {}
  BY <1>2 DEF DestroyExec
<1>3. ASSUME NEW h \in Hsacos, NEW content \in AppContents, ReadFile(h, content)
      PROVE  UNCHANGED agentVars /\ UNCHANGED pc /\ UNCHANGED execs
  BY <1>3 DEF ReadFile
<1>4. ASSUME NEW t \in Threads, NEW label, NEW c, Begin(t, label, c)
      PROVE  pc[t] = "idle" /\ Goto(t, label)
  BY <1>4 DEF Begin
<1>5. ASSUME NEW t \in Threads, NEW h \in Hsacos, NEW ptr \in Ptrs,
             NEW content \in AppContents, CreateFromMemory(t, h, ptr, content)
      PROVE  /\ UNCHANGED agentVars /\ UNCHANGED execs
             /\ pc[t] = "idle" /\ Goto(t, "record_co_load")
  BY <1>4, <1>5 DEF CreateFromMemory
<1>6. ASSUME NEW t \in Threads, CreateQueue(t)
      PROVE  /\ UNCHANGED agentVars /\ UNCHANGED execs
             /\ pc[t] = "idle" /\ Goto(t, "record_queue_creation")
  BY <1>4, <1>6 DEF CreateQueue
<1>7. ASSUME NEW t \in Threads, NEW h \in Hsacos, NEW e \in Execs, LoadIntoExec(t, h, e)
      PROVE  /\ UNCHANGED agentVars /\ UNCHANGED execs
             /\ pc[t] = "idle" /\ Goto(t, "executable_load_co")
  BY <1>4, <1>7 DEF LoadIntoExec
<1>8. ASSUME NEW t \in Threads, NEW s \in Execs \X SymNames,
             NEW attribute \in {"name", "kernel object"}, GetInfo(t, s, attribute)
      PROVE  /\ UNCHANGED agentVars /\ UNCHANGED execs
             /\ pc[t] = "idle" /\ Goto(t, "symbol_get_info")
  BY <1>4, <1>8 DEF GetInfo
<1>. QED
  BY <1>1, <1>2, <1>3, <1>5, <1>6, <1>7, <1>8 DEF Application

LEMMA MutexInvCorrect == Spec => []MutexInv
<1>1. Init => MutexInv
  <2>. SUFFICES ASSUME Init PROVE MutexInv
    OBVIOUS
  <2>1. mutex = NoThread /\ pc = [t \in Threads |-> "idle"]
    BY DEF Init
  <2>2. ASSUME NEW t \in Threads PROVE ~HoldsMutex(t) /\ mutex # t
    BY <2>1, AgentAssumption DEF HoldsMutex, InInit, InLoad
  <2>. QED
    BY <2>1, <2>2 DEF MutexInv, MutexHeldInHandlers
<1>2. MutexInv /\ [Next]_vars => MutexInv'
  <2>. SUFFICES ASSUME MutexInv, [Next]_vars PROVE MutexInv'
    OBVIOUS
  <2>1. CASE Application
    <3>1. CASE UNCHANGED pc
      BY <2>1, <3>1, ApplicationStep DEF agentVars, MutexInv, MutexHeldInHandlers,
                                         HoldsMutex
    <3>2. CASE ~ UNCHANGED pc
      <4>1. PICK t \in Threads, label \in {"record_co_load", "record_queue_creation",
                                           "executable_load_co", "symbol_get_info"} :
                   pc[t] = "idle" /\ Goto(t, label)
        BY <2>1, <3>2, ApplicationStep
      <4>2. ~HoldsMutex(t) /\ label \notin InInit \cup InLoad
        BY <4>1 DEF HoldsMutex, InInit, InLoad
      <4>3. mutex' = mutex
        BY <2>1, ApplicationStep DEF agentVars
      <4>. QED
        BY <4>1, <4>2, <4>3, LeavesMutexFree
    <3>. QED
      BY <3>1, <3>2
  <2>2. ASSUME NEW t \in Threads, Handler(t) PROVE MutexInv'
    <3>. USE DEF Return, Unlock, FailLocked, agentVars
    <3>1. "idle" \notin InInit \cup InLoad /\ "runtime_get_info" \notin InInit \cup InLoad
      BY DEF InInit, InLoad
    <3>2. \A label \in InLoad : label \in InInit \cup InLoad
      OBVIOUS
    <3>3. pc[t] \in InInit \cup InLoad => mutex = t
      BY DEF MutexInv, MutexHeldInHandlers, HoldsMutex
    <3>4. CASE record_co_load(t)
      BY <3>1, <3>4, LeavesMutexFree DEF record_co_load, HoldsMutex, InInit, InLoad
    <3>5. CASE record_queue_creation(t)
      BY <3>5, OnceKeepsMutexInv DEF record_queue_creation
    <3>6. CASE executable_load_co(t)
      BY <3>6, OnceKeepsMutexInv DEF executable_load_co
    <3>7. CASE run_init_command(t)
      <4>1. mutex = t
        BY <3>3, <3>7 DEF run_init_command, InInit
      <4>2. CASE Goto(t, "prepare") /\ UNCHANGED mutex
        BY <4>1, <4>2, EntersMutex DEF InInit
      <4>3. CASE Unlock(t) /\ Return(t)
        BY <3>1, <4>1, <4>3, LeavesMutexFree
      <4>. QED
        BY <3>7, <4>2, <4>3 DEF run_init_command
    <3>8. CASE prepare_symbol_substitutes(t)
      <4>1. mutex = t /\ AfterInit(t)
        BY <3>3, <3>8 DEF prepare_symbol_substitutes, InInit
      <4>. QED
        BY <4>1, AfterInitKeepsMutexInv
    <3>9. CASE find_code_object(t)
      <4>1. mutex = t /\ mutex' = mutex
        BY <3>3, <3>9 DEF find_code_object, InLoad
      <4>2. Goto(t, "load") \/ Goto(t, "load_from_memory")
        BY <3>9 DEF find_code_object
      <4>. QED
        BY <4>1, <4>2, EntersMutex DEF InLoad
    <3>10. CASE load_from_memory(t)
      <4>1. mutex = t
        BY <3>3, <3>10 DEF load_from_memory, InLoad
      <4>2. CASE Goto(t, "create_executable") /\ mutex' = mutex
        BY <4>1, <4>2, EntersMutex DEF InLoad
      <4>. QED
        BY <3>1, <3>10, <4>1, <4>2, LeavesMutexFree DEF load_from_memory
    <3>11. CASE create_executable(t)
      <4>1. mutex = t
        BY <3>3, <3>11 DEF create_executable, InLoad
      <4>2. CASE Goto(t, "load") /\ mutex' = mutex
        BY <4>1, <4>2, EntersMutex DEF InLoad
      <4>. QED
        BY <3>1, <3>11, <4>1, <4>2, LeavesMutexFree DEF create_executable
    <3>12. CASE loader(t)
      <4>1. mutex = t
        BY <3>3, <3>12 DEF loader, InLoad
      <4>2. CASE Goto(t, "enum_symbols") /\ mutex' = mutex
        BY <4>1, <4>2, EntersMutex DEF InLoad
      <4>. QED
        BY <3>1, <3>12, <4>1, <4>2, LeavesMutexFree DEF loader
    <3>13. CASE enum_executable_symbols(t)
      <4>1. mutex = t /\ mutex' = NoThread /\ Goto(t, "idle")
        BY <3>3, <3>13 DEF enum_executable_symbols, InLoad
      <4>. QED
        BY <3>1, <4>1, LeavesMutexFree
    <3>14. CASE symbol_get_info(t)
      BY <3>1, <3>14, LeavesMutexFree DEF symbol_get_info, HoldsMutex, InInit, InLoad
    <3>15. CASE RuntimeGetInfo(t)
      BY <3>1, <3>15, LeavesMutexFree DEF RuntimeGetInfo, HoldsMutex, InInit, InLoad
    <3>. QED
      BY <2>2, <3>4, <3>5, <3>6, <3>7, <3>8, <3>9, <3>10, <3>11, <3>12, <3>13,
         <3>14, <3>15 DEF Handler
  <2>3. CASE UNCHANGED vars
    BY <2>3 DEF vars, agentVars, MutexInv, MutexHeldInHandlers, HoldsMutex
  <2>. QED
    BY <2>1, <2>2, <2>3 DEF Next
<1>. QED
  BY <1>1, <1>2, PTL DEF Spec

\* MutexHeldInHandlers holds in every reachable state.
THEOREM MutexCorrect == Spec => []MutexHeldInHandlers
<1>1. MutexInv => MutexHeldInHandlers
  BY DEF MutexInv
<1>. QED
  BY <1>1, MutexInvCorrect, PTL

----------------------------------------------------------------------------
(* The initialization                                                      *)

\* The strengthening under which InitOnceBeforeLoads is inductive: once the flag
\* is set, the command was run or its thread is about to run it.
InitInv ==
    /\ DOMAIN execs = Execs
    /\ initRuns \in {0, 1}
    /\ initRuns = 1 => initExecuted
    /\ initRuns = 0 /\ initExecuted => \E t \in Threads : pc[t] = "init_command"
    /\ \A t \in Threads :
         /\ pc[t] = "init_command" => initRuns = 0 /\ initExecuted
         /\ pc[t] \in InLoad \cup {"prepare"} => initRuns = 1
    /\ \A e \in Execs : execs[e] # {} => /\ initRuns = 1
                                        /\ \A t \in Threads : pc[t] \notin InInit

\* No two threads are inside locked handlers.
LEMMA OneHolder ==
    ASSUME MutexInv, NEW t \in Threads, NEW u \in Threads,
           HoldsMutex(t), HoldsMutex(u)
    PROVE  t = u
BY DEF MutexInv, MutexHeldInHandlers

\* A step of a thread that neither starts nor ends the initialization.
LEMMA QuietStep ==
    ASSUME InitInv, NEW t \in Threads, NEW label, DOMAIN pc = Threads, Goto(t, label),
           UNCHANGED <<initExecuted, initRuns>>,
           pc[t] # "init_command", label \notin InInit,
           label \in InLoad => initRuns = 1,
           DOMAIN execs' = Execs,
           \A e \in Execs : execs'[e] # {} =>
             execs[e] # {} \/ (initRuns = 1 /\ \A u \in Threads : pc'[u] \notin InInit)
    PROVE  InitInv'
<1>1. pc'[t] = label /\ \A u \in Threads \ {t} : pc'[u] = pc[u]
  BY DEF Goto
<1>2. initRuns = 0 /\ initExecuted => \E u \in Threads : pc'[u] = "init_command"
  BY <1>1 DEF InitInv
<1>3. ASSUME NEW u \in Threads
      PROVE  /\ pc'[u] = "init_command" => initRuns = 0 /\ initExecuted
             /\ pc'[u] \in InLoad \cup {"prepare"} => initRuns = 1
             /\ pc'[u] \in InInit => pc[u] \in InInit
  BY <1>1 DEF InitInv, InInit
<1>4. ASSUME NEW e \in Execs, execs'[e] # {}
      PROVE  initRuns = 1 /\ \A u \in Threads : pc'[u] \notin InInit
  BY <1>3, <1>4 DEF InitInv
<1>. QED
  BY <1>2, <1>3, <1>4 DEF InitInv

LEMMA OnceKeepsInitInv ==
    ASSUME MutexInv, InitInv, NEW t \in Threads, pc[t] # "init_command",
           execute_init_command_once(t), UNCHANGED <<initRuns, execs>>
    PROVE  InitInv'
<1>1. \A u \in Threads : pc[u] \notin InInit \cup InLoad
  BY AgentAssumption DEF execute_init_command_once, MutexInv, MutexHeldInHandlers,
                         HoldsMutex
<1>2. \A u \in Threads : pc[u] # "init_command"
  BY <1>1 DEF InInit
<1>3. CASE initExecuted
  <2>1. initRuns = 1
    BY <1>2, <1>3 DEF InitInv
  <2>2. Goto(t, "idle") \/ Goto(t, "find")
    BY <1>3 DEF execute_init_command_once, AfterInit, Return
  <2>3. UNCHANGED initExecuted
    BY <1>3 DEF execute_init_command_once
  <2>4. "idle" \notin InInit /\ "find" \notin InInit
    BY DEF InInit
  <2>5. DOMAIN pc = Threads /\ DOMAIN execs' = Execs
        /\ \A e \in Execs : execs'[e] # {} => execs[e] # {}
    BY DEF MutexInv, InitInv
  <2>. QED
    BY <2>1, <2>2, <2>3, <2>4, <2>5, QuietStep
<1>4. CASE ~initExecuted
  <2>1. initExecuted' = TRUE /\ Goto(t, "init_command")
    BY <1>4 DEF execute_init_command_once
  <2>2. initRuns = 0
    BY <1>4 DEF InitInv
  <2>3. pc'[t] = "init_command" /\ \A u \in Threads \ {t} : pc'[u] = pc[u]
    BY <2>1 DEF Goto, MutexInv
  <2>4. \A e \in Execs : execs'[e] = {}
    BY <2>2 DEF InitInv
  <2>5. ASSUME NEW u \in Threads PROVE pc'[u] \notin InLoad \cup {"prepare"}
    BY <1>1, <2>3 DEF InInit, InLoad
  <2>. QED
    BY <2>1, <2>2, <2>3, <2>4, <2>5 DEF InitInv
<1>. QED
  BY <1>3, <1>4

LEMMA CommandKeepsInitInv ==
    ASSUME MutexInv, InitInv, NEW t \in Threads, run_init_command(t)
    PROVE  InitInv'
<1>1. /\ pc[t] = "init_command" /\ initRuns = 0 /\ initExecuted
      /\ initRuns' = 1 /\ initExecuted' = initExecuted /\ execs' = execs
  <2>1. pc[t] = "init_command" /\ initRuns' = initRuns + 1
        /\ initExecuted' = initExecuted /\ execs' = execs
    BY DEF run_init_command, runtimeVars
  <2>2. initRuns = 0 /\ initExecuted
    BY <2>1 DEF InitInv
  <2>. QED
    BY <2>1, <2>2
<1>2. PICK label \in {"prepare", "idle"} : Goto(t, label)
  BY DEF run_init_command, Return
<1>3. pc'[t] = label /\ \A u \in Threads \ {t} : pc'[u] = pc[u]
  BY <1>2 DEF Goto, MutexInv
<1>4. ASSUME NEW u \in Threads \ {t} PROVE pc[u] # "init_command"
  BY <1>1, OneHolder DEF HoldsMutex, InInit
<1>5. \A e \in Execs : execs[e] = {}
  BY <1>1 DEF InitInv
<1>6. ASSUME NEW u \in Threads PROVE pc'[u] # "init_command"
  BY <1>3, <1>4
<1>. QED
  BY <1>1, <1>5, <1>6 DEF InitInv

LEMMA InitInvCorrect == Spec => []InitInv
<1>1. Init => InitInv
  <2>. SUFFICES ASSUME Init PROVE InitInv
    OBVIOUS
  <2>1. \A t \in Threads : pc[t] \notin InInit \cup InLoad \cup {"prepare", "init_command"}
    BY DEF Init, InInit, InLoad
  <2>2. initRuns = 0 /\ ~initExecuted /\ DOMAIN execs = Execs
        /\ \A e \in Execs : execs[e] = {}
    BY DEF Init
  <2>. QED
    BY <2>1, <2>2 DEF InitInv
<1>2. MutexInv /\ InitInv /\ [Next]_vars => InitInv'
  <2>. SUFFICES ASSUME MutexInv, InitInv, [Next]_vars PROVE InitInv'
    OBVIOUS
  <2>1. DOMAIN pc = Threads /\ DOMAIN execs = Execs
    BY DEF MutexInv, InitInv
  <2>2. CASE Application
    <3>1. /\ UNCHANGED <<initExecuted, initRuns>>
          /\ DOMAIN execs' = Execs /\ \A e \in Execs : execs'[e] # {} => execs[e] # {}
      BY <2>1, <2>2, ApplicationStep DEF agentVars
    <3>2. CASE UNCHANGED pc
      BY <3>1, <3>2 DEF InitInv
    <3>3. CASE ~ UNCHANGED pc
      <4>1. PICK t \in Threads, label \in {"record_co_load", "record_queue_creation",
                                           "executable_load_co", "symbol_get_info"} :
                   pc[t] = "idle" /\ Goto(t, label)
        BY <2>2, <3>3, ApplicationStep
      <4>2. label \notin InInit \cup InLoad
        BY <4>1 DEF InInit, InLoad
      <4>. QED
        BY <2>1, <3>1, <4>1, <4>2, QuietStep
    <3>. QED
      BY <3>2, <3>3
  <2>3. ASSUME NEW t \in Threads, Handler(t) PROVE InitInv'
    <3>. USE DEF Return, agentVars, runtimeVars
    <3>1. "idle" \notin InInit \cup InLoad /\ "runtime_get_info" \notin InInit \cup InLoad
          /\ \A label \in InLoad : label \notin InInit
      BY DEF InInit, InLoad
    <3>2. pc[t] \in InLoad \cup {"prepare"} => pc[t] # "init_command" /\ initRuns = 1
      BY DEF InitInv, InLoad
    <3>3. ASSUME UNCHANGED execs
          PROVE  /\ DOMAIN execs' = Execs
                 /\ \A e \in Execs : execs'[e] # {} => execs[e] # {}
      BY <2>1, <3>3
    <3>4. CASE record_co_load(t) \/ RuntimeGetInfo(t)
      BY <2>1, <3>1, <3>3, <3>4, QuietStep DEF record_co_load, RuntimeGetInfo
    <3>5. CASE record_queue_creation(t) \/ executable_load_co(t)
      BY <3>5, OnceKeepsInitInv DEF record_queue_creation, executable_load_co
    <3>6. CASE run_init_command(t)
      BY <3>6, CommandKeepsInitInv
    <3>7. CASE prepare_symbol_substitutes(t)
      <4>1. /\ pc[t] = "prepare" /\ UNCHANGED <<initExecuted, initRuns, execs>>
            /\ Goto(t, "idle") \/ Goto(t, "find")
        BY <3>7 DEF prepare_symbol_substitutes, AfterInit
      <4>2. "find" \in InLoad
        BY DEF InLoad
      <4>. QED
        BY <2>1, <3>1, <3>2, <3>3, <4>1, <4>2, QuietStep
    <3>8. CASE find_code_object(t) \/ load_from_memory(t) \/ create_executable(t)
      <4>1. /\ pc[t] \in InLoad /\ UNCHANGED <<initExecuted, initRuns, execs>>
            /\ \E label \in InLoad \cup {"idle"} : Goto(t, label)
        <5>1. CASE find_code_object(t)
          BY <5>1 DEF find_code_object, InLoad
        <5>2. CASE load_from_memory(t)
          BY <5>2 DEF load_from_memory, FailLocked, InLoad
        <5>3. CASE create_executable(t)
          BY <5>3 DEF create_executable, FailLocked, InLoad
        <5>. QED
          BY <3>8, <5>1, <5>2, <5>3
      <4>. QED
        BY <2>1, <3>1, <3>2, <3>3, <4>1, QuietStep
    <3>9. CASE loader(t) \/ enum_executable_symbols(t)
      <4>1. /\ pc[t] \in InLoad /\ UNCHANGED <<initExecuted, initRuns>>
            /\ DOMAIN execs' = DOMAIN execs
        <5>1. CASE loader(t)
          BY <5>1 DEF loader, FailLocked, InLoad
        <5>2. CASE enum_executable_symbols(t)
          BY <5>2 DEF enum_executable_symbols, InLoad
        <5>. QED
          BY <3>9, <5>1, <5>2
      <4>2. PICK label \in InLoad \cup {"idle"} : Goto(t, label)
        <5>1. CASE loader(t)
          BY <5>1 DEF loader, FailLocked, InLoad
        <5>2. CASE enum_executable_symbols(t)
          BY <5>2 DEF enum_executable_symbols
        <5>. QED
          BY <3>9, <5>1, <5>2
      <4>3. ASSUME NEW u \in Threads PROVE pc'[u] \notin InInit
        <5>1. CASE u = t
          BY <2>1, <3>1, <4>2, <5>1 DEF Goto
        <5>2. CASE u # t
          <6>1. pc'[u] = pc[u]
            BY <2>1, <4>2, <5>2 DEF Goto
          <6>. QED
            BY <4>1, <5>2, <6>1, OneHolder DEF HoldsMutex
        <5>. QED
          BY <5>1, <5>2
      <4>. QED
        BY <2>1, <3>1, <3>2, <4>1, <4>2, <4>3, QuietStep
    <3>10. CASE symbol_get_info(t)
      BY <2>1, <3>1, <3>3, <3>10, QuietStep DEF symbol_get_info
    <3>. QED
      BY <2>3, <3>4, <3>5, <3>6, <3>7, <3>8, <3>9, <3>10 DEF Handler
  <2>4. CASE UNCHANGED vars
    BY <2>4 DEF vars, agentVars, runtimeVars, InitInv
  <2>. QED
    BY <2>2, <2>3, <2>4 DEF Next
<1>. QED
  BY <1>1, <1>2, MutexInvCorrect, PTL DEF Spec

\* InitOnceBeforeLoads holds in every reachable state.
THEOREM InitOnceCorrect == Spec => []InitOnceBeforeLoads
<1>1. MutexInv /\ InitInv => InitOnceBeforeLoads
  <2>. SUFFICES ASSUME MutexInv, InitInv PROVE InitOnceBeforeLoads
    OBVIOUS
  <2>1. ASSUME NEW t \in Threads, pc[t] \in InLoad, NEW u \in Threads
        PROVE  pc[u] \notin InInit
    BY <2>1, OneHolder DEF HoldsMutex, InInit, InLoad
  <2>2. initRuns <= 1
    BY DEF InitInv
  <2>. QED
    BY <2>1, <2>2 DEF InitOnceBeforeLoads, InitInv
<1>. QED
  BY <1>1, MutexInvCorrect, InitInvCorrect, PTL

----------------------------------------------------------------------------
(* The recorder inside the agent                                           *)

\* The recorder with what is proved about it.
RecorderProof == INSTANCE CodeObjectRecorder_proof

Positions == DOMAIN codeObjects

\* The recorder that the proofs are about is the one that the agent drives.
LEMMA SameState ==
    /\ RecorderProof!RecordedCodeObject = Recorder!RecordedCodeObject
    /\ RecorderProof!TypeOK <=> Recorder!TypeOK
    /\ RecorderProof!LoadIdsOrdered <=> Recorder!LoadIdsOrdered
    /\ RecorderProof!Positions = Positions
BY DEF RecorderProof!TypeOK, Recorder!TypeOK, Positions,
       RecorderProof!RecordedCodeObject, Recorder!RecordedCodeObject,
       RecorderProof!SymbolMaps, Recorder!SymbolMaps,
       RecorderProof!Verdict, Recorder!Verdict,
       RecorderProof!Conclusions, Recorder!Conclusions,
       RecorderProof!Errors, Recorder!Errors,
       RecorderProof!LoadIdsOrdered, Recorder!LoadIdsOrdered,
       RecorderProof!LoggedOf, Recorder!LoggedOf,
       RecorderProof!Positions, Recorder!Positions

LEMMA SameLoad ==
    ASSUME NEW ptr, NEW content, NEW hsaco, NEW loaded,
           Recorder!record_code_object(ptr, content, hsaco, loaded)
    PROVE  RecorderProof!record_code_object(ptr, content, hsaco, loaded)
<1>. USE DEF RecorderProof!Crc, Recorder!Crc, RecorderProof!Log, Recorder!Log
<1>1. \A crc : RecorderProof!crc_collision(crc) = Recorder!crc_collision(crc)
  BY DEF RecorderProof!crc_collision, Recorder!crc_collision,
         RecorderProof!SelectInSeq, Recorder!SelectInSeq,
         RecorderProof!Min, Recorder!Min
<1>2. \A co : Recorder!dump_code_object(co) => RecorderProof!dump_code_object(co)
  BY DEF RecorderProof!dump_code_object, Recorder!dump_code_object
<1>3. \A new, old : Recorder!handle_crc_collision(new, old)
                    => RecorderProof!handle_crc_collision(new, old)
  BY DEF RecorderProof!handle_crc_collision, Recorder!handle_crc_collision,
         RecorderProof!Size, Recorder!Size,
         RecorderProof!MayDiffer, Recorder!MayDiffer,
         RecorderProof!MayCompareEqual, Recorder!MayCompareEqual,
         RecorderProof!FileHasSizeOf, Recorder!FileHasSizeOf
<1>. QED
  BY <1>1, <1>2, <1>3
  DEF RecorderProof!record_code_object, Recorder!record_code_object,
      RecorderProof!NoSymbols, Recorder!NoSymbols,
      RecorderProof!Cons, Recorder!Cons

LEMMA SameSymbols ==
    ASSUME NEW i, NEW symbols, Recorder!record_symbols(i, symbols)
    PROVE  RecorderProof!record_symbols(i, symbols)
BY DEF RecorderProof!record_symbols, Recorder!record_symbols

LEMMA RecordAt ==
    ASSUME Recorder!TypeOK
    PROVE  /\ Len(codeObjects) \in Nat
           /\ Positions = 1..Len(codeObjects)
           /\ \A i \in Positions : codeObjects[i] \in Recorder!RecordedCodeObject
BY LenProperties, ElementOfSeq DEF Positions, Recorder!TypeOK

\* What becomes of the recorder when a load is recorded.
NewRecord(ptr, content, hsaco) ==
    [id |-> loadCallCounter + 1, ptr |-> ptr, content |-> content,
     hsaco |-> hsaco, symbols |-> Recorder!NoSymbols]

LEMMA LoadStep ==
    ASSUME Recorder!TypeOK, Recorder!LoadIdsOrdered,
           NEW ptr \in Ptrs, NEW content \in Contents, NEW hsaco \in Hsacos,
           NEW loaded \in BOOLEAN,
           Recorder!record_code_object(ptr, content, hsaco, loaded)
    PROVE  /\ Recorder!TypeOK' /\ Recorder!LoadIdsOrdered'
           /\ loadCallCounter' = loadCallCounter + 1
           /\ UNCHANGED getInfoCallCounter
           /\ ~loaded => codeObjects' = codeObjects
           /\ loaded => /\ Positions' = 1..(Len(codeObjects) + 1)
                        /\ codeObjects'[1] = NewRecord(ptr, content, hsaco)
                        /\ \A i \in Positions : /\ i + 1 \in Positions'
                                                 /\ codeObjects'[i + 1] = codeObjects[i]
                        /\ \A i \in Positions' : i # 1 =>
                              i - 1 \in Positions /\ codeObjects'[i] = codeObjects[i - 1]
<1>. DEFINE new == NewRecord(ptr, content, hsaco)
<1>1. /\ RecorderProof!TypeOK /\ RecorderProof!LoadIdsOrdered
      /\ RecorderProof!record_code_object(ptr, content, hsaco, loaded)
  BY SameState, SameLoad
<1>2. RecorderProof!TypeOK' /\ RecorderProof!LoadIdsOrdered'
  BY <1>1, RecorderAssumption, RecorderProof!LoadKeepsType, RecorderProof!LoadKeepsIds
<1>3. Recorder!TypeOK' /\ Recorder!LoadIdsOrdered'
  <2>1. /\ RecorderProof!TypeOK' => Recorder!TypeOK'
        /\ RecorderProof!LoadIdsOrdered' => Recorder!LoadIdsOrdered'
    BY SameState, PTL
  <2>. QED
    BY <1>2, <2>1
<1>4. /\ loadCallCounter' = loadCallCounter + 1
      /\ UNCHANGED getInfoCallCounter
      /\ ~loaded => codeObjects' = codeObjects
      /\ loaded => codeObjects' = Cons(new, codeObjects)
  BY DEF Recorder!record_code_object, NewRecord, Recorder!Cons, Cons
<1>5. new \in Recorder!RecordedCodeObject
  <2>1. Recorder!NoSymbols \in [{} -> SymNames]
    BY DEF Recorder!NoSymbols
  <2>2. Recorder!NoSymbols \in Recorder!SymbolMaps
    BY <2>1 DEF Recorder!SymbolMaps
  <2>. QED
    BY <2>2 DEF NewRecord, Recorder!RecordedCodeObject, Recorder!TypeOK
<1>. HIDE DEF new
<1>6. ASSUME loaded
      PROVE  /\ Positions' = 1..(Len(codeObjects) + 1)
             /\ codeObjects'[1] = new
             /\ \A i \in 2..(Len(codeObjects) + 1) :
                   i - 1 \in 1..Len(codeObjects) /\ codeObjects'[i] = codeObjects[i - 1]
  <2>. DEFINE seq == codeObjects
  <2>1. seq \in Seq(Recorder!RecordedCodeObject)
    BY DEF Recorder!TypeOK
  <2>. HIDE DEF seq
  <2>2. /\ DOMAIN Cons(new, seq) = 1..(Len(seq) + 1)
        /\ Cons(new, seq)[1] = new
        /\ \A i \in 2..(Len(seq) + 1) : /\ i - 1 \in 1..Len(seq)
                                       /\ Cons(new, seq)[i] = seq[i - 1]
    BY <1>5, <2>1, ConsProperties
  <2>. QED
    BY <1>4, <1>6, <2>2 DEF seq, Positions
<1>7. Len(codeObjects) \in Nat /\ Positions = 1..Len(codeObjects)
  BY RecordAt
<1>8. ASSUME loaded, NEW i \in Positions
      PROVE  i + 1 \in Positions' /\ codeObjects'[i + 1] = codeObjects[i]
  <2>1. i + 1 \in 2..(Len(codeObjects) + 1) /\ (i + 1) - 1 = i
    BY <1>7
  <2>2. codeObjects'[i + 1] = codeObjects[(i + 1) - 1]
    BY <1>6, <1>8, <2>1
  <2>. QED
    BY <1>6, <1>7, <1>8, <2>1, <2>2
<1>9. ASSUME loaded, NEW i \in Positions', i # 1
      PROVE  i - 1 \in Positions /\ codeObjects'[i] = codeObjects[i - 1]
  <2>1. i \in 2..(Len(codeObjects) + 1)
    BY <1>6, <1>7, <1>9
  <2>. QED
    BY <1>6, <1>7, <1>9, <2>1
<1>. QED
  BY <1>3, <1>4, <1>6, <1>8, <1>9 DEF new

\* What becomes of it when the symbols of a record are replaced.
LEMMA SymbolsStep ==
    ASSUME Recorder!TypeOK, Recorder!LoadIdsOrdered,
           NEW i \in Positions, NEW symbols \in Recorder!SymbolMaps,
           Recorder!record_symbols(i, symbols)
    PROVE  /\ Recorder!TypeOK' /\ Recorder!LoadIdsOrdered'
           /\ UNCHANGED <<loadCallCounter, getInfoCallCounter>>
           /\ Positions' = Positions
           /\ \A j \in Positions : codeObjects'[j] =
                IF j = i THEN [codeObjects[i] EXCEPT !.symbols = symbols]
                ELSE codeObjects[j]
<1>1. /\ RecorderProof!TypeOK /\ RecorderProof!LoadIdsOrdered
      /\ i \in RecorderProof!Positions /\ symbols \in RecorderProof!SymbolMaps
      /\ RecorderProof!record_symbols(i, symbols)
  BY SameState, SameSymbols DEF RecorderProof!SymbolMaps, Recorder!SymbolMaps
<1>2. /\ RecorderProof!TypeOK'
      /\ RecorderProof!Positions' = RecorderProof!Positions
      /\ \A j \in RecorderProof!Positions : codeObjects'[j] =
            IF j = i THEN [codeObjects[i] EXCEPT !.symbols = symbols] ELSE codeObjects[j]
  BY <1>1, RecorderAssumption, RecorderProof!SymbolsKeepType
<1>3. Recorder!TypeOK'
  <2>1. RecorderProof!TypeOK' => Recorder!TypeOK'
    BY SameState, PTL
  <2>. QED
    BY <1>2, <2>1
<1>4. /\ Positions' = Positions
      /\ \A j \in Positions : codeObjects'[j] =
            IF j = i THEN [codeObjects[i] EXCEPT !.symbols = symbols] ELSE codeObjects[j]
  BY <1>2 DEF RecorderProof!Positions, Positions
<1>5. UNCHANGED <<loadCallCounter, getInfoCallCounter, verdicts>>
  BY DEF Recorder!record_symbols
<1>6. \A j \in Positions : codeObjects'[j].id = codeObjects[j].id
  BY <1>4, RecordAt DEF Recorder!RecordedCodeObject
<1>7. Recorder!LoadIdsOrdered'
  BY <1>4, <1>5, <1>6
  DEF Recorder!LoadIdsOrdered, Recorder!Positions, Recorder!LoggedOf, Positions
<1>. QED
  BY <1>3, <1>4, <1>5, <1>7

LEMMA RecordedIds ==
    ASSUME Recorder!TypeOK, Recorder!LoadIdsOrdered, NEW i \in Positions
    PROVE  codeObjects[i].id \in Nat \ {0} /\ codeObjects[i].id <= loadCallCounter
<1>1. codeObjects[i].id \in 1..loadCallCounter
  BY DEF Recorder!TypeOK, Positions
<1>2. loadCallCounter \in Nat
  BY DEF Recorder!TypeOK
<1>. QED
  BY <1>1, <1>2

\* A search by handle stops at the newest record of the handle.
LEMMA HandleFound ==
    ASSUME Recorder!TypeOK, NEW h
    PROVE  LET i == Recorder!find_code_object(h)
           IN  /\ i \in Nat
               /\ i # 0 => /\ i \in Positions /\ codeObjects[i].hsaco = h
                          /\ \A j \in Positions : codeObjects[j].hsaco = h => i <= j
               /\ i = 0 => \A j \in Positions : codeObjects[j].hsaco # h
<1>1. codeObjects \in Seq(RecorderProof!RecordedCodeObject)
  BY SameState DEF Recorder!TypeOK
<1>2. RecorderProof!find_code_object(h) = Recorder!find_code_object(h)
  BY DEF RecorderProof!find_code_object, Recorder!find_code_object,
         RecorderProof!hsaco_eq, Recorder!hsaco_eq,
         RecorderProof!SelectInSeq, Recorder!SelectInSeq,
         RecorderProof!Min, Recorder!Min
<1>. DEFINE i == RecorderProof!find_code_object(h)
<1>3. /\ i \in Nat
      /\ i # 0 => /\ i \in RecorderProof!Positions /\ codeObjects[i].hsaco = h
                 /\ \A j \in RecorderProof!Positions : codeObjects[j].hsaco = h => i <= j
      /\ i = 0 => \A j \in RecorderProof!Positions : codeObjects[j].hsaco # h
  BY <1>1, RecorderAssumption, RecorderProof!HandleFound
<1>. QED
  BY <1>2, <1>3, SameState

\* A search by load id stops at the only record of the load.
LEMMA RecordOfId ==
    ASSUME Recorder!TypeOK, Recorder!LoadIdsOrdered, NEW i \in Positions
    PROVE  RecordOf(codeObjects[i].id) = i
<1>. DEFINE I == {j \in 1..Len(codeObjects) : codeObjects[j].id = codeObjects[i].id}
<1>1. Len(codeObjects) \in Nat /\ Positions = 1..Len(codeObjects)
  BY RecordAt
<1>2. ASSUME NEW j \in Positions, NEW l \in Positions, j < l
      PROVE  codeObjects[j].id # codeObjects[l].id
  <2>1. /\ codeObjects[j].id > codeObjects[l].id
        /\ codeObjects[j].id \in Nat /\ codeObjects[l].id \in Nat
    BY <1>2, RecordAt
    DEF Recorder!LoadIdsOrdered, Recorder!Positions, Positions, Recorder!RecordedCodeObject
  <2>. QED
    BY <2>1
<1>3. ASSUME NEW j \in I PROVE j = i
  <2>1. ~ (i < j) /\ ~ (j < i)
    BY <1>1, <1>2, <1>3
  <2>. QED
    BY <1>1, <2>1
<1>4. I = {i}
  BY <1>1, <1>3
<1>5. RecordOf(codeObjects[i].id) = IF I # {} THEN Min(I) ELSE 0
  BY DEF RecordOf, SelectInSeq
<1>. HIDE DEF I
<1>6. I \in SUBSET (1..Len(codeObjects))
  BY <1>1, <1>4
<1>7. RecordOf(codeObjects[i].id) \in I
  BY <1>1, <1>4, <1>5, <1>6, FirstOrZero
<1>. QED
  BY <1>4, <1>7

----------------------------------------------------------------------------
(* Type correctness                                                        *)

\* What a handler's locals say of the state that it reads later.
LocalsInv(t) ==
    LET c == call[t] IN
    /\ c.for = "load" => memory[c.ptr] \in Contents
    /\ c.for = "executable" =>
         /\ IsLive(c.hsaco)
         /\ c.sub \in {0} \cup DOMAIN CoSubs
         /\ pc[t] \in InInit \cup {"executable_load_co", "find"} => c.co = 0 /\ c.sub = 0
         /\ pc[t] \in {"load_from_memory", "create_executable"} => c.co # 0 /\ c.sub # 0
         /\ pc[t] = "enum_symbols" => c.co # 0
         /\ c.co # 0 => \E i \in Positions : codeObjects[i].id = c.co
         /\ pc[t] \in {"load", "enum_symbols"} /\ c.sub # 0 => c.shadow \in Contents

\* The memory that was recorded was never given back empty.
RecordsInMemory == \A i \in Positions : memory[codeObjects[i].ptr] \in Contents

\* The strengthening under which TypeOK is inductive.
TypeInv ==
    /\ TypeOK
    /\ Recorder!LoadIdsOrdered
    /\ RecordsInMemory
    /\ \A t \in Threads : LocalsInv(t)

\* The state outside the threads has its type.
SharedTypeOK ==
    /\ Recorder!TypeOK
    /\ Recorder!LoadIdsOrdered
    /\ mutex \in Threads \cup {NoThread}
    /\ initExecuted \in BOOLEAN /\ initRuns \in Nat
    /\ evaluated \subseteq DOMAIN SymbolSubs
    /\ calls \in Nat
    /\ memory \in [Ptrs -> Contents \cup {NoContent}]
    /\ hsacos \in [Hsacos -> [content : Contents \cup {NoContent},
                              ptr : Ptrs \cup {NoPtr}, id : Nat]]
    /\ execs \in [Execs -> SUBSET Loaded]
    /\ discarded \subseteq Execs
    /\ RecordsInMemory

\* Thread t goes to a label, with new locals; the others stay where they are.
Moves(t, label, c) ==
    /\ pc' \in [Threads -> Labels] /\ DOMAIN call' = Threads
    /\ pc'[t] = label /\ call'[t] = c
    /\ \A u \in Threads \ {t} : pc'[u] = pc[u] /\ call'[u] = call[u]

LEMMA Moving ==
    ASSUME TypeOK, NEW t \in Threads, NEW label \in Labels, Goto(t, label)
    PROVE  /\ \A c : Locals(t, c) => Moves(t, label, c)
           /\ UNCHANGED call => Moves(t, label, call[t])
BY DEF TypeOK, Goto, Locals, Moves

\* What a step has to leave alone for the locals of a thread to stay right.
KeepsRecorded ==
    /\ \A p \in Ptrs : memory[p] \in Contents => memory'[p] \in Contents
    /\ \A i \in Positions : \E j \in Positions' : codeObjects'[j].id = codeObjects[i].id
KeepsHandle(u) ==
    call[u].for = "executable" /\ IsLive(call[u].hsaco)
        => hsacos'[call[u].hsaco].content # NoContent

LEMMA LocalsTyped ==
    ASSUME TypeOK, NEW t \in Threads
    PROVE  /\ call[t] \in {NoCall} \cup LoadCall \cup QueueCall \cup ExecCall \cup InfoCall
           /\ call[t].for = "load" => call[t] \in LoadCall
           /\ call[t].for = "executable" => call[t] \in ExecCall
           /\ call[t].for = "info" => call[t] \in InfoCall
<1>1. pc[t] \in Labels /\ LocalsAt(t)
  BY DEF TypeOK
<1>2. call[t] \in {NoCall} \cup LoadCall \cup QueueCall \cup ExecCall \cup InfoCall
  BY <1>1 DEF Labels, LocalsAt
<1>3. NoCall.for = "nothing"
  BY DEF NoCall
<1>4. \A c \in LoadCall : c.for = "load"
  BY DEF LoadCall
<1>5. \A c \in QueueCall : c.for = "queue"
  BY DEF QueueCall
<1>6. \A c \in ExecCall : c.for = "executable"
  BY DEF ExecCall
<1>7. \A c \in InfoCall : c.for = "info"
  BY DEF InfoCall
<1>. QED
  BY <1>2, <1>3, <1>4, <1>5, <1>6, <1>7

LEMMA LocalsKept ==
    ASSUME TypeInv, NEW u \in Threads, pc'[u] = pc[u], call'[u] = call[u],
           KeepsRecorded, KeepsHandle(u)
    PROVE  LocalsAt(u)' /\ LocalsInv(u)'
<1>1. LocalsAt(u) /\ LocalsInv(u)
  BY DEF TypeInv, TypeOK
<1>2. LocalsAt(u)'
  BY <1>1 DEF LocalsAt
<1>3. call[u].for = "load" => call[u].ptr \in Ptrs
  BY LocalsTyped DEF TypeInv, LoadCall
<1>4. LocalsInv(u)'
  BY <1>1, <1>3 DEF LocalsInv, KeepsRecorded, KeepsHandle, IsLive
<1>. QED
  BY <1>2, <1>4

\* A step of the application that begins no call.
LEMMA OutsideStep ==
    ASSUME TypeInv, UNCHANGED <<pc, call>>, SharedTypeOK', KeepsRecorded,
           \A u \in Threads : KeepsHandle(u)
    PROVE  TypeInv'
<1>1. \A u \in Threads : LocalsAt(u)' /\ LocalsInv(u)'
  BY LocalsKept
<1>. QED
  BY <1>1 DEF TypeInv, TypeOK, SharedTypeOK

\* A step of thread t keeps TypeInv if it keeps the types of the shared state and
\* those of the thread's own locals.
LEMMA ThreadStep ==
    ASSUME TypeInv, NEW t \in Threads, NEW label, NEW c, Moves(t, label, c),
           SharedTypeOK', KeepsRecorded, \A u \in Threads \ {t} : KeepsHandle(u),
           LocalsAt(t)', LocalsInv(t)'
    PROVE  TypeInv'
<1>1. \A u \in Threads : LocalsAt(u)' /\ LocalsInv(u)'
  BY LocalsKept DEF Moves
<1>. QED
  BY <1>1 DEF TypeInv, TypeOK, SharedTypeOK, Moves

\* A step that leaves memory, handles and records alone keeps all that is read there.
LEMMA NothingRead ==
    ASSUME UNCHANGED <<memory, hsacos, codeObjects>>
    PROVE  KeepsRecorded /\ \A u : KeepsHandle(u)
BY DEF KeepsRecorded, KeepsHandle, IsLive, Positions

\* Of the shared state, such a step can only disturb the types of what it changes.
LEMMA SharedKept ==
    ASSUME TypeInv, UNCHANGED <<memory, hsacos, recorderVars>>,
           mutex' \in Threads \cup {NoThread}, initExecuted' \in BOOLEAN,
           initRuns' \in Nat, evaluated' \subseteq DOMAIN SymbolSubs, calls' \in Nat,
           execs' \in [Execs -> SUBSET Loaded], discarded' \subseteq Execs
    PROVE  SharedTypeOK'
<1>1. Recorder!TypeOK' /\ Recorder!LoadIdsOrdered'
  BY DEF recorderVars, TypeInv, TypeOK, Recorder!TypeOK, Recorder!LoadIdsOrdered,
         Recorder!Positions, Recorder!LoggedOf
<1>2. RecordsInMemory'
  BY DEF recorderVars, TypeInv, RecordsInMemory, Positions
<1>. QED
  BY <1>1, <1>2 DEF SharedTypeOK, TypeInv, TypeOK

LEMMA SharedTyped ==
    ASSUME TypeInv PROVE SharedTypeOK
BY DEF SharedTypeOK, TypeInv, TypeOK

\* A call begins at its first label, with its arguments.
LEMMA Beginning ==
    ASSUME TypeInv, NEW t \in Threads, NEW label \in Labels, NEW c, Begin(t, label, c)
    PROVE  pc[t] = "idle" /\ call[t] = NoCall /\ Moves(t, label, c) /\ calls' \in Nat
<1>1. pc[t] = "idle" /\ calls' = calls + 1 /\ Goto(t, label) /\ Locals(t, c)
  BY DEF Begin
<1>2. call[t] = NoCall
  BY <1>1 DEF TypeInv, TypeOK, LocalsAt
<1>. QED
  BY <1>1, <1>2, Moving DEF TypeInv, TypeOK

\* What a thread at rest has to say of its locals.
LEMMA Returning ==
    ASSUME TypeInv, NEW t \in Threads, Return(t)
    PROVE  /\ Moves(t, "idle", NoCall)
           /\ LocalsAt(t)' /\ LocalsInv(t)'
<1>1. Moves(t, "idle", NoCall)
  BY Moving DEF Return, Labels, TypeInv
<1>. QED
  BY <1>1 DEF Moves, LocalsAt, LocalsInv, NoCall, InInit, InLoad

LEMMA DestroysKeepType ==
    ASSUME TypeInv,
           \/ \E h \in Hsacos : DestroyHsaco(h)
           \/ \E e \in Execs : DestroyExec(e)
           \/ \E h \in Hsacos, content \in AppContents : ReadFile(h, content)
    PROVE  TypeInv'
<1>. USE DEF agentVars
<1>1. ASSUME NEW h \in Hsacos, DestroyHsaco(h) PROVE TypeInv'
  <2>1. /\ UNCHANGED <<pc, call, memory, execs, discarded, mutex, initExecuted,
                       evaluated, initRuns, calls>>
        /\ UNCHANGED recorderVars
        /\ hsacos' = [hsacos EXCEPT ![h] = Dead] /\ ~HsacoUsed(h)
    BY <1>1 DEF DestroyHsaco
  <2>2. KeepsRecorded
    BY <2>1 DEF KeepsRecorded, Positions, recorderVars
  <2>3. ASSUME NEW u \in Threads PROVE KeepsHandle(u)
    BY <2>1 DEF KeepsHandle, IsLive, HsacoUsed, TypeInv, TypeOK
  <2>4. SharedTypeOK'
    <3>1. hsacos' \in [Hsacos -> [content : Contents \cup {NoContent},
                                  ptr : Ptrs \cup {NoPtr}, id : Nat]]
      BY <2>1 DEF Dead, TypeInv, TypeOK
    <3>2. Recorder!TypeOK' /\ Recorder!LoadIdsOrdered' /\ RecordsInMemory'
      BY <2>1 DEF recorderVars, TypeInv, TypeOK, Recorder!TypeOK, Recorder!LoadIdsOrdered,
                  Recorder!Positions, Recorder!LoggedOf, RecordsInMemory, Positions
    <3>. QED
      BY <2>1, <3>1, <3>2 DEF SharedTypeOK, TypeInv, TypeOK
  <2>. QED
    BY <2>1, <2>2, <2>3, <2>4, OutsideStep
<1>2. ASSUME NEW e \in Execs, DestroyExec(e) PROVE TypeInv'
  <2>1. /\ UNCHANGED <<pc, call, memory, hsacos, mutex, initExecuted, evaluated,
                       initRuns, calls>>
        /\ UNCHANGED recorderVars /\ execs' = [execs EXCEPT ![e] = {}]
        /\ discarded' = discarded \cup {e}
    BY <1>2 DEF DestroyExec
  <2>2. SharedTypeOK'
    BY <2>1, SharedKept DEF TypeInv, TypeOK
  <2>. QED
    BY <2>1, <2>2, NothingRead, OutsideStep DEF recorderVars
<1>3. ASSUME NEW h \in Hsacos, NEW content \in AppContents, ReadFile(h, content)
      PROVE  TypeInv'
  <2>1. /\ UNCHANGED <<pc, call, memory, execs, discarded, mutex, initExecuted,
                       evaluated, initRuns, calls>>
        /\ UNCHANGED recorderVars
        /\ hsacos' = [hsacos EXCEPT ![h] = [Dead EXCEPT !.content = content]]
        /\ ~IsLive(h)
    BY <1>3 DEF ReadFile
  <2>2. KeepsRecorded
    BY <2>1 DEF KeepsRecorded, Positions, recorderVars
  <2>3. ASSUME NEW u \in Threads PROVE KeepsHandle(u)
    BY <2>1 DEF KeepsHandle, IsLive, TypeInv, TypeOK
  <2>4. SharedTypeOK'
    <3>1. hsacos' \in [Hsacos -> [content : Contents \cup {NoContent},
                                  ptr : Ptrs \cup {NoPtr}, id : Nat]]
      BY <2>1, AgentAssumption DEF Dead, TypeInv, TypeOK
    <3>2. Recorder!TypeOK' /\ Recorder!LoadIdsOrdered' /\ RecordsInMemory'
      BY <2>1 DEF recorderVars, TypeInv, TypeOK, Recorder!TypeOK, Recorder!LoadIdsOrdered,
                  Recorder!Positions, Recorder!LoggedOf, RecordsInMemory, Positions
    <3>. QED
      BY <2>1, <3>1, <3>2 DEF SharedTypeOK, TypeInv, TypeOK
  <2>. QED
    BY <2>1, <2>2, <2>3, <2>4, OutsideStep
<1>. QED
  BY <1>1, <1>2, <1>3

LEMMA CreateKeepsType ==
    ASSUME TypeInv, NEW t \in Threads, NEW h \in Hsacos, NEW ptr \in Ptrs,
           NEW content \in AppContents, CreateFromMemory(t, h, ptr, content)
    PROVE  TypeInv'
<1>. DEFINE c(loaded) == [for |-> "load", hsaco |-> h, ptr |-> ptr, loaded |-> loaded]
<1>1. content \in Contents /\ content # NoContent
  BY AgentAssumption
<1>2. /\ memory' = [memory EXCEPT ![ptr] = content]
      /\ UNCHANGED <<agentVars, execs, discarded, recorderVars>>
      /\ UNCHANGED <<mutex, initExecuted, evaluated, initRuns>>
  BY DEF CreateFromMemory, agentVars
<1>3. PICK loaded \in BOOLEAN :
        /\ Begin(t, "record_co_load", c(loaded))
        /\ hsacos' = IF loaded
                     THEN [hsacos EXCEPT ![h] = [content |-> content, ptr |-> ptr, id |-> 0]]
                     ELSE hsacos
  BY DEF CreateFromMemory
<1>4. pc[t] = "idle" /\ Moves(t, "record_co_load", c(loaded)) /\ calls' \in Nat
  BY <1>3, Beginning DEF Labels
<1>5. \A p \in Ptrs : memory[p] \in Contents => memory'[p] \in Contents
  BY <1>1, <1>2 DEF TypeInv, TypeOK
<1>6. KeepsRecorded
  BY <1>2, <1>5 DEF KeepsRecorded, recorderVars, Positions
<1>7. \A u \in Threads : KeepsHandle(u)
  BY <1>1, <1>3 DEF KeepsHandle, IsLive, TypeInv, TypeOK
<1>8. SharedTypeOK'
  <2>1. Recorder!TypeOK' /\ Recorder!LoadIdsOrdered'
    BY <1>2 DEF recorderVars, TypeInv, TypeOK, Recorder!TypeOK, Recorder!LoadIdsOrdered,
                Recorder!Positions, Recorder!LoggedOf
  <2>2. RecordsInMemory'
    <3>1. \A i \in Positions : codeObjects[i].ptr \in Ptrs
      BY RecordAt DEF TypeInv, TypeOK, Recorder!RecordedCodeObject
    <3>. QED
      BY <1>2, <1>5, <3>1 DEF recorderVars, TypeInv, RecordsInMemory, Positions
  <2>3. hsacos' \in [Hsacos -> [content : Contents \cup {NoContent},
                                ptr : Ptrs \cup {NoPtr}, id : Nat]]
    BY <1>1, <1>3 DEF TypeInv, TypeOK
  <2>4. memory' \in [Ptrs -> Contents \cup {NoContent}]
    BY <1>1, <1>2 DEF TypeInv, TypeOK
  <2>. QED
    BY <1>2, <1>4, <2>1, <2>2, <2>3, <2>4 DEF SharedTypeOK, TypeInv, TypeOK
<1>9. c(loaded) \in LoadCall
  BY DEF LoadCall
<1>10. LocalsAt(t)'
  BY <1>4, <1>9 DEF Moves, LocalsAt, InInit, InLoad
<1>11. LocalsInv(t)'
  BY <1>1, <1>2, <1>4 DEF Moves, LocalsInv, TypeInv, TypeOK
<1>. QED
  BY <1>4, <1>6, <1>7, <1>8, <1>10, <1>11, ThreadStep

LEMMA ApplicationKeepsType ==
    ASSUME TypeInv, Application
    PROVE  TypeInv'
<1>. USE DEF agentVars, runtimeVars
<1>1. ASSUME NEW t \in Threads, NEW label \in Labels, NEW c, Begin(t, label, c),
             UNCHANGED <<agentVars, runtimeVars, recorderVars>>,
             LocalsAt(t)', LocalsInv(t)'
      PROVE  TypeInv'
  <2>1. Moves(t, label, c) /\ calls' \in Nat
    BY <1>1, Beginning
  <2>2. SharedTypeOK'
    BY <1>1, <2>1, SharedKept DEF TypeInv, TypeOK
  <2>. QED
    BY <1>1, <2>1, <2>2, NothingRead, ThreadStep DEF recorderVars
<1>2. ASSUME NEW t \in Threads, CreateQueue(t) PROVE TypeInv'
  <2>1. /\ Begin(t, "record_queue_creation", [for |-> "queue"])
        /\ UNCHANGED <<agentVars, runtimeVars, recorderVars>>
    BY <1>2 DEF CreateQueue
  <2>2. Moves(t, "record_queue_creation", [for |-> "queue"])
    BY <2>1, Beginning DEF Labels
  <2>3. LocalsAt(t)' /\ LocalsInv(t)'
    BY <2>2 DEF Moves, LocalsAt, LocalsInv, QueueCall, InInit, InLoad
  <2>. QED
    BY <1>1, <2>1, <2>3 DEF Labels
<1>3. ASSUME NEW t \in Threads, NEW h \in Hsacos, NEW e \in Execs, LoadIntoExec(t, h, e)
      PROVE  TypeInv'
  <2>. DEFINE c == [for |-> "executable", hsaco |-> h, exec |-> e, co |-> 0,
                    sub |-> 0, shadow |-> NoContent]
  <2>1. /\ Begin(t, "executable_load_co", c) /\ IsLive(h)
        /\ UNCHANGED <<agentVars, runtimeVars, recorderVars>>
    BY <1>3 DEF LoadIntoExec
  <2>2. Moves(t, "executable_load_co", c)
    BY <2>1, Beginning DEF Labels
  <2>3. c \in ExecCall
    BY DEF ExecCall
  <2>4. LocalsAt(t)'
    BY <2>2, <2>3 DEF Moves, LocalsAt, InInit, InLoad
  <2>5. pc'[t] = "executable_load_co" /\ call'[t] = c /\ hsacos'[h].content # NoContent
    BY <2>1, <2>2 DEF Moves, IsLive
  <2>6. LocalsInv(t)'
    BY <2>5 DEF LocalsInv, IsLive
  <2>. QED
    BY <1>1, <2>1, <2>4, <2>6 DEF Labels
<1>4. ASSUME NEW t \in Threads, NEW s \in Execs \X SymNames,
             NEW attribute \in {"name", "kernel object"}, GetInfo(t, s, attribute)
      PROVE  TypeInv'
  <2>. DEFINE c == [for |-> "info", symbol |-> s, attribute |-> attribute,
                    number |-> 0, answer |-> 0]
  <2>1. /\ Begin(t, "symbol_get_info", c)
        /\ UNCHANGED <<agentVars, runtimeVars, recorderVars>>
    BY <1>4 DEF GetInfo
  <2>2. Moves(t, "symbol_get_info", c)
    BY <2>1, Beginning DEF Labels
  <2>3. c \in InfoCall
    BY DEF InfoCall
  <2>. HIDE DEF c
  <2>4. LocalsAt(t)'
    BY <2>2, <2>3 DEF Moves, LocalsAt, InInit, InLoad
  <2>5. call'[t].for = "info"
    BY <2>2, <2>3 DEF Moves, InfoCall
  <2>6. LocalsInv(t)'
    BY <2>5 DEF LocalsInv
  <2>. QED
    BY <1>1, <2>1, <2>4, <2>6 DEF Labels
<1>. QED
  BY <1>2, <1>3, <1>4, DestroysKeepType, CreateKeepsType DEF Application

LEMMA RecordKeepsType ==
    ASSUME TypeInv, NEW t \in Threads, record_co_load(t)
    PROVE  TypeInv'
<1>. DEFINE c == call[t]
<1>1. c \in LoadCall
  BY DEF record_co_load, TypeInv, TypeOK, LocalsAt
<1>2. /\ c.ptr \in Ptrs /\ c.hsaco \in Hsacos /\ c.loaded \in BOOLEAN
      /\ memory[c.ptr] \in Contents
  <2>1. c.for = "load" => memory[c.ptr] \in Contents
    BY DEF TypeInv, LocalsInv
  <2>. QED
    BY <1>1, <2>1 DEF LoadCall
<1>3. /\ Recorder!record_code_object(c.ptr, memory[c.ptr], c.hsaco, c.loaded)
      /\ hsacos' = IF c.loaded THEN [hsacos EXCEPT ![c.hsaco].id = loadCallCounter']
                   ELSE hsacos
      /\ UNCHANGED <<agentVars, calls, memory, execs, discarded>>
      /\ Return(t)
  BY DEF record_co_load
<1>. HIDE DEF c
<1>4. /\ Recorder!TypeOK' /\ Recorder!LoadIdsOrdered'
      /\ loadCallCounter' \in Nat
      /\ ~c.loaded => codeObjects' = codeObjects
      /\ c.loaded =>
           /\ codeObjects'[1] = NewRecord(c.ptr, memory[c.ptr], c.hsaco)
           /\ \A i \in Positions : i + 1 \in Positions' /\ codeObjects'[i + 1] = codeObjects[i]
           /\ \A i \in Positions' : i # 1 =>
                i - 1 \in Positions /\ codeObjects'[i] = codeObjects[i - 1]
  <2>1. Recorder!TypeOK /\ Recorder!LoadIdsOrdered
    BY DEF TypeInv, TypeOK
  <2>2. loadCallCounter \in Nat
    BY <2>1 DEF Recorder!TypeOK
  <2>3. PICK content \in Contents : content = memory[c.ptr]
    BY <1>2
  <2>4. Recorder!record_code_object(c.ptr, content, c.hsaco, c.loaded)
    BY <1>3, <2>3
  <2>. QED
    BY <1>2, <2>1, <2>2, <2>3, <2>4, LoadStep
<1>5. KeepsRecorded
  BY <1>3, <1>4 DEF KeepsRecorded, Positions
<1>6. \A u \in Threads : KeepsHandle(u)
  BY <1>2, <1>3 DEF KeepsHandle, IsLive, TypeInv, TypeOK
<1>7. RecordsInMemory'
  BY <1>2, <1>3, <1>4 DEF RecordsInMemory, TypeInv, NewRecord, Positions
<1>8. hsacos' \in [Hsacos -> [content : Contents \cup {NoContent},
                              ptr : Ptrs \cup {NoPtr}, id : Nat]]
  BY <1>2, <1>3, <1>4 DEF TypeInv, TypeOK
<1>9. SharedTypeOK'
  BY <1>3, <1>4, <1>7, <1>8 DEF SharedTypeOK, agentVars, TypeInv, TypeOK
<1>. QED
  BY <1>3, <1>5, <1>6, <1>9, Returning, ThreadStep

\* A step of thread t that reads and changes no memory, handle or record.
LEMMA AgentStep ==
    ASSUME TypeInv, NEW t \in Threads, NEW label, NEW c, Moves(t, label, c),
           LocalsAt(t)', LocalsInv(t)', UNCHANGED <<memory, hsacos, recorderVars>>,
           mutex' \in Threads \cup {NoThread}, initExecuted' \in BOOLEAN,
           initRuns' \in Nat, evaluated' \subseteq DOMAIN SymbolSubs, calls' \in Nat,
           execs' \in [Execs -> SUBSET Loaded], discarded' \subseteq Execs
    PROVE  TypeInv'
BY SharedKept, NothingRead, ThreadStep DEF recorderVars

\* A handler that takes part in the initialization keeps its locals.
LEMMA LocalsCarried ==
    ASSUME TypeInv, NEW t \in Threads, call'[t] = call[t],
           UNCHANGED <<memory, hsacos, codeObjects>>,
           pc[t] \in InInit \cup {"record_queue_creation", "executable_load_co"},
           pc'[t] \in InInit \cup {"find"}
    PROVE  LocalsInv(t)'
<1>1. LocalsInv(t) /\ LocalsAt(t)
  BY DEF TypeInv, TypeOK
<1>2. CASE call[t].for = "executable"
  <2>1. pc[t] # "record_queue_creation"
    BY <1>1, <1>2 DEF LocalsAt, QueueCall
  <2>2. /\ IsLive(call[t].hsaco) /\ call[t].sub \in {0} \cup DOMAIN CoSubs
        /\ call[t].co = 0 /\ call[t].sub = 0
    BY <1>1, <1>2, <2>1 DEF LocalsInv
  <2>3. IsLive(call[t].hsaco)'
    BY <2>2 DEF IsLive
  <2>4. pc'[t] \notin {"load_from_memory", "create_executable", "enum_symbols"}
    BY DEF InInit
  <2>. QED
    BY <1>2, <2>2, <2>3, <2>4 DEF LocalsInv
<1>3. CASE call[t].for # "executable"
  BY <1>1, <1>3 DEF LocalsInv
<1>. QED
  BY <1>2, <1>3

\* The handler that asked for the initialization goes on.
LEMMA AfterInitLocals ==
    ASSUME TypeInv, NEW t \in Threads, AfterInit(t),
           UNCHANGED <<memory, hsacos, codeObjects>>,
           pc[t] \in InInit \cup {"record_queue_creation", "executable_load_co"}
    PROVE  /\ mutex' \in Threads \cup {NoThread}
           /\ \E label, c : Moves(t, label, c)
           /\ LocalsAt(t)' /\ LocalsInv(t)'
<1>1. CASE Unlock(t) /\ Return(t)
  BY <1>1, Returning DEF Unlock
<1>2. CASE call[t].for = "executable" /\ mutex' = t /\ Goto(t, "find") /\ UNCHANGED call
  <2>1. Moves(t, "find", call[t])
    BY <1>2, Moving DEF TypeInv, Labels, InLoad
  <2>2. call[t] \in ExecCall
    BY <1>2, LocalsTyped DEF TypeInv
  <2>3. LocalsAt(t)'
    BY <2>1, <2>2 DEF Moves, LocalsAt, InInit, InLoad
  <2>4. LocalsInv(t)'
    BY <2>1, LocalsCarried DEF Moves
  <2>. QED
    BY <1>2, <2>1, <2>3, <2>4
<1>. QED
  BY <1>1, <1>2 DEF AfterInit

LEMMA OnceKeepsType ==
    ASSUME TypeInv, NEW t \in Threads, execute_init_command_once(t),
           pc[t] \in {"record_queue_creation", "executable_load_co"},
           UNCHANGED <<evaluated, initRuns, calls, runtimeVars, recorderVars>>
    PROVE  TypeInv'
<1>. USE DEF runtimeVars
<1>1. CASE AfterInit(t) /\ UNCHANGED initExecuted
  BY <1>1, AfterInitLocals, AgentStep DEF recorderVars, TypeInv, TypeOK
<1>2. CASE initExecuted' = TRUE /\ Lock(t) /\ Goto(t, "init_command") /\ UNCHANGED call
  <2>1. Moves(t, "init_command", call[t])
    BY <1>2, Moving DEF TypeInv, Labels, InInit
  <2>2. LocalsAt(t) /\ LocalsInv(t)
    BY DEF TypeInv, TypeOK
  <2>3. LocalsAt(t)'
    BY <2>1, <2>2 DEF Moves, LocalsAt, InInit, InLoad
  <2>4. LocalsInv(t)'
    <3>1. pc[t] \in InInit \cup {"record_queue_creation", "executable_load_co"}
      OBVIOUS
    <3>2. pc'[t] \in InInit \cup {"find"} /\ call'[t] = call[t]
      BY <2>1 DEF Moves, InInit
    <3>. QED
      BY <3>1, <3>2, LocalsCarried DEF recorderVars
  <2>5. initExecuted' \in BOOLEAN /\ mutex' \in Threads \cup {NoThread}
    BY <1>2 DEF Lock
  <2>6. UNCHANGED <<memory, hsacos, execs, recorderVars>>
    OBVIOUS
  <2>7. initRuns' \in Nat /\ evaluated' \subseteq DOMAIN SymbolSubs /\ calls' \in Nat
        /\ execs' \in [Execs -> SUBSET Loaded] /\ discarded' \subseteq Execs
    BY DEF TypeInv, TypeOK
  <2>. QED
    BY <2>1, <2>3, <2>4, <2>5, <2>6, <2>7, AgentStep
<1>. QED
  BY <1>1, <1>2 DEF execute_init_command_once

LEMMA InitKeepsType ==
    ASSUME TypeInv, NEW t \in Threads,
           run_init_command(t) \/ prepare_symbol_substitutes(t)
    PROVE  TypeInv'
<1>. USE DEF runtimeVars
<1>1. CASE run_init_command(t)
  <2>0. initRuns' \in Nat
    <3>1. initRuns' = initRuns + 1 /\ initRuns \in Nat
      BY <1>1 DEF run_init_command, TypeInv, TypeOK
    <3>. QED
      BY <3>1
  <2>1. /\ pc[t] = "init_command" /\ initRuns' \in Nat
        /\ UNCHANGED <<initExecuted, evaluated, calls, runtimeVars, recorderVars>>
        /\ \/ Goto(t, "prepare") /\ UNCHANGED <<mutex, call>>
           \/ Unlock(t) /\ Return(t)
    BY <1>1, <2>0 DEF run_init_command
  <2>2. CASE Goto(t, "prepare") /\ UNCHANGED <<mutex, call>>
    <3>1. Moves(t, "prepare", call[t])
      BY <2>2, Moving DEF TypeInv, Labels, InInit
    <3>2. LocalsAt(t) /\ LocalsInv(t)
      BY DEF TypeInv, TypeOK
    <3>3. LocalsAt(t)'
      BY <2>1, <3>1, <3>2 DEF Moves, LocalsAt, InInit, InLoad
    <3>4. LocalsInv(t)'
      <4>1. pc[t] \in InInit /\ pc'[t] \in InInit /\ call'[t] = call[t]
        BY <2>1, <3>1 DEF Moves, InInit
      <4>2. UNCHANGED <<memory, hsacos, codeObjects>>
        BY <2>1 DEF recorderVars
      <4>. QED
        BY <4>1, <4>2, LocalsCarried
    <3>. QED
      BY <2>1, <2>2, <3>1, <3>3, <3>4, AgentStep DEF TypeInv, TypeOK
  <2>3. CASE Unlock(t) /\ Return(t)
    BY <2>1, <2>3, Returning, AgentStep DEF Unlock, TypeInv, TypeOK
  <2>. QED
    BY <2>1, <2>2, <2>3
<1>2. CASE prepare_symbol_substitutes(t)
  <2>1. /\ evaluated' \subseteq DOMAIN SymbolSubs /\ AfterInit(t) /\ pc[t] \in InInit
        /\ UNCHANGED <<initExecuted, initRuns, calls, runtimeVars, recorderVars>>
    BY <1>2 DEF prepare_symbol_substitutes, InInit
  <2>. QED
    BY <2>1, AfterInitLocals, AgentStep DEF recorderVars, TypeInv, TypeOK
<1>. QED
  BY <1>1, <1>2

\* A call that fails under the lock.
LEMMA FailureKeepsType ==
    ASSUME TypeInv, NEW t \in Threads, FailLocked(t)
    PROVE  TypeInv'
BY Returning, AgentStep DEF FailLocked, Unlock, runtimeVars, TypeInv, TypeOK

\* A step of the load into an executable that only moves the thread.
LEMMA LoadingStep ==
    ASSUME TypeInv, NEW t \in Threads, NEW label, NEW c, Moves(t, label, c),
           label \in {"load_from_memory", "create_executable", "load"},
           c \in ExecCall, LocalsInv(t)',
           UNCHANGED <<agentVars, calls, runtimeVars, recorderVars>>
    PROVE  TypeInv'
<1>1. LocalsAt(t)'
  BY DEF Moves, LocalsAt, InInit, InLoad
<1>. QED
  BY <1>1, AgentStep DEF agentVars, runtimeVars, TypeInv, TypeOK

LEMMA RulesAt ==
    /\ Len(CoSubs) \in Nat /\ DOMAIN CoSubs = 1..Len(CoSubs)
    /\ \A r \in DOMAIN CoSubs : r \in Nat \ {0} /\ CoSubs[r] \in CoSub
<1>1. Len(CoSubs) \in Nat /\ DOMAIN CoSubs = 1..Len(CoSubs)
  BY AgentAssumption, LenProperties
<1>2. \A r \in 1..Len(CoSubs) : CoSubs[r] \in CoSub
  BY AgentAssumption, ElementOfSeq
<1>. QED
  BY <1>1, <1>2

LEMMA PreparedRules ==
    ASSUME TypeInv PROVE evaluated \subseteq Nat \ {0}
<1>1. Len(SymbolSubs) \in Nat /\ DOMAIN SymbolSubs = 1..Len(SymbolSubs)
  BY AgentAssumption, LenProperties
<1>2. evaluated \subseteq 1..Len(SymbolSubs)
  BY <1>1 DEF TypeInv, TypeOK
<1>. QED
  BY <1>1, <1>2

\* Which rule a search finds.
LEMMA RuleFound ==
    ASSUME NEW co
    PROVE  substitute(co) \in {0} \cup DOMAIN CoSubs
<1>. DEFINE I == {i \in 1..Len(CoSubs) :
                    Recorder!Crc(co) \in CoSubs[i].crcs /\ co.id \in CoSubs[i].ids}
<1>1. substitute(co) = IF I # {} THEN Min(I) ELSE 0
  BY DEF substitute, SelectInSeq
<1>2. Len(CoSubs) \in Nat /\ DOMAIN CoSubs = 1..Len(CoSubs)
  BY RulesAt
<1>3. I \in SUBSET (1..Len(CoSubs))
  OBVIOUS
<1>. HIDE DEF I
<1>4. substitute(co) \in 0..Len(CoSubs)
  BY <1>1, <1>2, <1>3, FirstOrZero
<1>. QED
  BY <1>2, <1>4

LEMMA FindKeepsType ==
    ASSUME TypeInv, NEW t \in Threads, find_code_object(t)
    PROVE  TypeInv'
<1>. DEFINE i == Recorder!find_code_object(call[t].hsaco)
            sub == substitute(codeObjects[i])
            found == [call[t] EXCEPT !.co = codeObjects[i].id]
<1>1. /\ pc[t] = "find"
      /\ UNCHANGED <<agentVars, calls, runtimeVars, recorderVars>>
      /\ \/ Goto(t, "load") /\ UNCHANGED call
         \/ i # 0 /\ Goto(t, "load") /\ Locals(t, found)
         \/ /\ i # 0 /\ sub # 0
            /\ Goto(t, "load_from_memory") /\ Locals(t, [found EXCEPT !.sub = sub])
  BY DEF find_code_object
<1>2. call[t] \in ExecCall /\ LocalsInv(t)
  BY <1>1 DEF TypeInv, TypeOK, LocalsAt, InLoad
<1>3. /\ call[t].for = "executable" /\ IsLive(call[t].hsaco)
      /\ call[t].co = 0 /\ call[t].sub = 0
  BY <1>1, <1>2 DEF ExecCall, LocalsInv
<1>4. i # 0 => i \in Positions
  BY HandleFound DEF TypeInv, TypeOK
<1>5. \A j \in Positions : codeObjects[j].id \in Nat \ {0}
  BY RecordedIds DEF TypeInv, TypeOK
<1>6. sub \in {0} \cup DOMAIN CoSubs
  BY RuleFound
<1>7. DOMAIN CoSubs \subseteq Nat
  BY RulesAt
<1>8. UNCHANGED <<hsacos, codeObjects>>
  BY <1>1 DEF runtimeVars, recorderVars
<1>. HIDE DEF i, sub
<1>9. CASE Goto(t, "load") /\ UNCHANGED call
  <2>1. Moves(t, "load", call[t])
    BY <1>9, Moving DEF TypeInv, Labels, InLoad
  <2>2. LocalsInv(t)'
    BY <1>3, <1>8, <2>1 DEF Moves, LocalsInv, IsLive, InInit
  <2>. QED
    BY <1>1, <1>2, <2>1, <2>2, LoadingStep
<1>10. CASE i # 0 /\ Goto(t, "load") /\ Locals(t, found)
  <2>1. Moves(t, "load", found)
    BY <1>10, Moving DEF TypeInv, Labels, InLoad
  <2>2. /\ found \in ExecCall /\ found.for = "executable" /\ found.sub = 0
        /\ found.co = codeObjects[i].id /\ found.hsaco = call[t].hsaco
    BY <1>2, <1>3, <1>4, <1>5, <1>10 DEF ExecCall
  <2>. HIDE DEF found
  <2>3. i \in Positions' /\ codeObjects'[i].id = found.co
    BY <1>4, <1>8, <1>10, <2>2 DEF Positions
  <2>4. LocalsInv(t)'
    BY <1>3, <1>8, <2>1, <2>2, <2>3 DEF Moves, LocalsInv, IsLive, InInit
  <2>. QED
    BY <1>1, <2>1, <2>2, <2>4, LoadingStep
<1>11. CASE /\ i # 0 /\ sub # 0
            /\ Goto(t, "load_from_memory") /\ Locals(t, [found EXCEPT !.sub = sub])
  <2>. DEFINE c == [found EXCEPT !.sub = sub]
  <2>1. Moves(t, "load_from_memory", c)
    BY <1>11, Moving DEF TypeInv, Labels, InLoad
  <2>2. /\ c \in ExecCall /\ c.for = "executable" /\ c.sub = sub
        /\ c.co = codeObjects[i].id /\ c.hsaco = call[t].hsaco
    BY <1>2, <1>3, <1>4, <1>5, <1>6, <1>7, <1>11 DEF ExecCall
  <2>. HIDE DEF c, found
  <2>3. i \in Positions' /\ codeObjects'[i].id = c.co /\ c.co # 0
    BY <1>4, <1>5, <1>8, <1>11, <2>2 DEF Positions
  <2>4. LocalsInv(t)'
    BY <1>3, <1>6, <1>8, <1>11, <2>1, <2>2, <2>3 DEF Moves, LocalsInv, IsLive, InInit
  <2>. QED
    BY <1>1, <2>1, <2>2, <2>4, LoadingStep
<1>. QED
  BY <1>1, <1>9, <1>10, <1>11

\* The locals of a thread that is past the search for the code object.
LEMMA LoadingLocals ==
    ASSUME TypeInv, NEW t \in Threads, pc[t] \in InLoad
    PROVE  /\ call[t] \in ExecCall /\ call[t].for = "executable"
           /\ LocalsInv(t) /\ IsLive(call[t].hsaco)
<1>1. call[t] \in ExecCall /\ LocalsInv(t)
  BY DEF TypeInv, TypeOK, LocalsAt
<1>2. call[t].for = "executable"
  BY <1>1 DEF ExecCall
<1>. QED
  BY <1>1, <1>2 DEF LocalsInv

LEMMA ReplaceKeepsType ==
    ASSUME TypeInv, NEW t \in Threads, load_from_memory(t) \/ create_executable(t)
    PROVE  TypeInv'
<1>1. pc[t] \in InLoad /\ pc[t] \in {"load_from_memory", "create_executable"}
  BY DEF load_from_memory, create_executable, InLoad
<1>2. /\ call[t] \in ExecCall /\ call[t].for = "executable"
      /\ LocalsInv(t) /\ IsLive(call[t].hsaco)
  BY <1>1, LoadingLocals
<1>3. CASE /\ load_from_memory(t) /\ Goto(t, "create_executable") /\ UNCHANGED call
           /\ UNCHANGED <<agentVars, calls, runtimeVars, recorderVars>>
  <2>1. Moves(t, "create_executable", call[t])
    BY <1>3, Moving DEF TypeInv, Labels, InLoad
  <2>2. UNCHANGED <<hsacos, codeObjects>>
    BY <1>3 DEF runtimeVars, recorderVars
  <2>3. LocalsInv(t)'
    BY <1>1, <1>2, <2>1, <2>2 DEF Moves, LocalsInv, IsLive, InInit, Positions
  <2>. QED
    BY <1>2, <1>3, <2>1, <2>3, LoadingStep
<1>4. CASE /\ create_executable(t) /\ Goto(t, "load")
           /\ Locals(t, [call[t] EXCEPT !.shadow = memory[FoundCo(t).ptr]])
           /\ UNCHANGED <<agentVars, calls, runtimeVars, recorderVars>>
  <2>. DEFINE c == [call[t] EXCEPT !.shadow = memory[FoundCo(t).ptr]]
  <2>1. Moves(t, "load", c)
    BY <1>4, Moving DEF TypeInv, Labels, InLoad
  <2>2. memory[FoundCo(t).ptr] \in Contents
    <3>1. PICK i \in Positions : codeObjects[i].id = call[t].co
      BY <1>1, <1>2 DEF LocalsInv
    <3>2. FoundCo(t) = codeObjects[i]
      BY <3>1, RecordOfId DEF FoundCo, TypeInv, TypeOK
    <3>. QED
      BY <3>2 DEF TypeInv, RecordsInMemory
  <2>3. /\ c \in ExecCall /\ c.for = "executable" /\ c.sub = call[t].sub
        /\ c.co = call[t].co /\ c.hsaco = call[t].hsaco /\ c.shadow \in Contents
    BY <1>2, <2>2 DEF ExecCall
  <2>. HIDE DEF c
  <2>4. UNCHANGED <<hsacos, codeObjects>>
    BY <1>4 DEF runtimeVars, recorderVars
  <2>5. LocalsInv(t)'
    BY <1>1, <1>2, <2>1, <2>3, <2>4 DEF Moves, LocalsInv, IsLive, InInit, Positions
  <2>. QED
    BY <1>4, <2>1, <2>3, <2>5, LoadingStep
<1>. QED
  BY <1>3, <1>4, FailureKeepsType DEF load_from_memory, create_executable

LEMMA LoaderKeepsType ==
    ASSUME TypeInv, NEW t \in Threads, loader(t)
    PROVE  TypeInv'
<1>. DEFINE c == call[t]
            was == hsacos[c.hsaco].content
            is == IF c.sub = 0 THEN was ELSE CoSubs[c.sub].content
            load == [id |-> hsacos[c.hsaco].id, was |-> was, is |-> is, by |-> c.sub]
<1>1. pc[t] = "load" /\ pc[t] \in InLoad
  BY DEF loader, InLoad
<1>2. c \in ExecCall /\ c.for = "executable" /\ LocalsInv(t) /\ IsLive(c.hsaco)
  BY <1>1, LoadingLocals
<1>3. CASE /\ execs' = [execs EXCEPT ![c.exec] = @ \cup {load}]
           /\ \/ Unlock(t) /\ Return(t)
              \/ c.co # 0 /\ Goto(t, "enum_symbols") /\ UNCHANGED <<mutex, call>>
           /\ UNCHANGED <<initExecuted, evaluated, initRuns, calls, memory,
                          hsacos, discarded, recorderVars>>
  <2>1. c.exec \in Execs /\ c.hsaco \in Hsacos /\ c.sub \in {0} \cup DOMAIN CoSubs
    BY <1>2 DEF ExecCall, LocalsInv
  <2>2. was \in Contents /\ hsacos[c.hsaco].id \in Nat /\ c.sub \in Nat
    BY <1>2, <2>1 DEF IsLive, TypeInv, TypeOK, ExecCall
  <2>3. is \in Contents
    BY <2>1, <2>2, RulesAt DEF CoSub
  <2>4. load \in Loaded
    BY <2>2, <2>3 DEF Loaded
  <2>. HIDE DEF load
  <2>5. execs' \in [Execs -> SUBSET Loaded]
    BY <1>3, <2>1, <2>4 DEF TypeInv, TypeOK
  <2>6. CASE Unlock(t) /\ Return(t)
    BY <1>3, <2>5, <2>6, Returning, AgentStep DEF Unlock, TypeInv, TypeOK
  <2>7. CASE c.co # 0 /\ Goto(t, "enum_symbols") /\ UNCHANGED <<mutex, call>>
    <3>1. Moves(t, "enum_symbols", c)
      BY <2>7, Moving DEF TypeInv, Labels, InLoad
    <3>2. UNCHANGED codeObjects
      BY <1>3 DEF recorderVars
    <3>3. LocalsInv(t)'
      BY <1>1, <1>2, <1>3, <2>7, <3>1, <3>2
      DEF Moves, LocalsInv, IsLive, InInit, Positions
    <3>4. LocalsAt(t)'
      BY <1>2, <3>1 DEF Moves, LocalsAt, InInit, InLoad
    <3>. QED
      BY <1>3, <2>5, <2>7, <3>1, <3>3, <3>4, AgentStep DEF TypeInv, TypeOK
  <2>. QED
    BY <1>3, <2>6, <2>7
<1>. QED
  BY <1>3, FailureKeepsType DEF loader

\* The symbols of an executable, or of the agent's own, have their type.
LEMMA SymbolsTyped ==
    ASSUME TypeInv, NEW t \in Threads, pc[t] = "enum_symbols"
    PROVE  [s \in EnumSymbols(t) |-> s[2]] \in Recorder!SymbolMaps
<1>1. call[t] \in ExecCall /\ call[t].for = "executable" /\ LocalsInv(t)
  BY LoadingLocals DEF InLoad
<1>2. ASSUME NEW s \in EnumSymbols(t)
      PROVE  s \in SymHandles /\ s[2] \in SymNames
  <2>1. CASE call[t].sub = 0
    <3>1. s \in {call[t].exec} \X UNION {NamesOf[l.is] : l \in execs[call[t].exec]}
      BY <2>1 DEF EnumSymbols, ExecSymbols
    <3>2. PICK l \in execs[call[t].exec] : s \in {call[t].exec} \X NamesOf[l.is]
      BY <3>1
    <3>3. call[t].exec \in Execs /\ l.is \in Contents
      BY <1>1 DEF ExecCall, TypeInv, TypeOK, Loaded
    <3>4. NamesOf[l.is] \subseteq SymNames
      BY <3>3, AgentAssumption
    <3>. QED
      BY <3>2, <3>3, <3>4 DEF SymHandles
  <2>2. CASE call[t].sub # 0
    <3>1. s \in {ShadowExec} \X NamesOf[call[t].shadow]
      BY <2>2 DEF EnumSymbols
    <3>2. call[t].shadow \in Contents
      BY <1>1, <2>2 DEF LocalsInv
    <3>3. NamesOf[call[t].shadow] \subseteq SymNames
      BY <3>2, AgentAssumption
    <3>. QED
      BY <3>1, <3>3 DEF SymHandles
  <2>. QED
    BY <2>1, <2>2
<1>3. EnumSymbols(t) \in SUBSET SymHandles
  BY <1>2
<1>4. [s \in EnumSymbols(t) |-> s[2]] \in [EnumSymbols(t) -> SymNames]
  BY <1>2
<1>. QED
  BY <1>3, <1>4 DEF Recorder!SymbolMaps

LEMMA EnumKeepsType ==
    ASSUME TypeInv, NEW t \in Threads, enum_executable_symbols(t)
    PROVE  TypeInv'
<1>1. pc[t] = "enum_symbols" /\ pc[t] \in InLoad
  BY DEF enum_executable_symbols, InLoad
<1>2. call[t] \in ExecCall /\ call[t].for = "executable" /\ LocalsInv(t)
  BY <1>1, LoadingLocals
<1>. DEFINE symbols == [s \in EnumSymbols(t) |-> s[2]]
<1>3. CASE /\ Recorder!record_symbols(RecordOf(call[t].co), symbols)
           /\ Unlock(t) /\ Return(t)
           /\ UNCHANGED <<initExecuted, evaluated, initRuns, calls, runtimeVars>>
  <2>1. PICK i \in Positions : codeObjects[i].id = call[t].co
    BY <1>1, <1>2 DEF LocalsInv
  <2>2. RecordOf(call[t].co) = i
    BY <2>1, RecordOfId DEF TypeInv, TypeOK
  <2>3. symbols \in Recorder!SymbolMaps
    BY <1>1, SymbolsTyped
  <2>. HIDE DEF symbols
  <2>4. /\ Recorder!TypeOK' /\ Recorder!LoadIdsOrdered' /\ Positions' = Positions
        /\ \A j \in Positions : codeObjects'[j] =
             IF j = i THEN [codeObjects[i] EXCEPT !.symbols = symbols]
             ELSE codeObjects[j]
    BY <1>3, <2>2, <2>3, SymbolsStep DEF TypeInv, TypeOK
  <2>5. \A j \in Positions : /\ codeObjects'[j].id = codeObjects[j].id
                             /\ codeObjects'[j].ptr = codeObjects[j].ptr
    BY <2>4, RecordAt DEF TypeInv, TypeOK, Recorder!RecordedCodeObject
  <2>6. UNCHANGED <<memory, hsacos, execs, discarded>>
    BY <1>3 DEF runtimeVars
  <2>7. KeepsRecorded /\ \A u \in Threads : KeepsHandle(u)
    BY <2>4, <2>5, <2>6 DEF KeepsRecorded, KeepsHandle, IsLive
  <2>8. RecordsInMemory'
    BY <2>4, <2>5, <2>6 DEF RecordsInMemory, TypeInv
  <2>9. SharedTypeOK'
    BY <1>3, <2>4, <2>6, <2>8 DEF SharedTypeOK, Unlock, TypeInv, TypeOK
  <2>. QED
    BY <1>3, <2>7, <2>9, Returning, ThreadStep
<1>4. CASE /\ execs' = [execs EXCEPT ![call[t].exec] = {}]
           /\ discarded' = discarded \cup {call[t].exec}
           /\ Unlock(t) /\ Return(t)
           /\ UNCHANGED <<initExecuted, evaluated, initRuns, calls, memory,
                          hsacos, recorderVars>>
  <2>1. execs' \in [Execs -> SUBSET Loaded] /\ discarded' \subseteq Execs
    BY <1>2, <1>4 DEF ExecCall, TypeInv, TypeOK
  <2>. QED
    BY <1>4, <2>1, Returning, AgentStep DEF Unlock, TypeInv, TypeOK
<1>. QED
  BY <1>3, <1>4 DEF enum_executable_symbols

\* The rule that answers a query is a prepared one.
LEMMA AnswerTyped ==
    ASSUME TypeInv, NEW i, NEW s, NEW number
    PROVE  substitute_symbol(i, s, number) \in {0} \cup evaluated
<1>. DEFINE holds == {r \in evaluated :
                        /\ number \in SymbolSubs[r].getInfoIds
                        /\ Recorder!Crc(codeObjects[i]) \in SymbolSubs[r].crcs
                        /\ codeObjects[i].id \in SymbolSubs[r].ids
                        /\ codeObjects[i].symbols[s] \in SymbolSubs[r].names}
<1>1. substitute_symbol(i, s, number) = IF holds = {} THEN 0 ELSE Min(holds)
  BY DEF substitute_symbol
<1>2. holds \in SUBSET Nat /\ holds \subseteq evaluated
  BY PreparedRules
<1>. HIDE DEF holds
<1>. QED
  BY <1>1, <1>2, MinOfNats

LEMMA QueryKeepsType ==
    ASSUME TypeInv, NEW t \in Threads, symbol_get_info(t) \/ RuntimeGetInfo(t)
    PROVE  TypeInv'
<1>1. CASE symbol_get_info(t)
  <2>. DEFINE i == Recorder!symbol_code_object(call[t].symbol)
              answer == IF i = 0 \/ call[t].attribute = "name" THEN 0
                        ELSE substitute_symbol(i, call[t].symbol, getInfoCallCounter')
              c == [call[t] EXCEPT !.number = getInfoCallCounter', !.answer = answer]
  <2>1. /\ pc[t] = "symbol_get_info" /\ Goto(t, "runtime_get_info") /\ Locals(t, c)
        /\ Recorder!record_get_info
        /\ UNCHANGED <<agentVars, calls, runtimeVars>>
    BY <1>1 DEF symbol_get_info
  <2>2. Moves(t, "runtime_get_info", c)
    BY <2>1, Moving DEF TypeInv, Labels
  <2>3. getInfoCallCounter' \in Nat
    BY <2>1 DEF Recorder!record_get_info, TypeInv, TypeOK, Recorder!TypeOK
  <2>4. answer \in Nat
    <3>1. substitute_symbol(i, call[t].symbol, getInfoCallCounter') \in {0} \cup evaluated
      BY AnswerTyped
    <3>. QED
      BY <3>1, PreparedRules
  <2>5. call[t] \in InfoCall
    BY <2>1 DEF TypeInv, TypeOK, LocalsAt
  <2>. HIDE DEF answer
  <2>6. c \in InfoCall
    BY <2>3, <2>4, <2>5 DEF InfoCall
  <2>. HIDE DEF c
  <2>7. LocalsAt(t)'
    BY <2>2, <2>6 DEF Moves, LocalsAt, InInit, InLoad
  <2>8. LocalsInv(t)'
    <3>1. call'[t].for = "info"
      BY <2>2, <2>6 DEF Moves, InfoCall
    <3>. QED
      BY <3>1 DEF LocalsInv
  <2>9. UNCHANGED <<memory, hsacos, codeObjects>>
    BY <2>1 DEF runtimeVars, Recorder!record_get_info
  <2>10. SharedTypeOK'
    <3>1. Recorder!TypeOK' /\ Recorder!LoadIdsOrdered'
      BY <2>1, <2>3 DEF Recorder!record_get_info, TypeInv, TypeOK, Recorder!TypeOK,
         Recorder!LoadIdsOrdered, Recorder!Positions, Recorder!LoggedOf
    <3>2. RecordsInMemory'
      BY <2>9 DEF TypeInv, RecordsInMemory, Positions
    <3>. QED
      BY <2>1, <3>1, <3>2 DEF SharedTypeOK, agentVars, runtimeVars, TypeInv, TypeOK
  <2>. QED
    BY <2>2, <2>7, <2>8, <2>9, <2>10, NothingRead, ThreadStep
<1>2. CASE RuntimeGetInfo(t)
  BY <1>2, Returning, AgentStep
  DEF RuntimeGetInfo, agentVars, runtimeVars, TypeInv, TypeOK
<1>. QED
  BY <1>1, <1>2

LEMMA TypeInvCorrect == Spec => []TypeInv
<1>1. Init => TypeInv
  <2>. SUFFICES ASSUME Init PROVE TypeInv
    OBVIOUS
  <2>1. Recorder!TypeOK /\ Recorder!LoadIdsOrdered /\ RecordsInMemory
    BY RecorderAssumption, EmptySeq
    DEF Init, Recorder!Init, Recorder!TypeOK, Recorder!LoadIdsOrdered,
        Recorder!Positions, RecordsInMemory, Positions
  <2>2. ASSUME NEW t \in Threads PROVE LocalsAt(t) /\ LocalsInv(t)
    BY DEF Init, LocalsAt, LocalsInv, NoCall, InInit, InLoad
  <2>3. /\ pc \in [Threads -> Labels] /\ DOMAIN call = Threads
        /\ memory \in [Ptrs -> Contents \cup {NoContent}]
        /\ execs \in [Execs -> SUBSET Loaded] /\ discarded \subseteq Execs
    BY DEF Init, Labels
  <2>4. hsacos \in [Hsacos -> [content : Contents \cup {NoContent},
                               ptr : Ptrs \cup {NoPtr}, id : Nat]]
    BY DEF Init, Dead
  <2>5. /\ mutex \in Threads \cup {NoThread} /\ initExecuted \in BOOLEAN
        /\ initRuns \in Nat /\ evaluated \subseteq DOMAIN SymbolSubs /\ calls \in Nat
    BY DEF Init
  <2>. QED
    BY <2>1, <2>2, <2>3, <2>4, <2>5 DEF TypeInv, TypeOK
<1>2. TypeInv /\ [Next]_vars => TypeInv'
  <2>. SUFFICES ASSUME TypeInv, [Next]_vars PROVE TypeInv'
    OBVIOUS
  <2>1. CASE Application
    BY <2>1, ApplicationKeepsType
  <2>2. ASSUME NEW t \in Threads, Handler(t) PROVE TypeInv'
    <3>1. CASE record_queue_creation(t) \/ executable_load_co(t)
      BY <3>1, OnceKeepsType DEF record_queue_creation, executable_load_co
    <3>. QED
      BY <2>2, <3>1, RecordKeepsType, InitKeepsType, FindKeepsType, ReplaceKeepsType,
         LoaderKeepsType, EnumKeepsType, QueryKeepsType DEF Handler
  <2>3. CASE UNCHANGED vars
    <3>1. /\ UNCHANGED <<memory, hsacos, recorderVars, pc, call, mutex, initExecuted,
                         initRuns, evaluated, calls, execs, discarded>>
      BY <2>3 DEF vars, agentVars, runtimeVars
    <3>2. SharedTypeOK'
      BY <3>1, SharedKept DEF TypeInv, TypeOK
    <3>. QED
      BY <3>1, <3>2, NothingRead, OutsideStep DEF recorderVars
  <2>. QED
    BY <2>1, <2>2, <2>3 DEF Next
<1>. QED
  BY <1>1, <1>2, PTL DEF Spec

\* TypeOK holds in every reachable state.
THEOREM AgentTypeCorrect == Spec => []TypeOK
<1>1. TypeInv => TypeOK
  BY DEF TypeInv
<1>. QED
  BY <1>1, TypeInvCorrect, PTL
====
