---- MODULE AgentInit ----
(***************************************************************************)
(* The life of the library: OnLoad (src/src/init.cpp) with the             *)
(* configuration and the agent log (logger.cpp), what the agent sets up    *)
(* once, and what it takes down when the library is unloaded: the auxiliary*)
(* buffers (buffer_manager.cpp), the init command (external_command.cpp)   *)
(* and the trap handler (trap_handler.cpp), in the order of                *)
(* DebugAgent::execute_init_command_once, and in the order in which the    *)
(* members of DebugAgent are destroyed.                                    *)
(*                                                                         *)
(* DebugAgent shows that one thread at a time gets here, under the agent's *)
(* mutex, and no more than once.  Between the two halves the application's *)
(* kernels write to the buffers.  HSA, the driver, the shell and the file  *)
(* system are external.                                                    *)
(***************************************************************************)
EXTENDS Integers, Sequences, FiniteSets, SequencesExt, Configuration

CONSTANTS
    HsaAgents,      \* GPUs and CPUs
    RegionsOf,      \* the kinds of memory each of them has
    Docs,           \* the configuration files: see Configuration
    Names,          \* names of environment variables
    Paths,          \* files the buffers are dumped to
    ExitCodes,      \* what the init command may exit with
    Signals,        \* the signals that may end it
    Faults,         \* the outside calls that may fail
    Addresses,      \* of GPU memory
    Data            \* what a kernel leaves in a buffer

Unused == "unused"      \* an address that is not allocated
Fresh == "fresh"        \* memory no kernel has written to
Partial == "partial"    \* the beginning of a buffer

ASSUME InitAssumption ==
    /\ RegionsOf \in [HsaAgents -> SUBSET {"gpu", "host"}]
    /\ Nothing \notin Names \cup Paths \cup Data \cup HsaAgents
    /\ ExitCodes \subseteq 0..255 /\ Signals \subseteq 1..127
    /\ Faults \subseteq {"regions", "gpu memory", "host memory", "shell",
                         "handler", "driver", "reset", "copy", "open", "short",
                         "log"}
    /\ Data \cap {Unused, Fresh, Partial} = {}

\* What the parser finds in a document: a key of a table has a value of its
\* type, or one of those Configuration speaks of.
BufferTable == [size : Nat \cup {Absent, Mistyped, OutOfRange},
                addrName : Names \cup {Nothing, Absent, Mistyped},
                sizeName : Names \cup {Nothing, Absent, Mistyped},
                path : Paths \cup {Nothing, Absent, Mistyped}]

ASSUME DocsAssumption ==
    \A d \in Docs : d.kind = "toml" =>
        /\ d.buffers \in Seq(BufferTable)
        /\ \A i \in DOMAIN d.coSubs : CoPredicates \subseteq DOMAIN d.coSubs[i]
        /\ \A i \in DOMAIN d.symbolSubs : SymbolPredicates \subseteq DOMAIN d.symbolSubs[i]

VARIABLES
    doc,                    \* external: the configuration file
    debugAgent,             \* whether there is a _debug_agent
    config,                 \* its _config
    logging,                \* whether what its _logger writes is to be found
    intercepted,            \* whether the API table has our functions
    printed,                \* external: what was said on the standard error
    initExecuted,           \* _init_command_executed
    pc, agent,              \* where the agent is, and for which hsa_agent_t
    gpuRegion, hostRegion,  \* whether _gpu_region and _host_region are set
    allocs,                 \* _alloc_pointers: the GPU addresses
    env,                    \* _buffer_env
    handlerLoaded, node,    \* _handler_loaded, _agent_node_id
    next,                   \* the buffer ~BufferManager is at
    gpuMemory,              \* external: what is at an allocated address
    handlerOf,              \* external: whether the driver has our handler
    dumps,                  \* external: what the dump files hold
    command,                \* ghost: the environment and the exit code of the
                            \* command, and whether it was found to fail
    reported                \* the agent log: what was reported as an error

lifeVars == <<doc, debugAgent, config, logging, intercepted, printed>>
managerVars == <<gpuRegion, hostRegion, allocs, env>>
handlerVars == <<handlerLoaded, node>>
outside == <<gpuMemory, handlerOf, dumps>>
vars == <<lifeVars, initExecuted, pc, agent, managerVars, handlerVars, next, outside,
          command, reported>>

Buffers == config.buffers

\* Logger::write: without a log, or with one whose file could not be opened,
\* the line is lost.
Report(what) == reported' = IF logging THEN reported \cup {what} ELSE reported

----------------------------------------------------------------------------
(* OnLoad                                                                  *)

NoConfig == [agentLog |-> Nothing, buffers |-> << >>, command |-> NoCommand,
             handler |-> NoHandler, coSubs |-> << >>, symbolSubs |-> << >>]

\* Mutant: the functions are put into the table before the agent is made.
OnLoad_table_first ==
    /\ pc = "loading"
    /\ intercepted' = TRUE
    /\ \/ /\ Config_throws(doc)
          /\ pc' = "refused"
          /\ printed' = printed \cup {"configuration"}
          /\ UNCHANGED <<debugAgent, config, logging>>
       \/ /\ ~Config_throws(doc)
          /\ config' = Config(doc)
          /\ logging' = (config'.agentLog # Nothing)
          /\ debugAgent' = TRUE
          /\ pc' = "before"
          /\ UNCHANGED printed
    /\ UNCHANGED <<doc, initExecuted, agent, managerVars, handlerVars, next, outside,
                   command, reported>>

\* The Logger of the agent: "" is no log, "-" the standard output.
open_log ==
    \/ /\ logging' = (config'.agentLog # Nothing)
       /\ UNCHANGED printed
    \/ /\ config'.agentLog \notin {Nothing, "-"} /\ "log" \in Faults
       /\ logging' = FALSE
       /\ printed' = printed \cup {"log file"}

\* A configuration that cannot be read leaves the table as it was, and is
\* reported where there is no agent, hence no log.
OnLoad ==
    /\ pc = "loading"
    /\ \/ /\ Config_throws(doc)
          /\ pc' = "refused"
          /\ printed' = printed \cup {"configuration"}
          /\ UNCHANGED <<debugAgent, config, logging, intercepted>>
       \/ /\ ~Config_throws(doc)
          /\ config' = Config(doc)
          /\ open_log
          /\ debugAgent' = TRUE
          /\ intercepted' = TRUE
          /\ pc' = "before"
    /\ UNCHANGED <<doc, initExecuted, agent, managerVars, handlerVars, next, outside,
                   command, reported>>

----------------------------------------------------------------------------
(* The first queue or executable                                           *)

\* The agent is whichever the application named first, and the call that
\* named it may have failed.  Later calls find the flag set.
execute_init_command_once(a) ==
    /\ intercepted /\ pc \in {"before", "refused"}
    /\ ~initExecuted
    /\ initExecuted' = TRUE
    /\ agent' = a
    /\ pc' = "regions"
    /\ UNCHANGED <<lifeVars, managerVars, handlerVars, next, outside, command, reported>>

\* BufferManager::allocate_buffers, up to the loop.  It does nothing where no
\* buffers are configured, or the allocation was already performed.
find_regions ==
    /\ pc = "regions"
    /\ \/ /\ Buffers = << >> \/ gpuRegion
          /\ pc' = "command"
          /\ UNCHANGED <<gpuRegion, hostRegion, reported>>
       \/ /\ Buffers # << >> /\ ~gpuRegion /\ "regions" \in Faults
          /\ gpuRegion' \in {FALSE, "gpu" \in RegionsOf[agent]}
          /\ hostRegion' \in {FALSE, "host" \in RegionsOf[agent]}
          /\ pc' = "command"
          /\ Report("regions")
       \/ /\ Buffers # << >> /\ ~gpuRegion
          /\ gpuRegion' = ("gpu" \in RegionsOf[agent])
          /\ hostRegion' = ("host" \in RegionsOf[agent])
          /\ \/ gpuRegion' /\ hostRegion' /\ pc' = "allocate" /\ UNCHANGED reported
             \/ /\ ~(gpuRegion' /\ hostRegion')
                /\ pc' = "command"
                /\ Report("regions")
    /\ UNCHANGED <<lifeVars, initExecuted, agent, allocs, env, handlerVars, next, outside, command>>

\* One variable, where a name is configured for it.
Exported(name, value) ==
    IF name = Nothing THEN << >> ELSE <<[name |-> name, value |-> value]>>

\* Mutant: names that are not configured are exported as well.
Exports_unchecked(buffer, address) ==
    <<[name |-> buffer.addrName, value |-> address],
      [name |-> buffer.sizeName, value |-> buffer.size]>>

\* The variables that are exported for a buffer at an address.
Exports(buffer, address) ==
    Exported(buffer.addrName, address) \o Exported(buffer.sizeName, buffer.size)

\* Mutant: the variables are exported before the buffer is complete.
allocate_buffer_exporting_early ==
    /\ pc = "allocate"
    /\ Len(allocs) < Len(Buffers)
    /\ \E address \in {a \in Addresses : gpuMemory[a] = Unused} :
        /\ gpuMemory' = [gpuMemory EXCEPT ![address] = Fresh]
        /\ env' = env \o Exports(Buffers[Len(allocs) + 1], address)
        /\ \/ "host memory" \in Faults /\ pc' = "command" /\ UNCHANGED allocs
           \/ allocs' = Append(allocs, address) /\ UNCHANGED pc
    /\ UNCHANGED <<lifeVars, initExecuted, agent, gpuRegion, hostRegion, handlerVars, next,
                   handlerOf, dumps, command, reported>>

\* One turn of the loop over the configured buffers.  The first allocation
\* that fails ends it; what was allocated before stays, on the GPU as well
\* when it was the host memory of the buffer that could not be allocated.
allocate_buffer ==
    /\ pc = "allocate"
    /\ Len(allocs) < Len(Buffers)
    /\ \/ /\ "gpu memory" \in Faults
          /\ pc' = "command"
          /\ Report("memory")
          /\ UNCHANGED <<gpuMemory, allocs, env>>
       \/ \E address \in {a \in Addresses : gpuMemory[a] = Unused} :
           /\ gpuMemory' = [gpuMemory EXCEPT ![address] = Fresh]
           /\ \/ /\ "host memory" \in Faults
                 /\ pc' = "command"
                 /\ Report("memory")
                 /\ UNCHANGED <<allocs, env>>
              \/ /\ allocs' = Append(allocs, address)
                 /\ env' = env \o Exports(Buffers[Len(allocs) + 1], address)
                 /\ UNCHANGED <<pc, reported>>
    /\ UNCHANGED <<lifeVars, initExecuted, agent, gpuRegion, hostRegion, handlerVars, next,
                   handlerOf, dumps, command>>

allocation_done ==
    /\ pc = "allocate"
    /\ Len(allocs) = Len(Buffers)
    /\ pc' = "command"
    /\ UNCHANGED <<lifeVars, initExecuted, agent, managerVars, handlerVars, next, outside,
                   command, reported>>

\* How the command may end, and what system() returns for it: the wait status of
\* the shell, not its exit code.  A shell that was killed, or that could not be
\* started, has no exit code.
NoCode == -1
Endings ==
    {[code |-> c, status |-> 256 * c] : c \in ExitCodes}
    \cup {[code |-> NoCode, status |-> s] : s \in Signals}
    \cup (IF "shell" \in Faults THEN {[code |-> NoCode, status |-> -1]} ELSE {})

\* An unexpected status is reported and thrown, out of the library: what is
\* below it in execute_init_command_once is not done, now or later.
run_init_command ==
    /\ pc = "command"
    /\ \/ /\ config.command.exec = Nothing
          /\ pc' = "trap handler"
          /\ UNCHANGED <<command, reported>>
       \/ /\ config.command.exec # Nothing
          /\ \E ending \in Endings :
              LET fails == /\ config.command.retcode # Absent
                           /\ ending.status # config.command.retcode
              IN  /\ command' = [ran |-> TRUE, env |-> env, code |-> ending.code,
                                 failed |-> fails]
                  /\ pc' = IF fails THEN "failed" ELSE "trap handler"
                  /\ IF fails THEN Report("command") ELSE UNCHANGED reported
    /\ UNCHANGED <<lifeVars, initExecuted, agent, managerVars, handlerVars, next, outside>>

\* Mutant: the handler is not remembered as loaded.
set_up_forgetful ==
    /\ pc = "trap handler"
    /\ config.handler.path # Nothing
    /\ node' = agent
    /\ handlerOf' = [handlerOf EXCEPT ![agent] = TRUE]
    /\ pc' = "ready"
    /\ UNCHANGED <<lifeVars, initExecuted, agent, managerVars, handlerLoaded, next, gpuMemory,
                   dumps, command, reported>>

\* TrapHandler::set_up: "handler" stands for the file, the executable and the
\* symbol of the handler, "driver" for hsaKmtSetTrapHandler.  The symbol
\* substitutes that are prepared next are in DebugAgent.
set_up ==
    /\ pc = "trap handler"
    /\ pc' = "ready"
    /\ \/ config.handler.path = Nothing /\ UNCHANGED <<handlerVars, handlerOf, reported>>
       \/ /\ config.handler.path # Nothing
          /\ node' \in {agent} \cup (IF "handler" \in Faults THEN {node} ELSE {})
          /\ \/ /\ {"handler", "driver"} \cap Faults # {}
                /\ Report("trap handler")
                /\ UNCHANGED <<handlerLoaded, handlerOf>>
             \/ /\ node' = agent
                /\ handlerOf' = [handlerOf EXCEPT ![agent] = TRUE]
                /\ handlerLoaded' = TRUE
                /\ UNCHANGED reported
    /\ UNCHANGED <<lifeVars, initExecuted, agent, managerVars, next, gpuMemory, dumps, command>>

----------------------------------------------------------------------------
(* The application's kernels (external)                                    *)

KernelWrites ==
    /\ pc \in {"ready", "failed"}
    /\ \E address \in Addresses, data \in Data :
        /\ gpuMemory[address] # Unused
        /\ gpuMemory' = [gpuMemory EXCEPT ![address] = data]
    /\ UNCHANGED <<lifeVars, initExecuted, pc, agent, managerVars, handlerVars, next, handlerOf,
                   dumps, command, reported>>

----------------------------------------------------------------------------
(* OnUnload: the members are destroyed, the trap handler first             *)

\* The table is the runtime's to reset.
OnUnload ==
    /\ pc \in {"before", "ready", "failed"}
    /\ pc' = "reset"
    /\ debugAgent' = FALSE
    /\ UNCHANGED <<doc, config, logging, intercepted, printed, initExecuted, agent, managerVars, handlerVars, next, outside,
                   command, reported>>

\* TrapHandler::~TrapHandler
reset_handler ==
    /\ pc = "reset"
    /\ pc' = "dump"
    /\ \/ ~handlerLoaded /\ UNCHANGED <<handlerOf, reported>>
       \/ /\ handlerLoaded
          /\ handlerOf' = [handlerOf EXCEPT ![node] = FALSE]
          /\ UNCHANGED reported
       \/ /\ handlerLoaded /\ "reset" \in Faults
          /\ Report("reset")
          /\ UNCHANGED handlerOf
    /\ UNCHANGED <<lifeVars, initExecuted, agent, managerVars, handlerVars, next, gpuMemory,
                   dumps, command>>

\* Mutant: the host memory is written to the file without the copy.
dump_buffer_uncopied ==
    /\ pc = "dump"
    /\ next <= Len(allocs)
    /\ dumps' = IF Buffers[next].path = Nothing THEN dumps
                ELSE [dumps EXCEPT ![Buffers[next].path] = Fresh]
    /\ next' = next + 1
    /\ UNCHANGED <<lifeVars, initExecuted, pc, agent, managerVars, handlerVars, gpuMemory,
                   handlerOf, command, reported>>

\* One turn of the loop of BufferManager::~BufferManager.  A copy that fails
\* ends the loop, a file that cannot be opened does not.
dump_buffer ==
    /\ pc = "dump"
    /\ next <= Len(allocs)
    /\ LET path == Buffers[next].path IN
        \/ /\ path = Nothing
           /\ next' = next + 1
           /\ UNCHANGED <<pc, dumps, reported>>
        \/ /\ path # Nothing /\ "copy" \in Faults
           /\ pc' = "gone"
           /\ Report("copy")
           /\ UNCHANGED <<next, dumps>>
        \/ /\ path # Nothing
           /\ next' = next + 1
           /\ \E held \in {gpuMemory[allocs[next]]}
                          \cup (IF "short" \in Faults THEN {Partial} ELSE {}) :
                dumps' = [dumps EXCEPT ![path] = held]
           /\ UNCHANGED <<pc, reported>>
        \/ /\ path # Nothing /\ "open" \in Faults
           /\ next' = next + 1
           /\ Report(path)
           /\ UNCHANGED <<pc, dumps>>
    /\ UNCHANGED <<lifeVars, initExecuted, agent, managerVars, handlerVars, gpuMemory, handlerOf,
                   command>>

dumps_done ==
    /\ pc = "dump"
    /\ next > Len(allocs)
    /\ pc' = "gone"
    /\ UNCHANGED <<lifeVars, initExecuted, agent, managerVars, handlerVars, next, outside,
                   command, reported>>

----------------------------------------------------------------------------

NotRun == [ran |-> FALSE, env |-> << >>, code |-> 0, failed |-> FALSE]

Init ==
    /\ doc \in Docs
    /\ debugAgent = FALSE /\ config = NoConfig
    /\ logging = FALSE /\ intercepted = FALSE /\ printed = {}
    /\ initExecuted = FALSE
    /\ pc = "loading" /\ agent = Nothing
    /\ gpuRegion = FALSE /\ hostRegion = FALSE
    /\ allocs = << >> /\ env = << >>
    /\ handlerLoaded = FALSE /\ node = Nothing
    /\ next = 1
    /\ gpuMemory = [a \in Addresses |-> Unused]
    /\ handlerOf = [a \in HsaAgents |-> FALSE]
    /\ dumps = [p \in Paths |-> Nothing]
    /\ command = NotRun
    /\ reported = {}

Next ==
    \/ OnLoad
    \/ \E a \in HsaAgents : execute_init_command_once(a)
    \/ find_regions
    \/ allocate_buffer
    \/ allocation_done
    \/ run_init_command
    \/ set_up
    \/ KernelWrites
    \/ OnUnload
    \/ reset_handler
    \/ dump_buffer
    \/ dumps_done

Spec == Init /\ [][Next]_vars

----------------------------------------------------------------------------
(* Properties                                                              *)

TypeOK ==
    /\ doc \in Docs
    /\ {debugAgent, logging, intercepted, initExecuted, gpuRegion, hostRegion,
         handlerLoaded} \subseteq BOOLEAN
    /\ config = NoConfig \/ (~Config_throws(doc) /\ config = Config(doc))
    /\ printed \subseteq {"configuration", "log file"}
    /\ pc \in {"loading", "refused", "before", "regions", "allocate", "command",
               "trap handler", "ready", "failed", "reset", "dump", "gone"}
    /\ {agent, node} \subseteq HsaAgents \cup {Nothing}
    /\ allocs \in Seq(Addresses) /\ Len(allocs) <= Len(Buffers)
    /\ env \in Seq([name : Names, value : Addresses \cup Nat])
    /\ next \in 1..(Len(allocs) + 1)
    /\ gpuMemory \in [Addresses -> Data \cup {Unused, Fresh}]
    /\ handlerOf \in [HsaAgents -> BOOLEAN]
    /\ dumps \in [Paths -> Data \cup {Nothing, Fresh, Partial}]
    /\ reported \subseteq {"regions", "memory", "command", "trap handler", "reset",
                           "copy"} \cup Paths

\* "this way if it throws an exception we don't end up with an invalid
\* CoreApiTable" (init.cpp:90): no handler runs without an agent, whatever is
\* wrong with the configuration.
HandlersHaveAgent ==
    pc \in {"regions", "allocate", "command", "trap handler"} => debugAgent

\* The init command sees the address and the size of the buffers that the
\* library holds and will dump, under the names configured for each of them,
\* and of no other memory: also when some of them could not be allocated.
EnvDescribesBuffers ==
    command.ran =>
        /\ \A k \in DOMAIN command.env : \E i \in DOMAIN allocs :
             command.env[k] \in ToSet(Exports(Buffers[i], allocs[i]))
        /\ \A i \in DOMAIN allocs :
             ToSet(Exports(Buffers[i], allocs[i])) \subseteq ToSet(command.env)

\* Nothing is to be found in the agent log: none is configured, or it could
\* not be opened and that was said on the standard error.
Silent == config.agentLog = Nothing \/ "log file" \in printed

\* The file holds what the kernels left in the buffer, or the beginning of it: a
\* file that was cut short is not noticed.
InFile(path, i) ==
    Buffers[i].path = path /\ dumps[path] \in {gpuMemory[allocs[i]], Partial}

\* "When the application exits, save the contents of the buffer"
\* (config.toml:21): when the library is gone, the file of every buffer that
\* was allocated holds what the kernels left in that buffer, or in a later one
\* that has the same file, or an error was reported about it or about a copy,
\* where there is a log; and no file holds anything else.
DumpedOrReported ==
    pc = "gone" =>
        /\ \A path \in Paths :
             dumps[path] # Nothing => \E i \in DOMAIN allocs : InFile(path, i)
        /\ \A i \in DOMAIN allocs :
             LET path == Buffers[i].path
             IN  \/ path = Nothing
                 \/ \E j \in DOMAIN allocs : i <= j /\ InFile(path, j)
                 \/ reported \cap {"copy", path} # {} \/ Silent

\* The driver is not left with a trap handler of an unloaded library, on the
\* agent it was set up for or on any other, unless the reset was refused.
HandlerReset ==
    pc = "gone" => \/ \A a \in HsaAgents : ~handlerOf[a]
                   \/ "reset" \in reported \/ Silent

\* "The addresses of all auxiliary buffers can be read (as environment
\* variables) by the shell command" (README.md:13): the command runs with all
\* the variables that are configured.
EnvComplete ==
    command.ran => \A i \in DOMAIN Buffers :
        {Buffers[i].addrName, Buffers[i].sizeName} \ {Nothing}
            \subseteq {e.name : e \in ToSet(command.env)}

\* "Abort the application if the return code does not match the one
\* specified" (config.toml:51): and only then.
AbortedByReturnCode ==
    command.ran /\ config.command.retcode # Absent =>
        (command.failed <=> command.code # config.command.retcode)
====
