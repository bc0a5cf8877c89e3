---- MODULE AgentInit_proof ----
(***************************************************************************)
(* Proofs about AgentInit, for every set of documents, agents and outside  *)
(* calls that may fail.                                                    *)
(***************************************************************************)
EXTENDS AgentInit, TLAPS, SequenceTheorems

\* A buffer of a configuration that was read.
ReadBuffer == [size : Nat, addrName : Names \cup {Nothing},
               sizeName : Names \cup {Nothing}, path : Paths \cup {Nothing}]

----------------------------------------------------------------------------
(* The inductive invariant                                                 *)

\* Before the configuration is read nothing is set up, and no handler is in the
\* table when it is refused.
NothingYet ==
    /\ pc = "loading" => allocs = << >> /\ env = << >>
    /\ pc \in {"loading", "refused"} => ~intercepted

\* Where errors are lost, there was no log to find them in.
LostOnlyIfSilent == logging \/ Silent

\* Handlers run between the loading and the unloading.
AgentWhileUsed ==
    pc \in {"before", "regions", "allocate", "command", "trap handler", "ready", "failed"}
        => debugAgent

\* The environment is made of the exports of the buffers that were allocated,
\* and is not extended once the command has run.
EnvOfBuffers ==
    /\ \A k \in DOMAIN env : \E i \in DOMAIN allocs :
         env[k] \in ToSet(Exports(Buffers[i], allocs[i]))
    /\ \A i \in DOMAIN allocs :
         ToSet(Exports(Buffers[i], allocs[i])) \subseteq ToSet(env)
CommandSawEnv ==
    command.ran => /\ command.env = env
                   /\ pc \in {"trap handler", "ready", "failed", "reset", "dump", "gone"}

\* The driver has the handler on the agent that is remembered, if any, and after
\* the reset on none, or the reset was refused.
HandlerOfNode ==
    /\ pc \in {"loading", "refused", "before", "regions", "allocate", "command",
               "trap handler"} => ~handlerLoaded
    /\ \A a \in HsaAgents : handlerOf[a] => handlerLoaded /\ a = node
    /\ pc \in {"dump", "gone"} => \/ \A a \in HsaAgents : ~handlerOf[a]
                                  \/ "reset" \in reported \/ Silent

\* The buffers before the one the destructor is at are dumped, or it was
\* reported why not; files that were written hold a buffer.
Dumped(i) ==
    LET path == Buffers[i].path IN
    \/ path = Nothing
    \/ \E j \in DOMAIN allocs : i <= j /\ InFile(path, j)
    \/ path \in reported \/ Silent
FilesHoldBuffers ==
    \A path \in Paths : dumps[path] # Nothing => \E i \in DOMAIN allocs : InFile(path, i)
DumpedSoFar ==
    /\ pc \notin {"dump", "gone"} => next = 1 /\ \A path \in Paths : dumps[path] = Nothing
    /\ FilesHoldBuffers
    /\ \A i \in DOMAIN allocs : i < next => Dumped(i)
    /\ pc = "gone" => next > Len(allocs) \/ "copy" \in reported \/ Silent

\* A buffer is somewhere in the memory that is allocated.
BuffersHeld == \A i \in DOMAIN allocs : gpuMemory[allocs[i]] # Unused

IInv == /\ TypeOK
        /\ NothingYet
        /\ BuffersHeld
        /\ LostOnlyIfSilent
        /\ AgentWhileUsed
        /\ EnvOfBuffers
        /\ CommandSawEnv
        /\ HandlerOfNode

----------------------------------------------------------------------------
(* What is read                                                            *)

\* A table of a buffer that is not refused (config.cpp:46) becomes a buffer with
\* a size, and names and a path that may be empty.
LEMMA TableRead ==
    ASSUME NEW table \in BufferTable, ~get_buffer_throws(table)
    PROVE  ReadTable(table, {}) \in ReadBuffer
<1> DEFINE Keys == {"size", "addrName", "sizeName", "path"}
<1>1. DOMAIN table = Keys
    BY DEF BufferTable
<1>2. table["size"] \in Nat /\ HasValue(table["size"])
    BY <1>1, ConfigurationAssumption
       DEF BufferTable, get_buffer_throws, get_required_throws, HasValue
<1>3. ReadTable(table, {}) = [key \in Keys |-> value_or_empty(table[key])]
    BY <1>1 DEF ReadTable
<1>4. /\ value_or_empty(table["size"]) \in Nat
      /\ value_or_empty(table["addrName"]) \in Names \cup {Nothing}
      /\ value_or_empty(table["sizeName"]) \in Names \cup {Nothing}
      /\ value_or_empty(table["path"]) \in Paths \cup {Nothing}
    BY <1>2 DEF BufferTable, value_or_empty, HasValue
<1> QED
    BY <1>3, <1>4 DEF ReadBuffer

\* Of a document that is not refused, every buffer is read.
LEMMA BuffersRead ==
    ASSUME NEW d \in Docs, ~Config_throws(d)
    PROVE  Config(d).buffers \in Seq(ReadBuffer)
<1>1. d.kind = "toml"
    BY DEF Config_throws
<1> DEFINE tables == d.buffers
<1>2. tables \in Seq(BufferTable)
    BY <1>1, DocsAssumption
<1>3. \A i \in DOMAIN tables : ReadTable(tables[i], {}) \in ReadBuffer
    <2> SUFFICES ASSUME NEW i \in DOMAIN tables
                 PROVE  ReadTable(tables[i], {}) \in ReadBuffer
        OBVIOUS
    <2>1. tables[i] \in BufferTable
        BY <1>2, ElementOfSeq
    <2>2. ~get_buffer_throws(tables[i])
        BY <1>1 DEF Config_throws
    <2> QED
        BY <2>1, <2>2, TableRead
<1>4. Config(d).buffers = [i \in DOMAIN tables |-> ReadTable(tables[i], {})]
    BY DEF Config, ReadArray
<1>5. /\ Len(tables) \in Nat
      /\ DOMAIN tables = 1..Len(tables)
    BY <1>2
<1> HIDE DEF tables
<1> QED
    BY <1>3, <1>4, <1>5, IsASeq

LEMMA ConfiguredBuffers ==
    ASSUME TypeOK
    PROVE  Buffers \in Seq(ReadBuffer)
<1>1. CASE config = NoConfig
    BY <1>1 DEF NoConfig, Buffers
<1>2. CASE ~Config_throws(doc) /\ config = Config(doc)
    BY <1>2, BuffersRead DEF Buffers, TypeOK
<1> QED
    BY <1>1, <1>2 DEF TypeOK

\* A variable of the environment of the init command.
Variable == [name : Names, value : Addresses \cup Nat]

\* The lengths of the sequences, and what is at their indices.
LEMMA Lengths ==
    ASSUME TypeOK
    PROVE  /\ allocs \in Seq(Addresses) /\ env \in Seq(Variable)
           /\ Len(allocs) \in Nat /\ DOMAIN allocs = 1..Len(allocs)
           /\ Len(Buffers) \in Nat /\ DOMAIN Buffers = 1..Len(Buffers)
           /\ Len(allocs) <= Len(Buffers)
           /\ next \in 1..(Len(allocs) + 1)
           /\ \A i \in DOMAIN Buffers : Buffers[i] \in ReadBuffer
           /\ \A i \in DOMAIN allocs : allocs[i] \in Addresses /\ i \in DOMAIN Buffers
<1>1. Buffers \in Seq(ReadBuffer)
    BY ConfiguredBuffers
<1>2. /\ allocs \in Seq(Addresses) /\ env \in Seq(Variable)
      /\ Len(allocs) <= Len(Buffers) /\ next \in 1..(Len(allocs) + 1)
    BY DEF TypeOK, Variable
<1>3. /\ Len(allocs) \in Nat /\ DOMAIN allocs = 1..Len(allocs)
      /\ Len(Buffers) \in Nat /\ DOMAIN Buffers = 1..Len(Buffers)
    BY <1>1, <1>2, LenProperties
<1>4. /\ \A i \in DOMAIN Buffers : Buffers[i] \in ReadBuffer
      /\ \A i \in DOMAIN allocs : allocs[i] \in Addresses
    BY <1>1, <1>2, ElementOfSeq
<1> QED
    BY <1>2, <1>3, <1>4

LEMMA ExportedVariables ==
    ASSUME NEW buffer \in ReadBuffer, NEW address \in Addresses
    PROVE  Exports(buffer, address) \in Seq(Variable)
<1>1. ASSUME NEW name \in Names \cup {Nothing}, NEW value \in Addresses \cup Nat
      PROVE  Exported(name, value) \in Seq(Variable)
    <2>1. CASE name = Nothing
        BY <2>1 DEF Exported
    <2>2. CASE name # Nothing
        <3>1. [name |-> name, value |-> value] \in Variable
            BY <2>2 DEF Variable
        <3> QED
            BY <2>2, <3>1 DEF Exported
    <2> QED
        BY <2>1, <2>2
<1>2. /\ buffer.addrName \in Names \cup {Nothing}
      /\ buffer.sizeName \in Names \cup {Nothing}
      /\ buffer.size \in Nat
    BY DEF ReadBuffer
<1>3. /\ Exported(buffer.addrName, address) \in Seq(Variable)
      /\ Exported(buffer.sizeName, buffer.size) \in Seq(Variable)
    BY <1>1, <1>2
<1> QED
    BY <1>3, ConcatProperties DEF Exports

\* A sequence holds what the sequences it is put together from hold.
LEMMA ConcatHolds ==
    ASSUME NEW S, NEW s \in Seq(S), NEW t \in Seq(S)
    PROVE  ToSet(s \o t) = ToSet(s) \cup ToSet(t)
<1> DEFINE st == s \o t
<1>1. /\ st \in Seq(S)
      /\ Len(st) = Len(s) + Len(t)
      /\ \A i \in 1..Len(st) : st[i] = IF i <= Len(s) THEN s[i] ELSE t[i - Len(s)]
    BY ConcatProperties
<1>2. /\ DOMAIN s = 1..Len(s) /\ Len(s) \in Nat
      /\ DOMAIN t = 1..Len(t) /\ Len(t) \in Nat
      /\ DOMAIN st = 1..Len(st)
    BY <1>1
<1>3. ASSUME NEW i \in DOMAIN st
      PROVE  st[i] \in ToSet(s) \cup ToSet(t)
    <2> HIDE DEF st
    <2>1. CASE i <= Len(s)
        BY <1>1, <1>2, <2>1 DEF ToSet
    <2>2. CASE ~(i <= Len(s))
        <3>1. i - Len(s) \in DOMAIN t /\ st[i] = t[i - Len(s)]
            BY <1>1, <1>2, <2>2
        <3> QED
            BY <3>1 DEF ToSet
    <2> QED
        BY <2>1, <2>2
<1>4. ASSUME NEW i \in DOMAIN s
      PROVE  s[i] \in ToSet(st)
    <2> HIDE DEF st
    <2>1. i \in DOMAIN st /\ st[i] = s[i]
        BY <1>1, <1>2
    <2> QED
        BY <2>1 DEF ToSet
<1>5. ASSUME NEW i \in DOMAIN t
      PROVE  t[i] \in ToSet(st)
    <2> HIDE DEF st
    <2>1. Len(s) + i \in DOMAIN st /\ st[Len(s) + i] = t[i]
        BY <1>1, <1>2
    <2> QED
        BY <2>1 DEF ToSet
<1> HIDE DEF st
<1>6. ToSet(st) = ToSet(s) \cup ToSet(t)
    BY <1>3, <1>4, <1>5 DEF ToSet
<1> QED
    BY <1>6 DEF st

----------------------------------------------------------------------------
(* Types                                                                   *)

LEMMA InitTypes == Init => TypeOK
<1> SUFFICES ASSUME Init PROVE TypeOK
    OBVIOUS
<1>1. Buffers = << >> /\ allocs = << >> /\ env = << >>
    BY DEF Init, Buffers, NoConfig
<1>2. /\ allocs \in Seq(Addresses) /\ Len(allocs) <= Len(Buffers)
      /\ next \in 1..(Len(allocs) + 1)
    BY <1>1 DEF Init
<1>3. env \in Seq([name : Names, value : Addresses \cup Nat])
    BY <1>1
<1>4. /\ {debugAgent, logging, intercepted, initExecuted, gpuRegion, hostRegion,
           handlerLoaded} \subseteq BOOLEAN
      /\ {agent, node} \subseteq HsaAgents \cup {Nothing}
    BY DEF Init
<1>5. /\ gpuMemory \in [Addresses -> Data \cup {Unused, Fresh}]
      /\ handlerOf \in [HsaAgents -> BOOLEAN]
      /\ dumps \in [Paths -> Data \cup {Nothing, Fresh, Partial}]
    BY DEF Init
<1>6. /\ doc \in Docs /\ config = NoConfig
      /\ pc = "loading" /\ printed = {} /\ reported = {}
    BY DEF Init
<1> QED
    BY <1>2, <1>3, <1>4, <1>5, <1>6 DEF TypeOK

LEMMA LoadTypes == TypeOK /\ NothingYet /\ OnLoad => TypeOK'
<1> SUFFICES ASSUME TypeOK, NothingYet, OnLoad PROVE TypeOK'
    OBVIOUS
<1>1. allocs' = << >> /\ env' = env /\ next' = next
    BY DEF OnLoad, NothingYet, managerVars
<1>2. CASE Config_throws(doc)
    BY <1>2 DEF OnLoad, TypeOK, Buffers, lifeVars, managerVars, handlerVars, outside
<1>3. CASE ~Config_throws(doc)
    <2>1. Config(doc).buffers \in Seq(ReadBuffer)
        BY <1>3, BuffersRead DEF TypeOK
    <2>2. Len(allocs') <= Len(Buffers')
        BY <1>1, <1>3, <2>1 DEF OnLoad, Buffers
    <2>3. logging' \in BOOLEAN /\ printed' \subseteq {"configuration", "log file"}
        BY <1>3 DEF OnLoad, open_log, TypeOK
    <2> QED
        BY <1>1, <1>3, <2>2, <2>3
           DEF OnLoad, TypeOK, lifeVars, managerVars, handlerVars, outside
<1> QED
    BY <1>2, <1>3

LEMMA FirstTypes ==
    ASSUME TypeOK, NEW a \in HsaAgents, execute_init_command_once(a)
    PROVE  TypeOK'
BY DEF execute_init_command_once, TypeOK, lifeVars, managerVars, handlerVars, outside, Buffers

LEMMA RegionTypes == TypeOK /\ find_regions => TypeOK'
<1> SUFFICES ASSUME TypeOK, find_regions PROVE TypeOK'
    OBVIOUS
<1>1. gpuRegion' \in BOOLEAN /\ hostRegion' \in BOOLEAN
    <2>1. gpuRegion \in BOOLEAN /\ hostRegion \in BOOLEAN
        BY DEF TypeOK
    <2>2. /\ ("gpu" \in RegionsOf[agent]) \in BOOLEAN
          /\ ("host" \in RegionsOf[agent]) \in BOOLEAN
        OBVIOUS
    <2> QED
        BY <2>1, <2>2, Zenon DEF find_regions
<1>2. pc' \in {"command", "allocate"}
    BY DEF find_regions
<1>3. reported' \subseteq reported \cup {"regions"}
    BY DEF find_regions, Report
<1>4. UNCHANGED <<lifeVars, initExecuted, agent, allocs, env, handlerVars, next, outside>>
    BY DEF find_regions
<1> QED
    BY <1>1, <1>2, <1>3, <1>4 DEF TypeOK, Buffers, lifeVars, handlerVars, outside

\* What a turn of the allocation loop makes of the buffers and the environment.
LEMMA BufferAllocated ==
    ASSUME TypeOK, allocate_buffer
    PROVE  \/ UNCHANGED <<allocs, env>>
           \/ \E address \in Addresses :
                /\ allocs' = Append(allocs, address)
                /\ Len(allocs) + 1 \in DOMAIN Buffers
                /\ Buffers[Len(allocs) + 1] \in ReadBuffer
                /\ env' = env \o Exports(Buffers[Len(allocs) + 1], address)
                /\ Exports(Buffers[Len(allocs) + 1], address) \in Seq(Variable)
                /\ UNCHANGED <<pc, reported>>
<1> DEFINE nr == Len(allocs)
<1>1. /\ nr + 1 \in DOMAIN Buffers
      /\ Buffers[nr + 1] \in ReadBuffer
    <2>1. nr < Len(Buffers)
        BY DEF allocate_buffer
    <2> HIDE DEF nr
    <2>2. nr + 1 \in 1..Len(Buffers)
        BY <2>1, Lengths DEF nr
    <2> QED
        BY <2>2, Lengths
<1>2. CASE UNCHANGED <<allocs, env>>
    BY <1>2
<1>3. CASE ~UNCHANGED <<allocs, env>>
    <2>1. PICK address \in Addresses :
              /\ allocs' = Append(allocs, address)
              /\ env' = env \o Exports(Buffers[Len(allocs) + 1], address)
              /\ UNCHANGED <<pc, reported>>
        BY <1>3 DEF allocate_buffer
    <2> QED
        BY <1>1, <2>1, ExportedVariables
<1> QED
    BY <1>2, <1>3

LEMMA AllocateTypes == TypeOK /\ allocate_buffer => TypeOK'
<1> SUFFICES ASSUME TypeOK, allocate_buffer PROVE TypeOK'
    OBVIOUS
<1>1. Buffers' = Buffers /\ Buffers \in Seq(ReadBuffer)
    BY ConfiguredBuffers DEF allocate_buffer, Buffers, lifeVars
<1>2. /\ allocs' \in Seq(Addresses) /\ Len(allocs') <= Len(Buffers')
      /\ next' \in 1..(Len(allocs') + 1)
      /\ env' \in Seq([name : Names, value : Addresses \cup Nat])
    <2>1. ASSUME UNCHANGED <<allocs, env>>
          PROVE  /\ allocs' \in Seq(Addresses) /\ Len(allocs') = Len(allocs)
                 /\ env' \in Seq([name : Names, value : Addresses \cup Nat])
        BY <2>1 DEF TypeOK
    <2>2. ASSUME NEW address \in Addresses,
                 allocs' = Append(allocs, address),
                 env' = env \o Exports(Buffers[Len(allocs) + 1], address),
                 Exports(Buffers[Len(allocs) + 1], address) \in Seq(Variable)
          PROVE  /\ allocs' \in Seq(Addresses) /\ Len(allocs') = Len(allocs) + 1
                 /\ env' \in Seq([name : Names, value : Addresses \cup Nat])
        <3>1. allocs \in Seq(Addresses) /\ env \in Seq(Variable)
            BY DEF TypeOK, Variable
        <3>2. allocs' \in Seq(Addresses) /\ Len(allocs') = Len(allocs) + 1
            BY <2>2, <3>1, AppendProperties
        <3>3. env' \in Seq(Variable)
            BY <2>2, <3>1, ConcatProperties
        <3> QED
            BY <3>2, <3>3 DEF Variable
    <2>3. next' = next /\ next \in 1..(Len(allocs) + 1) /\ Len(allocs) \in Nat
        BY Lengths DEF allocate_buffer
    <2>4. Len(allocs) + 1 <= Len(Buffers) /\ Len(Buffers) \in Nat
        <3>1. Len(allocs) < Len(Buffers)
            BY DEF allocate_buffer
        <3> QED
            BY <3>1, Lengths
    <2>5. CASE UNCHANGED <<allocs, env>>
        BY <1>1, <2>1, <2>3, <2>4, <2>5
    <2>6. CASE ~UNCHANGED <<allocs, env>>
        <3>1. /\ allocs' \in Seq(Addresses) /\ Len(allocs') = Len(allocs) + 1
              /\ env' \in Seq([name : Names, value : Addresses \cup Nat])
            BY <2>2, <2>6, BufferAllocated
        <3> QED
            BY <1>1, <2>3, <2>4, <3>1
    <2> QED
        BY <2>5, <2>6
<1>3. gpuMemory' \in [Addresses -> Data \cup {Unused, Fresh}]
    BY DEF allocate_buffer, TypeOK
<1>4. pc' \in {"command", "allocate"} /\ reported' \subseteq reported \cup {"memory"}
    BY DEF allocate_buffer, Report
<1>5. UNCHANGED <<lifeVars, initExecuted, agent, gpuRegion, hostRegion, handlerVars, handlerOf,
                  dumps>>
    BY DEF allocate_buffer
<1> QED
    BY <1>2, <1>3, <1>4, <1>5 DEF TypeOK, lifeVars, handlerVars

LEMMA AllocatedTypes == TypeOK /\ allocation_done => TypeOK'
BY DEF allocation_done, Report, TypeOK, lifeVars, managerVars, handlerVars, outside, Buffers

LEMMA CommandTypes == TypeOK /\ run_init_command => TypeOK'
BY DEF run_init_command, Report, TypeOK, lifeVars, managerVars, handlerVars, outside, Buffers

LEMMA HandlerTypes == TypeOK /\ set_up => TypeOK'
BY DEF set_up, Report, TypeOK, lifeVars, managerVars, handlerVars, outside, Buffers

LEMMA KernelTypes == TypeOK /\ KernelWrites => TypeOK'
BY DEF KernelWrites, TypeOK, lifeVars, managerVars, handlerVars, outside, Buffers

LEMMA UnloadTypes == TypeOK /\ OnUnload => TypeOK'
BY DEF OnUnload, TypeOK, lifeVars, managerVars, handlerVars, outside, Buffers

LEMMA ResetTypes == TypeOK /\ reset_handler => TypeOK'
BY DEF reset_handler, Report, TypeOK, lifeVars, managerVars, handlerVars, outside, Buffers

\* What a turn of the loop of the destructor does with the file of a buffer.
LEMMA BufferDumped ==
    ASSUME TypeOK, dump_buffer
    PROVE  /\ next \in DOMAIN allocs /\ next \in DOMAIN Buffers
           /\ Buffers[next].path \in Paths \cup {Nothing}
           /\ \/ /\ Buffers[next].path = Nothing
                 /\ next' = next + 1
                 /\ UNCHANGED <<pc, dumps, reported>>
              \/ /\ pc' = "gone"
                 /\ Report("copy")
                 /\ UNCHANGED <<next, dumps>>
              \/ \E held \in {gpuMemory[allocs[next]], Partial} :
                 /\ Buffers[next].path \in Paths
                 /\ next' = next + 1
                 /\ dumps' = [dumps EXCEPT ![Buffers[next].path] = held]
                 /\ UNCHANGED <<pc, reported>>
              \/ /\ Buffers[next].path \in Paths
                 /\ next' = next + 1
                 /\ Report(Buffers[next].path)
                 /\ UNCHANGED <<pc, dumps>>
<1>1. next \in DOMAIN allocs /\ next \in DOMAIN Buffers
    BY Lengths DEF dump_buffer
<1>2. Buffers[next].path \in Paths \cup {Nothing}
    BY <1>1, Lengths DEF ReadBuffer
<1> QED
    BY <1>1, <1>2 DEF dump_buffer

LEMMA DumpTypes == TypeOK /\ BuffersHeld /\ dump_buffer => TypeOK'
<1> SUFFICES ASSUME TypeOK, BuffersHeld, dump_buffer PROVE TypeOK'
    OBVIOUS
<1>1. next' \in 1..(Len(allocs) + 1)
    BY BufferDumped, Lengths
<1>2. dumps' \in [Paths -> Data \cup {Nothing, Fresh, Partial}]
    <2>1. gpuMemory[allocs[next]] \in Data \cup {Nothing, Fresh, Partial}
        BY BufferDumped, Lengths DEF TypeOK, BuffersHeld
    <2>2. dumps \in [Paths -> Data \cup {Nothing, Fresh, Partial}]
        BY DEF TypeOK
    <2> QED
        BY <2>1, <2>2, BufferDumped
<1>3. /\ pc' \in {"dump", "gone"}
      /\ reported' \subseteq reported \cup {"copy"} \cup Paths
    BY BufferDumped DEF dump_buffer, Report
<1>4. UNCHANGED <<lifeVars, initExecuted, agent, managerVars, handlerVars, gpuMemory, handlerOf>>
    BY DEF dump_buffer
<1> QED
    BY <1>1, <1>2, <1>3, <1>4 DEF TypeOK, Buffers, lifeVars, managerVars, handlerVars

LEMMA DumpedTypes == TypeOK /\ dumps_done => TypeOK'
BY DEF dumps_done, TypeOK, lifeVars, managerVars, handlerVars, outside, Buffers

\* A step keeps the types, where nothing is allocated before the configuration
\* is read and a buffer is never in memory that is not allocated.
LEMMA NextTypes == TypeOK /\ NothingYet /\ BuffersHeld /\ [Next]_vars => TypeOK'
<1> SUFFICES ASSUME TypeOK, NothingYet, BuffersHeld, [Next]_vars PROVE TypeOK'
    OBVIOUS
<1>1. CASE UNCHANGED vars
    BY <1>1 DEF vars, lifeVars, managerVars, handlerVars, outside, TypeOK, Buffers
<1>2. CASE Next
    BY <1>2, LoadTypes, FirstTypes, RegionTypes, AllocateTypes, AllocatedTypes,
       CommandTypes, HandlerTypes, KernelTypes, UnloadTypes, ResetTypes, DumpTypes,
       DumpedTypes DEF Next
<1> QED
    BY <1>1, <1>2

----------------------------------------------------------------------------
(* What the steps leave alone                                              *)

\* The configuration and the log are settled by OnLoad, and what was reported
\* stays so.
LEMMA Settled ==
    ASSUME [Next]_vars, ~OnLoad
    PROVE  /\ UNCHANGED <<doc, config, logging, intercepted, printed>>
           /\ Buffers' = Buffers /\ Silent' = Silent
           /\ reported \subseteq reported'
<1>1. /\ UNCHANGED <<doc, config, logging, intercepted, printed>>
      /\ reported \subseteq reported'
    BY DEF Next, vars, lifeVars, execute_init_command_once, find_regions, allocate_buffer,
           allocation_done, run_init_command, set_up, KernelWrites, OnUnload,
           reset_handler, dump_buffer, dumps_done, Report
<1> QED
    BY <1>1 DEF Buffers, Silent

\* Only the allocation loop touches the buffers and the environment.
LEMMA BuffersKept ==
    ASSUME [Next]_vars, ~allocate_buffer
    PROVE  UNCHANGED <<allocs, env>>
BY DEF Next, vars, managerVars, OnLoad, execute_init_command_once, find_regions,
       allocation_done, run_init_command, set_up, KernelWrites, OnUnload,
       reset_handler, dump_buffer, dumps_done

\* Only the trap handler touches what the driver has.
LEMMA HandlerKept ==
    ASSUME [Next]_vars, ~set_up, ~reset_handler
    PROVE  UNCHANGED <<handlerLoaded, node, handlerOf>>
BY DEF Next, vars, handlerVars, outside, OnLoad, execute_init_command_once, find_regions,
       allocate_buffer, allocation_done, run_init_command, KernelWrites, OnUnload,
       dump_buffer, dumps_done

\* Only the destructor of the buffers writes the files.
LEMMA FilesKept ==
    ASSUME [Next]_vars, ~dump_buffer
    PROVE  UNCHANGED <<next, dumps>>
BY DEF Next, vars, outside, OnLoad, execute_init_command_once, find_regions,
       allocate_buffer, allocation_done, run_init_command, set_up, KernelWrites,
       OnUnload, reset_handler, dumps_done

\* The memory changes while the buffers are allocated and while kernels run.
LEMMA MemoryKept ==
    ASSUME [Next]_vars, ~allocate_buffer, ~KernelWrites
    PROVE  UNCHANGED gpuMemory
BY DEF Next, vars, outside, OnLoad, execute_init_command_once, find_regions,
       allocation_done, run_init_command, set_up, OnUnload, reset_handler, dump_buffer,
       dumps_done

\* The agent goes from one stage to a later one.
LEMMA Stages ==
    ASSUME [Next]_vars
    PROVE  \/ pc' = pc
           \/ OnLoad /\ pc = "loading" /\ pc' \in {"before", "refused"}
           \/ intercepted /\ pc \in {"before", "refused"} /\ pc' = "regions"
           \/ pc = "regions" /\ pc' \in {"allocate", "command"}
           \/ pc = "allocate" /\ pc' = "command"
           \/ run_init_command /\ pc = "command" /\ pc' \in {"trap handler", "failed"}
           \/ set_up /\ pc = "trap handler" /\ pc' = "ready"
           \/ OnUnload /\ pc \in {"before", "ready", "failed"} /\ pc' = "reset"
           \/ reset_handler /\ pc = "reset" /\ pc' = "dump"
           \/ (dump_buffer \/ dumps_done) /\ pc = "dump" /\ pc' = "gone"
<1>1. /\ OnLoad => pc = "loading" /\ pc' \in {"before", "refused"}
      /\ \A a \in HsaAgents : execute_init_command_once(a) =>
             intercepted /\ pc \in {"before", "refused"} /\ pc' = "regions"
    BY DEF OnLoad, execute_init_command_once
<1>2. /\ find_regions => pc = "regions" /\ pc' \in {"allocate", "command"}
      /\ allocate_buffer => pc = "allocate" /\ pc' \in {"allocate", "command"}
      /\ allocation_done => pc = "allocate" /\ pc' = "command"
    BY DEF find_regions, allocate_buffer, allocation_done
<1>3. /\ run_init_command => pc = "command" /\ pc' \in {"trap handler", "failed"}
      /\ set_up => pc = "trap handler" /\ pc' = "ready"
      /\ KernelWrites => pc' = pc
    BY DEF run_init_command, set_up, KernelWrites
<1>4. /\ OnUnload => pc \in {"before", "ready", "failed"} /\ pc' = "reset"
      /\ reset_handler => pc = "reset" /\ pc' = "dump"
      /\ dump_buffer => pc = "dump" /\ pc' \in {"dump", "gone"}
      /\ dumps_done => pc = "dump" /\ pc' = "gone"
    BY DEF OnUnload, reset_handler, dump_buffer, dumps_done
<1> QED
    BY <1>1, <1>2, <1>3, <1>4 DEF Next, vars

----------------------------------------------------------------------------
(* The other parts of the invariant                                        *)

LEMMA InitOthers == Init => IInv
<1> SUFFICES ASSUME Init PROVE IInv
    OBVIOUS
<1>1. allocs = << >> /\ env = << >> /\ DOMAIN allocs = {} /\ DOMAIN env = {}
    BY DEF Init
<1>2. LostOnlyIfSilent
    BY DEF Init, LostOnlyIfSilent, Silent, NoConfig
<1>3. NothingYet /\ AgentWhileUsed /\ CommandSawEnv
    BY <1>1 DEF Init, NothingYet, AgentWhileUsed, CommandSawEnv, NotRun
<1>4. BuffersHeld /\ EnvOfBuffers
    BY <1>1 DEF BuffersHeld, EnvOfBuffers
<1>5. HandlerOfNode
    BY DEF Init, HandlerOfNode
<1> QED
    BY <1>2, <1>3, <1>4, <1>5, InitTypes DEF IInv

LEMMA KeepsNothingYet == NothingYet /\ [Next]_vars => NothingYet'
<1> SUFFICES ASSUME NothingYet, [Next]_vars PROVE NothingYet'
    OBVIOUS
<1>1. CASE OnLoad
    BY <1>1 DEF OnLoad, NothingYet, managerVars
<1>2. CASE ~OnLoad
    <2>1. pc' \in {"loading", "refused"} => pc' = pc
        BY <1>2, Stages
    <2>2. pc = "loading" => ~allocate_buffer
        BY DEF allocate_buffer
    <2> QED
        BY <1>2, <2>1, <2>2, Settled, BuffersKept DEF NothingYet
<1> QED
    BY <1>1, <1>2

LEMMA KeepsBuffersHeld == IInv /\ [Next]_vars => BuffersHeld'
<1> SUFFICES ASSUME IInv, [Next]_vars PROVE BuffersHeld'
    OBVIOUS
<1>0. TypeOK /\ BuffersHeld
    BY DEF IInv
<1>1. CASE allocate_buffer
    <2>1. \A a \in Addresses : gpuMemory[a] # Unused => gpuMemory'[a] # Unused
        BY <1>0, <1>1 DEF allocate_buffer, TypeOK, Fresh, Unused
    <2>2. CASE UNCHANGED <<allocs, env>>
        BY <1>0, <2>1, <2>2, Lengths DEF BuffersHeld
    <2>3. CASE ~UNCHANGED <<allocs, env>>
        <3>1. PICK a \in Addresses :
                  /\ allocs' = Append(allocs, a)
                  /\ gpuMemory' = [gpuMemory EXCEPT ![a] = Fresh]
            BY <1>1, <2>3 DEF allocate_buffer
        <3>0. gpuMemory'[a] # Unused
            BY <1>0, <3>1 DEF TypeOK, Fresh, Unused
        <3>2. /\ DOMAIN allocs' = 1..(Len(allocs) + 1)
              /\ allocs'[Len(allocs) + 1] = a
              /\ \A i \in 1..Len(allocs) : allocs'[i] = allocs[i]
            BY <1>0, <3>1, Lengths, AppendProperties
        <3> QED
            BY <1>0, <2>1, <3>0, <3>2, Lengths DEF BuffersHeld
    <2> QED
        BY <2>2, <2>3
<1>2. CASE KernelWrites
    <2>1. \A a \in Addresses : gpuMemory[a] # Unused => gpuMemory'[a] # Unused
        BY <1>0, <1>2, InitAssumption DEF KernelWrites, TypeOK
    <2>2. allocs' = allocs
        BY <1>2 DEF KernelWrites, managerVars
    <2> QED
        BY <1>0, <2>1, <2>2, Lengths DEF BuffersHeld
<1>3. CASE ~allocate_buffer /\ ~KernelWrites
    BY <1>0, <1>3, BuffersKept, MemoryKept DEF BuffersHeld
<1> QED
    BY <1>1, <1>2, <1>3

LEMMA KeepsLostOnlyIfSilent == LostOnlyIfSilent /\ [Next]_vars => LostOnlyIfSilent'
<1> SUFFICES ASSUME LostOnlyIfSilent, [Next]_vars PROVE LostOnlyIfSilent'
    OBVIOUS
<1>1. CASE OnLoad
    BY <1>1 DEF OnLoad, open_log, LostOnlyIfSilent, Silent
<1>2. CASE ~OnLoad
    BY <1>2, Settled DEF LostOnlyIfSilent
<1> QED
    BY <1>1, <1>2

LEMMA KeepsAgentWhileUsed == NothingYet /\ AgentWhileUsed /\ [Next]_vars => AgentWhileUsed'
<1> SUFFICES ASSUME NothingYet, AgentWhileUsed, [Next]_vars PROVE AgentWhileUsed'
    OBVIOUS
<1>1. CASE OnLoad
    BY <1>1 DEF OnLoad, AgentWhileUsed
<1>2. CASE OnUnload
    BY <1>2 DEF OnUnload, AgentWhileUsed
<1>3. CASE ~OnLoad /\ ~OnUnload
    <2>1. debugAgent' = debugAgent
        BY <1>3 DEF Next, vars, lifeVars, execute_init_command_once, find_regions,
               allocate_buffer, allocation_done, run_init_command, set_up, KernelWrites,
               reset_handler, dump_buffer, dumps_done
    <2> QED
        BY <1>3, <2>1, Stages DEF NothingYet, AgentWhileUsed
<1> QED
    BY <1>1, <1>2, <1>3

LEMMA KeepsEnvOfBuffers == IInv /\ [Next]_vars => EnvOfBuffers'
<1> SUFFICES ASSUME IInv, [Next]_vars PROVE EnvOfBuffers'
    OBVIOUS
<1>0. TypeOK /\ NothingYet /\ EnvOfBuffers
    BY DEF IInv
<1>1. CASE OnLoad
    <2>1. allocs' = << >> /\ env' = << >>
        BY <1>0, <1>1 DEF OnLoad, NothingYet, managerVars
    <2>2. DOMAIN allocs' = {} /\ DOMAIN env' = {}
        BY <2>1
    <2> QED
        BY <2>2 DEF EnvOfBuffers
<1>2. CASE ~OnLoad /\ UNCHANGED <<allocs, env>>
    <2>1. Buffers' = Buffers
        BY <1>2, Settled
    <2> QED
        BY <1>0, <1>2, <2>1 DEF EnvOfBuffers
<1>3. CASE ~UNCHANGED <<allocs, env>>
    <2>1. Buffers' = Buffers /\ allocate_buffer
        BY <1>3, Settled, BuffersKept DEF OnLoad, allocate_buffer
    <2>2. PICK address \in Addresses :
              /\ allocs' = Append(allocs, address)
              /\ env' = env \o Exports(Buffers[Len(allocs) + 1], address)
              /\ Exports(Buffers[Len(allocs) + 1], address) \in Seq(Variable)
        BY <1>0, <1>3, <2>1, BufferAllocated
    <2> DEFINE last == Len(allocs) + 1
    <2>3. /\ DOMAIN allocs' = DOMAIN allocs \cup {last}
          /\ allocs'[last] = address
          /\ \A i \in DOMAIN allocs : allocs'[i] = allocs[i]
        <3>1. /\ DOMAIN allocs' = 1..(Len(allocs) + 1)
              /\ allocs'[Len(allocs) + 1] = address
              /\ \A i \in 1..Len(allocs) : allocs'[i] = allocs[i]
            BY <1>0, <2>2, Lengths, AppendProperties
        <3> QED
            BY <1>0, <3>1, Lengths
    <2> HIDE DEF last
    <2>4. ToSet(env') = ToSet(env) \cup ToSet(Exports(Buffers[last], address))
        BY <1>0, <2>2, Lengths, ConcatHolds DEF last
    <2>5. \A k \in DOMAIN env' : \E i \in DOMAIN allocs' :
              env'[k] \in ToSet(Exports(Buffers[i], allocs'[i]))
        <3> SUFFICES ASSUME NEW k \in DOMAIN env'
                     PROVE  \E i \in DOMAIN allocs' :
                                env'[k] \in ToSet(Exports(Buffers[i], allocs'[i]))
            OBVIOUS
        <3>1. env'[k] \in ToSet(env')
            BY DEF ToSet
        <3>2. CASE env'[k] \in ToSet(env)
            <4>1. PICK j \in DOMAIN env : env'[k] = env[j]
                BY <3>2 DEF ToSet
            <4>2. PICK i \in DOMAIN allocs : env[j] \in ToSet(Exports(Buffers[i], allocs[i]))
                BY <1>0 DEF EnvOfBuffers
            <4> QED
                BY <2>3, <4>1, <4>2
        <3>3. CASE env'[k] \in ToSet(Exports(Buffers[last], address))
            BY <2>3, <3>3
        <3> QED
            BY <2>4, <3>1, <3>2, <3>3
    <2>6. \A i \in DOMAIN allocs' :
              ToSet(Exports(Buffers[i], allocs'[i])) \subseteq ToSet(env')
        <3>1. \A i \in DOMAIN allocs :
                  ToSet(Exports(Buffers[i], allocs'[i])) \subseteq ToSet(env)
            BY <1>0, <2>3 DEF EnvOfBuffers
        <3> QED
            BY <2>3, <2>4, <3>1
    <2> QED
        BY <2>1, <2>5, <2>6 DEF EnvOfBuffers
<1> QED
    BY <1>1, <1>2, <1>3

LEMMA KeepsCommandSawEnv == CommandSawEnv /\ [Next]_vars => CommandSawEnv'
<1> SUFFICES ASSUME CommandSawEnv, [Next]_vars PROVE CommandSawEnv'
    OBVIOUS
<1>1. CASE run_init_command
    <2>1. env' = env
        BY <1>1 DEF run_init_command, managerVars
    <2>2. command' = command \/ command'.env = env
        <3>1. \/ command' = command
              \/ \E c, f : command' = [ran |-> TRUE, env |-> env, code |-> c, failed |-> f]
            BY <1>1, Zenon DEF run_init_command
        <3> QED
            BY <3>1
    <2>3. pc = "command" /\ pc' \in {"trap handler", "failed"}
        BY <1>1 DEF run_init_command
    <2> QED
        BY <2>1, <2>2, <2>3 DEF CommandSawEnv
<1>2. CASE ~run_init_command
    <2>1. command' = command
        BY <1>2 DEF Next, vars, OnLoad, execute_init_command_once, find_regions,
               allocate_buffer, allocation_done, set_up, KernelWrites, OnUnload,
               reset_handler, dump_buffer, dumps_done
    <2>2. command.ran => env' = env
        BY BuffersKept DEF CommandSawEnv, allocate_buffer
    <2> QED
        BY <1>2, <2>1, <2>2, Stages DEF CommandSawEnv
<1> QED
    BY <1>1, <1>2

LEMMA KeepsHandlerOfNode == IInv /\ [Next]_vars => HandlerOfNode'
<1> SUFFICES ASSUME IInv, [Next]_vars PROVE HandlerOfNode'
    OBVIOUS
<1>0. TypeOK /\ LostOnlyIfSilent /\ HandlerOfNode
    BY DEF IInv
<1>1. CASE set_up
    <2>1. pc = "trap handler" /\ pc' = "ready" /\ ~handlerLoaded
        BY <1>0, <1>1 DEF set_up, HandlerOfNode
    <2>2. \A a \in HsaAgents : handlerOf'[a] => handlerLoaded' /\ a = node'
        BY <1>0, <1>1, <2>1 DEF set_up, HandlerOfNode, TypeOK, handlerVars
    <2> QED
        BY <2>1, <2>2 DEF HandlerOfNode
<1>2. CASE reset_handler
    <2>1. pc = "reset" /\ pc' = "dump" /\ UNCHANGED <<handlerLoaded, node>>
        BY <1>2 DEF reset_handler, handlerVars
    <2>2. \A a \in HsaAgents : handlerOf'[a] => handlerOf[a]
        BY <1>0, <1>2 DEF reset_handler, TypeOK
    <2>3. \/ \A a \in HsaAgents : ~handlerOf'[a]
          \/ "reset" \in reported' \/ Silent'
        <3>1. CASE ~handlerLoaded
            BY <1>0, <2>2, <3>1 DEF HandlerOfNode
        <3>2. CASE handlerOf' = [handlerOf EXCEPT ![node] = FALSE]
            BY <1>0, <3>2 DEF HandlerOfNode, TypeOK
        <3>3. CASE Report("reset")
            <4>1. Silent' = Silent
                BY <1>2 DEF reset_handler, lifeVars, Silent
            <4> QED
                BY <1>0, <3>3, <4>1 DEF Report, LostOnlyIfSilent
        <3> QED
            BY <1>2, <3>1, <3>2, <3>3 DEF reset_handler
    <2> QED
        BY <1>0, <2>1, <2>2, <2>3 DEF HandlerOfNode
<1>3. CASE ~set_up /\ ~reset_handler
    <2>1. UNCHANGED <<handlerLoaded, node, handlerOf>>
        BY <1>3, HandlerKept
    <2>2. pc \in {"dump", "gone"} => Silent' = Silent /\ reported \subseteq reported'
        BY Settled DEF OnLoad
    <2>3. /\ pc' \in {"dump", "gone"} => pc \in {"dump", "gone"}
          /\ pc' \in {"loading", "refused", "before", "regions", "allocate", "command",
                      "trap handler"}
             => pc \in {"loading", "refused", "before", "regions", "allocate", "command",
                        "trap handler"}
        BY <1>3, Stages
    <2> QED
        BY <1>0, <2>1, <2>2, <2>3 DEF HandlerOfNode
<1> QED
    BY <1>1, <1>2, <1>3

LEMMA NextKeepsIInv == IInv /\ [Next]_vars => IInv'
BY NextTypes, KeepsNothingYet, KeepsBuffersHeld, KeepsLostOnlyIfSilent,
   KeepsAgentWhileUsed, KeepsEnvOfBuffers, KeepsCommandSawEnv, KeepsHandlerOfNode DEF IInv

LEMMA IInvCorrect == Spec => []IInv
BY InitOthers, NextKeepsIInv, PTL DEF Spec

----------------------------------------------------------------------------
(* The theorems                                                            *)

\* The state of the library has the types its declarations give it, and no more
\* buffers are allocated than are configured.
THEOREM LifeTypeCorrect == Spec => []TypeOK
<1>1. IInv => TypeOK
    BY DEF IInv
<1> QED
    BY <1>1, IInvCorrect, PTL

\* No intercepted function runs without an agent (init.cpp:90).
THEOREM HandlersAlwaysHaveAgent == Spec => []HandlersHaveAgent
<1>1. IInv => HandlersHaveAgent
    BY DEF IInv, AgentWhileUsed, HandlersHaveAgent
<1> QED
    BY <1>1, IInvCorrect, PTL

\* The init command sees the buffers that the library holds, and no other memory
\* (buffer_manager.cpp:26, external_command.cpp).
THEOREM CommandSeesBuffers == Spec => []EnvDescribesBuffers
<1>1. IInv => EnvDescribesBuffers
    BY DEF IInv, EnvOfBuffers, CommandSawEnv, EnvDescribesBuffers
<1> QED
    BY <1>1, IInvCorrect, PTL

\* The driver is not left with the trap handler of an unloaded library, unless
\* it refused the reset (trap_handler.cpp:11).
THEOREM HandlerNotLeft == Spec => []HandlerReset
<1>1. IInv => HandlerReset
    BY DEF IInv, HandlerOfNode, HandlerReset
<1> QED
    BY <1>1, IInvCorrect, PTL

----------------------------------------------------------------------------
(* The files of the buffers                                                *)

LEMMA InitDumpedSoFar == Init => DumpedSoFar
<1> SUFFICES ASSUME Init PROVE DumpedSoFar
    OBVIOUS
<1>1. DOMAIN allocs = {}
    BY DEF Init
<1> QED
    BY <1>1 DEF Init, DumpedSoFar, FilesHoldBuffers

\* The buffers that are allocated are counted from 1.
Numbered == \A i \in DOMAIN allocs : i \in Nat /\ ~(i < 1)

LEMMA AllocsNumbered == TypeOK => Numbered
BY Lengths DEF Numbered

LEMMA KeepsDumpedSoFar ==
    ASSUME IInv, DumpedSoFar, [Next]_vars
    PROVE  DumpedSoFar'
<1>0. TypeOK /\ NothingYet /\ LostOnlyIfSilent
    BY DEF IInv
<1>1. ASSUME UNCHANGED <<allocs, gpuMemory>>, Buffers' = Buffers, Silent' = Silent,
             reported \subseteq reported', NEW path, dumps'[path] = dumps[path]
      PROVE  \A i \in DOMAIN allocs : InFile(path, i) => InFile(path, i)'
    BY <1>1 DEF InFile
<1>2. CASE dump_buffer
    <2>0. PICK path \in Paths \cup {Nothing} : path = Buffers[next].path
        BY <1>0, <1>2, BufferDumped
    <2>1. /\ pc = "dump" /\ pc' \in {"dump", "gone"}
          /\ UNCHANGED <<allocs, gpuMemory>>
          /\ Buffers' = Buffers /\ Silent' = Silent /\ reported \subseteq reported'
        BY <1>2, Settled, Stages, BuffersKept, MemoryKept
           DEF dump_buffer, OnLoad, allocate_buffer, KernelWrites
    <2>2. next \in DOMAIN allocs /\ next \in Nat /\ \A i \in DOMAIN allocs : i \in Nat
        BY <1>0, <1>2, BufferDumped, Lengths
    <2>3. PICK n \in DOMAIN allocs : n = next
        BY <2>2
    <2>4. ASSUME dumps' = dumps
          PROVE  FilesHoldBuffers' /\ \A i \in DOMAIN allocs : Dumped(i) => Dumped(i)'
        <3>1. \A f : \A i \in DOMAIN allocs : InFile(f, i) => InFile(f, i)'
            BY <1>1, <2>1, <2>4
        <3> QED
            BY <2>1, <2>4, <3>1 DEF DumpedSoFar, FilesHoldBuffers, Dumped
    <2>5. CASE /\ next' = next + 1 /\ pc' = pc /\ dumps' = dumps
               /\ path # Nothing => Report(path)
        <3>1. Dumped(n)'
            <4>1. path = Nothing \/ path \in reported' \/ Silent'
                BY <1>0, <2>1, <2>5 DEF Report, LostOnlyIfSilent
            <4> QED
                BY <2>0, <2>1, <2>3, <4>1 DEF Dumped
        <3>2. ASSUME NEW i \in DOMAIN allocs, i < next' PROVE Dumped(i)'
            <4>1. i = n \/ i < next
                BY <2>2, <2>3, <2>5, <3>2
            <4> QED
                BY <2>4, <2>5, <3>1, <4>1 DEF DumpedSoFar
        <3> QED
            BY <2>1, <2>4, <2>5, <3>2 DEF DumpedSoFar
    <2>6. CASE pc' = "gone" /\ Report("copy") /\ UNCHANGED <<next, dumps>>
        <3>1. "copy" \in reported' \/ Silent'
            BY <1>0, <2>1, <2>6 DEF Report, LostOnlyIfSilent
        <3> QED
            BY <2>1, <2>4, <2>6, <3>1 DEF DumpedSoFar
    <2>7. ASSUME NEW held \in {gpuMemory[allocs[next]], Partial}, path \in Paths,
                 next' = next + 1, dumps' = [dumps EXCEPT ![path] = held], pc' = pc
          PROVE  DumpedSoFar'
        <3>1. InFile(path, n)'
            <4>1. dumps'[path] \in {gpuMemory[allocs[n]], Partial}
                BY <1>0, <2>3, <2>7 DEF TypeOK
            <4> QED
                BY <2>0, <2>1, <2>3, <4>1 DEF InFile
        <3>2. ASSUME NEW f \in Paths, f # path
              PROVE  /\ dumps'[f] = dumps[f]
                     /\ \A i \in DOMAIN allocs : InFile(f, i) => InFile(f, i)'
            <4>1. dumps'[f] = dumps[f]
                BY <1>0, <2>7, <3>2 DEF TypeOK
            <4> QED
                BY <1>1, <2>1, <4>1
        <3>3. ASSUME NEW f \in Paths, dumps'[f] # Nothing
              PROVE  \E i \in DOMAIN allocs' : InFile(f, i)'
            <4>1. CASE f = path
                BY <2>1, <3>1, <4>1
            <4>2. CASE f # path
                BY <2>1, <3>2, <3>3, <4>2 DEF DumpedSoFar, FilesHoldBuffers
            <4> QED
                BY <4>1, <4>2
        <3>4. ASSUME NEW i \in DOMAIN allocs, i < next' PROVE Dumped(i)'
            <4>1. CASE Buffers[i].path = path
                BY <2>1, <2>2, <2>3, <2>7, <3>1, <3>4, <4>1 DEF Dumped
            <4>2. CASE Buffers[i].path # path
                <5>1. i < next
                    BY <2>0, <2>2, <2>7, <3>4, <4>2
                <5>2. Dumped(i) /\ Buffers[i].path \in Paths \cup {Nothing}
                    BY <1>0, <5>1, Lengths DEF DumpedSoFar, ReadBuffer
                <5> QED
                    BY <2>1, <3>2, <4>2, <5>2 DEF Dumped
            <4> QED
                BY <4>1, <4>2
        <3> QED
            BY <2>1, <2>7, <3>3, <3>4 DEF DumpedSoFar, FilesHoldBuffers
    <2> QED
        BY <1>0, <1>2, <2>0, <2>5, <2>6, <2>7, BufferDumped
<1>3. CASE ~dump_buffer /\ pc \notin {"dump", "gone"}
    <2>1. /\ next' = 1 /\ pc' # "gone"
          /\ \A path \in Paths : dumps'[path] = Nothing
        BY <1>3, FilesKept, Stages DEF DumpedSoFar
    <2>2. \A i \in DOMAIN allocs' : i \in Nat /\ ~(i < 1)
        <3>1. TypeOK'
            BY NextKeepsIInv DEF IInv
        <3>2. Numbered'
            BY <3>1, AllocsNumbered, PTL
        <3> QED
            BY <3>2 DEF Numbered
    <2> QED
        BY <2>1, <2>2 DEF DumpedSoFar, FilesHoldBuffers
<1>4. CASE ~dump_buffer /\ pc \in {"dump", "gone"}
    <2>1. /\ UNCHANGED <<next, dumps, allocs, gpuMemory>>
          /\ Buffers' = Buffers /\ Silent' = Silent /\ reported \subseteq reported'
        BY <1>4, FilesKept, BuffersKept, MemoryKept, Settled
           DEF allocate_buffer, KernelWrites, OnLoad
    <2>2. pc' \in {"dump", "gone"}
        BY <1>4, Stages
    <2>3. pc' = "gone" => next > Len(allocs) \/ pc = "gone"
        BY <1>4, Stages DEF dumps_done
    <2>4. \A path : \A i \in DOMAIN allocs : InFile(path, i) => InFile(path, i)'
        BY <1>1, <2>1
    <2>5. FilesHoldBuffers' /\ \A i \in DOMAIN allocs : Dumped(i) => Dumped(i)'
        BY <2>1, <2>4 DEF DumpedSoFar, FilesHoldBuffers, Dumped
    <2> QED
        BY <2>1, <2>2, <2>3, <2>5 DEF DumpedSoFar
<1> QED
    BY <1>2, <1>3, <1>4

\* When the library is gone, the file of every buffer holds what the kernels left
\* in it, or in a later buffer with that file, or the error was reported
\* (config.toml:21, buffer_manager.cpp:57); and no file holds anything else.
THEOREM BuffersDumpedOrReported == Spec => []DumpedOrReported
<1>1. IInv /\ DumpedSoFar /\ [Next]_vars => DumpedSoFar'
    BY KeepsDumpedSoFar
<1>2. IInv /\ DumpedSoFar => DumpedOrReported
    <2> SUFFICES ASSUME IInv, DumpedSoFar, pc = "gone", NEW i \in DOMAIN allocs
                 PROVE  Dumped(i) \/ "copy" \in reported
        BY DEF DumpedOrReported, DumpedSoFar, FilesHoldBuffers, Dumped
    <2>1. i < next \/ ~(next > Len(allocs))
        BY Lengths DEF IInv
    <2> QED
        BY <2>1 DEF DumpedSoFar, Dumped
<1> QED
    BY <1>1, <1>2, IInvCorrect, InitDumpedSoFar, NextKeepsIInv, PTL DEF Spec
====
