# A verification of libplugintercept in TLA+

`libplugintercept` is loaded into a process by the HSA runtime
(`HSA_TOOLS_LIB`), puts itself in front of six functions of the runtime's API
and, by a configuration file, records, dumps and replaces the GPU code objects
and kernels that the application loads.  This directory holds TLA+ modules that
model it, TLC configurations that check small instances, and proofs for TLAPS.

Paths below are relative to the repository (`src/src/...` are the sources of
the library).

## The system

| Component | State it keeps | Operations |
|---|---|---|
| Interception (`init.cpp`) | the agent, a copy of the original API table | `OnLoad`, `OnUnload`, the six `intercept_hsa_*` functions |
| Debug agent (`debug_agent.*`) | one mutex, `_init_command_executed`, the other components | `record_co_load`, `record_queue_creation`, `executable_load_co`, `symbol_get_info`, `execute_init_command_once` |
| Code object recorder (`code_object_recorder.*`, `code_object.*`) | two counters, the list of records, the dump directory, the log of loads | `record_code_object`, `dump_code_object`, `handle_crc_collision`, `find_code_object`, `record_symbols`, `record_get_info` |
| Substitutor (`code_object_substitutor.*`) | the rules, the symbols prepared for them | `substitute`, `prepare_symbol_substitutes`, `substitute_symbol` |
| Loader (`code_object_loader.*`) | none: it calls the original API | `load_from_memory`, `create_executable`, `enum_executable_symbols`, `find_symbol`, `get_kernel_handle` |
| Buffer manager (`buffer_manager.*`) | two memory regions, the buffers, the environment variables | `allocate_buffers`, the dump in the destructor |
| Init command (`external_command.*`) | two temporary files | `run_init_command`, `execute` |
| Trap handler (`trap_handler.*`) | whether it was set, and on which node | `set_up`, the reset in the destructor |
| Configuration (`config/*`) | what the TOML file says | the constructor |
| Logger, file system helper | an output stream with a mutex; none | formatting, writing; `mkdir` |
| Example dispatcher (`example/common/dispatch.*`) | a queue and its signal, a block for arguments, the kernels loaded | `init`, `load_kernel_from_memory`, `run_kernel`, `allocate_gpumem`, `free_gpumem`, `shutdown` |

**How they interact.**  An intercepted function calls the original function and
the agent, in an order of its own: loads and queue creations call the runtime
first and tell the agent afterwards, loads into executables are handed to the
agent with the runtime's function as a callback, and symbol queries ask the
agent first, and the runtime about the symbol that the agent returned.  The
agent takes its mutex in each of the four handlers; the first queue or
executable makes it allocate the buffers, run the init command with their
addresses, set the trap handler and prepare the substitutes of symbols, all
under the mutex.  The recorder ties the handles of the runtime to the loads
they came from; the rules of the substitutor are conditions on those loads.
Destroying the agent (`OnUnload`) resets the trap handler and then dumps the
buffers.  The examples are applications that the library is tried on: they share
a dispatcher and know nothing of the library.

**What is hard.**  The unlocked halves of the calls interleave with the handlers
of other threads.  The agent calls the runtime, and waits for a shell command,
with its mutex held.  The runtime uses handles and the application uses memory
again, and the library is not told: nothing that destroys is intercepted, and
not everything that creates.  Each outside call may fail, most of them half-way
through a loop or a handler.  The recorder compares contents by way of files
that outlive the process.

**What makes each component correct.**

- *Recorder*: load ids are unique and ordered; what was loaded is on disk or was
  reported; what the log says is true, and stays true; dumps are kept.
- *Agent*: the mutex is held exactly inside the locked handlers; the
  initialization happens once, and before anything is replaced; a handle is
  taken for the load it came from; every call returns.
- *Substitutor*: code objects and symbols are replaced exactly as the first rule
  that holds says.
- *Loader*: the runtime is only made to read memory that still holds what was
  recorded.
- *Buffer manager and init command*: the command's environment describes the
  buffers the library holds; their contents are dumped or an error is reported;
  the command's failure is what the configuration calls a failure.
- *Trap handler*: the driver is not left with a handler of a library that is
  gone.
- *Configuration and `OnLoad`*: no function is in the table without an agent; what is
  refused has no effect.
- *Example dispatcher*: a launch is answered for its own kernel and ends in time;
  nothing that a running kernel uses is freed; every call finds the handles it is
  given.

The hazards behind these, each at its line, are listed in `PROJECT.json`.

## Modules

| Module | What it is |
|---|---|
| `CodeObjectRecorder` | the recorder, one operator per member function, and the recorder called in any order |
| `CodeObjectRecorder_proof` | theorems about it, and the lemmas about its operations |
| `DebugAgent` | the agent with several threads, the recorder (an `INSTANCE`), the substitutor and the loader |
| `DebugAgent_proof` | theorems about its mutex, its initialization and its types |
| `DebugAgentLoads_proof` | theorems about handles, records, rules and the memory that is read |
| `DebugAgentQueries_proof` | the theorem about symbol queries for any application |
| `DebugAgentAtomic_proof` | symbol queries and the refinement, for applications that load each code object once |
| `AtomicAgent` | what the agent promises: every call takes effect in one step.  `DebugAgent` implements it |
| `Configuration` | the configuration: what its constructor makes of a document, and what it refuses |
| `AgentInit` | the life of the library: `OnLoad` with a document, the buffers, the init command and the trap handler, `OnUnload` |
| `AgentInit_proof` | theorems about it and the configuration it reads |
| `Dispatcher` | the example dispatcher and the GPU |
| `Dispatcher_proof` | theorems about it |
| `SearchLemmas` | lemmas about `SelectInSeq` and `Cons`, which searches in the list of records come down to |
| `MCCodeObjectRecorder`, `MCDebugAgent`, `MCAgentInit`, `MCDispatcher` | small instances for TLC |

Variables and operators have the names of the members and functions they stand
for; `PROJECT.json` gives the lines.  Operators whose comment speaks of
a mutant are a plausible mistake in the operator that follows them, by which the
properties are tested; no specification uses them.

### CodeObjectRecorder

The class is not thread-safe and is called under the agent's mutex, so each
operation is atomic.  A code object is a member of `Contents`, with a CRC and a
size; different contents may share both.  `codeObjects` is the list with the
newest record first, `files` the dump directory, keyed by CRC as the file names
are, and `verdicts` what the log says of each load.

- `record_code_object` counts the load, puts its record in front, and dumps it or
  compares it; failed loads are counted and logged, and leave no record.
- `handle_crc_collision` compares with *the file of the CRC*, which it takes to have
  the size of the record.  If the file is shorter (a leftover of an earlier run, a
  short write, the dump of a load of another size), `memcmp` reads past what was
  copied, and the answer is either (`MayCompareEqual`).  If it is longer, it is
  copied whole, past the end of the buffer.  That is undefined, and the model
  goes on only where nothing was hit that the library relies on, with either
  answer: a process that dies there makes no further steps, and damage to the
  library's own state is not modelled.  `ComparedWithinBuffer` says when it happens.
  A code object can also be lost as redundant; `OtherSize` says that its file has
  another size, and `SavedOrReported` that before it some load of its CRC was reported.
- The file system may fail to open a file for writing (`"open"`) or to open or
  read it (`"read"`), or write only a part of it (`"short"`).  The code does not
  notice the last: the dump is logged as written, and the next load of the CRC is
  compared with a part.  `CutShort` says that this has happened to a CRC, and the
  properties say what holds all the same.

### DebugAgent

Each thread of the application makes calls; `pc` and `call` are its place in the
handler and its arguments and locals.  A call begins with an action of the
application, for the two functions that create handles together with the
runtime's own function, which runs before the mutex is taken.  The handlers that
make no call out of the library under the mutex are single actions
(`record_co_load`, `symbol_get_info`).  `executable_load_co` is one action up to
each call it makes: `executable_load_co` and `run_init_command` and
`prepare_symbol_substitutes` (the initialization), `find_code_object` (with
`substitute`), `load_from_memory`, `create_executable`, `loader`,
`enum_executable_symbols`.  Each of them may fail (`RtFaults`).

The runtime and the application are external: `hsacos` says what each reader and
code object handle stands for, and by which load, `execs` what was loaded into
each executable (`was`, what the application asked for, `is`, what the runtime was
given, and `by`, the rule between them), `memory` what the application's buffers hold.  Handles and
buffers are used again as soon as nobody uses them; `discarded`, a history variable that
no action reads, holds the executables that were destroyed or given up at least once.
`AppMay` switches on habits
of applications, which are in the model and not assumed in every run: destroying
executables, loading one code object several times, loading several into one
executable, creating readers from files.

**The refinement.**  `AtomicAgent` is the application's view: which load each handle
came from, what its executables hold, which rule answers a query.  It has no mutex,
no records and no program counters; `LoadIntoExecutable` puts into an executable what
`Replacements` allows, and `Query` is answered by the first rule that holds of a load
in that executable.  `DebugAgent` maps to it by the `INSTANCE` `Atomic`: a load takes
effect when it is recorded (`record_co_load`), the initialization when it ends
(`InitEnded`: after `prepare_symbol_substitutes`, or with a failed command), a load
into an executable when the runtime has made it (`loader`), a query when its answer is
chosen (`symbol_get_info`); everything else stutters.  `ImplementsAtomicAgent` says
that this is a refinement for applications that load each code object once, into an
executable of its own; `MCAgentLoadAgain` and `MCAgentStaleHandle` show what the
others see.

### AgentInit

One thread, because `DebugAgent` shows that there is one: the loops of the buffer
manager are one action per turn, and every outside call may fail (`Faults`).
`doc`, the configuration file, is chosen in `Init` from `Docs`; `OnLoad` reads it with
the operators of `Configuration` and either makes the agent and its log and then puts
the functions into the table, or is refused and leaves it.  `Report` writes to the
agent log, where there is one that could be opened; `printed` is what was said on the
standard error instead.  Kernels write to the buffers between the initialization and
`OnUnload`.  `command` records the environment, the exit code and whether the library
found the command to have failed; `Endings` are the ways in which it may end, with the
wait status of each: an exit code, a signal, or no shell.

### Configuration

Operators without state.  A document is a record of sections and a section a
function on its keys, so that reading one is an operator on functions, and a value
may be absent, of another type, empty, or too large for its C++ type.  `DocsAssumption`
of `AgentInit` says that documents have this form, and nothing about the values.  Per section
there is one operator that says when the code throws (`get_..._throws`, on top of
`get_required_throws` and `NoPredicates`); `Config` is what is read otherwise.  The
TOML parser is external.

### Dispatcher

A class derived from `Dispatch` calls its operations in any order after `init`;
`pc` is the place of its one thread.  `run_kernel` is an action up to the door bell,
the end of the wait (`WaitSatisfied`, `WaitTimedOut`), and after a timeout one action
per call of `DestroySignalsAndQueue` and `CreateSignalsAndQueue`, because the kernel
may still run or end between any two of them.  Signals and blocks for arguments are
numbered, so that an old one is told from its successor.  The GPU is external: a
running kernel ends at any time or never (`Complete`) while its queue is active, and
is aborted when the queue is made inactive.  Handles that `load_kernel_from_memory`
never got are chosen freely (`Garbage`), and `uninitialized` remembers the loads that
used one.

## Runs

| Run | Module | Result |
|---|---|---|
| `MCRecorderDump` | `MCCodeObjectRecorder` | passes |
| `MCRecorderVerdict` | `MCCodeObjectRecorder` | violates `VerdictTruthful` |
| `MCRecorderOverrun` | `MCCodeObjectRecorder` | violates `ComparedWithinBuffer` |
| `MCAgentCalls` | `MCDebugAgent` | passes, with the refinement |
| `MCAgentLocking` | `MCDebugAgent` | passes, with liveness |
| `MCAgentFreed` | `MCDebugAgent` | violates `ReadsLiveMemory` |
| `MCAgentLoadAgain` | `MCDebugAgent` | violates `AnsweredByRule` |
| `MCAgentStaleHandle` | `MCDebugAgent` | violates `ReplacedByRule` |
| `MCAgentInit` | `MCAgentInit` | passes |
| `MCInitEnv` | `MCAgentInit` | violates `EnvComplete` |
| `MCInitReturnCode` | `MCAgentInit` | violates `AbortedByReturnCode` |
| `MCDispatcher` | `MCDispatcher` | passes, with liveness |

**`MCRecorderDump`** checks `TypeOK`, `LoadIdsOrdered`, `SavedOrReported`,
`VerdictsHoldOnDisk` and `DumpKept` with four loads out of five contents (`a` and
`b` share CRC and size; `d`, `e` and `f` share a CRC, and `d` has another size than
the others), opens and reads that fail, writes that are cut short, and `a` or `e`
already in the directory.  A hazard here takes three loads of one CRC: one that is
dumped or not, one that is compared with it, and one that is compared with the second
record and the first one's file.  That takes three contents when sizes differ: `d` is
dumped, `e` reported, and `f`, of the size of `e`, called redundant after a look at the
file of `d`.  The fourth load brings the other CRC in between.  One pointer, one handle and one symbol are
enough, because the recorder never looks at them while it dumps.

**`MCAgentCalls`** checks `TypeOK`, `HandleFindsItsLoad`, `ReplacedByRule`,
`AnsweredByRule`, `ReadersReadLiveMemory` and the refinement
`ImplementsAtomicAgent`.  Two threads make five calls with
one reader, one code object handle and two buffers, so that handles and memory
are used again; five calls are enough for a load that is destroyed, another
under its handle, an executable of each and a query.  There are two
rules of each kind and contents for which the first, the second, both or none
holds; replacement files, the listing of symbols and the init command may fail (loads
fail in `MCAgentLocking`, where rules are told apart by the load id).  Applications that use executables and readers in the ways of `AppMay` are
left to the runs that show what then goes wrong.

**`MCAgentLocking`** checks `MutexHeldInHandlers`, `InitOnceBeforeLoads`,
`AnsweredForItsExecutable` and the liveness property `EveryCallReturns`, with every
outside call failing or not and every habit of `AppMay`, two threads and five calls
on one reader and two executables.  `AnsweredForItsExecutable` is about the step that
chooses an answer (`symbol_get_info`): if it is a replacement, a load that is in the
query's executable and was not replaced asks for it, whatever the records say.  It
claims nothing in two cases that the library is not told of: an executable of that
handle was destroyed or given up before (`discarded`; its symbols are still in the
records), or something was loaded into it that was not recorded.  It does not say that
the load is the one the kernel came with, which is not so when several loads share an
executable.  The rules of this instance differ by the load id, and so the answer tells
which load it is about; the contents of the loads do not matter to these properties, and
there is one.  Two threads reach the initialization together, and later calls come
after it failed or not; five calls are two loads under one handle, into one executable
or two, and a query, which is what attribution to the wrong load takes.

**`MCAgentInit`** checks `TypeOK`, `EnvDescribesBuffers`, `DumpedOrReported`,
`HandlerReset` and `HandlersHaveAgent` with a GPU and a CPU, every fault, and these
documents: none, one that is not TOML, an empty one, one with three
buffers (with all options, none, and some), a command with a required code and a log
file, the same with one file for two buffers, and a small one with every key spoilt in turn (absent, of another type, empty,
too large).  Three buffers are one before, at and after the turn of a loop that fails.

**`MCDispatcher`** checks `TypeOK`, `ReturnsOwnResult`, `RunningKernelsWhole`,
`HandlesThere`, `FailedLoadsLeaveNothing` and the liveness property `BoundedLaunchReturns` with two
loads, two launches with and without a timeout, arguments that fit the block and
that do not, one buffer, and every call failing.  What can go wrong is between a
launch and the next (a signal not reset, a kernel given up) or a load and the one
before it, so two of each are enough.  A load that fails before it has its two handles
looks at handles that were never set, and may lose or leave something:
`FailedLoadsLeaveNothing` bounds it by one executable and one code object for each such
load, and `RunningKernelsWhole` makes no claim about executables after one.

`CHECK_DEADLOCK FALSE` is in every configuration: loads and calls are bounded
(`MaxLoads`, `MaxGetInfos`, `MaxCalls`, `MaxLaunches`), nothing happens after
`OnUnload` or `shutdown` or when the host has given up, and so every behaviour ends.
That no thread is stuck inside the library is `EveryCallReturns`.  The bounds cut off
actions of the application only, never a handler.

**Symmetry** is used in `MCAgentCalls` alone, which checks no liveness; threads,
executables and buffers are not told apart by any definition, nor by those of
`AtomicAgent`.

**Fairness.**  `FairSpec` assumes `WF_vars(Handler(t))` for every thread: a thread
inside a call is scheduled, and the runtime's functions and the init command
return.  It does not assume that the application makes calls.  No fairness of the
mutex is assumed, which `std::mutex` does not have; because the number of calls is
bounded the mutex cannot be taken from a waiting thread for ever, so the property
shows that the handlers do not block one another, and not that a waiting thread
overtakes an endless stream of calls of others.  An init command that does not end
keeps every intercepted call waiting; the assumption excludes it.  `Dispatcher`
assumes that the host runs inside `run_kernel` (`InsideRunKernel`: the wait is active
and returns, and so do the other calls) and that its clock moves on (`Tick`); not that
a kernel ends, and so `BoundedLaunchReturns` holds for kernels that hang.

### Where the code departs from what is said of it

Each of the following is a run that TLC finds violated.

- **`VerdictTruthful`** (`code_object_recorder.cpp:71`): a collision is judged by
  the first dump of the CRC and reported about the newest record.  Loads of `a`,
  `b`, `a` with one CRC and size: the third is logged as a "redundant load, same
  contents as" the second.  What does hold, and is proved, is
  `VerdictsHoldOnDisk`: the log is right about the file.
- **`ComparedWithinBuffer`** (`code_object_recorder.cpp:79`): the file of the CRC is
  copied into a buffer of the size of the record it is taken for.  It holds the first
  contents dumped under the CRC; if those were longer, as `d` is in loads of `d`, `e`
  and `f`, they are copied past the end of the buffer, and what happens then is
  undefined.  `e` was reported for its size, and the third load is compared with the
  record of `e` and the file of `d`.
- **`ReadsLiveMemory`** (`debug_agent.cpp:49`): a replaced code object is loaded a
  second time from the recorded pointer, for its symbols.  For a deserialized code
  object the application may have freed that memory, as the comment at
  `code_object_recorder.cpp:61` says.  For readers, whose memory must outlive
  them, it holds: `ReadersReadLiveMemory`.
- **`AnsweredByRule`** (`code_object_recorder.cpp:89`): loading a code object into a
  second executable replaces the symbols of its record; queries about the first
  executable are no longer answered by the rules.
- **`ReplacedByRule`** (`code_object_recorder.cpp:105`): records are found by handle
  and outlive the handle, and readers made from files are not recorded: one that
  gets the handle of a destroyed reader is replaced by the rule for the other load.
- **`EnvComplete`** (`debug_agent.cpp:13`): the initialization is spent on the first
  agent that is named.  If it has no GPU memory the command runs, once and for all,
  without the variables.
- **`AbortedByReturnCode`** (`external_command.cpp:15`): the required return code
  is compared with the wait status that `system()` returns, 256 for the exit code 1.

Two losses the log keeps silent about are in `SavedOrReported` itself, as its exceptions:
a dump that was cut short, and a load that is called redundant after a comparison with a
file of another size (`code_object_recorder.cpp:80`; three loads of one CRC, the second and
third of another size than the first).

Other differences are plain from one or two lines of the code and have no run:

- `code_object_recorder.cpp:44`: a write that is cut short is logged as written.
- `config/config.cpp:22`: a predicate of another type reads as no predicate, and the rule
  is refused only if none is left; otherwise it is in force without that one.
- `init.cpp:102`: the configuration is read before the agent's logger is made from it,
  and what is wrong with it is printed on the standard error; `config.toml:2` says that
  the agent log is where configuration errors are reported.
- `config.toml:12-13` says that the buffers are allocated when an executable is created;
  the code also does it when a queue is, whichever comes first, and `DebugAgent` has both.

## Proofs

All proofs are for every value of the constants that satisfies the named
assumptions (`RecorderAssumption`, `AgentAssumption`, `ConfigurationAssumption`,
`InitAssumption`, `DocsAssumption`, `DispatcherAssumption`), which TLC evaluates in
the runs: any number of threads, handles, contents, rules, buffers, documents, agents,
loads, launches and calls, and any of the faults.

| Theorem | Says | Under |
|---|---|---|
| `TypeCorrect` | `Spec => []TypeOK`, for the recorder | |
| `LoadIdsCorrect` | `Spec => []LoadIdsOrdered` | |
| `DumpsAreKept` | `Spec => DumpKept` | |
| `LogIsTrueOfDisk` | `Spec => []VerdictsHoldOnDisk` | |
| `LoadsAreSavedOrReported` | `Spec => []SavedOrReported` | |
| `AgentTypeCorrect` | `Spec => []TypeOK`, for the agent | |
| `MutexCorrect` | `Spec => []MutexHeldInHandlers` | |
| `InitOnceCorrect` | `Spec => []InitOnceBeforeLoads` | |
| `HandlesFindTheirLoads` | `Spec => []HandleFindsItsLoad` | |
| `LoadsReplacedByRule` | `Spec => []ReplacedByRule` | no readers from files |
| `ReadersAddressesLive` | `Spec => []ReadersReadLiveMemory` | no readers from files |
| `QueriesAnsweredFromExecutables` | `Spec => AnsweredForItsExecutable` | |
| `QueriesAnsweredByRule` | `Spec => []AnsweredByRule` | `AppMay = {}` |
| `AgentImplementsAtomic` | `Spec => ImplementsAtomicAgent` | `AppMay = {}` |
| `LifeTypeCorrect` | `Spec => []TypeOK`, for the life of the library | |
| `HandlersAlwaysHaveAgent` | `Spec => []HandlersHaveAgent` | |
| `CommandSeesBuffers` | `Spec => []EnvDescribesBuffers` | |
| `HandlerNotLeft` | `Spec => []HandlerReset` | |
| `BuffersDumpedOrReported` | `Spec => []DumpedOrReported` | |
| `DispatcherTypeCorrect` | `Spec => []TypeOK`, for the dispatcher | |
| `HandlesAlwaysThere` | `Spec => []HandlesThere` | |
| `LaunchesReturnOwnResult` | `Spec => []ReturnsOwnResult` | |
| `KernelsWhole` | `Spec => []RunningKernelsWhole` | |
| `FailedLoadsCleaned` | `Spec => []FailedLoadsLeaveNothing` | |

The hypotheses in the last column are about the application, and they are needed:
`MCAgentStaleHandle` and `MCAgentLoadAgain` show what happens without them.  With
`"destroy executables"`, `"load again"` or `"fill executables"` alone in `AppMay`, TLC
finds `AnsweredByRule` violated on the instance of `MCAgentCalls`, and with
`"read files"` alone `ReadersReadLiveMemory`.

*The recorder.*  `TypeOK` is inductive; the lemma `LoadOutcome` sums up what a load
does (one new record in front, one new verdict, at most the file of its own CRC),
and later proofs use it and not the branches of the code.  `LoadIdsOrdered` is
inductive given `TypeOK`.  `DumpKept` follows because a file is only written when
`crc_collision` finds no record of the CRC (`CollisionFound`, from `FirstOrZero` of
`SearchLemmas`).  `VerdictsHoldOnDisk` is inductive, because a file that was written
is not written again.  `SavedOrReported` is not: a load that is called redundant was
compared with a record of its own size and with the file of the CRC, and that record
need not be the one that was dumped.  `DiskInv` adds that with a dump directory every
record was written, compared or reported, and is on disk unless some record of its CRC
was reported; so if none was, the record that a load is compared with is on disk, the
file has the size of the load, and `memcmp` is right about it.

*The agent's mutex and initialization.*  `MutexHeldInHandlers` is proved with
`MutexInv`, which adds that the owner is a thread or nobody and that `pc` is a function
on the threads; the two lemmas `LeavesMutexFree` and `EntersMutex` say what each
handler's step does.  For `InitOnceBeforeLoads` the flag `_init_command_executed` is
not enough, because it is set before the work is done: `InitInv` ties the flag, the
number of runs and the places of the threads together (the flag without a run means
that some thread is just about to run the command), and needs `MutexInv` for "no other
thread is in a handler".

*The agent's types.*  The recorder's lemmas are used again inside the agent:
`RecorderProof` is an `INSTANCE` of `CodeObjectRecorder_proof`, and `SameState` says
that its recorder is the one the agent drives.  `TypeOK` needs what the locals of a
call refer to (the record that was found, the rule that was chosen, a handle that is
live as long as the call needs it); `TypeInv` adds it.

*Handles and rules.*  A search by handle finds the newest record of the handle, and so
`HandleInv` says that this is the one of the load that made the handle
(`HandlesRecorded`); that while a call is about to return a handle nobody else makes,
uses or destroys it, and its memory is what the runtime was given (`LoadsInFlight`);
and that the memory of a live reader is as it was (`ReadersHoldMemory`).
`HandleFindsItsLoad` follows for every application.  `RuleInv` carries the rule that
`find_code_object` chose to the end of the handler, although other threads load,
destroy and free in the meantime.  Handles of readers made from files are not recorded,
and a stale record may be found for them; where there are none (`AllRecorded`), `RecordedInv`
says that whatever is in an executable was recorded, and `ReplacedByRule` and
`ReadersReadLiveMemory` follow.

*Queries.*  For as long as an executable was never destroyed or given up and holds
nothing unrecorded (`Kept`), what is in it stays in it (`KeptStays`).  `SymbolInv` says
that the symbols of a record are of executables into which its load went unreplaced, if
those are kept (`Attributed`), and that the load is there when its symbols are listed
(`EndsLoad`).  That the load which is answered for is in the executable is thus a
conclusion, and `AnsweredForItsExecutable` a property of the step that answers.
For `AnsweredByRule` the converse is needed as well: the symbols of every load that was
not replaced are in some record (`LoadsListed`), of that load and no other (`RecordOwns`,
`LoadedOnce`), and neither an executable that is being loaded nor one that is asked about
is touched by another thread (`OwnsPlace`, `AsksLoaded`).  That is `OwnInv`; it needs
`AppMay = {}`.

*The refinement.*  `AgentImplementsAtomic` has one lemma for each action of `AtomicAgent`
that an action of the agent implements: `RecordImplements` (a load is recorded),
`InitImplements` (the initialization ends), `FillImplements` and `DiscardImplements` (an
executable is loaded, or emptied after a failure), `QueryImplements` (an answer is chosen
and returned); `ApplicationImplements` for destroyed handles, and `SilentHandlers` for the
steps that the application does not see.  The answer is the promised one by
`AnswerByRule`, and the replacement by `FilledByRule`, from `OwnInv` and `RuleInv`.

*The life of the library.*  The invariant `IInv` of `AgentInit_proof` ties the stage (`pc`)
to what exists: nothing is set up and nothing intercepted before the configuration is
read or when it is refused (`NothingYet`), the agent exists while handlers run
(`AgentWhileUsed`), each address in the list of allocations is allocated
(`BuffersHeld`), the environment is made of the exports of the allocated buffers and
of nothing else (`EnvOfBuffers`) and is what the command saw (`CommandSawEnv`), the
driver has the handler on the remembered agent at most (`HandlerOfNode`), and errors are
lost only where there is no log (`LostOnlyIfSilent`).  For `DumpedOrReported`,
`DumpedSoFar` follows the destructor's loop, with the overwriting of files by later buffers.

*The dispatcher.*  Its `IInv` says that one launch is under way at a time
(`OneAtATime`), which handles exist at which place (`HandlesThere`, of which the types
and `HandlesAlwaysThere` follow), that the signal is
at 1 until the kernel that is waited for has ended (`SignalCounts`), and that a running
kernel is the last one and nothing it uses is changed (`RunsAlone`): after a timeout
until the queue is inactive, and also when the host has given up.
`FailedLoadsLeaveNothing` counts: a load that fails half-way adds one to `uninitialized`
and at most one to what is missing of each kind (`FewerThan`, `OneMore`, from the
library's theorems on finite sets).

**Only model-checked.**  Liveness (`EveryCallReturns`, `BoundedLaunchReturns`) is beyond
the prover.  Every invariant and action property of the passing runs is proved.  Proved
only under a hypothesis on the application are those marked in the table, and the runs
that check them have no other applications either.

## Not modelled

- An `OnUnload` that overlaps a call of another thread: the HSA runtime calls it in
  `hsa_shut_down`, and calls that overlap that are undefined in its specification.
- Several GPUs: `DebugAgent` has one agent.  The substitutes of symbols are loaded for
  the first agent only and given out whatever the executable's agent is; what the
  runtime does with them is outside the code.
- The TOML syntax, and of `[logs]` the two keys of the recorder, which are constants
  of `CodeObjectRecorder`.
- Quoting and redirection of the shell command, markers and formatting of the log,
  the loggers' output mutex (everything is logged under the agent's mutex), creation
  of directories, the CRC computation: text and I/O, with no state of their own.
- Of the example dispatcher: copies between host and GPU, host memory, the choice among
  GPUs and memory regions, the slots of the queue (at most one packet is in it).  The
  example program makes one launch; it does not check its output buffer's allocation
  (`fp32_v_add.cpp:106`), and what a GPU does with a null pointer is outside the code.
- Tests, vendored headers and build files.

## Plan

1. *Done*: `CodeObjectRecorder`; `DebugAgent` on top of it, and `AtomicAgent`, which it
   implements; `Configuration` and `AgentInit` from `OnLoad` to `OnUnload`; `Dispatcher`.
2. *Done*: proofs of every invariant and action property that a passing run checks, and
   of the refinement.
3. The refinement for other applications: what is left of `AtomicAgent` without its
   queries should hold for every application of which the library is told all loads.
4. Lemmas about what `Configuration` refuses, as statements on documents.
