---- MODULE Dispatcher ----
(***************************************************************************)
(* The dispatcher that the examples are derived from (class Dispatch): it  *)
(* loads kernels and runs them one at a time on a queue of its own, and    *)
(* takes the queue down and makes another when a kernel does not end.      *)
(*                                                                         *)
(* A derived class calls the operations in any order after init.  The HSA  *)
(* runtime and the GPU are external: a kernel ends at any time or never,   *)
(* and runs only while its queue is active.                                *)
(***************************************************************************)
EXTENDS Integers, Sequences, FiniteSets, Functions

CONSTANTS
    Forever,        \* the timeout UINT64_MAX
    Timeouts,       \* the timeouts of launches: numbers and Forever
    InitialSize,    \* the size of the first block for arguments
    Sizes,          \* the sizes of the arguments of launches
    Buffers,        \* what a derived class allocates on the GPU
    HsaFaults,      \* the calls that may fail
    MaxLoads,       \* bounds the loads of kernels
    MaxLaunches     \* bounds the launches

ASSUME DispatcherAssumption ==
    /\ Timeouts \ {Forever} \subseteq Nat /\ Sizes \subseteq Nat /\ InitialSize \in Nat
    /\ MaxLoads \in Nat /\ MaxLaunches \in Nat

VARIABLES
    pc,             \* what the host does
    queue,          \* the queue: "none", "active" or "inactive"
    signal,         \* the completion signal: signals are numbered
    signals,        \* the value of each signal that was not destroyed
    kernarg,        \* the block for arguments, named after the launch it is made for
    kernarg_size,
    kernargs,       \* whose arguments each allocated block holds: a launch, or 0
    buffers,        \* the buffers that are allocated
    cobjects,       \* the loads that gave a kernel
    executables,    \* the loads whose executable is not destroyed
    codeObjects,    \* the loads whose code object is not destroyed
    loads,          \* how many loads were made
    uninitialized,  \* the loads that have used a handle they never got
    packets,        \* the packet of each launch
    clocks,         \* the time since the launch
    returned        \* what each launch has returned

queueVars  == <<queue, signal, signals>>
kernelVars == <<cobjects, executables, codeObjects, loads, uninitialized>>
argVars    == <<kernarg, kernarg_size, kernargs>>
runVars    == <<packets, clocks, returned>>
vars == <<pc, queueVars, argVars, buffers, kernelVars, runVars>>

\* Whether a call succeeds.
CHECK(call) == IF call \in HsaFaults THEN BOOLEAN ELSE {TRUE}

Launched == Len(packets)
Packet   == packets[Launched]

Init ==
    /\ pc = "new" /\ queue = "none" /\ signal = 0 /\ signals = <<>>
    /\ kernarg = 0 /\ kernarg_size = 0 /\ kernargs = <<>> /\ buffers = {}
    /\ cobjects = {} /\ executables = {} /\ codeObjects = {}
    /\ loads = 0 /\ uninitialized = {}
    /\ packets = <<>> /\ clocks = 0 /\ returned = <<>>

----------------------------------------------------------------------------
(* Initialization and the end                                              *)

\* A new signal is at 1.
WithSignal(new) == [s \in DOMAIN signals \cup {new} |-> IF s = new THEN 1 ELSE signals[s]]

\* The agent, the queue, its signal and the first block, until one fails.
\* A derived class whose init failed only shuts down.
init ==
    /\ pc = "new"
    /\ \E agent \in CHECK("agent"), q \in CHECK("queue_create"),
          s \in CHECK("signal_create"), k \in CHECK("memory_allocate") :
        LET hasQueue  == agent /\ q
            hasSignal == hasQueue /\ s
            hasArgs   == hasSignal /\ k
        IN  /\ queue'  = IF hasQueue THEN "active" ELSE "none"
            /\ signal' = IF hasSignal THEN 1 ELSE 0
            /\ signals' = IF hasSignal THEN WithSignal(1) ELSE signals
            /\ kernarg_size' = IF hasSignal THEN InitialSize ELSE 0
            /\ kernargs' = IF hasArgs THEN [k0 \in {0} |-> 0] ELSE kernargs
            /\ pc' = IF hasArgs THEN "ready" ELSE "failed"
    /\ UNCHANGED <<kernarg, buffers, kernelVars, runVars>>

\* The queue, the signal and the block are left to the runtime.
shutdown ==
    /\ pc \in {"ready", "failed"}
    /\ pc' = "down"
    /\ UNCHANGED <<queueVars, argVars, buffers, kernelVars, runVars>>

----------------------------------------------------------------------------
(* Memory and kernels                                                      *)

allocate_gpumem(buffer) ==
    /\ pc = "ready" /\ buffer \notin buffers
    /\ buffers' = buffers \cup {buffer}
    /\ UNCHANGED <<pc, queueVars, argVars, kernelVars, runVars>>

free_gpumem(buffer) ==
    /\ pc = "ready" /\ buffer \in buffers
    /\ buffers' = buffers \ {buffer}
    /\ UNCHANGED <<pc, queueVars, argVars, kernelVars, runVars>>

\* The mutant destroys executables only.
DeletedCodeObjects_none(executable, live, code_object) == {}

\* When a load fails its code object is destroyed after the executable, if that
\* could be destroyed: not if the handle is none.
DeletedCodeObjects(executable, live, code_object) ==
    IF executable \in {0} \cup live THEN {code_object} ELSE {}

delete_co(exes, cos, executable, code_object) ==
    /\ executables' = exes \ {executable}
    /\ codeObjects' = cos \ DeletedCodeObjects(executable, exes, code_object)

\* The handles of the record on the stack are not initialized: before it gets one,
\* a handle is 0, what an earlier load has left there, or nothing's at all.
load_kernel_from_memory ==
    LET load    == loads + 1
        Garbage == 0..load
    IN  /\ pc = "ready" /\ loads < MaxLoads
        /\ loads' = load
        /\ \/ /\ executables' = executables \cup {load}
              /\ codeObjects' = codeObjects \cup {load}
              /\ cobjects' = cobjects \cup {load}
              /\ UNCHANGED uninitialized
           \/ /\ "deserialize" \in HsaFaults
              /\ \E executable, code_object \in Garbage :
                    delete_co(executables, codeObjects, executable, code_object)
              /\ uninitialized' = uninitialized \cup {load}
              /\ UNCHANGED cobjects
           \/ /\ "executable_create" \in HsaFaults
              /\ \E executable \in Garbage :
                    delete_co(executables, codeObjects \cup {load}, executable, load)
              /\ uninitialized' = uninitialized \cup {load}
              /\ UNCHANGED cobjects
           \/ /\ "load_code_object" \in HsaFaults
              /\ delete_co(executables \cup {load}, codeObjects \cup {load}, load, load)
              /\ UNCHANGED <<cobjects, uninitialized>>
        /\ UNCHANGED <<pc, queueVars, argVars, buffers, runVars>>

----------------------------------------------------------------------------
(* run_kernel                                                              *)

\* The block for a launch's arguments, made anew when they do not fit.
Reallocate(launch, size) ==
    IF size <= kernarg_size THEN UNCHANGED <<kernarg, kernarg_size>>
    ELSE kernarg' = launch /\ kernarg_size' = size

\* The host gives up if that fails.
RunKernelExits ==
    /\ pc = "ready" /\ cobjects # {} /\ Launched < MaxLaunches
    /\ \E size \in Sizes : size > kernarg_size
    /\ HsaFaults \cap {"memory_allocate", "memory_free"} # {}
    /\ pc' = "exited"
    /\ UNCHANGED <<queueVars, argVars, buffers, kernelVars, runVars>>

\* The arguments, if there are any, the packet and the door bell.
run_kernel(kernel, size, args, timeout) ==
    LET launch == Launched + 1
        live   == {kernarg'} \cup (DOMAIN kernargs \ {kernarg})
    IN  /\ pc = "ready" /\ launch <= MaxLaunches /\ kernel \in cobjects
        /\ Reallocate(launch, size)
        /\ kernargs' = [k \in live |->
              IF k = kernarg' /\ args THEN launch
              ELSE IF k \in DOMAIN kernargs THEN kernargs[k] ELSE 0]
        /\ packets' = Append(packets,
              [kernel |-> kernel, signal |-> signal, kernarg |-> kernarg', args |-> args,
               buffers |-> buffers, timeout |-> timeout, state |-> "running"])
        /\ clocks' = 0
        /\ pc' = "waiting"
        /\ UNCHANGED <<queueVars, buffers, kernelVars, returned>>

\* What the elapsed time is compared with: for UINT64_MAX the product is negative.
Limit(timeout) == IF timeout = Forever THEN -1 ELSE timeout

\* The mutant leaves a signal that was waited for at 0.
Reset_not(s) == signals

\* A signal that was waited for is set to 1 for the next launch.
Reset(s) == [signals EXCEPT ![s] = 1]

WaitSatisfied ==
    /\ pc = "waiting" /\ signals[signal] = 0
    /\ signals' = Reset(signal)
    /\ returned' = Append(returned, TRUE)
    /\ pc' = "ready"
    /\ UNCHANGED <<queue, signal, argVars, buffers, kernelVars, packets, clocks>>

\* The mutants leave it to the destruction of the queue to stop the kernel, keep
\* the signal, and keep the queue.
AfterTimeout_not_inactivated ==
    <<"signal_destroy", "queue_destroy", "queue_create", "signal_create", "ready">>
AfterTimeout_signal_kept ==
    <<"inactivate", "queue_destroy", "queue_create", "signal_create", "ready">>
AfterTimeout_queue_kept ==
    <<"inactivate", "signal_destroy", "queue_create", "signal_create", "ready">>

\* What a timeout is followed by, in this order.
AfterTimeout == <<"inactivate", "signal_destroy", "queue_destroy",
                  "queue_create", "signal_create", "ready">>
After(call) == LET calls == AfterTimeout
               IN  calls[1 + CHOOSE i \in DOMAIN calls : calls[i] = call]

\* The mutant waits until the kernel ends.
TooLate_never(timeout) == FALSE

\* A wait that ends with the signal at 1, because its time is up or for no reason,
\* is done again, unless it is too late.
TooLate(timeout) == clocks > Limit(timeout)

WaitTimedOut ==
    /\ pc = "waiting" /\ signals[signal] # 0 /\ TooLate(Packet.timeout)
    /\ pc' = AfterTimeout[1]
    /\ UNCHANGED <<queueVars, argVars, buffers, kernelVars, runVars>>

----------------------------------------------------------------------------
(* After a timeout: DestroySignalsAndQueue, CreateSignalsAndQueue.  The     *)
(* host gives up when a call fails.                                        *)

\* The packets of a queue that is made inactive are aborted.
Aborted == [l \in DOMAIN packets |->
    IF packets[l].state = "running" THEN [packets[l] EXCEPT !.state = "aborted"]
    ELSE packets[l]]

Recreate(call) ==
    /\ pc = call
    /\ \E done \in CHECK(call) : pc' = IF done THEN After(call) ELSE "exited"

inactivate ==
    /\ Recreate("inactivate")
    /\ IF pc' = "exited" THEN UNCHANGED <<queue, packets>>
       ELSE queue' = "inactive" /\ packets' = Aborted
    /\ UNCHANGED <<signal, signals, argVars, buffers, kernelVars, clocks, returned>>

signal_destroy ==
    /\ Recreate("signal_destroy")
    /\ signals' = IF pc' = "exited" THEN signals
                  ELSE Restrict(signals, DOMAIN signals \ {signal})
    /\ UNCHANGED <<queue, signal, argVars, buffers, kernelVars, runVars>>

queue_destroy ==
    /\ Recreate("queue_destroy")
    /\ IF pc' = "exited" THEN UNCHANGED <<queue, packets>>
       ELSE queue' = "none" /\ packets' = Aborted
    /\ UNCHANGED <<signal, signals, argVars, buffers, kernelVars, clocks, returned>>

queue_create ==
    /\ Recreate("queue_create")
    /\ queue' = IF pc' = "exited" THEN queue ELSE "active"
    /\ UNCHANGED <<signal, signals, argVars, buffers, kernelVars, runVars>>

\* The launch that has timed out returns false.
signal_create ==
    /\ Recreate("signal_create")
    /\ IF pc' = "exited" THEN UNCHANGED <<signal, signals, returned>>
       ELSE /\ signal' = signal + 1
            /\ signals' = WithSignal(signal')
            /\ returned' = Append(returned, FALSE)
    /\ UNCHANGED <<queue, argVars, buffers, kernelVars, packets, clocks>>

----------------------------------------------------------------------------
(* The GPU and time                                                        *)

\* A kernel ends and decrements its signal.
Complete(launch) ==
    /\ packets[launch].state = "running" /\ queue = "active"
    /\ packets' = [packets EXCEPT ![launch].state = "completed"]
    /\ signals' = [s \in DOMAIN signals |->
          signals[s] - (IF s = packets[launch].signal THEN 1 ELSE 0)]
    /\ UNCHANGED <<pc, queue, signal, argVars, buffers, kernelVars, clocks, returned>>

\* Time passes, as far as it makes a difference.
Tick ==
    /\ pc = "waiting"
    /\ \E timeout \in Timeouts : clocks <= Limit(timeout)
    /\ clocks' = clocks + 1
    /\ UNCHANGED <<pc, queueVars, argVars, buffers, kernelVars, packets, returned>>

----------------------------------------------------------------------------

Launch == \E kernel \in 1..MaxLoads, size \in Sizes, args \in BOOLEAN, timeout \in Timeouts :
              run_kernel(kernel, size, args, timeout)

\* What the host does inside run_kernel.
InsideRunKernel ==
    \/ WaitSatisfied \/ WaitTimedOut
    \/ inactivate \/ signal_destroy \/ queue_destroy \/ queue_create \/ signal_create

Next ==
    \/ init \/ shutdown
    \/ \E buffer \in Buffers : allocate_gpumem(buffer) \/ free_gpumem(buffer)
    \/ load_kernel_from_memory
    \/ RunKernelExits \/ Launch \/ InsideRunKernel
    \/ \E launch \in DOMAIN packets : Complete(launch)
    \/ Tick

\* The host runs and time passes; a kernel need not end.
Spec == Init /\ [][Next]_vars /\ WF_vars(InsideRunKernel) /\ WF_vars(Tick)

----------------------------------------------------------------------------
(* Properties                                                              *)

\* Every variable has its type.
TypeOK ==
    /\ pc \in {"new", "failed", "ready", "waiting", "exited", "down"} \cup Range(AfterTimeout)
    /\ queue \in {"none", "active", "inactive"}
    /\ signal \in Nat /\ signals \in [DOMAIN signals -> Int]
    /\ DOMAIN signals \subseteq {signal}
    /\ kernarg \in 0..Launched /\ kernarg_size \in Sizes \cup {0, InitialSize}
    /\ DOMAIN kernargs \subseteq {kernarg} /\ Range(kernargs) \subseteq 0..Launched
    /\ buffers \subseteq Buffers
    /\ cobjects \cup executables \cup codeObjects \subseteq 1..loads
    /\ loads \in 0..MaxLoads /\ uninitialized \subseteq 1..loads
    /\ Launched <= MaxLaunches /\ clocks \in Nat
    /\ returned \in Seq(BOOLEAN) /\ Len(returned) <= Launched

\* A launch that returns true has run its own kernel to the end, whatever became
\* of the launches before it (run_kernel, the signal is set to 1 for the next).
ReturnsOwnResult ==
    \A launch \in DOMAIN returned : returned[launch] => packets[launch].state = "completed"

\* As long as a kernel runs, its signal, its arguments and the buffers it was given
\* are its own and not freed, and so is its code, unless a failed load has destroyed
\* something it never got (the order of DestroySignalsAndQueue).
RunningKernelsWhole ==
    \A launch \in DOMAIN packets :
        LET packet == packets[launch]
        IN  packet.state = "running" =>
                /\ packet.signal \in DOMAIN signals
                /\ packet.kernarg \in DOMAIN kernargs
                /\ packet.args => kernargs[packet.kernarg] = launch
                /\ packet.buffers \subseteq buffers
                /\ packet.kernel \in executables \/ uninitialized # {}

\* What a call is given is there, and what it makes is not there yet, at every
\* place between a timeout and the launch after it: a launch has an active queue,
\* a signal and a block for its arguments, each of them is destroyed once, and none
\* is made over another (the order of DestroySignalsAndQueue and
\* CreateSignalsAndQueue).
HandlesThere ==
    /\ pc = "new" => DOMAIN signals = {} /\ DOMAIN kernargs = {}
    /\ pc \in {"ready", "waiting", "inactivate"} =>
          queue = "active" /\ DOMAIN signals = {signal}
    /\ pc = "signal_destroy" => queue = "inactive" /\ DOMAIN signals = {signal}
    /\ pc = "queue_destroy" => queue = "inactive" /\ DOMAIN signals = {}
    /\ pc = "queue_create" => queue = "none" /\ DOMAIN signals = {}
    /\ pc = "signal_create" => queue = "active" /\ DOMAIN signals = {}
    /\ pc \notin {"new", "failed", "exited", "down"} => DOMAIN kernargs = {kernarg}

\* A failed load never leaves an executable behind, and a code object only if it
\* failed before it had its executable; and all kernels keep their executables and
\* code objects, but for one each that every load that failed before it had both
\* may have destroyed (load_kernel_from_memory and delete_co, which looks at
\* handles that were never set).
FailedLoadsLeaveNothing ==
    /\ executables \subseteq cobjects
    /\ codeObjects \subseteq cobjects \cup uninitialized
    /\ Cardinality(cobjects \ executables) <= Cardinality(uninitialized)
    /\ Cardinality(cobjects \ codeObjects) <= Cardinality(uninitialized)

\* A launch with a timeout returns or gives up, though its kernel may never end
\* (the loop of run_kernel).
BoundedLaunchReturns ==
    \A timeout \in Timeouts \ {Forever} :
        (pc = "waiting" /\ Packet.timeout = timeout) ~> pc \in {"ready", "exited"}
====
