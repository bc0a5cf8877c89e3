---- MODULE Dispatcher_proof ----
(***************************************************************************)
(* Proofs about the dispatcher of the examples: that a launch returns the  *)
(* end of its own kernel, and that nothing a running kernel uses is taken  *)
(* from it, for any timeouts, sizes, buffers, faults and numbers of loads  *)
(* and launches.                                                           *)
(***************************************************************************)
EXTENDS Dispatcher, TLAPS, SequenceTheorems, FiniteSetTheorems

Recreating == {"inactivate", "signal_destroy", "queue_destroy", "queue_create",
               "signal_create"}
Labels == {"new", "failed", "ready", "waiting", "exited", "down"} \cup Recreating

PacketType ==
    [kernel : Nat, signal : Nat, kernarg : Nat, args : BOOLEAN, buffers : SUBSET Buffers,
     timeout : Timeouts, state : {"running", "completed", "aborted"}]

\* One launch at a time: all but the last have returned, that one too when the
\* host is ready.
OneAtATime ==
    /\ pc \in {"new", "failed"} => Launched = 0
    /\ pc \in {"new", "failed", "ready"} => Len(returned) = Launched
    /\ pc \in {"waiting"} \cup Recreating => Launched = Len(returned) + 1

\* The signal is at 1, until the kernel that is waited for has ended.
SignalCounts ==
    /\ pc = "ready" => signals[signal] = 1
    /\ pc = "waiting" =>
         /\ Packet.signal = signal
         /\ \/ Packet.state = "running" /\ signals[signal] = 1
            \/ Packet.state = "completed" /\ signals[signal] = 0

\* Only the last kernel can be running, while it is waited for or given up, and
\* nothing it uses is changed meanwhile.
RunsAlone(launch) ==
    LET packet == packets[launch]
    IN  packet.state = "running" =>
            /\ launch = Launched /\ pc \in {"waiting", "inactivate", "exited"}
            /\ packet.signal = signal /\ DOMAIN signals = {signal}
            /\ packet.kernarg = kernarg /\ DOMAIN kernargs = {kernarg}
            /\ packet.args => kernargs[kernarg] = launch
            /\ packet.buffers = buffers
            /\ packet.kernel \in executables \/ uninitialized # {}

IInv ==
    /\ TypeOK
    /\ packets \in Seq(PacketType)
    /\ OneAtATime
    /\ HandlesThere
    /\ SignalCounts
    /\ \A launch \in DOMAIN packets : RunsAlone(launch)
    /\ ReturnsOwnResult
    /\ FailedLoadsLeaveNothing

----------------------------------------------------------------------------
(* Lemmas about the helpers                                                *)

LEMMA LabelsAfterTimeout == Range(AfterTimeout) = Recreating \cup {"ready"}
BY DEF Range, AfterTimeout, Recreating

LEMMA AfterEach ==
    /\ After("inactivate") = "signal_destroy"
    /\ After("signal_destroy") = "queue_destroy"
    /\ After("queue_destroy") = "queue_create"
    /\ After("queue_create") = "signal_create"
    /\ After("signal_create") = "ready"
<1>. DEFINE at(call) == CHOOSE i \in DOMAIN AfterTimeout : AfterTimeout[i] = call
<1>1. DOMAIN AfterTimeout = 1..6
  BY DEF AfterTimeout
<1>2. /\ at("inactivate") = 1 /\ at("signal_destroy") = 2 /\ at("queue_destroy") = 3
      /\ at("queue_create") = 4 /\ at("signal_create") = 5
  BY <1>1 DEF AfterTimeout
<1>3. \A call : After(call) = AfterTimeout[1 + at(call)]
  BY DEF After
<1>. HIDE DEF at
<1>. QED
  BY <1>2, <1>3 DEF AfterTimeout

LEMMA PacketAt ==
    ASSUME IInv
    PROVE  /\ Launched \in Nat /\ DOMAIN packets = 1..Launched
           /\ \A l \in DOMAIN packets : packets[l] \in PacketType
BY LenProperties, ElementOfSeq DEF IInv, Launched

\* The packets change in nothing but their states.
SamePackets ==
    /\ packets' \in Seq(PacketType)
    /\ Launched' = Launched /\ DOMAIN packets' = DOMAIN packets
    /\ \A l \in DOMAIN packets :
         /\ packets'[l].kernel = packets[l].kernel /\ packets'[l].signal = packets[l].signal
         /\ packets'[l].kernarg = packets[l].kernarg /\ packets'[l].args = packets[l].args
         /\ packets'[l].buffers = packets[l].buffers

LEMMA Restated ==
    ASSUME IInv, packets' = [l \in DOMAIN packets |-> packets'[l]],
           \A l \in DOMAIN packets : \/ packets'[l] = packets[l]
                                     \/ packets'[l] = [packets[l] EXCEPT !.state = "aborted"]
                                     \/ packets'[l] = [packets[l] EXCEPT !.state = "completed"]
    PROVE  SamePackets
<1>1. /\ Launched \in Nat /\ DOMAIN packets = 1..Launched
      /\ \A l \in DOMAIN packets : packets[l] \in PacketType
  BY PacketAt
<1>2. ASSUME NEW l \in DOMAIN packets
      PROVE  /\ packets'[l] \in PacketType
             /\ packets'[l].kernel = packets[l].kernel /\ packets'[l].signal = packets[l].signal
             /\ packets'[l].kernarg = packets[l].kernarg /\ packets'[l].args = packets[l].args
             /\ packets'[l].buffers = packets[l].buffers
  <2>1. PICK q \in PacketType : q = packets[l]
    BY <1>1
  <2>2. PICK r : r = packets'[l]
    OBVIOUS
  <2>3. r = q \/ r = [q EXCEPT !.state = "aborted"] \/ r = [q EXCEPT !.state = "completed"]
    BY <2>1, <2>2
  <2>4. /\ r \in PacketType
        /\ r.kernel = q.kernel /\ r.signal = q.signal /\ r.kernarg = q.kernarg
        /\ r.args = q.args /\ r.buffers = q.buffers
    BY <2>3 DEF PacketType
  <2>. QED
    BY <2>1, <2>2, <2>4
<1>3. DOMAIN packets' = 1..Launched
  BY <1>1
<1>4. packets' \in Seq(PacketType) /\ Launched' = Launched
  BY <1>1, <1>2, <1>3 DEF Launched
<1>. QED
  BY <1>1, <1>2, <1>3, <1>4 DEF SamePackets

LEMMA Completed ==
    ASSUME IInv, NEW launch \in DOMAIN packets,
           packets' = [packets EXCEPT ![launch].state = "completed"]
    PROVE  /\ SamePackets
           /\ \A l \in DOMAIN packets :
                packets'[l].state = IF l = launch THEN "completed" ELSE packets[l].state
<1>1. \A l \in DOMAIN packets : packets[l] \in PacketType
  BY PacketAt
<1>2. PICK q \in PacketType : q = packets[launch]
  BY <1>1
<1>3. packets' = [packets EXCEPT ![launch] = [q EXCEPT !.state = "completed"]]
  BY <1>2
<1>4. [q EXCEPT !.state = "completed"].state = "completed"
  BY DEF PacketType
<1>. QED
  BY <1>2, <1>3, <1>4, Restated

LEMMA AbortedAll ==
    ASSUME IInv, packets' = Aborted
    PROVE  /\ SamePackets
           /\ \A l \in DOMAIN packets :
                /\ packets'[l].state # "running"
                /\ packets[l].state # "running" => packets'[l].state = packets[l].state
<1>1. \A q \in PacketType : [q EXCEPT !.state = "aborted"].state = "aborted"
  BY DEF PacketType
<1>2. \A l \in DOMAIN packets : packets[l] \in PacketType
  BY PacketAt
<1>. QED
  BY <1>1, <1>2, Restated DEF Aborted

----------------------------------------------------------------------------
(* The steps                                                               *)

\* The host goes from one place to another, and only time passes.
LEMMA PcMoves ==
    ASSUME IInv, UNCHANGED <<queueVars, argVars, buffers, kernelVars, packets, returned>>,
           clocks' \in Nat,
           \/ pc' = pc
           \/ pc \in {"ready", "failed"} /\ pc' \in {"down", "exited"}
           \/ pc = "waiting" /\ pc' = "inactivate"
           \/ pc \in Recreating /\ pc' = "exited"
    PROVE  IInv'
<1>. USE DEF queueVars, argVars, kernelVars, Launched, Packet
<1>1. TypeOK'
  BY LabelsAfterTimeout DEF IInv, TypeOK, Recreating
<1>2. OneAtATime' /\ HandlesThere' /\ SignalCounts'
  BY DEF IInv, OneAtATime, HandlesThere, SignalCounts, Recreating
<1>3. \A launch \in DOMAIN packets : RunsAlone(launch)'
  BY DEF IInv, RunsAlone, Recreating
<1>4. ReturnsOwnResult' /\ FailedLoadsLeaveNothing' /\ packets' \in Seq(PacketType)
  BY DEF IInv, ReturnsOwnResult, FailedLoadsLeaveNothing
<1>. QED
  BY <1>1, <1>2, <1>3, <1>4 DEF IInv

LEMMA InitStep ==
    ASSUME IInv, init
    PROVE  IInv'
<1>1. /\ pc = "new" /\ Launched = 0 /\ UNCHANGED <<kernarg, buffers, kernelVars, runVars>>
  BY DEF IInv, OneAtATime, init
<1>2. DOMAIN packets = {}
  BY <1>1, PacketAt
<1>4. DOMAIN signals = {} /\ DOMAIN kernargs = {} /\ signal \in Nat
  BY <1>1 DEF IInv, HandlesThere, TypeOK
<1>3. /\ queue' \in {"none", "active"} /\ signal' \in {0, 1}
      /\ kernarg_size' \in {0, InitialSize} /\ pc' \in {"ready", "failed"}
      /\ \/ signals' = signals
         \/ signal' = 1 /\ DOMAIN signals' = {1} /\ signals' \in [{1} -> {1}]
      /\ kernargs' = kernargs \/ kernargs' \in [{0} -> {0}]
      /\ pc' = "ready" => /\ queue' = "active" /\ signal' = 1 /\ signals' \in [{1} -> {1}]
                          /\ kernargs' \in [{0} -> {0}]
  BY <1>4 DEF init, CHECK, WithSignal
<1>5. signals' \in [DOMAIN signals' -> Int] /\ DOMAIN signals' \subseteq {signal'}
  <2>1. CASE signals' = signals
    <3>1. signals \in [DOMAIN signals -> Int]
      BY DEF IInv, TypeOK
    <3>. QED
      BY <1>4, <2>1, <3>1
  <2>2. CASE signal' = 1 /\ DOMAIN signals' = {1} /\ signals' \in [{1} -> {1}]
    <3>1. signals' = [s \in {1} |-> signals'[s]] /\ signals'[1] \in Int
      BY <2>2
    <3>. QED
      BY <2>2, <3>1
  <2>. QED
    BY <1>3, <2>1, <2>2
<1>6. kernarg = 0 /\ DOMAIN kernargs' \subseteq {0} /\ Range(kernargs') \subseteq {0}
  <2>1. kernarg \in 0..0
    BY <1>1 DEF IInv, TypeOK
  <2>. QED
    BY <1>4, <1>3, <2>1 DEF Range
<1>7. TypeOK'
  BY <1>1, <1>3, <1>5, <1>6 DEF IInv, TypeOK, kernelVars, runVars, Launched
<1>8. OneAtATime' /\ HandlesThere' /\ SignalCounts'
  BY <1>1, <1>3, <1>6
  DEF IInv, OneAtATime, HandlesThere, SignalCounts, Recreating, kernelVars, runVars, Launched
<1>9. ReturnsOwnResult' /\ FailedLoadsLeaveNothing' /\ packets' \in Seq(PacketType)
  BY <1>1 DEF IInv, ReturnsOwnResult, FailedLoadsLeaveNothing, kernelVars, runVars
<1>. QED
  BY <1>1, <1>2, <1>7, <1>8, <1>9 DEF IInv, runVars

LEMMA BufferStep ==
    ASSUME IInv, NEW buffer \in Buffers, allocate_gpumem(buffer) \/ free_gpumem(buffer)
    PROVE  IInv'
<1>. USE DEF queueVars, argVars, kernelVars, runVars, allocate_gpumem, free_gpumem
<1>1. /\ pc = "ready" /\ buffers' \subseteq Buffers
      /\ UNCHANGED <<pc, queueVars, argVars, kernelVars, runVars>>
  BY DEF IInv, TypeOK
<1>2. \A launch \in DOMAIN packets : packets[launch].state # "running"
  BY <1>1 DEF IInv, RunsAlone
<1>3. TypeOK' /\ OneAtATime' /\ HandlesThere' /\ SignalCounts'
  BY <1>1 DEF IInv, TypeOK, OneAtATime, HandlesThere, SignalCounts, Launched, Packet
<1>4. ReturnsOwnResult' /\ FailedLoadsLeaveNothing' /\ packets' \in Seq(PacketType)
  BY <1>1 DEF IInv, ReturnsOwnResult, FailedLoadsLeaveNothing
<1>. QED
  BY <1>1, <1>2, <1>3, <1>4 DEF IInv, RunsAlone

LEMMA LoadsFinite ==
    ASSUME TypeOK, NEW S, S \subseteq 1..loads
    PROVE  IsFiniteSet(S)
<1>1. loads \in Int /\ 1 \in Int
  BY DispatcherAssumption DEF TypeOK
<1>2. IsFiniteSet(1..loads)
  BY <1>1, FS_Interval
<1>. QED
  BY <1>2, FS_Subset

\* What one failed load more may have destroyed.
LEMMA FewerThan ==
    ASSUME NEW S, NEW T, NEW U, IsFiniteSet(S), IsFiniteSet(U), T \subseteq S,
           Cardinality(S) <= Cardinality(U)
    PROVE  Cardinality(T) <= Cardinality(U)
<1>1. IsFiniteSet(T) /\ Cardinality(T) <= Cardinality(S)
  BY FS_Subset
<1>. QED
  BY <1>1, FS_CardinalityType

LEMMA OneMore ==
    ASSUME NEW S, NEW T, NEW U, NEW x, NEW y, IsFiniteSet(S), IsFiniteSet(U),
           T \subseteq S \cup {x}, y \notin U, Cardinality(S) <= Cardinality(U)
    PROVE  Cardinality(T) <= Cardinality(U \cup {y})
<1>1. Cardinality(S) \in Nat /\ Cardinality(U) \in Nat
  BY FS_CardinalityType
<1>2. /\ IsFiniteSet(S \cup {x})
      /\ Cardinality(S \cup {x}) = IF x \in S THEN Cardinality(S) ELSE Cardinality(S) + 1
  BY FS_AddElement
<1>3. IsFiniteSet(U \cup {y}) /\ Cardinality(U \cup {y}) = Cardinality(U) + 1
  BY FS_AddElement
<1>4. Cardinality(S \cup {x}) <= Cardinality(U \cup {y})
  BY <1>1, <1>2, <1>3
<1>. QED
  BY <1>2, <1>3, <1>4, FewerThan

LEMMA LoadStep ==
    ASSUME IInv, load_kernel_from_memory
    PROVE  IInv'
<1>. USE DEF queueVars, argVars, runVars, load_kernel_from_memory
<1>1. pc = "ready" /\ UNCHANGED <<pc, queueVars, argVars, buffers, runVars>>
  OBVIOUS
<1>2. \A launch \in DOMAIN packets : packets[launch].state # "running"
  BY <1>1 DEF IInv, RunsAlone
<1>3. /\ loads' = loads + 1 /\ loads' \in 0..MaxLoads
      /\ 1..loads' = (1..loads) \cup {loads'} /\ loads' \notin 1..loads /\ loads' # 0
  BY DispatcherAssumption DEF IInv, TypeOK
<1>8. \/ /\ executables' = executables \cup {loads'}
         /\ codeObjects' = codeObjects \cup {loads'}
         /\ cobjects' = cobjects \cup {loads'}
         /\ UNCHANGED uninitialized
      \/ /\ \E executable, code_object :
              /\ executables' = executables \ {executable}
              /\ codeObjects' \subseteq codeObjects \cup {loads'}
              /\ codeObjects \ {code_object} \subseteq codeObjects'
         /\ uninitialized' = uninitialized \cup {loads'}
         /\ UNCHANGED cobjects
      \/ /\ executables' = (executables \cup {loads'}) \ {loads'}
         /\ codeObjects' = (codeObjects \cup {loads'}) \ {loads'}
         /\ UNCHANGED <<cobjects, uninitialized>>
  BY DEF delete_co, DeletedCodeObjects
<1>9. executables \cup codeObjects \cup cobjects \cup uninitialized \subseteq 1..loads
  BY DEF IInv, TypeOK
<1>10. /\ uninitialized' \subseteq 1..loads'
       /\ cobjects' \cup executables' \cup codeObjects' \subseteq 1..loads'
  BY <1>3, <1>8, <1>9
<1>4. TypeOK'
  BY <1>1, <1>3, <1>10 DEF IInv, TypeOK, Launched
<1>5. FailedLoadsLeaveNothing'
  <2>1. executables' \subseteq cobjects' /\ codeObjects' \subseteq cobjects' \cup uninitialized'
    BY <1>3, <1>8, <1>9 DEF IInv, FailedLoadsLeaveNothing
  <2>2. /\ IsFiniteSet(cobjects \ executables) /\ IsFiniteSet(cobjects \ codeObjects)
        /\ IsFiniteSet(uninitialized) /\ loads' \notin uninitialized
        /\ Cardinality(cobjects \ executables) <= Cardinality(uninitialized)
        /\ Cardinality(cobjects \ codeObjects) <= Cardinality(uninitialized)
    BY <1>3, <1>9, LoadsFinite DEF IInv, FailedLoadsLeaveNothing
  <2>3. CASE uninitialized' = uninitialized
    <3>1. /\ cobjects' \ executables' \subseteq cobjects \ executables
          /\ cobjects' \ codeObjects' \subseteq cobjects \ codeObjects
      BY <1>3, <1>8, <1>9, <2>2, <2>3
    <3>. QED
      BY <2>1, <2>2, <2>3, <3>1, FewerThan DEF FailedLoadsLeaveNothing
  <2>4. CASE uninitialized' # uninitialized
    <3>1. PICK executable, code_object :
              /\ cobjects' \ executables' \subseteq (cobjects \ executables) \cup {executable}
              /\ cobjects' \ codeObjects' \subseteq (cobjects \ codeObjects) \cup {code_object}
              /\ uninitialized' = uninitialized \cup {loads'}
      BY <1>8, <2>4
    <3>. QED
      BY <2>1, <2>2, <3>1, OneMore DEF FailedLoadsLeaveNothing
  <2>. QED
    BY <2>3, <2>4
<1>6. OneAtATime' /\ HandlesThere' /\ SignalCounts'
  BY <1>1 DEF IInv, OneAtATime, HandlesThere, SignalCounts, Launched, Packet
<1>7. ReturnsOwnResult' /\ packets' \in Seq(PacketType)
  BY <1>1 DEF IInv, ReturnsOwnResult
<1>. QED
  BY <1>1, <1>2, <1>4, <1>5, <1>6, <1>7 DEF IInv, RunsAlone

\* What a launch that returns leaves of the earlier ones.
LEMMA Returning ==
    ASSUME IInv, NEW b \in BOOLEAN, returned' = Append(returned, b)
    PROVE  /\ Len(returned) \in Nat /\ DOMAIN returned = 1..Len(returned)
           /\ returned' \in Seq(BOOLEAN) /\ Len(returned') = Len(returned) + 1
           /\ DOMAIN returned' = 1..(Len(returned) + 1)
           /\ returned'[Len(returned) + 1] = b
           /\ \A l \in DOMAIN returned : returned'[l] = returned[l]
<1>1. PICK seq \in Seq(BOOLEAN) : seq = returned
  BY DEF IInv, TypeOK
<1>2. PICK new : new = Append(seq, b)
  OBVIOUS
<1>3. /\ Len(seq) \in Nat /\ DOMAIN seq = 1..Len(seq)
      /\ new \in Seq(BOOLEAN) /\ Len(new) = Len(seq) + 1
      /\ new[Len(seq) + 1] = b
      /\ \A l \in 1..Len(seq) : new[l] = seq[l]
  BY <1>2, AppendProperties, LenProperties
<1>4. DOMAIN new = 1..(Len(seq) + 1)
  BY <1>3, LenProperties
<1>. QED
  BY <1>1, <1>2, <1>3, <1>4

\* The launch whose wait ends returns.
LEMMA ReturnStep ==
    ASSUME IInv, WaitSatisfied
    PROVE  IInv'
<1>. USE DEF queueVars, argVars, kernelVars, runVars, WaitSatisfied
<1>1. /\ pc = "waiting" /\ signals[signal] = 0 /\ DOMAIN signals = {signal}
      /\ UNCHANGED <<queue, signal, argVars, buffers, kernelVars, packets, clocks>>
      /\ Packet.state = "completed" /\ Launched = Len(returned) + 1
  BY DEF IInv, HandlesThere, SignalCounts, OneAtATime
<1>3. /\ Len(returned) \in Nat /\ DOMAIN returned = 1..Len(returned)
      /\ returned' \in Seq(BOOLEAN) /\ Len(returned') = Len(returned) + 1
      /\ DOMAIN returned' = 1..(Len(returned) + 1)
      /\ \A l \in DOMAIN returned : returned'[l] = returned[l]
  BY Returning
<1>4. /\ signals' = [signals EXCEPT ![signal] = 1] /\ pc' = "ready"
  BY DEF Reset
<1>5. DOMAIN signals' = {signal} /\ signals'[signal] = 1 /\ signals' \in [{signal} -> Int]
  BY <1>1, <1>4 DEF IInv, TypeOK
<1>6. TypeOK'
  BY <1>1, <1>3, <1>4, <1>5 DEF IInv, TypeOK, Launched
<1>7. OneAtATime' /\ HandlesThere' /\ SignalCounts'
  BY <1>1, <1>3, <1>4, <1>5 DEF IInv, OneAtATime, HandlesThere, SignalCounts, Recreating,
     Launched, Packet
<1>8. ReturnsOwnResult'
  <2>. SUFFICES ASSUME NEW l \in DOMAIN returned', returned'[l]
                PROVE  packets[l].state = "completed"
    BY <1>1 DEF ReturnsOwnResult
  <2>1. l \in DOMAIN returned \/ l = Launched
    BY <1>1, <1>3
  <2>. QED
    BY <1>1, <1>3, <2>1 DEF IInv, ReturnsOwnResult, Packet
<1>9. \A l \in DOMAIN packets : packets[l].state # "running"
  BY <1>1 DEF IInv, RunsAlone, Packet
<1>10. FailedLoadsLeaveNothing' /\ packets' \in Seq(PacketType)
  BY <1>1 DEF IInv, FailedLoadsLeaveNothing
<1>. QED
  BY <1>1, <1>6, <1>7, <1>8, <1>9, <1>10 DEF IInv, RunsAlone

\* A kernel ends.
LEMMA CompleteStep ==
    ASSUME IInv, NEW launch \in DOMAIN packets, Complete(launch)
    PROVE  IInv'
<1>. USE DEF queueVars, argVars, kernelVars, runVars, Complete
<1>1. /\ packets[launch].state = "running" /\ queue = "active"
      /\ packets' = [packets EXCEPT ![launch].state = "completed"]
      /\ signals' = [s \in DOMAIN signals |->
             signals[s] - (IF s = packets[launch].signal THEN 1 ELSE 0)]
      /\ UNCHANGED <<pc, queue, signal, argVars, buffers, kernelVars, clocks, returned>>
  OBVIOUS
<1>2. /\ SamePackets
      /\ \A l \in DOMAIN packets :
           packets'[l].state = IF l = launch THEN "completed" ELSE packets[l].state
  BY <1>1, Completed
<1>3. /\ launch = Launched /\ packets[launch].signal = signal /\ DOMAIN signals = {signal}
      /\ pc \in {"waiting", "inactivate", "exited"}
  BY <1>1 DEF IInv, RunsAlone
<1>4. /\ DOMAIN signals' = {signal} /\ signals' \in [{signal} -> Int]
      /\ signals'[signal] = signals[signal] - 1
  BY <1>1, <1>3 DEF IInv, TypeOK
<1>5. TypeOK'
  BY <1>1, <1>2, <1>4 DEF IInv, TypeOK, SamePackets
<1>6. OneAtATime' /\ HandlesThere'
  BY <1>1, <1>2, <1>3, <1>4 DEF IInv, OneAtATime, HandlesThere, SamePackets, Recreating
<1>7. SignalCounts'
  <2>1. /\ Packet' = packets'[launch] /\ packets'[launch].state = "completed"
        /\ packets'[launch].signal = signal
    BY <1>2, <1>3 DEF SamePackets, Packet
  <2>2. pc = "waiting" => signals[signal] = 1
    BY <1>1, <1>3 DEF IInv, SignalCounts, Packet
  <2>3. pc # "ready" /\ pc' = pc /\ signal' = signal
    BY <1>1, <1>3
  <2>. HIDE DEF Complete
  <2>. QED
    BY <1>4, <2>1, <2>2, <2>3 DEF SignalCounts
<1>8. ReturnsOwnResult' /\ FailedLoadsLeaveNothing'
  <2>1. DOMAIN returned \subseteq DOMAIN packets
    BY PacketAt DEF IInv, TypeOK
  <2>. QED
    BY <1>1, <1>2, <2>1 DEF IInv, ReturnsOwnResult, FailedLoadsLeaveNothing
<1>9. \A l \in DOMAIN packets' : packets'[l].state # "running"
  BY <1>2, <1>3 DEF IInv, RunsAlone, SamePackets
<1>. QED
  BY <1>2, <1>5, <1>6, <1>7, <1>8, <1>9 DEF IInv, RunsAlone, SamePackets

\* A kernel is launched.
LEMMA LaunchStep ==
    ASSUME IInv, NEW kernel \in 1..MaxLoads, NEW size \in Sizes, NEW args \in BOOLEAN,
           NEW timeout \in Timeouts, run_kernel(kernel, size, args, timeout)
    PROVE  IInv'
<1>. DEFINE launch == Launched + 1
            packet == [kernel |-> kernel, signal |-> signal, kernarg |-> kernarg',
                       args |-> args, buffers |-> buffers, timeout |-> timeout,
                       state |-> "running"]
<1>. USE DEF queueVars, kernelVars
<1>1. /\ pc = "ready" /\ pc' = "waiting" /\ launch <= MaxLaunches /\ kernel \in cobjects
      /\ Reallocate(launch, size)
      /\ packets' = Append(packets, packet)
      /\ clocks' = 0
      /\ UNCHANGED <<queueVars, buffers, kernelVars, returned>>
  BY DEF run_kernel
<1>2. /\ Launched \in Nat /\ DOMAIN packets = 1..Launched
      /\ \A l \in DOMAIN packets : packets[l] \in PacketType
  BY PacketAt
<1>3. /\ queue = "active" /\ DOMAIN signals = {signal} /\ DOMAIN kernargs = {kernarg}
      /\ signals[signal] = 1 /\ Len(returned) = Launched
      /\ \A l \in DOMAIN packets : packets[l].state # "running"
  BY <1>1 DEF IInv, HandlesThere, SignalCounts, OneAtATime, RunsAlone
<1>4. /\ kernarg' \in 0..launch /\ kernarg_size' \in Sizes \cup {0, InitialSize}
  BY <1>1, <1>2 DEF IInv, TypeOK, Reallocate
<1>5. /\ DOMAIN kernargs' = {kernarg'} /\ Range(kernargs') \subseteq 0..launch
      /\ args => kernargs'[kernarg'] = launch
  <2>1. kernargs' = [k \in {kernarg'} |->
                       IF k = kernarg' /\ args THEN launch
                       ELSE IF k \in DOMAIN kernargs THEN kernargs[k] ELSE 0]
    <3>1. {kernarg'} \cup (DOMAIN kernargs \ {kernarg}) = {kernarg'}
      BY <1>3
    <3>. QED
      BY <3>1 DEF run_kernel
  <2>2. \A k \in DOMAIN kernargs : kernargs[k] \in 0..Launched
    BY DEF IInv, TypeOK, Range
  <2>. QED
    BY <1>2, <2>1, <2>2 DEF Range
<1>6. packet \in PacketType
  BY <1>2, <1>4, DispatcherAssumption DEF IInv, TypeOK, PacketType
<1>. HIDE DEF packet
<1>7. /\ packets' \in Seq(PacketType) /\ Launched' = launch /\ DOMAIN packets' = 1..launch
      /\ packets'[launch] = packet /\ \A l \in 1..Launched : packets'[l] = packets[l]
  <2>1. PICK new : new = Append(packets, packet)
    OBVIOUS
  <2>2. packets \in Seq(PacketType)
    BY DEF IInv
  <2>3. /\ new \in Seq(PacketType) /\ Len(new) = launch
        /\ new[launch] = packet /\ \A l \in 1..Launched : new[l] = packets[l]
    BY <1>6, <2>1, <2>2, AppendProperties DEF Launched
  <2>4. DOMAIN new = 1..launch
    BY <2>3, LenProperties
  <2>. QED
    BY <1>1, <2>1, <2>3, <2>4 DEF Launched
<1>8. TypeOK'
  BY <1>1, <1>2, <1>3, <1>4, <1>5, <1>7 DEF IInv, TypeOK
<1>9. OneAtATime' /\ HandlesThere'
  BY <1>1, <1>2, <1>3, <1>5, <1>7 DEF OneAtATime, HandlesThere, Recreating
<1>10. packet.signal = signal /\ packet.state = "running"
  BY DEF packet
<1>11. SignalCounts'
  BY <1>1, <1>3, <1>7, <1>10 DEF SignalCounts, Packet
<1>12. ReturnsOwnResult' /\ FailedLoadsLeaveNothing'
  <2>1. DOMAIN returned = 1..Launched
    BY <1>3, LenProperties DEF IInv, TypeOK
  <2>. QED
    BY <1>1, <1>7, <2>1 DEF IInv, ReturnsOwnResult, FailedLoadsLeaveNothing
<1>13. ASSUME NEW l, l = launch PROVE RunsAlone(l)'
  <2>1. kernel \in executables \/ uninitialized # {}
    <3>. SUFFICES ASSUME uninitialized = {} PROVE cobjects \ executables = {}
      BY <1>1
    <3>1. IsFiniteSet(cobjects \ executables) /\ Cardinality(cobjects \ executables) <= 0
      BY LoadsFinite, FS_EmptySet DEF IInv, TypeOK, FailedLoadsLeaveNothing
    <3>. QED
      BY <3>1, FS_EmptySet, FS_CardinalityType
  <2>2. /\ packet.kernarg = kernarg' /\ packet.args = args /\ packet.buffers = buffers
        /\ packet.kernel = kernel
    BY DEF packet
  <2>. QED
    BY <1>1, <1>3, <1>5, <1>7, <1>10, <1>13, <2>1, <2>2 DEF RunsAlone
<1>14. \A l \in 1..Launched : RunsAlone(l)'
  BY <1>2, <1>3, <1>7 DEF RunsAlone
<1>15. ASSUME NEW l \in DOMAIN packets' PROVE RunsAlone(l)'
  <2>1. l = launch \/ l \in 1..Launched
    BY <1>2, <1>7
  <2>. QED
    BY <1>13, <1>14, <2>1
<1>. QED
  BY <1>7, <1>8, <1>9, <1>11, <1>12, <1>15 DEF IInv

\* The packets of the queue are aborted.
LEMMA AbortStep ==
    ASSUME IInv, packets' = Aborted,
           UNCHANGED <<signal, signals, argVars, buffers, kernelVars, clocks, returned>>,
           \/ pc = "inactivate" /\ pc' = "signal_destroy" /\ queue' = "inactive"
           \/ pc = "queue_destroy" /\ pc' = "queue_create" /\ queue' = "none"
    PROVE  IInv'
<1>. USE DEF argVars, kernelVars
<1>1. /\ SamePackets
      /\ \A l \in DOMAIN packets :
           /\ packets'[l].state # "running"
           /\ packets[l].state # "running" => packets'[l].state = packets[l].state
  BY AbortedAll
<1>2. DOMAIN returned \subseteq DOMAIN packets
  BY PacketAt DEF IInv, TypeOK
<1>3. TypeOK' /\ OneAtATime' /\ HandlesThere' /\ SignalCounts'
  BY <1>1, LabelsAfterTimeout
  DEF IInv, TypeOK, OneAtATime, HandlesThere, SignalCounts, SamePackets, Recreating
<1>4. ReturnsOwnResult' /\ FailedLoadsLeaveNothing'
  BY <1>1, <1>2 DEF IInv, ReturnsOwnResult, FailedLoadsLeaveNothing
<1>. QED
  BY <1>1, <1>3, <1>4 DEF IInv, RunsAlone, SamePackets

\* The queue and the signal are destroyed and made again, and the launch returns.
LEMMA RecreateStep ==
    ASSUME IInv, inactivate \/ signal_destroy \/ queue_destroy \/ queue_create \/ signal_create
    PROVE  IInv'
<1>. USE DEF queueVars, argVars, kernelVars, runVars, Recreate, CHECK
<1>. DEFINE fails == pc \in Recreating /\ pc' = "exited"
<1>1. CASE fails
  <2>1. UNCHANGED <<queueVars, argVars, buffers, kernelVars, packets, clocks, returned>>
    BY <1>1 DEF inactivate, signal_destroy, queue_destroy, queue_create, signal_create
  <2>2. clocks' \in Nat
    BY <2>1 DEF IInv, TypeOK
  <2>. QED
    BY <1>1, <2>1, <2>2, PcMoves
<1>2. CASE inactivate /\ ~fails
  <2>1. pc = "inactivate" /\ pc' = "signal_destroy"
    BY <1>2, AfterEach DEF inactivate, Recreating
  <2>. QED
    BY <1>2, <2>1, AbortStep DEF inactivate
<1>3. CASE queue_destroy /\ ~fails
  <2>1. pc = "queue_destroy" /\ pc' = "queue_create"
    BY <1>3, AfterEach DEF queue_destroy, Recreating
  <2>. QED
    BY <1>3, <2>1, AbortStep DEF queue_destroy
<1>4. \A l \in DOMAIN packets :
         pc \in Recreating \ {"inactivate"} => packets[l].state # "running"
  BY DEF IInv, RunsAlone, Recreating
<1>5. CASE signal_destroy /\ ~fails
  <2>1. pc = "signal_destroy" /\ pc' = "queue_destroy"
    BY <1>5, AfterEach DEF signal_destroy, Recreating
  <2>2. DOMAIN signals' = {} /\ signals' \in [{} -> Int]
    BY <1>5, <2>1 DEF signal_destroy, IInv, TypeOK, Restrict
  <2>3. UNCHANGED <<queue, signal, argVars, buffers, kernelVars, runVars>>
    BY <1>5 DEF signal_destroy
  <2>4. TypeOK' /\ OneAtATime' /\ HandlesThere' /\ SignalCounts'
    BY <2>1, <2>2, <2>3, LabelsAfterTimeout
    DEF IInv, TypeOK, OneAtATime, HandlesThere, SignalCounts, Recreating, Launched
  <2>. QED
    BY <1>4, <2>1, <2>3, <2>4
    DEF IInv, RunsAlone, ReturnsOwnResult, FailedLoadsLeaveNothing, Recreating
<1>6. CASE queue_create /\ ~fails
  <2>1. pc = "queue_create" /\ pc' = "signal_create" /\ queue' = "active"
    BY <1>6, AfterEach DEF queue_create, Recreating
  <2>2. UNCHANGED <<signal, signals, argVars, buffers, kernelVars, runVars>>
    BY <1>6 DEF queue_create
  <2>3. TypeOK' /\ OneAtATime' /\ HandlesThere' /\ SignalCounts'
    BY <2>1, <2>2, LabelsAfterTimeout
    DEF IInv, TypeOK, OneAtATime, HandlesThere, SignalCounts, Recreating, Launched
  <2>. QED
    BY <1>4, <2>1, <2>2, <2>3
    DEF IInv, RunsAlone, ReturnsOwnResult, FailedLoadsLeaveNothing, Recreating
<1>7. CASE signal_create /\ ~fails
  <2>1. pc = "signal_create" /\ pc' = "ready"
    BY <1>7, AfterEach DEF signal_create, Recreating
  <2>2. /\ signal' = signal + 1 /\ signals' = WithSignal(signal')
        /\ returned' = Append(returned, FALSE)
        /\ UNCHANGED <<queue, argVars, buffers, kernelVars, packets, clocks>>
    BY <1>7, <2>1 DEF signal_create
  <2>3. signal \in Nat /\ DOMAIN signals = {} /\ queue = "active" /\ Launched = Len(returned) + 1
    BY <2>1 DEF IInv, TypeOK, HandlesThere, OneAtATime, Recreating
  <2>4. DOMAIN signals' = {signal'} /\ signals'[signal'] = 1 /\ signals' \in [{signal'} -> Int]
    BY <2>2, <2>3 DEF WithSignal
  <2>5. /\ Len(returned) \in Nat /\ DOMAIN returned = 1..Len(returned)
        /\ returned' \in Seq(BOOLEAN) /\ Len(returned') = Len(returned) + 1
        /\ DOMAIN returned' = 1..(Len(returned) + 1)
        /\ returned'[Len(returned) + 1] = FALSE
        /\ \A l \in DOMAIN returned : returned'[l] = returned[l]
    BY <2>2, Returning
  <2>6. TypeOK'
    BY <2>1, <2>2, <2>3, <2>4, <2>5 DEF IInv, TypeOK, Launched
  <2>7. OneAtATime' /\ HandlesThere' /\ SignalCounts'
    BY <2>1, <2>2, <2>3, <2>4, <2>5
    DEF IInv, OneAtATime, HandlesThere, SignalCounts, Recreating, Launched
  <2>8. ReturnsOwnResult'
    <3>. SUFFICES ASSUME NEW l \in DOMAIN returned', returned'[l]
                  PROVE  packets[l].state = "completed"
      BY <2>2 DEF ReturnsOwnResult
    <3>1. l \in DOMAIN returned
      BY <2>5
    <3>. QED
      BY <2>5, <3>1 DEF IInv, ReturnsOwnResult
  <2>. QED
    BY <1>4, <2>1, <2>2, <2>6, <2>7, <2>8
    DEF IInv, RunsAlone, FailedLoadsLeaveNothing, Recreating
<1>. QED
  BY <1>1, <1>2, <1>3, <1>5, <1>6, <1>7

----------------------------------------------------------------------------
(* The theorems                                                            *)

LEMMA NextKeepsIInv == IInv /\ [Next]_vars => IInv'
<1>. SUFFICES ASSUME IInv, [Next]_vars PROVE IInv'
  OBVIOUS
<1>. USE DEF queueVars, argVars, kernelVars, runVars
<1>1. CASE UNCHANGED vars
  <2>1. clocks' \in Nat
    BY <1>1 DEF vars, IInv, TypeOK
  <2>. QED
    BY <1>1, <2>1, PcMoves DEF vars
<1>2. clocks \in Nat
  BY DEF IInv, TypeOK
<1>3. CASE shutdown \/ RunKernelExits \/ WaitTimedOut
  <2>1. /\ UNCHANGED <<queueVars, argVars, buffers, kernelVars, packets, clocks, returned>>
        /\ \/ pc \in {"ready", "failed"} /\ pc' \in {"down", "exited"}
           \/ pc = "waiting" /\ pc' = AfterTimeout[1]
    BY <1>3 DEF shutdown, RunKernelExits, WaitTimedOut
  <2>2. AfterTimeout[1] = "inactivate"
    BY DEF AfterTimeout
  <2>. QED
    BY <1>2, <2>1, <2>2, PcMoves
<1>4. CASE Tick
  <2>1. clocks' \in Nat /\ pc' = pc
        /\ UNCHANGED <<queueVars, argVars, buffers, kernelVars, packets, returned>>
    BY <1>2, <1>4 DEF Tick
  <2>. QED
    BY <2>1, PcMoves
<1>5. CASE init
  BY <1>5, InitStep
<1>6. CASE \E buffer \in Buffers : allocate_gpumem(buffer) \/ free_gpumem(buffer)
  BY <1>6, BufferStep
<1>7. CASE load_kernel_from_memory
  BY <1>7, LoadStep
<1>8. CASE Launch
  BY <1>8, LaunchStep DEF Launch
<1>9. CASE WaitSatisfied
  BY <1>9, ReturnStep
<1>10. CASE inactivate \/ signal_destroy \/ queue_destroy \/ queue_create \/ signal_create
  BY <1>10, RecreateStep
<1>11. CASE \E launch \in DOMAIN packets : Complete(launch)
  BY <1>11, CompleteStep
<1>. QED
  BY <1>1, <1>3, <1>4, <1>5, <1>6, <1>7, <1>8, <1>9, <1>10, <1>11
  DEF Next, InsideRunKernel

LEMMA InitHasIInv == Init => IInv
<1>. SUFFICES ASSUME Init PROVE IInv
  OBVIOUS
<1>1. /\ packets = <<>> /\ returned = <<>> /\ signals = <<>> /\ kernargs = <<>>
      /\ pc = "new" /\ queue = "none" /\ signal = 0 /\ kernarg = 0 /\ kernarg_size = 0
      /\ buffers = {} /\ cobjects = {} /\ executables = {} /\ codeObjects = {}
      /\ loads = 0 /\ uninitialized = {} /\ clocks = 0
  BY DEF Init
<1>2. DOMAIN <<>> = {} /\ Len(<<>>) = 0 /\ <<>> \in Seq(PacketType) /\ <<>> \in Seq(BOOLEAN)
      /\ <<>> \in [DOMAIN <<>> -> Int]
  OBVIOUS
<1>3. TypeOK
  <2>1. Launched = 0 /\ 0 <= MaxLaunches /\ 0 \in 0..MaxLoads
    BY <1>1, <1>2, DispatcherAssumption DEF Launched
  <2>2. DOMAIN signals = {} /\ signals \in [DOMAIN signals -> Int]
    BY <1>1, <1>2
  <2>3. DOMAIN kernargs = {} /\ Range(kernargs) = {}
    BY <1>1, <1>2 DEF Range
  <2>4. returned \in Seq(BOOLEAN) /\ Len(returned) = 0
    BY <1>1, <1>2
  <2>5. /\ pc = "new" /\ queue = "none" /\ signal = 0 /\ kernarg = 0 /\ kernarg_size = 0
        /\ buffers = {} /\ cobjects = {} /\ executables = {} /\ codeObjects = {}
        /\ loads = 0 /\ uninitialized = {} /\ clocks = 0
    BY <1>1
  <2>. HIDE DEF Init
  <2>. QED
    <3>1. uninitialized \subseteq 1..loads
      BY <2>5
    <3>2. DOMAIN signals \subseteq {signal} /\ DOMAIN kernargs \subseteq {kernarg}
      BY <2>2, <2>3
    <3>3. kernarg \in 0..Launched /\ Range(kernargs) \subseteq 0..Launched
      BY <2>1, <2>3, <2>5
    <3>4. cobjects \cup executables \cup codeObjects \subseteq 1..loads
      BY <2>5
    <3>. QED
      BY <2>1, <2>2, <2>4, <2>5, <3>1, <3>2, <3>3, <3>4 DEF TypeOK
<1>4. FailedLoadsLeaveNothing
  <2>1. cobjects \ executables = {} /\ cobjects \ codeObjects = {} /\ Cardinality({}) = 0
    BY <1>1, FS_EmptySet
  <2>. QED
    BY <1>1, <2>1 DEF FailedLoadsLeaveNothing
<1>. QED
  BY <1>1, <1>2, <1>3, <1>4
  DEF IInv, OneAtATime, HandlesThere, SignalCounts, ReturnsOwnResult, Launched, Recreating

LEMMA IInvCorrect == Spec => []IInv
BY InitHasIInv, NextKeepsIInv, PTL DEF Spec

\* TypeOK holds in every reachable state: no more than the current signal and the
\* current block for arguments is ever allocated.
THEOREM DispatcherTypeCorrect == Spec => []TypeOK
<1>1. IInv => TypeOK
  BY DEF IInv
<1>. QED
  BY <1>1, IInvCorrect, PTL

\* ReturnsOwnResult: a launch that returns true has run its own kernel to the end,
\* whatever became of the launches before it, their timeouts and signals.
THEOREM LaunchesReturnOwnResult == Spec => []ReturnsOwnResult
<1>1. IInv => ReturnsOwnResult
  BY DEF IInv
<1>. QED
  BY <1>1, IInvCorrect, PTL

\* HandlesThere: the queue, the signal and the block for arguments are there when
\* a launch or the teardown after a timeout uses them, are destroyed once, and are
\* not made over ones that are there.
THEOREM HandlesAlwaysThere == Spec => []HandlesThere
<1>1. IInv => HandlesThere
  BY DEF IInv
<1>. QED
  BY <1>1, IInvCorrect, PTL

\* RunningKernelsWhole: a running kernel keeps its signal, arguments and buffers,
\* also while the queue it was given up on is taken down, and its code, unless a
\* load has failed before it had both its handles.
THEOREM KernelsWhole == Spec => []RunningKernelsWhole
<1>1. IInv => RunningKernelsWhole
  BY DEF IInv, RunsAlone, RunningKernelsWhole
<1>. QED
  BY <1>1, IInvCorrect, PTL

\* FailedLoadsLeaveNothing: no executable of a failed load stays, nor a code object
\* if the load got as far as an executable; a load that failed before may have left
\* its code object, and has destroyed at most one executable and one code object of
\* kernels.
THEOREM FailedLoadsCleaned == Spec => []FailedLoadsLeaveNothing
<1>1. IInv => FailedLoadsLeaveNothing
  BY DEF IInv
<1>. QED
  BY <1>1, IInvCorrect, PTL
====
