---------------------------- MODULE OffloadRuntime ----------------------------
(***************************************************************************)
(* The rewritten application.  After the ScopDependency pass has fixed the *)
(* transfer type of every argument of every SCoP call, each call is        *)
(* replaced by a wrapper that decides for an accelerator, cleans the       *)
(* accelerator it leaves, and runs the SCoP either on the host or as an    *)
(* OpenCL kernel on device buffers that stay on the device between calls.  *)
(*                                                                         *)
(* The rewritten program is one thread, so stage is its control state:     *)
(*   "call"     before the statement pc                                    *)
(*   "cleanup"  in the wrapper, decision taken                             *)
(*   "legacy"   in its legacy_block                                        *)
(*   "transfer" in its accelerated_block, before argument arg              *)
(*   "release"  behind the wrapper                                         *)
(*   "crashed"  a device that does not exist was dereferenced              *)
(***************************************************************************)
EXTENDS ScopDependency, KernelEffects, AcceleratorDecision

CONSTANTS
  Targets,          (* the --target options: "NONE" or an accelerator      *)
  Enabled,          (* the devices built in with -DENABLE_...              *)
  MaybeUnavailable, (* the devices whose isAvailable may answer false      *)
  THRESHOLD,        (* the number of elements that is big data             *)
  Frames,           (* how often the application calls the SCoP parent     *)
  NoBuffer          (* the NULL of getBuffer                               *)

ASSUME TargetsAssumption == Targets \subseteq Accelerators \cup {"NONE"}
ASSUME EnabledAssumption == Enabled \subseteq Devices
ASSUME AvailabilityAssumption == MaybeUnavailable \subseteq Enabled
ASSUME NumbersAssumption == THRESHOLD \in Nat /\ Frames \in Nat \ {0}
ASSUME SizesAssumption ==
  \A p \in Programs : \A i \in DOMAIN p : \A a \in DOMAIN p[i].args :
    p[i].args[a].size <= MaxSize

VARIABLES
  target,      (* HTROPClient::target                                      *)
  pc, stage, arg, frame,
  current,     (* runtimeDecision_Handle->currentAcelerator                *)
  previous,    (* runtimeDecision_Handle->previousAcelerator               *)
  bufferList,  (* OpenCLDevice::bufferList of every device                 *)
  hostMem,     (* host memory                                              *)
  seen         (* what the last statement read                             *)

runtimeVars == <<target, pc, stage, arg, frame, current, previous,
                 bufferList, hostMem, seen>>
vars == <<passVars, runtimeVars>>

NoBuffers == [v \in Values |-> NoBuffer]

(* initOpenCLDevices *)
RuntimeInit ==
  /\ target \in Targets
  /\ pc = 1 /\ stage = "call" /\ arg = 1 /\ frame = 1
  /\ current = "LEG" /\ previous = "LEG"
  /\ bufferList = [d \in Devices |-> NoBuffers]
  /\ hostMem = [v \in Values |-> [c \in Element |-> 0]]
  /\ seen = << >>

(* The rewritten program runs when the pass is done. *)
At(s) == phase = "done" /\ stage = s
Time  == frame * Len(program) + pc

(* An argument no access refers to has isPointer = false. *)
Pointers(i) == {a \in ArgsOf(i) : TypeOf(i, a) # "UNKNOWN"}

(* The runtime decision *)

getBuffer(d, v) == IF d \in Enabled THEN bufferList[d][v] ELSE NoBuffer

(* bonusIfOnDevice adds to the first device that has the buffer. *)
FoundOn(v) ==
  CASE getBuffer("MCPU", v) # NoBuffer -> "MCPU"
    [] OTHER -> CASE getBuffer("GPU", v) # NoBuffer -> "GPU"
                  [] OTHER -> CASE getBuffer("MIC", v) # NoBuffer -> "MIC"
                                [] OTHER -> "none"

HeldArguments ==
  [d \in Devices |-> Cardinality({a \in Pointers(pc) : FoundOn(ValueOf(pc, a)) = d})]

(* addToSum over the pointer arguments. *)
sum == MapThenSumSet(LAMBDA a : SizeOf(pc, a), Pointers(pc))

(* compileForDevice dereferences the device, which is NULL for the host    *)
(* and for a device that is not built in.                                  *)
HasDevice(a) == a \in Enabled

DecideAtRuntime ==
  /\ At("call") /\ pc <= Len(program) /\ IsScop(pc)
  /\ target = "NONE"
  /\ \E unavailable \in SUBSET MaybeUnavailable :
       current' = decideWhichAccelerator(
                    calculateBonus(current, HeldArguments, sum > THRESHOLD, unavailable))
  /\ previous' = current
  /\ stage' = IF current' # current /\ ~HasDevice(current') THEN "crashed" ELSE "cleanup"
  /\ UNCHANGED <<passVars, target, pc, arg, frame, bufferList, hostMem, seen>>

(* Mutant: a wrapper for target NONE calls it, too. *)
staticDecisionAlways ==
  /\ At("call") /\ pc <= Len(program) /\ IsScop(pc)
  /\ current' = target
  /\ previous' = current
  /\ stage' = "cleanup"
  /\ UNCHANGED <<passVars, target, pc, arg, frame, bufferList, hostMem, seen>>

staticDecision ==
  /\ At("call") /\ pc <= Len(program) /\ IsScop(pc)
  /\ target # "NONE"
  /\ current' = target
  /\ previous' = current
  /\ stage' = IF current' # "LEG" /\ ~HasDevice(current') THEN "crashed" ELSE "cleanup"
  /\ UNCHANGED <<passVars, target, pc, arg, frame, bufferList, hostMem, seen>>

(* Device buffers *)

(* The host memory after the buffers of d that are not IN are copied back. *)
ReadBack(d) ==
  [v \in Values |->
     LET b == bufferList[d][v] IN
     IF b = NoBuffer \/ ~WrittenBack(b.type) THEN hostMem[v]
     ELSE [c \in Element |-> IF c <= Len(b.data) THEN b.data[c] ELSE hostMem[v][c]]]

(* Mutant: the buffers are released but nothing is copied back. *)
cleanUpBuffersWithoutCopy(d) ==
  /\ bufferList' = [bufferList EXCEPT ![d] = NoBuffers]
  /\ UNCHANGED hostMem

(* OpenCLDevice::cleanUpBuffers *)
cleanUpBuffers(d) ==
  /\ bufferList' = [bufferList EXCEPT ![d] = NoBuffers]
  /\ hostMem' = ReadBack(d)

cleanUpBuffers_Device(a) ==
  IF a \in Enabled THEN cleanUpBuffers(a) ELSE UNCHANGED <<bufferList, hostMem>>

(* Mutant: the new accelerator is cleaned instead of the one left. *)
CleanupBuffersOfCurrent ==
  /\ At("cleanup")
  /\ IF previous # current THEN cleanUpBuffers_Device(current)
                           ELSE UNCHANGED <<bufferList, hostMem>>
  /\ stage' = IF current = "LEG" THEN "legacy" ELSE "transfer"
  /\ arg' = 1
  /\ UNCHANGED <<passVars, target, pc, frame, current, previous, seen>>

(* cleanupBuffers, then the branch on isLegacy. *)
CleanupBuffers ==
  /\ At("cleanup")
  /\ IF previous # current THEN cleanUpBuffers_Device(previous)
                           ELSE UNCHANGED <<bufferList, hostMem>>
  /\ stage' = IF current = "LEG" THEN "legacy" ELSE "transfer"
  /\ arg' = 1
  /\ UNCHANGED <<passVars, target, pc, frame, current, previous, seen>>

(* A buffer has the optimized type of the call, but the size its own SCoP  *)
(* needs.                                                                  *)
createAndPopulateBuffer(i, a) ==
  LET type == typeOptimized[i][a] IN
  [type |-> type,
   data |-> [c \in 1 .. SizeOf(i, a) |->
               IF Uploaded(type) THEN hostMem[ValueOf(i, a)][c] ELSE Undef]]

(* Mutant: a buffer on the device is created anew. *)
TransferToDeviceAlways ==
  /\ At("transfer") /\ arg \in ArgsOf(pc)
  /\ IF arg \in Pointers(pc)
       THEN bufferList' = [bufferList EXCEPT ![current][ValueOf(pc, arg)] =
                             createAndPopulateBuffer(pc, arg)]
       ELSE UNCHANGED bufferList
  /\ arg' = arg + 1
  /\ UNCHANGED <<passVars, target, pc, stage, frame, current, previous, hostMem, seen>>

(* transferToDevice for the next argument. *)
TransferToDevice ==
  /\ At("transfer") /\ arg \in ArgsOf(pc)
  /\ IF arg \in Pointers(pc) /\ bufferList[current][ValueOf(pc, arg)] = NoBuffer
       THEN bufferList' = [bufferList EXCEPT ![current][ValueOf(pc, arg)] =
                             createAndPopulateBuffer(pc, arg)]
       ELSE UNCHANGED bufferList
  /\ arg' = arg + 1
  /\ UNCHANGED <<passVars, target, pc, stage, frame, current, previous, hostMem, seen>>

(* Running a statement *)

(* A kernel sees the buffers; elements beyond the end of one are undefined. *)
DeviceMemory(d) ==
  [v \in Values |-> [c \in Element |->
     LET b == bufferList[d][v] IN
     IF b # NoBuffer /\ c \in DOMAIN b.data THEN b.data[c] ELSE Undef]]

(* The buffers held by a device after a kernel left result in its memory. *)
WithContents(held, result) ==
  [v \in Values |->
     IF held[v] = NoBuffer THEN NoBuffer
     ELSE [type |-> held[v].type, data |-> [c \in DOMAIN held[v].data |-> result[v][c]]]]

(* executeOCLKernel.  The OpenCL calls are finished before it returns.     *)
ExecuteKernel ==
  /\ At("transfer") /\ arg \notin ArgsOf(pc)
  /\ bufferList' = [bufferList EXCEPT ![current] =
       WithContents(@, Effect(DeviceMemory(current), program[pc], Time))]
  /\ seen' = Observed(DeviceMemory(current), program[pc])
  /\ stage' = "release"
  /\ UNCHANGED <<passVars, target, pc, arg, frame, current, previous, hostMem>>

(* The legacy_block calls the original SCoP. *)
RunLegacy ==
  /\ At("legacy")
  /\ hostMem' = Effect(hostMem, program[pc], Time)
  /\ seen' = Observed(hostMem, program[pc])
  /\ stage' = "release"
  /\ UNCHANGED <<passVars, target, pc, arg, frame, current, previous, bufferList>>

LastScop == Max({i \in DOMAIN program : IsScop(i)})

(* Leaves the wrapper. *)
Return ==
  /\ At("release")
  /\ stage' = "call"
  /\ pc' = pc + 1
  /\ UNCHANGED <<passVars, target, arg, frame, current, previous, seen>>

(* Mutant: an interrupted chain keeps its buffers until its last call. *)
ReleaseAtLastScopOnly ==
  /\ Return
  /\ IF pc = LastScop THEN cleanUpBuffers_Device(current)
                      ELSE UNCHANGED <<bufferList, hostMem>>

(* Mutant: the final cleanup comes before the last wrapper. *)
ReleaseBeforeLastScop ==
  /\ Return
  /\ IF flag_chain_interrupt \/ pc = LastScop - 1
       THEN cleanUpBuffers_Device(current) ELSE UNCHANGED <<bufferList, hostMem>>

(* In a chain that is interrupted a cleanUpBuffers_Device call follows     *)
(* every wrapper.                                                          *)
ReleaseInterrupted ==
  /\ flag_chain_interrupt
  /\ cleanUpBuffers_Device(current)

(* In one that is not, it follows the last wrapper. *)
ReleaseLast ==
  /\ ~flag_chain_interrupt
  /\ IF pc = LastScop THEN cleanUpBuffers_Device(current)
                      ELSE UNCHANGED <<bufferList, hostMem>>

Release == Return /\ (ReleaseInterrupted \/ ReleaseLast)

(* The rest of the application *)

RunHostCode ==
  /\ At("call") /\ pc <= Len(program) /\ ~IsScop(pc)
  /\ hostMem' = Effect(hostMem, program[pc], Time)
  /\ seen' = Observed(hostMem, program[pc])
  /\ pc' = pc + 1
  /\ UNCHANGED <<passVars, target, stage, arg, frame, current, previous, bufferList>>

CallParentAgain ==
  /\ At("call") /\ pc > Len(program)
  /\ frame < Frames
  /\ pc' = 1
  /\ frame' = frame + 1
  /\ UNCHANGED <<passVars, target, stage, arg, current, previous, bufferList, hostMem, seen>>

Finished == At("call") /\ pc > Len(program) /\ frame = Frames

(* The application has ended, one way or the other. *)
Stop ==
  /\ Finished \/ At("crashed")
  /\ UNCHANGED vars

RunPass == PassNext /\ UNCHANGED runtimeVars

Wrapper ==
  \/ DecideAtRuntime \/ staticDecision \/ CleanupBuffers
  \/ TransferToDevice \/ ExecuteKernel \/ RunLegacy \/ Release

Init == PassInit /\ RuntimeInit
Step == RunPass \/ Wrapper \/ RunHostCode \/ CallParentAgain
Next == Step \/ Stop

Spec == Init /\ [][Next]_vars
FairSpec == Spec /\ WF_vars(Step)
-----------------------------------------------------------------------------
Stage == {"call", "cleanup", "legacy", "transfer", "release", "crashed"}
Buffer ==
  {b \in [type : DataTransferType, data : Seq(Data)] : Len(b.data) <= MaxSize}

ASSUME NoBufferAssumption == NoBuffer \notin Buffer

RuntimeTypeOK ==
  /\ target \in Targets
  /\ pc \in 1 .. Len(program) + 1
  /\ stage \in Stage
  /\ arg \in Nat \ {0}
  /\ frame \in 1 .. Frames
  /\ current \in Accelerators /\ previous \in Accelerators
  /\ bufferList \in [Devices -> [Values -> Buffer \cup {NoBuffer}]]
  /\ hostMem \in [Values -> [Element -> Data]]

(* The accelerator the wrapper has not cleaned yet, if it has to. *)
HoldingDevice == IF stage \in {"cleanup", "crashed"} THEN previous ELSE current

(* At most one device holds buffers, and it is the one the next cleanup    *)
(* looks at, so no buffer is left behind on a switch with a newer host     *)
(* copy beside it (registerOpenCL.cpp:654, :412).                          *)
BuffersOnlyOnHolder ==
  \A d \in Devices : d # HoldingDevice => bufferList[d] = NoBuffers

(* A buffer of type IN is released without being copied back, so no kernel *)
(* of the chain may ever change it, nor the host its origin, while it is   *)
(* on the device (openCLDevice.cpp:273, scopdependency.cpp:143).           *)
ReadOnlyBuffersMatchHost ==
  \A d \in Devices, v \in Values :
    LET b == bufferList[d][v] IN
    b # NoBuffer /\ b.type = "IN" => \A c \in DOMAIN b.data : b.data[c] = hostMem[v][c]

(* "If flag is raised [...] the data is always written-back"               *)
(* (scopdependency.h:81), and without the flag it is after the last call:  *)
(* the code behind a released call finds nothing on a device.              *)
NothingLeftOnDevice ==
  At("call") /\ (flag_chain_interrupt \/ \A i \in DOMAIN program : IsScop(i) => i < pc) =>
    \A d \in Devices : bufferList[d] = NoBuffers

(* A buffer is created with the size its first call needs and kept for the *)
(* calls to come: when a kernel starts, every buffer it is given is there  *)
(* and has all the elements the kernel may touch, so that none is read or  *)
(* written behind its end, where OpenCL checks nothing                     *)
(* (htropclient.cpp:1197, registerOpenCL.cpp:578).                         *)
KernelStaysInBuffers ==
  At("transfer") /\ arg \notin ArgsOf(pc) =>
    \A a \in Pointers(pc) :
      LET b == bufferList[current][ValueOf(pc, a)] IN
      b # NoBuffer /\ SizeOf(pc, a) <= Len(b.data)

(* Memory as the original program would see it: an element is where it was *)
(* written last.                                                           *)
LogicalMem ==
  IF HoldingDevice = "LEG" THEN hostMem
  ELSE [v \in Values |-> [c \in Element |->
          LET onDevice == DeviceMemory(HoldingDevice)[v][c] IN
          IF onDevice = Undef THEN hostMem[v][c] ELSE onDevice]]
LogicalPc == IF stage = "release" THEN pc + 1 ELSE pc

(* The rewritten application does what the original does: every statement, *)
(* wherever it runs, reads and writes what it would have on the host       *)
(* (htropclient.cpp:1023).                                                 *)
Original == INSTANCE SequentialProgram WITH pc <- LogicalPc, mem <- LogicalMem
ImplementsOriginal == Original!Spec

(* With all devices built in, no decision leads to a missing device        *)
(* (registerOpenCL.cpp:195, :316).                                         *)
NoMissingDevice == stage # "crashed"

(* A program that was moved to a device stays there: the bonus for the     *)
(* last accelerator outweighs the penalty for small data, so buffers do    *)
(* not travel back and forth (registerOpenCL.cpp:357).                     *)
SwitchesOnlyFromHost ==
  [][target = "NONE" /\ current' # current => current = "LEG"]_vars

(* What is put on a device does come back from it, however the decisions   *)
(* fall and wherever the chain ends, unless the application has crashed    *)
(* (htropclient.cpp:1372).                                                 *)
BuffersAreReleased ==
  \A d \in Devices :
    (bufferList[d] # NoBuffers) ~> (bufferList[d] = NoBuffers \/ stage = "crashed")
-----------------------------------------------------------------------------
(* The programs HTrOP rewrites faithfully *)

Shared(s, t) ==
  {ab \in (DOMAIN s.args) \X (DOMAIN t.args) : s.args[ab[1]].value = t.args[ab[2]].value}

(* Host code that the pass does not notice between two calls does not      *)
(* touch what is on the device.                                            *)
HostCodeApart(p) ==
  ChainInterrupted(p) \/
  \A i, k, j \in DOMAIN p :
    i < k /\ k < j /\ p[i].kind = "scop" /\ p[k].kind # "scop" /\ p[j].kind = "scop" =>
      \A ab \in Shared(p[i], p[k]) :
        ~Writes(p[i].args[ab[1]].type) /\ ~Writes(p[k].args[ab[2]].type)

(* No call needs more of a buffer than an earlier one, unless every call   *)
(* has buffers of its own.                                                 *)
SizesDoNotGrow(p) ==
  ChainInterrupted(p) \/
  \A i, j \in DOMAIN p : i < j /\ p[i].kind = "scop" /\ p[j].kind = "scop" =>
    \A ab \in Shared(p[i], p[j]) : p[j].args[ab[2]].size <= p[i].args[ab[1]].size

(* Every argument a SCoP only writes, it writes completely. *)
OutputsCovered(p) ==
  \A i \in DOMAIN p : p[i].kind = "scop" =>
    \A a \in DOMAIN p[i].args : p[i].args[a].type = "OUT" => p[i].args[a].covers

Offloadable(p) == Regular(p) /\ HostCodeApart(p) /\ SizesDoNotGrow(p) /\ OutputsCovered(p)
=============================================================================
