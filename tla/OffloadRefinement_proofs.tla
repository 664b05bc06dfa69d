----------------------- MODULE OffloadRefinement_proofs -----------------------
(***************************************************************************)
(* The rewritten application does what the original does, for programs of  *)
(* any length that are Offloadable, any devices, any targets and any       *)
(* decisions: every step of OffloadRuntime is a step of SequentialProgram  *)
(* under the refinement mapping, or leaves what it sees alone.  No kernel  *)
(* starts with a buffer that is smaller than what it may touch.            *)
(***************************************************************************)
EXTENDS OffloadRuntime_proofs

AllOffloadable == \A p \in Programs : Offloadable(p)

(* Element c of v is in a buffer of d, and what is in it. *)
Holds(d, v, c)   == bufferList[d][v] # NoBuffer /\ c \in DOMAIN bufferList[d][v].data
Content(d, v, c) == bufferList[d][v].data[c]

HostDefined == \A v \in Values : \A c \in Element : hostMem[v][c] # Undef

(* The kernel that is about to run is one that writes the element. *)
WillBeWritten(v, c) ==
  /\ stage = "transfer"
  /\ \E b \in ArgsOf(pc) :
       ValueOf(pc, b) = v /\ TypeOf(pc, b) = "OUT" /\ c <= SizeOf(pc, b)

(* Only the kernel for which a buffer was created finds it undefined. *)
UndefinedIsOutput ==
  \A d \in Devices : \A v \in Values : \A c \in Element :
    Holds(d, v, c) /\ Content(d, v, c) = Undef => WillBeWritten(v, c)

(* A buffer has all elements that the calls it is kept for need. *)
LargeEnough ==
  \A d \in Devices : \A v \in Values :
    bufferList[d][v] # NoBuffer =>
      \A j \in DOMAIN program : \A b \in ArgsOf(j) :
        j >= pc /\ (flag_chain_interrupt => j = pc) /\ IsScop(j) /\ ValueOf(j, b) = v =>
          SizeOf(j, b) <= Len(bufferList[d][v].data)

TransferredSoFar ==
  stage = "transfer" =>
    \A b \in ArgsOf(pc) : b < arg => bufferList[current][ValueOf(pc, b)] # NoBuffer

HasRun(i) == i <= pc /\ (i = pc => stage = "release")

WrittenByCall(v) ==
  \E i \in DOMAIN program : \E a \in ArgsOf(i) :
    IsScop(i) /\ HasRun(i) /\ ValueOf(i, a) = v /\ Writes(TypeOf(i, a))

(* Contents differ from the host's only if a SCoP has written them. *)
ChangesAreOutput ==
  \A d \in Devices : \A v \in Values : \A c \in Element :
    Holds(d, v, c) =>
      Content(d, v, c) = Undef \/ Content(d, v, c) = hostMem[v][c] \/ WrittenByCall(v)

ContentsInv ==
  /\ HostDefined /\ UndefinedIsOutput /\ LargeEnough /\ ChangesAreOutput

RefineInv == BufferInv /\ ContentsInv /\ TransferredSoFar
-----------------------------------------------------------------------------
LEMMA OffloadableIsTame ==
  ASSUME AllOffloadable
  PROVE  Tame
BY DEF AllOffloadable, Tame, Offloadable

LEMMA ProgramIsOffloadable ==
  ASSUME AllOffloadable, RefineInv
  PROVE  Offloadable(program)
BY DEF AllOffloadable, RefineInv, BufferInv, RuntimeInv, ControlInv

(* What is in a buffer has a place in memory. *)
LEMMA BufferElements ==
  ASSUME RuntimeTypeOK, NEW d \in Devices, NEW v \in Values, bufferList[d][v] # NoBuffer
  PROVE  /\ bufferList[d][v] \in Buffer
         /\ Len(bufferList[d][v].data) \in Nat
         /\ DOMAIN bufferList[d][v].data = 1 .. Len(bufferList[d][v].data)
         /\ DOMAIN bufferList[d][v].data \subseteq Element
         /\ \A c \in Element : Holds(d, v, c) <=> c <= Len(bufferList[d][v].data)
<1> DEFINE b == bufferList[d][v]
<1>1. b \in Buffer
  BY DEF RuntimeTypeOK
<1>2. b.data \in Seq(Data) /\ Len(b.data) <= MaxSize
  BY <1>1 DEF Buffer
<1>3. Len(b.data) \in Nat /\ DOMAIN b.data = 1 .. Len(b.data)
  BY <1>2
<1>4. DOMAIN b.data \subseteq Element
  BY <1>2, <1>3, MaxSizeAssumption DEF Element
<1>5. \A c \in Element : c \in DOMAIN b.data <=> c <= Len(b.data)
  BY <1>3 DEF Element
<1> QED BY <1>1, <1>3, <1>4, <1>5 DEF Holds

LEMMA DeviceMemoryIs ==
  ASSUME NEW d, NEW v \in Values, NEW c \in Element
  PROVE  DeviceMemory(d)[v][c] = IF Holds(d, v, c) THEN Content(d, v, c) ELSE Undef
BY DEF DeviceMemory, Holds, Content

(* Memory as the original program would see it, element by element. *)
Fresh(v, c) == Holds(HoldingDevice, v, c) /\ Content(HoldingDevice, v, c) # Undef
Logical(v, c) ==
  IF HoldingDevice # "LEG" /\ Fresh(v, c) THEN Content(HoldingDevice, v, c)
                                          ELSE hostMem[v][c]
LogicalIs == LogicalMem = [v \in Values |-> [c \in Element |-> Logical(v, c)]]

LEMMA LogicalMemIs == RuntimeInv => LogicalIs
<1> SUFFICES ASSUME RuntimeInv PROVE LogicalIs
  OBVIOUS
<1>1. CASE HoldingDevice = "LEG"
  <2>1. LogicalMem = hostMem /\ hostMem \in [Values -> [Element -> Data]]
    BY <1>1 DEF LogicalMem, RuntimeInv, RuntimeTypeOK
  <2>2. hostMem = [v \in Values |-> [c \in Element |-> hostMem[v][c]]]
    BY <2>1
  <2> QED BY <1>1, <2>1, <2>2 DEF LogicalIs, Logical
<1>2. CASE HoldingDevice # "LEG"
  <2>1. ASSUME NEW v \in Values, NEW c \in Element
        PROVE  (IF DeviceMemory(HoldingDevice)[v][c] = Undef THEN hostMem[v][c]
                ELSE DeviceMemory(HoldingDevice)[v][c]) = Logical(v, c)
    BY <1>2, DeviceMemoryIs DEF Logical, Fresh
  <2>2. LogicalMem = [v \in Values |-> [c \in Element |->
          IF DeviceMemory(HoldingDevice)[v][c] = Undef THEN hostMem[v][c]
          ELSE DeviceMemory(HoldingDevice)[v][c]]]
    BY <1>2 DEF LogicalMem
  <2> QED BY <2>1, <2>2 DEF LogicalIs
<1> QED BY <1>1, <1>2

LEMMA LogicalMemIsNext == RuntimeInv' => LogicalIs'
BY LogicalMemIs, PTL

(* Where nothing is on a device, the host has everything. *)
LEMMA LogicalOnHost ==
  ASSUME RuntimeInv, HoldingDevice = "LEG" \/ \A d \in Devices : bufferList[d] = NoBuffers
  PROVE  \A v \in Values : \A c \in Element : Logical(v, c) = hostMem[v][c]
<1>1. HoldingDevice # "LEG" => HoldingDevice \in Devices
  BY EnabledAreDevices DEF RuntimeInv, ControlInv
<1> QED BY <1>1 DEF Logical, Fresh, Holds, NoBuffers

LEMMA LogicalOnHostNext ==
  ASSUME RuntimeInv', \A d \in Devices : bufferList'[d] = NoBuffers
  PROVE  \A v \in Values : \A c \in Element : Logical(v, c)' = hostMem'[v][c]
<1>1. HoldingDevice' # "LEG" => HoldingDevice' \in Devices
  BY EnabledAreDevices DEF RuntimeInv, ControlInv
<1> QED BY <1>1 DEF Logical, Fresh, Holds, NoBuffers

LEMMA SameMemory ==
  ASSUME RuntimeInv, RuntimeInv',
         \A v \in Values : \A c \in Element : Logical(v, c)' = Logical(v, c)
  PROVE  LogicalMem' = LogicalMem
<1>1. LogicalIs /\ LogicalIs'
  BY LogicalMemIs, LogicalMemIsNext
<1> QED BY <1>1 DEF LogicalIs
-----------------------------------------------------------------------------
(* The contents of the buffers, step by step *)

LEMMA EmptyContents ==
  ASSUME \A d \in Devices : bufferList'[d] = NoBuffers, HostDefined'
  PROVE  ContentsInv'
BY DEF NoBuffers, ContentsInv, UndefinedIsOutput, LargeEnough, ChangesAreOutput, Holds

(* Steps outside the accelerated_block that move no data. *)
LEMMA ContentsUnchanged ==
  ASSUME RefineInv, stage # "transfer", UNCHANGED <<passVars, bufferList, hostMem>>,
         \/ pc' = pc /\ stage # "release"
         \/ pc' = pc /\ stage' = stage
         \/ pc' = pc + 1 /\ ~flag_chain_interrupt
  PROVE  ContentsInv'
<1>1. pc \in Int /\ \A i \in DOMAIN program : i \in Int
  BY ProgramDomain DEF RefineInv, BufferInv, RuntimeInv, RuntimeTypeOK
<1>2. HostDefined'
  BY DEF RefineInv, ContentsInv, HostDefined
<1>3. UndefinedIsOutput'
  BY DEF RefineInv, ContentsInv, UndefinedIsOutput, WillBeWritten, Holds, Content
<1>4. LargeEnough'
  BY <1>1 DEF RefineInv, ContentsInv, LargeEnough, passVars, IsScop, ArgsOf, ValueOf, SizeOf
<1>5. ASSUME NEW v, WrittenByCall(v)
      PROVE  WrittenByCall(v)'
  <2>1. \A i \in DOMAIN program : HasRun(i) => HasRun(i)'
    BY <1>1 DEF HasRun
  <2> QED
    BY <1>5, <2>1 DEF WrittenByCall, passVars, IsScop, ArgsOf, ValueOf, TypeOf
<1>6. ChangesAreOutput'
  BY <1>5 DEF RefineInv, ContentsInv, ChangesAreOutput, Holds, Content
<1> QED BY <1>2, <1>3, <1>4, <1>6 DEF ContentsInv

(* Copying back restores the memory the original program would see. *)
LEMMA CleanUpRestores ==
  ASSUME RefineInv, stage # "transfer", cleanUpBuffers_Device(HoldingDevice)
  PROVE  /\ \A d \in Devices : bufferList'[d] = NoBuffers
         /\ \A v \in Values : \A c \in Element : hostMem'[v][c] = Logical(v, c)
         /\ HostDefined'
<1> DEFINE h == HoldingDevice
<1>0. RuntimeInv /\ RuntimeTypeOK /\ h \in Enabled \cup {"LEG"}
  BY DEF RefineInv, BufferInv, RuntimeInv, ControlInv
<1>1. \A d \in Devices : d # h => bufferList[d] = NoBuffers
  BY <1>0 DEF RuntimeInv, BuffersOnlyOnHolder
<1>2. \A d \in Devices : bufferList'[d] = NoBuffers
  BY <1>0, <1>1, CleanUpEmpties, EnabledAreDevices
<1>3. ASSUME NEW v \in Values, NEW c \in Element
      PROVE  hostMem'[v][c] = Logical(v, c)
  <2>1. CASE h \notin Enabled
    <3>1. UNCHANGED hostMem /\ h = "LEG"
      BY <1>0, <2>1 DEF cleanUpBuffers_Device
    <3> QED BY <1>0, <3>1, LogicalOnHost
  <2>2. CASE h \in Enabled
    <3> DEFINE b == bufferList[h][v]
    <3>1. h \in Devices /\ h # "LEG" /\ hostMem' = ReadBack(h)
      BY <2>2, EnabledAreDevices DEF cleanUpBuffers_Device, cleanUpBuffers
    <3>2. CASE b = NoBuffer
      <4>1. hostMem'[v] = hostMem[v]
        BY <3>1, <3>2 DEF ReadBack
      <4> QED BY <3>2, <4>1 DEF Logical, Fresh, Holds
    <3>3. CASE b # NoBuffer /\ b.type = "IN"
      <4>1. hostMem'[v] = hostMem[v]
        BY <3>1, <3>3 DEF ReadBack, WrittenBack
      <4>2. Holds(h, v, c) => Content(h, v, c) = hostMem[v][c]
        BY <3>1, <3>3 DEF RefineInv, BufferInv, ReadOnlyBuffersMatchHost, Holds, Content
      <4> QED BY <4>1, <4>2 DEF Logical, Fresh
    <3>4. CASE b # NoBuffer /\ b.type # "IN"
      <4>1. hostMem'[v][c] = IF c <= Len(b.data) THEN b.data[c] ELSE hostMem[v][c]
        BY <3>1, <3>4 DEF ReadBack, WrittenBack
      <4>2. Holds(h, v, c) <=> c <= Len(b.data)
        BY <1>0, <3>1, <3>4, BufferElements
      <4>3. Holds(h, v, c) => Content(h, v, c) # Undef
        BY <3>1 DEF RefineInv, ContentsInv, UndefinedIsOutput, WillBeWritten
      <4> QED BY <3>1, <4>1, <4>2, <4>3 DEF Logical, Fresh, Content
    <3> QED BY <3>2, <3>3, <3>4
  <2> QED BY <2>1, <2>2
<1>4. HostDefined'
  BY <1>3 DEF HostDefined, Logical, Fresh, RefineInv, ContentsInv
<1> QED BY <1>2, <1>3, <1>4
-----------------------------------------------------------------------------
(* Steps the original program does not see *)

Stutters == UNCHANGED <<program, LogicalPc, frame, LogicalMem, seen>>

LEMMA DecisionStutters ==
  ASSUME RefineInv, BufferInv', DecideAtRuntime \/ staticDecision
  PROVE  RefineInv' /\ Stutters
<1>1. /\ UNCHANGED <<passVars, bufferList, hostMem, pc, frame, seen>>
      /\ stage = "call" /\ stage' \in {"cleanup", "crashed"} /\ previous' = current
  BY DEF DecideAtRuntime, staticDecision, At
<1>2. ContentsInv'
  BY <1>1, ContentsUnchanged
<1>3. TransferredSoFar'
  BY <1>1 DEF TransferredSoFar
<1>4. HoldingDevice' = HoldingDevice
  BY <1>1 DEF HoldingDevice
<1>5. LogicalMem' = LogicalMem
  BY <1>1, <1>4, SameMemory DEF RefineInv, BufferInv, Logical, Fresh, Holds, Content
<1> QED BY <1>1, <1>2, <1>3, <1>5 DEF RefineInv, Stutters, LogicalPc, passVars

LEMMA CleanupStutters ==
  ASSUME RefineInv, BufferInv', CleanupBuffers
  PROVE  RefineInv' /\ Stutters
<1>1. /\ UNCHANGED <<passVars, pc, frame, current, previous, seen>>
      /\ stage = "cleanup" /\ stage' \in {"legacy", "transfer"} /\ arg' = 1
      /\ HoldingDevice = previous /\ HoldingDevice' = current
  BY DEF CleanupBuffers, At, HoldingDevice
<1>2. TransferredSoFar'
  <2>1. \A b \in ArgsOf(pc)' : ~(b < arg')
    <3>1. pc \in DOMAIN program /\ program[pc] \in Statement
      BY <1>1 DEF RefineInv, BufferInv, RuntimeInv, ControlInv, PassTypeOK
    <3>2. program[pc].args \in Seq(Argument)
      BY <3>1 DEF Statement
    <3> QED BY <1>1, <3>2 DEF ArgsOf, passVars
  <2> QED BY <2>1 DEF TransferredSoFar
<1>3. CASE previous = current
  <2>1. UNCHANGED <<bufferList, hostMem>> /\ HoldingDevice' = HoldingDevice
    BY <1>1, <1>3 DEF CleanupBuffers
  <2>2. ContentsInv'
    BY <1>1, <2>1, ContentsUnchanged
  <2>3. LogicalMem' = LogicalMem
    BY <1>1, <2>1, SameMemory DEF RefineInv, BufferInv, Logical, Fresh, Holds, Content
  <2> QED BY <1>1, <1>2, <2>2, <2>3 DEF RefineInv, Stutters, LogicalPc, passVars
<1>4. CASE previous # current
  <2>1. cleanUpBuffers_Device(HoldingDevice)
    BY <1>1, <1>4 DEF CleanupBuffers
  <2>2. /\ \A d \in Devices : bufferList'[d] = NoBuffers
        /\ \A v \in Values : \A c \in Element : hostMem'[v][c] = Logical(v, c)
        /\ HostDefined'
    BY <1>1, <2>1, CleanUpRestores
  <2>3. ContentsInv'
    BY <2>2, EmptyContents
  <2>4. LogicalMem' = LogicalMem
    BY <2>2, LogicalOnHostNext, SameMemory DEF RefineInv, BufferInv
  <2> QED BY <1>1, <1>2, <2>3, <2>4 DEF RefineInv, Stutters, LogicalPc, passVars
<1> QED BY <1>3, <1>4

LEMMA ReleaseStutters ==
  ASSUME RefineInv, BufferInv', Release
  PROVE  RefineInv' /\ Stutters
<1>1. /\ UNCHANGED <<passVars, frame, current, previous, seen>>
      /\ stage = "release" /\ stage' = "call" /\ pc' = pc + 1
      /\ HoldingDevice = current /\ HoldingDevice' = current
  BY DEF Release, Return, At, HoldingDevice
<1>2. TransferredSoFar'
  BY <1>1 DEF TransferredSoFar
<1>3. CASE UNCHANGED <<bufferList, hostMem>>
  <2>1. ContentsInv'
    <3>1. CASE flag_chain_interrupt
      <4>1. phase = "done"
        BY DEF Release, Return, At
      <4>2. \A d \in Devices : bufferList'[d] = NoBuffers
        BY <1>1, <3>1, <4>1 DEF BufferInv, RuntimeInv, NothingLeftOnDevice, At, passVars
      <4>3. HostDefined'
        BY <1>3 DEF RefineInv, ContentsInv, HostDefined
      <4> QED BY <4>2, <4>3, EmptyContents
    <3>2. CASE ~flag_chain_interrupt
      BY <1>1, <1>3, <3>2, ContentsUnchanged
    <3> QED BY <3>1, <3>2
  <2>2. LogicalMem' = LogicalMem
    BY <1>1, <1>3, SameMemory DEF RefineInv, BufferInv, Logical, Fresh, Holds, Content
  <2> QED BY <1>1, <1>2, <2>1, <2>2 DEF RefineInv, Stutters, LogicalPc, passVars
<1>4. CASE cleanUpBuffers_Device(current)
  <2>1. /\ \A d \in Devices : bufferList'[d] = NoBuffers
        /\ \A v \in Values : \A c \in Element : hostMem'[v][c] = Logical(v, c)
        /\ HostDefined'
    BY <1>1, <1>4, CleanUpRestores
  <2>2. ContentsInv'
    BY <2>1, EmptyContents
  <2>3. LogicalMem' = LogicalMem
    BY <2>1, LogicalOnHostNext, SameMemory DEF RefineInv, BufferInv
  <2> QED BY <1>1, <1>2, <2>2, <2>3 DEF RefineInv, Stutters, LogicalPc, passVars
<1> QED BY <1>3, <1>4 DEF Release, ReleaseInterrupted, ReleaseLast

(* While the pass runs, the application does not. *)
LEMMA RunPassStutters ==
  ASSUME RefineInv, BufferInv', RunPass
  PROVE  RefineInv' /\ Stutters
<1>1. UNCHANGED runtimeVars /\ program' = program /\ phase # "done"
  BY DEF RunPass, PassNext, ScanScopCall, ScanHostCall, ScanOther, Scan, EndScan, UpdateRoot,
     EndUpdate
<1>2. stage = "call" /\ \A d \in Devices : bufferList'[d] = NoBuffers
  BY <1>1 DEF RefineInv, BufferInv, RuntimeInv, ControlInv, runtimeVars
<1>3. HostDefined' /\ TransferredSoFar'
  BY <1>1, <1>2
     DEF RefineInv, ContentsInv, HostDefined, TransferredSoFar, runtimeVars
<1>4. ContentsInv'
  BY <1>2, <1>3, EmptyContents
<1>5. LogicalMem' = LogicalMem
  BY <1>1, SameMemory DEF RefineInv, BufferInv, Logical, Fresh, Holds, Content,
     HoldingDevice, runtimeVars
<1> QED BY <1>1, <1>3, <1>4, <1>5 DEF RefineInv, Stutters, LogicalPc, runtimeVars

(* A call whose buffers are not uploaded writes them itself. *)
LEMMA OutTypeIsOwn ==
  ASSUME PassInv, Regular(program), phase = "done",
         NEW i \in DOMAIN program, IsScop(i), NEW a \in ArgsOf(i),
         typeOptimized[i][a] = "OUT"
  PROVE  TypeOf(i, a) = "OUT"
<1>1. CASE flag_chain_interrupt
  BY <1>1 DEF PassInv, DoneInv, Unoptimized
<1>2. CASE ~flag_chain_interrupt
  <2>1. root_pos = 0 /\ i > 0
    BY <1>2, ProgramDomain DEF PassInv, DoneInv
  <2>2. Settled(i)
    BY <1>2, <2>1 DEF PassInv, SettledInv
  <2> QED BY <2>2 DEF Settled
<1> QED BY <1>1, <1>2

(* Every argument of a regular program is transferred. *)
LEMMA RegularArguments ==
  ASSUME PassTypeOK, Regular(program), NEW i \in DOMAIN program, IsScop(i)
  PROVE  /\ Pointers(i) = ArgsOf(i)
         /\ \E n \in Nat : ArgsOf(i) = 1 .. n
         /\ \A a \in ArgsOf(i) : ValueOf(i, a) \in Values /\ SizeOf(i, a) \in Nat
<1>1. program[i] \in Statement
  BY DEF PassTypeOK
<1>2. program[i].args \in Seq(Argument)
  BY <1>1 DEF Statement
<1>3. \A a \in ArgsOf(i) : program[i].args[a] \in Argument
  BY <1>2 DEF ArgsOf
<1>4. \A a \in ArgsOf(i) : TypeOf(i, a) # "UNKNOWN"
  BY DEF Regular, IsScop, ArgsOf, TypeOf
<1>5. ArgsOf(i) = 1 .. Len(program[i].args) /\ Len(program[i].args) \in Nat
  BY <1>2 DEF ArgsOf
<1> QED BY <1>3, <1>4, <1>5 DEF Pointers, ValueOf, SizeOf, Argument

(* A new buffer adds nothing that the host does not have. *)
LEMMA TransferStutters ==
  ASSUME AllOffloadable, RefineInv, BufferInv', TransferToDevice
  PROVE  RefineInv' /\ Stutters
<1>1. /\ UNCHANGED <<passVars, pc, stage, frame, current, previous, hostMem, seen>>
      /\ phase = "done" /\ stage = "transfer" /\ arg \in ArgsOf(pc) /\ arg' = arg + 1
      /\ pc \in DOMAIN program /\ IsScop(pc) /\ current \in Devices /\ current # "LEG"
      /\ HoldingDevice = current /\ HoldingDevice' = current
  BY EnabledAreDevices
     DEF TransferToDevice, At, HoldingDevice, RefineInv, BufferInv, RuntimeInv, ControlInv
<1>2. Offloadable(program) /\ Regular(program) /\ SizesDoNotGrow(program)
  BY ProgramIsOffloadable DEF Offloadable
<1>3. PassTypeOK /\ RuntimeTypeOK /\ PassInv
  BY DEF RefineInv, BufferInv, RuntimeInv
<1>4. /\ Pointers(pc) = ArgsOf(pc)
      /\ \A b \in ArgsOf(pc) : b \in Nat /\ ValueOf(pc, b) \in Values /\ SizeOf(pc, b) \in Nat
  BY <1>1, <1>2, <1>3, RegularArguments
<1> DEFINE new == createAndPopulateBuffer(pc, arg)
           w == ValueOf(pc, arg)
<1>5. new \in Buffer /\ new # NoBuffer
  BY <1>1, <1>3, NewBufferType, NoBufferAssumption
     DEF RefineInv, BufferInv, RuntimeInv, ControlInv
<1>6. /\ Len(new.data) = SizeOf(pc, arg)
      /\ DOMAIN new.data = 1 .. SizeOf(pc, arg)
      /\ \A c \in DOMAIN new.data :
           \/ new.data[c] = hostMem[w][c]
           \/ new.data[c] = Undef /\ typeOptimized[pc][arg] = "OUT"
  BY <1>1, <1>4 DEF createAndPopulateBuffer, Uploaded
<1> HIDE DEF new
<1>7. ASSUME NEW v, WrittenByCall(v) PROVE WrittenByCall(v)'
  BY <1>1, <1>7 DEF WrittenByCall, HasRun, passVars, IsScop, ArgsOf, ValueOf, TypeOf
<1>8. ASSUME NEW v, NEW c, WillBeWritten(v, c) PROVE WillBeWritten(v, c)'
  BY <1>1, <1>8 DEF WillBeWritten, passVars, ArgsOf, ValueOf, TypeOf, SizeOf
<1>9. CASE UNCHANGED bufferList /\ bufferList[current][w] # NoBuffer
  <2>1. ContentsInv'
    BY <1>1, <1>7, <1>8, <1>9
       DEF RefineInv, ContentsInv, HostDefined, UndefinedIsOutput, LargeEnough,
           ChangesAreOutput, Holds, Content, passVars, IsScop, ArgsOf, ValueOf, SizeOf
  <2>2. TransferredSoFar'
    BY <1>1, <1>4, <1>9 DEF RefineInv, TransferredSoFar, passVars, ArgsOf, ValueOf
  <2>3. LogicalMem' = LogicalMem
    BY <1>1, <1>9, SameMemory DEF RefineInv, BufferInv, Logical, Fresh, Holds, Content
  <2> QED BY <1>1, <2>1, <2>2, <2>3 DEF RefineInv, Stutters, LogicalPc, passVars
<1>10. CASE bufferList' = [bufferList EXCEPT ![current][w] = new] /\ bufferList[current][w] = NoBuffer
  <2>1. ASSUME NEW d \in Devices, NEW v \in Values
        PROVE  bufferList'[d][v] = IF d = current /\ v = w THEN new ELSE bufferList[d][v]
    BY <1>1, <1>10, <1>3 DEF RuntimeTypeOK
  <2>2. HostDefined'
    BY <1>1 DEF RefineInv, ContentsInv, HostDefined
  <2>3. UndefinedIsOutput'
    <3> SUFFICES ASSUME NEW d \in Devices, NEW v \in Values, NEW c \in Element,
                        Holds(d, v, c)', Content(d, v, c)' = Undef
                 PROVE  WillBeWritten(v, c)'
      BY DEF UndefinedIsOutput
    <3>1. CASE d = current /\ v = w
      <4>1. c \in DOMAIN new.data /\ new.data[c] = Undef
        BY <2>1, <3>1 DEF Holds, Content
      <4>2. hostMem[w][c] # Undef
        BY <1>1, <1>4 DEF RefineInv, ContentsInv, HostDefined
      <4>3. TypeOf(pc, arg) = "OUT" /\ c <= SizeOf(pc, arg)
        BY <1>1, <1>2, <1>3, <1>6, <4>1, <4>2, OutTypeIsOwn
      <4> QED BY <1>1, <1>8, <3>1, <4>3 DEF WillBeWritten
    <3>2. CASE ~(d = current /\ v = w)
      <4>1. Holds(d, v, c) /\ Content(d, v, c) = Undef
        BY <2>1, <3>2 DEF Holds, Content
      <4> QED BY <1>8, <4>1 DEF RefineInv, ContentsInv, UndefinedIsOutput
    <3> QED BY <3>1, <3>2
  <2>4. LargeEnough'
    <3> SUFFICES ASSUME NEW d \in Devices, NEW v \in Values, bufferList'[d][v] # NoBuffer,
                        NEW j \in DOMAIN program, NEW b \in ArgsOf(j),
                        j >= pc, flag_chain_interrupt => j = pc,
                        IsScop(j), ValueOf(j, b) = v
                 PROVE  SizeOf(j, b) <= Len(bufferList'[d][v].data)
      BY <1>1 DEF LargeEnough, passVars, IsScop, ArgsOf, ValueOf, SizeOf
    <3>1. CASE d = current /\ v = w
      <4>1. CASE j = pc
        <5>1. b = arg
          BY <1>1, <1>2, <3>1, <4>1 DEF Regular, IsScop, ArgsOf, ValueOf
        <5> QED BY <1>4, <1>6, <2>1, <3>1, <4>1, <5>1
      <4>2. CASE j # pc
        <5>1. pc < j
          BY <1>1, <1>3, <4>2, ProgramDomain
        <5>2. <<arg, b>> \in Shared(program[pc], program[j])
          BY <1>1, <3>1 DEF Shared, ArgsOf, ValueOf
        <5>3. ~ChainInterrupted(program)
          BY <1>1, <4>2 DEF RefineInv, BufferInv, ChainInv, FlagIsExact
        <5>4. program[j].args[b].size <= program[pc].args[arg].size
          BY <1>1, <1>2, <5>1, <5>2, <5>3 DEF SizesDoNotGrow, IsScop
        <5> QED BY <1>6, <2>1, <3>1, <5>4 DEF SizeOf
      <4> QED BY <4>1, <4>2
    <3>2. CASE ~(d = current /\ v = w)
      BY <2>1, <3>2 DEF RefineInv, ContentsInv, LargeEnough
    <3> QED BY <3>1, <3>2
  <2>5. ChangesAreOutput'
    <3> SUFFICES ASSUME NEW d \in Devices, NEW v \in Values, NEW c \in Element, Holds(d, v, c)'
                 PROVE  \/ Content(d, v, c)' = Undef
                        \/ Content(d, v, c)' = hostMem'[v][c]
                        \/ WrittenByCall(v)'
      BY DEF ChangesAreOutput
    <3>1. CASE d = current /\ v = w
      BY <1>1, <1>6, <2>1, <3>1 DEF Holds, Content
    <3>2. CASE ~(d = current /\ v = w)
      <4>1. Holds(d, v, c) /\ Content(d, v, c)' = Content(d, v, c)
        BY <2>1, <3>2 DEF Holds, Content
      <4> QED BY <1>1, <1>7, <4>1 DEF RefineInv, ContentsInv, ChangesAreOutput
    <3> QED BY <3>1, <3>2
  <2>6. TransferredSoFar'
    <3> SUFFICES ASSUME NEW b \in ArgsOf(pc), b < arg + 1
                 PROVE  bufferList'[current][ValueOf(pc, b)] # NoBuffer
      BY <1>1 DEF TransferredSoFar, passVars, ArgsOf, ValueOf
    <3>1. CASE ValueOf(pc, b) = w
      BY <1>1, <1>4, <1>5, <2>1, <3>1
    <3>2. CASE ValueOf(pc, b) # w
      <4>1. b < arg
        BY <1>1, <1>4, <3>2
      <4> QED BY <1>1, <1>4, <2>1, <3>2, <4>1 DEF RefineInv, TransferredSoFar
    <3> QED BY <3>1, <3>2
  <2>7. LogicalMem' = LogicalMem
    <3>1. ASSUME NEW v \in Values, NEW c \in Element
          PROVE  Logical(v, c)' = Logical(v, c)
      <4>1. CASE v = w
        <5>1. ~Fresh(v, c)
          BY <1>1, <1>10, <4>1 DEF Fresh, Holds
        <5>2. Fresh(v, c)' => Content(current, v, c)' = hostMem[v][c]
          BY <1>1, <1>6, <2>1, <4>1 DEF Fresh, Holds, Content
        <5> QED BY <1>1, <5>1, <5>2 DEF Logical
      <4>2. CASE v # w
        BY <1>1, <2>1, <4>2 DEF Logical, Fresh, Holds, Content
      <4> QED BY <4>1, <4>2
    <3> QED BY <3>1, SameMemory DEF RefineInv, BufferInv
  <2> QED
    BY <1>1, <2>2, <2>3, <2>4, <2>5, <2>6, <2>7
       DEF RefineInv, ContentsInv, Stutters, LogicalPc, passVars
<1> QED
  <2> HIDE DEF w
  <2>1. (UNCHANGED bufferList /\ bufferList[current][w] # NoBuffer)
        \/ (bufferList' = [bufferList EXCEPT ![current][w] = new] /\ bufferList[current][w] = NoBuffer)
    BY <1>1, <1>4 DEF TransferToDevice, new, w
  <2> QED BY <1>9, <1>10, <2>1
-----------------------------------------------------------------------------
(* Steps that run a statement *)

WrittenNow(v, c) ==
  \E a \in ArgsOf(pc) : ValueOf(pc, a) = v /\ WrittenBy(program[pc].args[a], c)

(* The original program runs the same statement. *)
Executes ==
  /\ LogicalPc = pc /\ LogicalPc' = pc + 1
  /\ pc <= Len(program)
  /\ LogicalMem' = Effect(LogicalMem, program[pc], Time)
  /\ seen' = Observed(LogicalMem, program[pc])
  /\ UNCHANGED <<program, frame>>

LEMMA SameEffect ==
  ASSUME RuntimeInv, RuntimeInv',
         \A v \in Values : \A c \in Element :
           Logical(v, c)' = IF WrittenNow(v, c) THEN Time ELSE Logical(v, c)
  PROVE  LogicalMem' = Effect(LogicalMem, program[pc], Time)
<1>1. LogicalIs /\ LogicalIs'
  BY LogicalMemIs, LogicalMemIsNext
<1>2. DOMAIN LogicalMem = Values
      /\ \A v \in Values : \A c \in Element : LogicalMem[v][c] = Logical(v, c)
  BY <1>1 DEF LogicalIs
<1>3. Effect(LogicalMem, program[pc], Time) =
        [v \in Values |-> [c \in Element |-> IF WrittenNow(v, c) THEN Time ELSE Logical(v, c)]]
  BY <1>2 DEF Effect, WrittenNow, ArgsOf, ValueOf
<1> QED BY <1>1, <1>3 DEF LogicalIs

LEMMA SameObserved ==
  ASSUME RuntimeInv, pc \in DOMAIN program, NEW m,
         \A a \in ArgsOf(pc) : \A c \in Element :
           ReadBy(program[pc].args[a], c) => m[ValueOf(pc, a)][c] = Logical(ValueOf(pc, a), c)
  PROVE  Observed(m, program[pc]) = Observed(LogicalMem, program[pc])
<1>1. \A v \in Values : \A c \in Element : LogicalMem[v][c] = Logical(v, c)
  BY LogicalMemIs DEF LogicalIs
<1>2. ASSUME NEW a \in ArgsOf(pc)
      PROVE  program[pc].args[a].value \in Values
  <2>1. program[pc] \in Statement
    BY DEF RuntimeInv, PassTypeOK
  <2>2. program[pc].args \in Seq(Argument)
    BY <2>1 DEF Statement
  <2>3. program[pc].args[a] \in Argument
    BY <2>2 DEF ArgsOf
  <2> QED BY <2>3 DEF Argument
<1>3. ASSUME NEW a \in DOMAIN program[pc].args
      PROVE  {<<c, m[program[pc].args[a].value][c]>> :
                c \in {e \in Element : ReadBy(program[pc].args[a], e)}}
           = {<<c, LogicalMem[program[pc].args[a].value][c]>> :
                c \in {e \in Element : ReadBy(program[pc].args[a], e)}}
  <2>1. \A c \in {e \in Element : ReadBy(program[pc].args[a], e)} :
          m[program[pc].args[a].value][c] = LogicalMem[program[pc].args[a].value][c]
    BY <1>1, <1>2 DEF ArgsOf, ValueOf
  <2> QED BY <2>1
<1> QED BY <1>3 DEF Observed

(* A kernel finds all it reads in its buffers, and fresh; what it writes   *)
(* has a place in them.                                                    *)
LEMMA ExecuteRefines ==
  ASSUME AllOffloadable, RefineInv, BufferInv', ExecuteKernel
  PROVE  RefineInv' /\ Executes
<1>1. /\ UNCHANGED <<passVars, pc, frame, current, hostMem>>
      /\ phase = "done" /\ stage = "transfer" /\ stage' = "release" /\ arg \notin ArgsOf(pc)
      /\ pc \in DOMAIN program /\ IsScop(pc) /\ current \in Devices /\ current # "LEG"
      /\ HoldingDevice = current /\ HoldingDevice' = current
      /\ seen' = Observed(DeviceMemory(current), program[pc])
  BY EnabledAreDevices
     DEF ExecuteKernel, At, HoldingDevice, RefineInv, BufferInv, RuntimeInv, ControlInv
<1>2. Regular(program) /\ OutputsCovered(program)
  BY ProgramIsOffloadable DEF Offloadable
<1>3. PassTypeOK /\ RuntimeTypeOK /\ RuntimeInv /\ RuntimeInv' /\ Time \in Nat
  BY TimeIsNat DEF RefineInv, BufferInv, RuntimeInv
<1>4. \A a \in ArgsOf(pc) : ValueOf(pc, a) \in Values /\ SizeOf(pc, a) \in Nat
  BY <1>1, <1>2, <1>3, RegularArguments
<1>5. ASSUME NEW a \in ArgsOf(pc), NEW c \in Element, c <= SizeOf(pc, a)
      PROVE  Holds(current, ValueOf(pc, a), c)
  <2> DEFINE v == ValueOf(pc, a)
  <2>1. PICK n \in Nat : ArgsOf(pc) = 1 .. n
    BY <1>1, <1>2, <1>3, RegularArguments
  <2>2. a < arg
    BY <1>1, <1>3, <2>1 DEF RuntimeTypeOK
  <2>3. bufferList[current][v] # NoBuffer
    BY <1>1, <2>2 DEF RefineInv, TransferredSoFar
  <2>4. pc >= pc
    BY <1>1, <1>3, ProgramDomain
  <2>5. SizeOf(pc, a) <= Len(bufferList[current][v].data)
    BY <1>1, <1>4, <2>3, <2>4 DEF RefineInv, ContentsInv, LargeEnough
  <2>6. Len(bufferList[current][v].data) \in Nat
        /\ (Holds(current, v, c) <=> c <= Len(bufferList[current][v].data))
    BY <1>1, <1>3, <1>4, <2>3, BufferElements
  <2>7. c \in Int
    BY DEF Element
  <2> QED BY <1>4, <1>5, <2>5, <2>6, <2>7
<1> DEFINE result == Effect(DeviceMemory(current), program[pc], Time)
<1>6. ASSUME NEW d \in Devices, NEW v \in Values, NEW c \in Element
      PROVE  /\ Holds(d, v, c)' <=> Holds(d, v, c)
             /\ bufferList'[d][v] # NoBuffer <=> bufferList[d][v] # NoBuffer
             /\ bufferList[d][v] # NoBuffer =>
                  Len(bufferList'[d][v].data) = Len(bufferList[d][v].data)
             /\ Holds(d, v, c) =>
                  Content(d, v, c)' = IF d = current /\ WrittenNow(v, c) THEN Time
                                                                     ELSE Content(d, v, c)
  <2>1. bufferList'[d] = IF d = current THEN WithContents(bufferList[current], result)
                                        ELSE bufferList[d]
    BY <1>1, <1>3 DEF ExecuteKernel, RuntimeTypeOK
  <2>2. CASE d # current
    BY <2>1, <2>2 DEF Holds, Content
  <2>3. CASE d = current /\ bufferList[d][v] = NoBuffer
    BY <2>1, <2>3 DEF Holds, WithContents
  <2>4. CASE d = current /\ bufferList[d][v] # NoBuffer
    <3> DEFINE held == bufferList[current][v]
               data == [e \in DOMAIN held.data |-> result[v][e]]
    <3>1. bufferList'[d][v] = [type |-> held.type, data |-> data]
      BY <2>1, <2>4 DEF WithContents
    <3>2. bufferList'[d][v].data = data /\ DOMAIN data = DOMAIN held.data
      BY <3>1
    <3>3. /\ held \in Buffer /\ DOMAIN held.data = 1 .. Len(held.data) /\ Len(held.data) \in Nat
      BY <1>1, <1>3, <2>4, BufferElements
    <3>4. Len(data) = Len(held.data)
      <4> HIDE DEF result, held
      <4> QED BY <3>3
    <3>5. bufferList'[d][v] # NoBuffer
      <4>1. bufferList'[d][v] \in Buffer \cup {NoBuffer}
        BY <1>3 DEF RuntimeInv, RuntimeTypeOK
      <4>2. bufferList'[d][v] \in Buffer
        <5>1. held.type \in DataTransferType /\ held.data \in Seq(Data) /\ Len(held.data) <= MaxSize
          BY <3>3 DEF Buffer
        <5>2. result \in [Values -> [Element -> Data]]
          BY <1>1, <1>3, DeviceMemoryType, EffectIsMemory
        <5>3. \A e \in DOMAIN held.data : result[v][e] \in Data
          BY <1>1, <1>3, <2>4, <5>2, BufferElements
        <5>4. data \in Seq(Data)
          <6> HIDE DEF result, held
          <6> QED BY <3>3, <5>3
        <5> HIDE DEF result, held, data
        <5> QED BY <3>1, <3>4, <5>1, <5>4 DEF Buffer
      <4> QED BY <4>2, NoBufferAssumption
    <3>6. Holds(d, v, c) =>
            Content(d, v, c)' = IF WrittenNow(v, c) THEN Time ELSE DeviceMemory(current)[v][c]
      <4>1. Holds(d, v, c) => Content(d, v, c)' = result[v][c]
        BY <2>4, <3>2 DEF Holds, Content
      <4>2. DOMAIN DeviceMemory(current) = Values
        BY DEF DeviceMemory
      <4>3. result[v][c] = IF WrittenNow(v, c) THEN Time ELSE DeviceMemory(current)[v][c]
        BY <4>2 DEF Effect, WrittenNow, ArgsOf, ValueOf
      <4> QED BY <4>1, <4>3
    <3>7. Holds(d, v, c)' <=> Holds(d, v, c)
      <4> HIDE DEF result
      <4> QED BY <2>4, <3>2, <3>5 DEF Holds
    <3> HIDE DEF data
    <3> QED BY <2>4, <3>2, <3>4, <3>5, <3>6, <3>7, DeviceMemoryIs
  <2> QED BY <2>2, <2>3, <2>4
<1> HIDE DEF result
<1>7. HostDefined' /\ TransferredSoFar'
  BY <1>1 DEF RefineInv, ContentsInv, HostDefined, TransferredSoFar
<1>8. UndefinedIsOutput'
  <2> SUFFICES ASSUME NEW d \in Devices, NEW v \in Values, NEW c \in Element,
                      Holds(d, v, c)', Content(d, v, c)' = Undef
               PROVE  FALSE
    BY DEF UndefinedIsOutput
  <2>1. Holds(d, v, c) /\ Content(d, v, c) = Undef /\ ~(d = current /\ WrittenNow(v, c))
    BY <1>3, <1>6, UndefAssumption
  <2>2. d = current
    BY <1>1, <1>3, <2>1 DEF RuntimeInv, BuffersOnlyOnHolder, Holds, NoBuffers
  <2>3. PICK b \in ArgsOf(pc) : ValueOf(pc, b) = v /\ TypeOf(pc, b) = "OUT" /\ c <= SizeOf(pc, b)
    BY <2>1 DEF RefineInv, ContentsInv, UndefinedIsOutput, WillBeWritten
  <2>4. program[pc].args[b].covers
    BY <1>1, <1>2, <2>3 DEF OutputsCovered, IsScop, ArgsOf, TypeOf
  <2>5. WrittenNow(v, c)
    BY <2>3, <2>4 DEF WrittenNow, WrittenBy, Writes, TypeOf, SizeOf
  <2> QED BY <2>1, <2>2, <2>5
<1>9. LargeEnough'
  <2> SUFFICES ASSUME NEW d \in Devices, NEW v \in Values, bufferList'[d][v] # NoBuffer,
                      NEW j \in DOMAIN program, NEW b \in ArgsOf(j),
                      j >= pc, flag_chain_interrupt => j = pc,
                      IsScop(j), ValueOf(j, b) = v
               PROVE  SizeOf(j, b) <= Len(bufferList'[d][v].data)
    BY <1>1 DEF LargeEnough, passVars, IsScop, ArgsOf, ValueOf, SizeOf
  <2>1. SizeOf(j, b) \in Element
    <3>1. SizeOf(j, b) \in Nat
      BY <1>2, <1>3, RegularArguments
    <3>2. SizeOf(j, b) > 0
      BY <1>2 DEF Regular, IsScop, ArgsOf, SizeOf
    <3>3. SizeOf(j, b) <= MaxSize
      BY <1>3, SizesAssumption DEF RuntimeInv, ControlInv, ArgsOf, SizeOf
    <3> QED BY <3>1, <3>2, <3>3, MaxSizeAssumption DEF Element
  <2>2. bufferList[d][v] # NoBuffer
        /\ Len(bufferList'[d][v].data) = Len(bufferList[d][v].data)
    BY <1>6, <2>1
  <2> QED BY <2>2 DEF RefineInv, ContentsInv, LargeEnough
<1>10. ChangesAreOutput'
  <2> SUFFICES ASSUME NEW d \in Devices, NEW v \in Values, NEW c \in Element, Holds(d, v, c)'
               PROVE  \/ Content(d, v, c)' = Undef
                      \/ Content(d, v, c)' = hostMem[v][c]
                      \/ WrittenByCall(v)'
    BY <1>1 DEF ChangesAreOutput
  <2>1. Holds(d, v, c)
    BY <1>6
  <2>2. pc \in Int /\ \A i \in DOMAIN program : i \in Int
    BY <1>3, ProgramDomain DEF RuntimeTypeOK
  <2>3. WrittenByCall(v) => WrittenByCall(v)'
    BY <1>1, <2>2 DEF WrittenByCall, HasRun, passVars, IsScop, ArgsOf, ValueOf, TypeOf
  <2>4. CASE WrittenNow(v, c)
    <3>1. PICK a \in ArgsOf(pc) : ValueOf(pc, a) = v /\ Writes(TypeOf(pc, a))
      BY <2>4 DEF WrittenNow, WrittenBy, TypeOf
    <3>2. HasRun(pc)'
      BY <1>1, <2>2 DEF HasRun
    <3>3. WrittenByCall(v)'
      BY <1>1, <3>1, <3>2 DEF WrittenByCall, passVars, IsScop, ArgsOf, ValueOf, TypeOf
    <3> QED BY <3>3
  <2>5. CASE ~WrittenNow(v, c)
    BY <1>6, <2>1, <2>3, <2>5 DEF RefineInv, ContentsInv, ChangesAreOutput
  <2> QED BY <2>4, <2>5
<1>11. LogicalMem' = Effect(LogicalMem, program[pc], Time)
  <2>1. ASSUME NEW v \in Values, NEW c \in Element
        PROVE  Logical(v, c)' = IF WrittenNow(v, c) THEN Time ELSE Logical(v, c)
    <3>1. WrittenNow(v, c) => Holds(current, v, c)
      BY <1>5 DEF WrittenNow, WrittenBy, SizeOf
    <3>2. Time # Undef
      BY <1>3, UndefAssumption
    <3> QED BY <1>1, <1>6, <3>1, <3>2 DEF Logical, Fresh
  <2> QED BY <1>3, <2>1, SameEffect
<1>12. seen' = Observed(LogicalMem, program[pc])
  <2>1. ASSUME NEW a \in ArgsOf(pc), NEW c \in Element, ReadBy(program[pc].args[a], c)
        PROVE  DeviceMemory(current)[ValueOf(pc, a)][c] = Logical(ValueOf(pc, a), c)
    <3> DEFINE v == ValueOf(pc, a)
    <3>1. Holds(current, v, c) /\ Reads(TypeOf(pc, a))
      BY <1>5, <2>1 DEF ReadBy, SizeOf, TypeOf
    <3>2. Content(current, v, c) # Undef
      <4> SUFFICES ASSUME Content(current, v, c) = Undef PROVE FALSE
        OBVIOUS
      <4>1. PICK b \in ArgsOf(pc) : ValueOf(pc, b) = v /\ TypeOf(pc, b) = "OUT"
        BY <1>1, <1>4, <3>1 DEF RefineInv, ContentsInv, UndefinedIsOutput, WillBeWritten
      <4>2. b = a
        BY <1>1, <1>2, <4>1 DEF Regular, IsScop, ArgsOf, ValueOf
      <4> QED BY <3>1, <4>1, <4>2 DEF Reads
    <3> QED BY <1>1, <1>4, <3>1, <3>2, DeviceMemoryIs DEF Logical, Fresh
  <2> QED BY <1>1, <1>3, <2>1, SameObserved
<1>13. pc <= Len(program) /\ LogicalPc = pc /\ LogicalPc' = pc + 1
  BY <1>1, <1>3, ProgramDomain DEF LogicalPc
<1> QED
  BY <1>1, <1>7, <1>8, <1>9, <1>10, <1>11, <1>12, <1>13
     DEF RefineInv, ContentsInv, Executes, passVars

LEMMA HostEffect ==
  ASSUME RuntimeInv, NEW v \in Values, NEW c \in Element
  PROVE  Effect(hostMem, program[pc], Time)[v][c] =
           IF WrittenNow(v, c) THEN Time ELSE hostMem[v][c]
<1>1. DOMAIN hostMem = Values
  BY DEF RuntimeInv, RuntimeTypeOK
<1> QED BY <1>1 DEF Effect, WrittenNow, ArgsOf, ValueOf

LEMMA HostStaysDefined ==
  ASSUME RefineInv, hostMem' = Effect(hostMem, program[pc], Time)
  PROVE  HostDefined'
<1>1. RuntimeInv /\ Time \in Nat /\ Time # Undef
  BY TimeIsNat, UndefAssumption DEF RefineInv, BufferInv, RuntimeInv
<1>2. \A v \in Values : \A c \in Element : hostMem'[v][c] # Undef
  BY <1>1, HostEffect DEF RefineInv, ContentsInv, HostDefined
<1> QED BY <1>2 DEF HostDefined

(* In the legacy_block nothing is on a device. *)
LEMMA LegacyRefines ==
  ASSUME RefineInv, BufferInv', RunLegacy
  PROVE  RefineInv' /\ Executes
<1>1. /\ UNCHANGED <<passVars, pc, frame, current, bufferList>>
      /\ stage = "legacy" /\ stage' = "release"
      /\ hostMem' = Effect(hostMem, program[pc], Time)
      /\ seen' = Observed(hostMem, program[pc])
  BY DEF RunLegacy, At
<1>2. current = "LEG" /\ HoldingDevice = "LEG" /\ HoldingDevice' = "LEG"
  BY <1>1 DEF RefineInv, BufferInv, LegacyOnHost, HoldingDevice
<1>3. LogicalMem = hostMem /\ LogicalMem' = hostMem'
  BY <1>2 DEF LogicalMem
<1>4. \A d \in Devices : bufferList'[d] = NoBuffers
  BY <1>1, <1>2, EnabledAreDevices
     DEF RefineInv, BufferInv, RuntimeInv, BuffersOnlyOnHolder
<1>5. ContentsInv'
  BY <1>1, <1>4, HostStaysDefined, EmptyContents
<1>6. TransferredSoFar'
  BY <1>1 DEF TransferredSoFar
<1>7. pc <= Len(program)
  BY <1>1, ProgramDomain DEF RefineInv, BufferInv, RuntimeInv, ControlInv
<1> QED
  BY <1>1, <1>3, <1>5, <1>6, <1>7 DEF RefineInv, Executes, LogicalPc, passVars

(* Host code between two calls of a chain uses nothing that a SCoP before  *)
(* it has changed on a device.                                             *)
LEMMA HostCodeFindsFresh ==
  ASSUME AllOffloadable, RefineInv, stage = "call", phase = "done",
         pc \in DOMAIN program, ~IsScop(pc),
         NEW d \in Devices, NEW v \in Values, bufferList[d][v] # NoBuffer,
         NEW b \in ArgsOf(pc), ValueOf(pc, b) = v
  PROVE  ~WrittenByCall(v)
<1> SUFFICES ASSUME WrittenByCall(v) PROVE FALSE
  OBVIOUS
<1>1. HostCodeApart(program)
  BY ProgramIsOffloadable DEF Offloadable
<1>2. PICK i \in DOMAIN program : \E a \in ArgsOf(i) :
        IsScop(i) /\ HasRun(i) /\ ValueOf(i, a) = v /\ Writes(TypeOf(i, a))
  BY DEF WrittenByCall
<1>3. PICK a \in ArgsOf(i) :
        IsScop(i) /\ HasRun(i) /\ ValueOf(i, a) = v /\ Writes(TypeOf(i, a))
  BY <1>2
<1>4. bufferList[d] # NoBuffers
  BY DEF NoBuffers
<1>5. ~flag_chain_interrupt /\ ~(\A j \in DOMAIN program : IsScop(j) => j < pc)
  BY <1>4 DEF RefineInv, BufferInv, RuntimeInv, NothingLeftOnDevice, At
<1>6. PICK j \in DOMAIN program : IsScop(j) /\ ~(j < pc)
  BY <1>5
<1>7. i < pc /\ pc < j
  BY <1>3, <1>6, ProgramDomain DEF HasRun, RefineInv, BufferInv, PassInv
<1>8. ~ChainInterrupted(program)
  BY <1>5 DEF RefineInv, BufferInv, ChainInv, FlagIsExact
<1>9. <<a, b>> \in Shared(program[i], program[pc])
  BY <1>3 DEF Shared, ArgsOf, ValueOf
<1>10. \A ab \in Shared(program[i], program[pc]) : ~Writes(program[i].args[ab[1]].type)
  BY <1>1, <1>3, <1>6, <1>7, <1>8 DEF HostCodeApart, IsScop
<1> QED BY <1>3, <1>9, <1>10 DEF TypeOf

LEMMA HostCodeRefines ==
  ASSUME AllOffloadable, RefineInv, BufferInv', RunHostCode
  PROVE  RefineInv' /\ Executes
<1>1. /\ UNCHANGED <<passVars, stage, frame, current, previous, bufferList>>
      /\ phase = "done" /\ stage = "call" /\ pc' = pc + 1 /\ pc <= Len(program) /\ ~IsScop(pc)
      /\ hostMem' = Effect(hostMem, program[pc], Time)
      /\ seen' = Observed(hostMem, program[pc])
      /\ HoldingDevice = current /\ HoldingDevice' = current
  BY DEF RunHostCode, At, HoldingDevice
<1>2. RuntimeInv /\ RuntimeInv' /\ PassTypeOK /\ RuntimeTypeOK
  BY DEF RefineInv, BufferInv, RuntimeInv
<1>3. pc \in DOMAIN program /\ pc \in Int /\ \A i \in DOMAIN program : i \in Int
  BY <1>1, <1>2, ProgramDomain DEF RuntimeTypeOK
<1>4. HoldingDevice # "LEG" => HoldingDevice \in Devices
  BY <1>2, EnabledAreDevices DEF RuntimeInv, ControlInv
<1>5. ASSUME NEW d \in Devices, NEW v \in Values, bufferList[d][v] # NoBuffer, NEW c \in Element
      PROVE  ~WrittenNow(v, c)
  BY <1>1, <1>3, <1>5, OffloadableIsTame, HostCodeKeepsReadOnly
     DEF RefineInv, WrittenNow, WrittenBy, TypeOf
<1>6. HostDefined'
  BY <1>1, HostStaysDefined
<1>7. UndefinedIsOutput' /\ TransferredSoFar'
  BY <1>1 DEF RefineInv, ContentsInv, UndefinedIsOutput, TransferredSoFar, WillBeWritten,
     Holds, Content
<1>8. LargeEnough'
  <2>1. CASE flag_chain_interrupt
    <3>1. \A d \in Devices : bufferList'[d] = NoBuffers
      BY <1>1, <1>2, <2>1 DEF RuntimeInv, NothingLeftOnDevice, At
    <3> QED BY <3>1 DEF LargeEnough, NoBuffers
  <2>2. CASE ~flag_chain_interrupt
    BY <1>1, <1>3, <2>2
       DEF RefineInv, ContentsInv, LargeEnough, passVars, IsScop, ArgsOf, ValueOf, SizeOf
  <2> QED BY <2>1, <2>2
<1>9. ChangesAreOutput'
  <2> SUFFICES ASSUME NEW d \in Devices, NEW v \in Values, NEW c \in Element, Holds(d, v, c)
               PROVE  \/ Content(d, v, c) = Undef
                      \/ Content(d, v, c) = hostMem'[v][c]
                      \/ WrittenByCall(v)'
    BY <1>1 DEF ChangesAreOutput, Holds, Content
  <2>1. hostMem'[v][c] = hostMem[v][c]
    BY <1>1, <1>2, <1>5, HostEffect DEF Holds
  <2>2. \A i \in DOMAIN program : HasRun(i) => HasRun(i)'
    BY <1>1, <1>3 DEF HasRun
  <2>3. WrittenByCall(v) => WrittenByCall(v)'
    BY <1>1, <2>2 DEF WrittenByCall, passVars, IsScop, ArgsOf, ValueOf, TypeOf
  <2> QED BY <2>1, <2>3 DEF RefineInv, ContentsInv, ChangesAreOutput
<1>10. LogicalMem' = Effect(LogicalMem, program[pc], Time)
  <2>1. ASSUME NEW v \in Values, NEW c \in Element
        PROVE  Logical(v, c)' = IF WrittenNow(v, c) THEN Time ELSE Logical(v, c)
    <3>1. hostMem'[v][c] = IF WrittenNow(v, c) THEN Time ELSE hostMem[v][c]
      BY <1>1, <1>2, HostEffect
    <3>2. HoldingDevice # "LEG" /\ Fresh(v, c) => ~WrittenNow(v, c)
      BY <1>4, <1>5 DEF Fresh, Holds
    <3> QED BY <1>1, <3>1, <3>2 DEF Logical, Fresh, Holds, Content
  <2> QED BY <1>2, <2>1, SameEffect
<1>11. seen' = Observed(LogicalMem, program[pc])
  <2>1. ASSUME NEW a \in ArgsOf(pc), NEW c \in Element
        PROVE  hostMem[ValueOf(pc, a)][c] = Logical(ValueOf(pc, a), c)
    <3> DEFINE v == ValueOf(pc, a)
    <3>1. v \in Values
      <4>1. program[pc] \in Statement
        BY <1>2, <1>3 DEF PassTypeOK
      <4>2. program[pc].args \in Seq(Argument)
        BY <4>1 DEF Statement
      <4>3. program[pc].args[a] \in Argument
        BY <4>2 DEF ArgsOf
      <4> QED BY <4>3 DEF Argument, ValueOf
    <3>2. CASE HoldingDevice # "LEG" /\ Fresh(v, c)
      <4>1. ~WrittenByCall(v)
        BY <1>1, <1>3, <1>4, <3>1, <3>2, HostCodeFindsFresh DEF Fresh, Holds
      <4>2. Content(HoldingDevice, v, c) = hostMem[v][c]
        BY <1>4, <3>1, <3>2, <4>1 DEF RefineInv, ContentsInv, ChangesAreOutput, Fresh
      <4> QED BY <3>2, <4>2 DEF Logical
    <3>3. CASE ~(HoldingDevice # "LEG" /\ Fresh(v, c))
      BY <3>3 DEF Logical
    <3> QED BY <3>2, <3>3
  <2> QED BY <1>1, <1>2, <1>3, <2>1, SameObserved
<1> QED
  BY <1>1, <1>6, <1>7, <1>8, <1>9, <1>10, <1>11
     DEF RefineInv, ContentsInv, Executes, LogicalPc, passVars
-----------------------------------------------------------------------------
(* The application calls the SCoP parent again. *)
LEMMA NextFrameRefines ==
  ASSUME RefineInv, BufferInv', CallParentAgain
  PROVE  /\ RefineInv'
         /\ LogicalPc > Len(program) /\ LogicalPc' = 1
         /\ UNCHANGED <<program, LogicalMem, seen>>
<1>1. /\ UNCHANGED <<passVars, stage, arg, current, previous, bufferList, hostMem, seen>>
      /\ phase = "done" /\ stage = "call" /\ pc > Len(program) /\ pc' = 1
  BY DEF CallParentAgain, At
<1>2. \A i \in DOMAIN program : i < pc
  BY <1>1, ProgramDomain DEF RefineInv, BufferInv, RuntimeInv, RuntimeTypeOK, PassInv
<1>3. \A d \in Devices : bufferList'[d] = NoBuffers
  BY <1>1, <1>2 DEF RefineInv, BufferInv, RuntimeInv, NothingLeftOnDevice, At
<1>4. HostDefined' /\ TransferredSoFar'
  BY <1>1 DEF RefineInv, ContentsInv, HostDefined, TransferredSoFar
<1>5. ContentsInv'
  BY <1>3, <1>4, EmptyContents
<1>6. LogicalMem' = LogicalMem
  BY <1>1, SameMemory
     DEF RefineInv, BufferInv, Logical, Fresh, Holds, Content, HoldingDevice
<1> QED BY <1>1, <1>4, <1>5, <1>6 DEF RefineInv, LogicalPc, passVars

LEMMA RefineInitInv ==
  ASSUME Init
  PROVE  RefineInv /\ Original!Init
<1>1. BufferInv
  BY BufferInitInv
<1>2. /\ stage = "call" /\ pc = 1 /\ frame = 1 /\ current = "LEG" /\ seen = << >>
      /\ program \in Programs
      /\ hostMem = [v \in Values |-> [c \in Element |-> 0]]
      /\ \A d \in Devices : bufferList[d] = NoBuffers
  BY DEF Init, PassInit, RuntimeInit
<1>3. ContentsInv /\ TransferredSoFar
  BY <1>2, UndefAssumption
     DEF ContentsInv, HostDefined, UndefinedIsOutput, LargeEnough, ChangesAreOutput, Holds,
         NoBuffers, TransferredSoFar
<1>4. LogicalPc = 1 /\ LogicalMem = hostMem
  BY <1>2 DEF LogicalPc, LogicalMem, HoldingDevice
<1>5. Original!Init
  BY <1>2, <1>4 DEF Original!Init, Original!Element, Element
<1> QED BY <1>1, <1>3, <1>5 DEF RefineInv

(* A statement does to memory in the original program what it does here. *)
LEMMA SameStatements ==
  ASSUME NEW m, NEW s, NEW t
  PROVE  /\ Original!Effect(m, s, t) = Effect(m, s, t)
         /\ Original!Observed(m, s) = Observed(m, s)
BY DEF Original!Effect, Original!Observed, Original!Element, Original!WrittenBy,
   Original!ReadBy, Original!Writes, Original!Reads, Effect, Observed, Element, WrittenBy,
   ReadBy, Writes, Reads

LEMMA ExecutesOriginal ==
  ASSUME Executes
  PROVE  Original!Execute
BY SameStatements DEF Executes, Original!Execute, Time

LEMMA RefineStepInv ==
  ASSUME AllOffloadable, RefineInv, [Next]_vars
  PROVE  RefineInv' /\ [Original!Next]_(Original!vars)
<1>1. BufferInv'
  BY OffloadableIsTame, BufferStepInv DEF RefineInv
<1>2. CASE Stutters /\ RefineInv'
  BY <1>2 DEF Stutters, Original!vars
<1>3. CASE Executes /\ RefineInv'
  BY <1>3, ExecutesOriginal DEF Original!Next
<1>4. CASE CallParentAgain
  <2>1. RefineInv' /\ Original!CallAgain
    BY <1>1, <1>4, NextFrameRefines DEF CallParentAgain, Original!CallAgain
  <2> QED BY <2>1 DEF Original!Next
<1>5. CASE UNCHANGED vars
  <2>1. UNCHANGED <<passVars, pc, stage, arg, frame, current, previous, bufferList, hostMem, seen>>
    BY <1>5 DEF vars, runtimeVars
  <2>2. LogicalMem' = LogicalMem
    BY <1>1, <2>1, SameMemory
       DEF RefineInv, BufferInv, Logical, Fresh, Holds, Content, HoldingDevice
  <2>3. ContentsInv' /\ TransferredSoFar'
    BY <2>1 DEF RefineInv, ContentsInv, HostDefined, UndefinedIsOutput, LargeEnough,
       ChangesAreOutput, TransferredSoFar, WillBeWritten, WrittenByCall, HasRun, Holds, Content,
       passVars, IsScop, ArgsOf, ValueOf, TypeOf, SizeOf
  <2> QED BY <1>1, <1>2, <2>1, <2>2, <2>3 DEF RefineInv, Stutters, LogicalPc, passVars
<1> QED
  BY <1>1, <1>2, <1>3, <1>4, <1>5, DecisionStutters, CleanupStutters, TransferStutters,
     ExecuteRefines, LegacyRefines, ReleaseStutters, HostCodeRefines, RunPassStutters
     DEF Next, Step, Wrapper, Stop

(* For every set of programs that can be offloaded, every set of devices,  *)
(* every target and every sequence of decisions: the rewritten application *)
(* reads and writes in every statement what the original one does, however *)
(* many frames it runs (htropclient.cpp:1023).                             *)
THEOREM RewritingIsFaithful ==
  ASSUME AllOffloadable
  PROVE  Spec => ImplementsOriginal
<1>1. Init => RefineInv /\ Original!Init
  BY RefineInitInv
<1>2. RefineInv /\ [Next]_vars => RefineInv' /\ [Original!Next]_(Original!vars)
  BY RefineStepInv
<1> QED
  BY <1>1, <1>2, PTL DEF Spec, ImplementsOriginal, Original!Spec

(* For the same programs, devices, targets and decisions: a kernel starts  *)
(* with all its buffers, each as large as the kernel needs it, although    *)
(* most were created for another call (htropclient.cpp:1197).              *)
THEOREM KernelsStayInBuffers ==
  ASSUME AllOffloadable
  PROVE  Spec => []KernelStaysInBuffers
<1>1. ASSUME RefineInv, At("transfer"), arg \notin ArgsOf(pc), NEW a \in Pointers(pc)
      PROVE  /\ bufferList[current][ValueOf(pc, a)] # NoBuffer
             /\ SizeOf(pc, a) <= Len(bufferList[current][ValueOf(pc, a)].data)
  <2>1. /\ stage = "transfer" /\ pc \in DOMAIN program /\ IsScop(pc)
        /\ current \in Devices /\ PassTypeOK /\ RuntimeTypeOK
    BY <1>1, EnabledAreDevices DEF At, RefineInv, BufferInv, RuntimeInv, ControlInv
  <2>2. Regular(program)
    BY <1>1, ProgramIsOffloadable DEF Offloadable
  <2>3. a \in ArgsOf(pc) /\ ValueOf(pc, a) \in Values
    BY <2>1, <2>2, RegularArguments DEF Pointers
  <2>4. PICK n \in Nat : ArgsOf(pc) = 1 .. n
    BY <2>1, <2>2, RegularArguments
  <2>5. a < arg
    BY <1>1, <2>1, <2>3, <2>4 DEF RuntimeTypeOK
  <2>6. bufferList[current][ValueOf(pc, a)] # NoBuffer
    BY <1>1, <2>1, <2>3, <2>5 DEF RefineInv, TransferredSoFar
  <2>7. pc >= pc
    BY <2>1, ProgramDomain
  <2> QED
    BY <1>1, <2>1, <2>3, <2>6, <2>7 DEF RefineInv, ContentsInv, LargeEnough
<1>2. RefineInv => KernelStaysInBuffers
  BY <1>1 DEF KernelStaysInBuffers
<1>3. Init => RefineInv
  BY RefineInitInv
<1>4. RefineInv /\ [Next]_vars => RefineInv'
  BY RefineStepInv
<1> QED
  BY <1>2, <1>3, <1>4, PTL DEF Spec
=============================================================================
