------------------------ MODULE OffloadRuntime_proofs ------------------------
(***************************************************************************)
(* The runtime for every set of programs, targets and devices: types,      *)
(* where the buffers are, which devices the decisions lead to, and, with   *)
(* what the pass has computed, what read-only buffers contain.             *)
(***************************************************************************)
EXTENDS OffloadRuntime, ScopDependency_proofs

(* In the wrapper, the statement is a SCoP call; in its accelerated_block, *)
(* the accelerator is a device that exists.                                *)
ControlInv ==
  /\ program \in Programs
  /\ stage # "call" => pc \in DOMAIN program /\ IsScop(pc)
  /\ stage # "crashed" => current \in Enabled \cup {"LEG"}
  /\ HoldingDevice \in Enabled \cup {"LEG"}
  /\ stage = "transfer" => current # "LEG"
  /\ phase # "done" => stage = "call" /\ \A d \in Devices : bufferList[d] = NoBuffers

RuntimeInv ==
  /\ PassTypeOK /\ RuntimeTypeOK /\ ControlInv
  /\ BuffersOnlyOnHolder
  /\ NothingLeftOnDevice

(* Whatever the chances, an accelerator is chosen. *)
LEMMA DecisionIsAccelerator ==
  ASSUME NEW chance
  PROVE  decideWhichAccelerator(chance) \in Accelerators
  BY DEF decideWhichAccelerator, Accelerators, Devices

LEMMA EnabledAreDevices == Enabled \subseteq Devices /\ Devices \subseteq Accelerators /\ "LEG" \notin Devices
  BY EnabledAssumption DEF Devices, Accelerators

(* A statement maps a memory to a memory. *)
LEMMA EffectIsMemory ==
  ASSUME NEW m \in [Values -> [Element -> Data]], NEW s, NEW t \in Nat
  PROVE  Effect(m, s, t) \in [Values -> [Element -> Data]]
  BY DEF Effect, Data

LEMMA TimeIsNat ==
  ASSUME PassTypeOK, RuntimeTypeOK
  PROVE  Time \in Nat
<1>1. Len(program) \in Nat /\ frame \in Nat /\ pc \in Nat
  BY ProgramDomain, NumbersAssumption DEF RuntimeTypeOK
<1> QED
  BY <1>1 DEF Time

(* What a device holds is a memory, undefined where it holds nothing.      *)
LEMMA DeviceMemoryType ==
  ASSUME RuntimeTypeOK, NEW d \in Devices
  PROVE  DeviceMemory(d) \in [Values -> [Element -> Data]]
<1> SUFFICES ASSUME NEW v \in Values, NEW c \in Element
             PROVE  (LET b == bufferList[d][v] IN
                     IF b # NoBuffer /\ c \in DOMAIN b.data THEN b.data[c] ELSE Undef) \in Data
  BY DEF DeviceMemory
<1>1. bufferList[d][v] \in Buffer \cup {NoBuffer}
  BY DEF RuntimeTypeOK
<1> QED
  BY <1>1 DEF Buffer, Data

LEMMA ReadBackType ==
  ASSUME RuntimeTypeOK, NEW d \in Devices
  PROVE  ReadBack(d) \in [Values -> [Element -> Data]]
<1> SUFFICES ASSUME NEW v \in Values
             PROVE  ReadBack(d)[v] \in [Element -> Data]
  BY DEF ReadBack
<1> DEFINE b == bufferList[d][v]
<1>1. b \in Buffer \cup {NoBuffer} /\ hostMem[v] \in [Element -> Data]
  BY DEF RuntimeTypeOK
<1>2. CASE b = NoBuffer \/ ~WrittenBack(b.type)
  BY <1>1, <1>2 DEF ReadBack
<1>3. CASE ~(b = NoBuffer \/ ~WrittenBack(b.type))
  <2>1. b.data \in Seq(Data)
    BY <1>1, <1>3 DEF Buffer
  <2>2. \A c \in Element : c <= Len(b.data) => b.data[c] \in Data
    BY <2>1, MaxSizeAssumption DEF Element
  <2>3. ReadBack(d)[v] =
          [c \in Element |-> IF c <= Len(b.data) THEN b.data[c] ELSE hostMem[v][c]]
    BY <1>3 DEF ReadBack
  <2> QED
    BY <1>1, <2>2, <2>3
<1> QED
  BY <1>2, <1>3

(* Cleaning a device types and empties it and leaves the others alone.     *)
(* Only devices that are built in can be cleaned.                          *)
LEMMA CleanUpEmpties ==
  ASSUME RuntimeTypeOK, NEW a, cleanUpBuffers_Device(a)
  PROVE  /\ bufferList' \in [Devices -> [Values -> Buffer \cup {NoBuffer}]]
         /\ hostMem' \in [Values -> [Element -> Data]]
         /\ \A d \in Devices :
              bufferList'[d] = IF d = a /\ a \in Enabled THEN NoBuffers ELSE bufferList[d]
<1>1. NoBuffers \in [Values -> Buffer \cup {NoBuffer}]
  BY DEF NoBuffers
<1>2. CASE a \in Enabled
  <2>1. a \in Devices /\ bufferList' = [bufferList EXCEPT ![a] = NoBuffers] /\ hostMem' = ReadBack(a)
    BY <1>2, EnabledAreDevices DEF cleanUpBuffers_Device, cleanUpBuffers
  <2>2. hostMem' \in [Values -> [Element -> Data]]
    BY <2>1, ReadBackType
  <2>3. bufferList \in [Devices -> [Values -> Buffer \cup {NoBuffer}]]
    BY DEF RuntimeTypeOK
  <2> HIDE DEF Buffer
  <2>4. bufferList' \in [Devices -> [Values -> Buffer \cup {NoBuffer}]]
    BY <1>1, <2>1, <2>3
  <2> QED
    BY <1>2, <2>1, <2>2, <2>3, <2>4
<1>3. CASE a \notin Enabled
  BY <1>3 DEF cleanUpBuffers_Device, RuntimeTypeOK
<1> QED
  BY <1>2, <1>3

(* Both decisions move the accelerator and remember the one before. *)
LEMMA DecisionStep ==
  ASSUME RuntimeInv, DecideAtRuntime \/ staticDecision
  PROVE  RuntimeInv'
<1> USE DEF RuntimeInv
<1>1. /\ phase = "done" /\ stage = "call"
      /\ pc \in 1 .. Len(program) /\ IsScop(pc)
      /\ previous' = current
      /\ stage' \in {"cleanup", "crashed"}
      /\ UNCHANGED <<passVars, target, pc, arg, frame, bufferList, hostMem, seen>>
  BY DEF DecideAtRuntime, staticDecision, At, RuntimeTypeOK
<1>2. current' \in Accelerators
  BY DecisionIsAccelerator, TargetsAssumption DEF DecideAtRuntime, staticDecision, RuntimeTypeOK
<1>3. stage' = "cleanup" => current' \in Enabled \cup {"LEG"}
  BY <1>1 DEF DecideAtRuntime, staticDecision, HasDevice, ControlInv
<1>4. PassTypeOK' /\ program' = program /\ DOMAIN program = 1 .. Len(program)
  BY <1>1, ProgramDomain DEF PassTypeOK, passVars, IsScop, ArgsOf
<1>5. RuntimeTypeOK'
  BY <1>1, <1>2, <1>4 DEF RuntimeTypeOK, Stage
<1>6. HoldingDevice' = HoldingDevice /\ HoldingDevice = current
  BY <1>1 DEF HoldingDevice
<1>7. ControlInv'
  BY <1>1, <1>3, <1>4, <1>6 DEF ControlInv, IsScop, passVars
<1>8. BuffersOnlyOnHolder' /\ NothingLeftOnDevice'
  BY <1>1, <1>6 DEF BuffersOnlyOnHolder, NothingLeftOnDevice, At
<1> QED
  BY <1>4, <1>5, <1>7, <1>8

(* cleanupBuffers empties the device that was left. *)
LEMMA CleanupStep ==
  ASSUME RuntimeInv, CleanupBuffers
  PROVE  RuntimeInv'
<1> USE DEF RuntimeInv
<1>1. /\ phase = "done" /\ stage = "cleanup"
      /\ stage' = IF current = "LEG" THEN "legacy" ELSE "transfer"
      /\ arg' = 1
      /\ UNCHANGED <<passVars, target, pc, frame, current, previous, seen>>
  BY DEF CleanupBuffers, At
<1>2. PassTypeOK' /\ program' = program
  BY <1>1 DEF PassTypeOK, passVars, IsScop, ArgsOf
<1>3. HoldingDevice = previous /\ HoldingDevice' = current
  BY <1>1 DEF HoldingDevice
<1>4. previous \in Enabled \cup {"LEG"} /\ current \in Enabled \cup {"LEG"}
  BY <1>1, <1>3 DEF ControlInv
<1>5. /\ bufferList' \in [Devices -> [Values -> Buffer \cup {NoBuffer}]]
      /\ hostMem' \in [Values -> [Element -> Data]]
      /\ \A d \in Devices : d # current => bufferList'[d] = NoBuffers
  <2>1. \A d \in Devices : d # previous => bufferList[d] = NoBuffers
    BY <1>3 DEF BuffersOnlyOnHolder
  <2>2. CASE previous # current
    <3>1. cleanUpBuffers_Device(previous)
      BY <2>2 DEF CleanupBuffers
    <3>2. /\ bufferList' \in [Devices -> [Values -> Buffer \cup {NoBuffer}]]
          /\ hostMem' \in [Values -> [Element -> Data]]
          /\ \A d \in Devices :
               bufferList'[d] = IF d = previous /\ previous \in Enabled THEN NoBuffers
                                                                      ELSE bufferList[d]
      BY <3>1, CleanUpEmpties
    <3>3. \A d \in Devices : d = previous => previous \in Enabled
      BY <1>4, EnabledAreDevices
    <3> QED
      BY <2>1, <3>2, <3>3
  <2>3. CASE previous = current
    BY <2>1, <2>3 DEF CleanupBuffers, RuntimeTypeOK
  <2> QED
    BY <2>2, <2>3
<1>6. RuntimeTypeOK'
  BY <1>1, <1>2, <1>5 DEF RuntimeTypeOK, Stage
<1>7. ControlInv'
  BY <1>1, <1>2, <1>3, <1>4 DEF ControlInv, IsScop, passVars
<1>8. BuffersOnlyOnHolder' /\ NothingLeftOnDevice'
  BY <1>1, <1>3, <1>5 DEF BuffersOnlyOnHolder, NothingLeftOnDevice, At
<1> QED
  BY <1>2, <1>6, <1>7, <1>8

(* A new buffer fits MaxSize, because the SCoP's own size does. *)
LEMMA NewBufferType ==
  ASSUME PassTypeOK, RuntimeTypeOK, program \in Programs,
         NEW i \in DOMAIN program, IsScop(i), NEW a \in ArgsOf(i)
  PROVE  createAndPopulateBuffer(i, a) \in Buffer
<1> DEFINE type == typeOptimized[i][a]
           n == SizeOf(i, a)
           data == [c \in 1 .. n |-> IF Uploaded(type) THEN hostMem[ValueOf(i, a)][c] ELSE Undef]
<1>1. program[i] \in Statement
  BY DEF PassTypeOK
<1>2. program[i].args[a] \in Argument
  BY <1>1 DEF Statement, ArgsOf
<1>3. ValueOf(i, a) \in Values /\ n \in Nat
  BY <1>2 DEF Argument, ValueOf, SizeOf
<1>4. n <= MaxSize
  BY SizesAssumption DEF SizeOf, ArgsOf
<1>5. type \in DataTransferType
  BY DEF PassTypeOK
<1>6. \A c \in 1 .. n : data[c] \in Data
  BY <1>3, <1>4, MaxSizeAssumption DEF RuntimeTypeOK, Element, Data
<1>7. data \in Seq(Data) /\ Len(data) = n
  BY <1>3, <1>6
<1>8. createAndPopulateBuffer(i, a) = [type |-> type, data |-> data]
  BY DEF createAndPopulateBuffer
<1> HIDE DEF data, type, n
<1> QED
  BY <1>4, <1>5, <1>7, <1>8 DEF Buffer

LEMMA TransferStep ==
  ASSUME RuntimeInv, TransferToDevice
  PROVE  RuntimeInv'
<1> USE DEF RuntimeInv
<1>1. /\ phase = "done" /\ stage = "transfer" /\ arg \in ArgsOf(pc) /\ arg' = arg + 1
      /\ UNCHANGED <<passVars, target, pc, stage, frame, current, previous, hostMem, seen>>
  BY DEF TransferToDevice, At
<1>2. PassTypeOK' /\ program' = program
  BY <1>1 DEF PassTypeOK, passVars, IsScop, ArgsOf
<1>3. current \in Devices /\ HoldingDevice = current /\ HoldingDevice' = current
      /\ pc \in DOMAIN program /\ IsScop(pc) /\ program \in Programs
  BY <1>1, EnabledAreDevices DEF HoldingDevice, ControlInv
<1>4. /\ bufferList' \in [Devices -> [Values -> Buffer \cup {NoBuffer}]]
      /\ \A d \in Devices : d # current => bufferList'[d] = bufferList[d]
  <2>1. bufferList \in [Devices -> [Values -> Buffer \cup {NoBuffer}]]
    BY DEF RuntimeTypeOK
  <2> DEFINE b == createAndPopulateBuffer(pc, arg)
             v == ValueOf(pc, arg)
  <2>2. b \in Buffer
    BY <1>1, <1>3, NewBufferType
  <2>3. \/ bufferList' = [bufferList EXCEPT ![current][v] = b]
        \/ bufferList' = bufferList
    BY DEF TransferToDevice
  <2> HIDE DEF b, v, Buffer
  <2> QED
    BY <1>3, <2>1, <2>2, <2>3
<1>5. RuntimeTypeOK'
  BY <1>1, <1>2, <1>4 DEF RuntimeTypeOK
<1>6. ControlInv'
  BY <1>1, <1>2, <1>3 DEF ControlInv, IsScop, passVars
<1>7. BuffersOnlyOnHolder' /\ NothingLeftOnDevice'
  BY <1>1, <1>3, <1>4 DEF BuffersOnlyOnHolder, NothingLeftOnDevice, At
<1> QED
  BY <1>2, <1>5, <1>6, <1>7

(* A kernel changes the contents of buffers, not their number. *)
LEMMA ExecuteStep ==
  ASSUME RuntimeInv, ExecuteKernel
  PROVE  RuntimeInv'
<1> USE DEF RuntimeInv
<1>1. /\ phase = "done" /\ stage = "transfer" /\ stage' = "release"
      /\ UNCHANGED <<passVars, target, pc, arg, frame, current, previous, hostMem>>
  BY DEF ExecuteKernel, At
<1>2. PassTypeOK' /\ program' = program
  BY <1>1 DEF PassTypeOK, passVars, IsScop, ArgsOf
<1>3. current \in Devices /\ HoldingDevice = current /\ HoldingDevice' = current
  BY <1>1, EnabledAreDevices DEF HoldingDevice, ControlInv
<1> DEFINE result == Effect(DeviceMemory(current), program[pc], Time)
           held == bufferList[current]
           after == WithContents(held, result)
<1>4. bufferList' = [bufferList EXCEPT ![current] = after]
  BY DEF ExecuteKernel
<1>5. result \in [Values -> [Element -> Data]]
  BY <1>3, DeviceMemoryType, TimeIsNat, EffectIsMemory
<1>6. \A v \in Values : after[v] \in Buffer \cup {NoBuffer}
  <2> SUFFICES ASSUME NEW v \in Values, held[v] # NoBuffer
               PROVE  after[v] \in Buffer
    BY DEF WithContents
  <2> DEFINE data == [c \in DOMAIN held[v].data |-> result[v][c]]
  <2>1. held[v] \in Buffer
    BY <1>3 DEF RuntimeTypeOK
  <2>2. held[v].data \in Seq(Data) /\ Len(held[v].data) \in Nat /\ Len(held[v].data) <= MaxSize
        /\ DOMAIN held[v].data = 1 .. Len(held[v].data) /\ held[v].type \in DataTransferType
    BY <2>1 DEF Buffer
  <2>3. \A c \in DOMAIN held[v].data : data[c] \in Data
    BY <1>5, <2>2, MaxSizeAssumption DEF Element
  <2>4. data \in Seq(Data) /\ Len(data) = Len(held[v].data)
    <3> DEFINE n == Len(held[v].data)
    <3>1. n \in Nat /\ data \in [1 .. n -> Data]
      BY <2>2, <2>3
    <3> HIDE DEF data
    <3> QED
      BY <3>1
  <2>5. after[v] = [type |-> held[v].type, data |-> data]
    BY DEF WithContents
  <2> HIDE DEF data, result, held, after
  <2> QED
    BY <2>2, <2>4, <2>5 DEF Buffer
<1>12. after = [v \in Values |-> after[v]]
  BY DEF WithContents
<1> HIDE DEF result, after
<1>7. bufferList' \in [Devices -> [Values -> Buffer \cup {NoBuffer}]]
  <2> HIDE DEF Buffer
  <2>1. after \in [Values -> Buffer \cup {NoBuffer}]
    BY <1>6, <1>12
  <2> QED
    BY <1>3, <1>4, <2>1 DEF RuntimeTypeOK
<1>8. \A d \in Devices : d # current => bufferList'[d] = bufferList[d]
  BY <1>4 DEF RuntimeTypeOK
<1>9. RuntimeTypeOK'
  BY <1>1, <1>2, <1>7 DEF RuntimeTypeOK, Stage
<1>10. ControlInv'
  BY <1>1, <1>2, <1>3 DEF ControlInv, IsScop, passVars
<1>11. BuffersOnlyOnHolder' /\ NothingLeftOnDevice'
  BY <1>1, <1>3, <1>8 DEF BuffersOnlyOnHolder, NothingLeftOnDevice, At
<1> QED
  BY <1>2, <1>9, <1>10, <1>11

(* The host runs a SCoP or its own code. *)
LEMMA HostStep ==
  ASSUME RuntimeInv, RunLegacy \/ RunHostCode
  PROVE  RuntimeInv'
<1> USE DEF RuntimeInv
<1>1. /\ phase = "done"
      /\ hostMem' = Effect(hostMem, program[pc], Time)
      /\ UNCHANGED <<passVars, target, arg, frame, current, previous, bufferList>>
      /\ \/ stage = "legacy" /\ stage' = "release" /\ pc' = pc
         \/ stage = "call" /\ stage' = "call" /\ pc' = pc + 1
            /\ pc <= Len(program) /\ ~IsScop(pc)
  BY DEF RunLegacy, RunHostCode, At
<1>2. PassTypeOK' /\ program' = program
  BY <1>1 DEF PassTypeOK, passVars, IsScop, ArgsOf
<1>3. hostMem' \in [Values -> [Element -> Data]]
  BY <1>1, TimeIsNat, EffectIsMemory DEF RuntimeTypeOK
<1>4. pc' \in 1 .. Len(program) + 1
  BY <1>1, ProgramDomain DEF RuntimeTypeOK
<1>5. RuntimeTypeOK'
  BY <1>1, <1>2, <1>3, <1>4 DEF RuntimeTypeOK, Stage
<1>6. HoldingDevice' = HoldingDevice
  BY <1>1 DEF HoldingDevice
<1>7. ControlInv'
  BY <1>1, <1>2, <1>6 DEF ControlInv, IsScop, passVars
<1>8. BuffersOnlyOnHolder'
  BY <1>1, <1>6 DEF BuffersOnlyOnHolder
<1>9. NothingLeftOnDevice'
  <2>1. DOMAIN program \subseteq Int /\ pc \in Int
    BY ProgramDomain DEF RuntimeTypeOK
  <2>2. (\A i \in DOMAIN program : IsScop(i) => i < pc + 1) /\ ~IsScop(pc)
          => \A i \in DOMAIN program : IsScop(i) => i < pc
    BY <2>1
  <2> QED
    BY <1>1, <1>2, <2>2 DEF NothingLeftOnDevice, At, IsScop, passVars
<1> QED
  BY <1>2, <1>5, <1>7, <1>8, <1>9

(* The last SCoP call is the last one the program reaches. *)
LEMMA LastScopIsLast ==
  ASSUME PassTypeOK, NEW n \in DOMAIN program, IsScop(n),
         \A i \in DOMAIN program : IsScop(i) => i <= n
  PROVE  n = LastScop
<1> DEFINE S == {i \in DOMAIN program : IsScop(i)}
<1>1. S \subseteq Int /\ n \in S /\ \A i \in S : i <= n
  BY ProgramDomain
<1>2. PICK m \in S : m = Max(S) /\ \A i \in S : m >= i
  BY <1>1 DEF Max
<1>3. m >= n /\ m <= n /\ m \in Int /\ n \in Int
  BY <1>1, <1>2
<1> QED
  BY <1>2, <1>3 DEF LastScop

(* The call that follows the wrapper empties the device when it should: in *)
(* an interrupted chain behind every call, without interrupt behind the    *)
(* last call.                                                              *)
LEMMA ReleaseEmpties ==
  ASSUME RuntimeInv, Release
  PROVE  /\ bufferList' \in [Devices -> [Values -> Buffer \cup {NoBuffer}]]
         /\ hostMem' \in [Values -> [Element -> Data]]
         /\ \A d \in Devices : d # current => bufferList'[d] = NoBuffers
         /\ flag_chain_interrupt \/ pc = LastScop => \A d \in Devices : bufferList'[d] = NoBuffers
<1> USE DEF RuntimeInv
<1>1. /\ stage = "release" /\ pc \in DOMAIN program /\ IsScop(pc)
  BY DEF Release, Return, At, ControlInv
<1>2. \A d \in Devices : d # current => bufferList[d] = NoBuffers
  BY <1>1 DEF BuffersOnlyOnHolder, HoldingDevice
<1>3. \A d \in Devices : d = current => current \in Enabled
  BY <1>1, EnabledAreDevices DEF ControlInv
<1>5. ASSUME NEW a, cleanUpBuffers_Device(a)
      PROVE  /\ bufferList' \in [Devices -> [Values -> Buffer \cup {NoBuffer}]]
             /\ hostMem' \in [Values -> [Element -> Data]]
             /\ \A d \in Devices : d # current => bufferList'[d] = NoBuffers
             /\ a = current => \A d \in Devices : bufferList'[d] = NoBuffers
  <2>1. /\ bufferList' \in [Devices -> [Values -> Buffer \cup {NoBuffer}]]
        /\ hostMem' \in [Values -> [Element -> Data]]
        /\ \A d \in Devices :
             bufferList'[d] = IF d = a /\ a \in Enabled THEN NoBuffers ELSE bufferList[d]
    BY <1>5, CleanUpEmpties
  <2> QED
    BY <1>2, <1>3, <2>1
<1>6. CASE ReleaseInterrupted
  BY <1>5, <1>6 DEF ReleaseInterrupted
<1>7. CASE ReleaseLast
  <2>1. ~flag_chain_interrupt
    BY <1>7 DEF ReleaseLast
  <2>2. CASE pc = LastScop
    BY <1>5, <1>7, <2>2 DEF ReleaseLast
  <2>3. CASE pc # LastScop
    <3>1. UNCHANGED <<bufferList, hostMem>>
      BY <1>7, <2>3 DEF ReleaseLast
    <3> QED
      BY <1>2, <2>1, <2>3, <3>1 DEF RuntimeTypeOK
  <2> QED
    BY <2>2, <2>3
<1> QED
  BY <1>6, <1>7 DEF Release

LEMMA ReleaseStep ==
  ASSUME RuntimeInv, Release
  PROVE  RuntimeInv'
<1> USE DEF RuntimeInv
<1>1. /\ phase = "done" /\ stage = "release" /\ stage' = "call" /\ pc' = pc + 1
      /\ UNCHANGED <<passVars, target, arg, frame, current, previous, seen>>
      /\ pc \in DOMAIN program /\ IsScop(pc)
  BY DEF Release, Return, At, ControlInv
<1>2. PassTypeOK' /\ program' = program
  BY <1>1 DEF PassTypeOK, passVars, IsScop, ArgsOf
<1>3. HoldingDevice = current /\ HoldingDevice' = current /\ current \in Enabled \cup {"LEG"}
  BY <1>1 DEF HoldingDevice, ControlInv
<1>4. pc' \in 1 .. Len(program) + 1
  BY <1>1, ProgramDomain DEF RuntimeTypeOK
<1>5. RuntimeTypeOK'
  <2> HIDE DEF Buffer, Data, Element
  <2> QED
    BY <1>1, <1>2, <1>4, ReleaseEmpties DEF RuntimeTypeOK, Stage
<1>6. ControlInv'
  BY <1>1, <1>2, <1>3 DEF ControlInv, IsScop, passVars
<1>7. BuffersOnlyOnHolder'
  BY <1>3, ReleaseEmpties DEF BuffersOnlyOnHolder
<1>8. NothingLeftOnDevice'
  <2>1. (\A i \in DOMAIN program : IsScop(i) => i < pc + 1) => pc = LastScop
    <3> SUFFICES ASSUME \A i \in DOMAIN program : IsScop(i) => i < pc + 1
                 PROVE  pc = LastScop
      OBVIOUS
    <3>1. \A i \in DOMAIN program : IsScop(i) => i <= pc
      BY ProgramDomain DEF RuntimeTypeOK
    <3> QED
      BY <1>1, <3>1, LastScopIsLast
  <2>2. flag_chain_interrupt' = flag_chain_interrupt /\ \A i \in DOMAIN program : IsScop(i)' = IsScop(i)
    BY <1>1 DEF passVars, IsScop
  <2> QED
    BY <1>1, <1>2, <2>1, <2>2, ReleaseEmpties DEF NothingLeftOnDevice, At
<1> QED
  BY <1>2, <1>5, <1>6, <1>7, <1>8

LEMMA CallParentAgainStep ==
  ASSUME RuntimeInv, CallParentAgain
  PROVE  RuntimeInv'
<1> USE DEF RuntimeInv
<1>1. /\ phase = "done" /\ stage = "call" /\ pc > Len(program) /\ pc' = 1
      /\ frame < Frames /\ frame' = frame + 1
      /\ UNCHANGED <<passVars, target, stage, arg, current, previous, bufferList, hostMem, seen>>
  BY DEF CallParentAgain, At
<1>2. PassTypeOK' /\ program' = program
  BY <1>1 DEF PassTypeOK, passVars, IsScop, ArgsOf
<1>3. DOMAIN program = 1 .. Len(program) /\ Len(program) \in Nat
  BY ProgramDomain
<1>4. RuntimeTypeOK'
  BY <1>1, <1>2, <1>3, NumbersAssumption DEF RuntimeTypeOK
<1>5. HoldingDevice' = HoldingDevice
  BY <1>1 DEF HoldingDevice
<1>6. ControlInv' /\ BuffersOnlyOnHolder'
  BY <1>1, <1>2, <1>5 DEF ControlInv, BuffersOnlyOnHolder, IsScop, passVars
<1>7. \A d \in Devices : bufferList[d] = NoBuffers
  <2>1. \A i \in DOMAIN program : i < pc
    BY <1>1, <1>3 DEF RuntimeTypeOK
  <2> QED
    BY <1>1, <2>1 DEF NothingLeftOnDevice, At
<1>8. NothingLeftOnDevice'
  BY <1>1, <1>2, <1>7 DEF NothingLeftOnDevice, passVars
<1> QED
  BY <1>2, <1>4, <1>6, <1>8

(* The pass runs before the first statement. *)
LEMMA PassStepRuntime ==
  ASSUME RuntimeInv, RunPass
  PROVE  RuntimeInv'
<1> USE DEF RuntimeInv
<1>1. PassTypeOK'
  BY PassTypeCorrect DEF RunPass
<1>2. /\ UNCHANGED runtimeVars /\ program' = program /\ phase # "done"
  BY DEF RunPass, PassNext, ScanScopCall, ScanHostCall, ScanOther, Scan, EndScan, UpdateRoot,
     EndUpdate
<1>3. RuntimeTypeOK'
  BY <1>2 DEF runtimeVars, RuntimeTypeOK
<1>4. HoldingDevice' = HoldingDevice
  BY <1>2 DEF runtimeVars, HoldingDevice
<1>5. ControlInv' /\ BuffersOnlyOnHolder'
  BY <1>2, <1>4 DEF runtimeVars, ControlInv, BuffersOnlyOnHolder, IsScop
<1>6. NothingLeftOnDevice'
  BY <1>2 DEF runtimeVars, ControlInv, NothingLeftOnDevice
<1> QED
  BY <1>1, <1>3, <1>5, <1>6

LEMMA RuntimeInitInv ==
  ASSUME Init
  PROVE  RuntimeInv
<1>1. PassTypeOK
  BY PassInitInv, PassInvImplies DEF Init
<1>2. 1 \in 1 .. Len(program) + 1
  BY <1>1, ProgramDomain
<1>3. NoBuffers \in [Values -> Buffer \cup {NoBuffer}]
  BY DEF NoBuffers
<1>4. RuntimeTypeOK
  <2> HIDE DEF Buffer
  <2> QED
    BY <1>2, <1>3, NumbersAssumption
    DEF Init, RuntimeInit, RuntimeTypeOK, Stage, Accelerators, Data
<1>5. ControlInv /\ BuffersOnlyOnHolder /\ NothingLeftOnDevice
  BY DEF Init, PassInit, RuntimeInit, ControlInv, BuffersOnlyOnHolder, NothingLeftOnDevice,
     HoldingDevice
<1> QED
  BY <1>1, <1>4, <1>5 DEF RuntimeInv

LEMMA RuntimeStepInv == RuntimeInv /\ [Next]_vars => RuntimeInv'
<1> SUFFICES ASSUME RuntimeInv, [Next]_vars PROVE RuntimeInv'
  OBVIOUS
<1>1. CASE UNCHANGED vars
  <2>1. PassTypeOK'
    BY <1>1 DEF RuntimeInv, PassTypeOK, vars, passVars, IsScop, ArgsOf
  <2>2. RuntimeTypeOK' /\ ControlInv' /\ BuffersOnlyOnHolder' /\ NothingLeftOnDevice'
    BY <1>1 DEF RuntimeInv, RuntimeTypeOK, ControlInv, BuffersOnlyOnHolder,
       NothingLeftOnDevice, HoldingDevice, At, IsScop, vars, passVars, runtimeVars
  <2> QED
    BY <2>1, <2>2 DEF RuntimeInv
<1> QED
  BY <1>1, DecisionStep, CleanupStep, TransferStep, ExecuteStep, HostStep, ReleaseStep,
     CallParentAgainStep, PassStepRuntime DEF Next, Step, Wrapper, Stop

(* The types of the runtime, for all programs and devices. *)
THEOREM RuntimeTypeCorrect == Spec => []RuntimeTypeOK
<1>1. RuntimeInv => RuntimeTypeOK
  BY DEF RuntimeInv
<1> QED
  BY RuntimeInitInv, RuntimeStepInv, <1>1, PTL DEF Spec

(* At most one device holds buffers, however the decisions move the        *)
(* program between accelerators: none is left behind with stale data.      *)
THEOREM BuffersOnOneDevice == Spec => []BuffersOnlyOnHolder
<1>1. RuntimeInv => BuffersOnlyOnHolder
  BY DEF RuntimeInv
<1> QED
  BY RuntimeInitInv, RuntimeStepInv, <1>1, PTL DEF Spec

(* Behind a call in an interrupted chain, and behind the last one of a     *)
(* chain that is not interrupted, every buffer is back on the host.        *)
THEOREM EverythingReturns == Spec => []NothingLeftOnDevice
<1>1. RuntimeInv => NothingLeftOnDevice
  BY DEF RuntimeInv
<1> QED
  BY RuntimeInitInv, RuntimeStepInv, <1>1, PTL DEF Spec

-----------------------------------------------------------------------------
(* The runtime decision over whole executions: with every device built in  *)
(* and available, a program that was moved to a device stays there, and no *)
(* decision leads to a device that does not exist.  The numbers of         *)
(* registerOpenCL.cpp decide this: the bonus for staying outweighs all     *)
(* others together, unless the arguments lie on two devices, and they      *)
(* never do.                                                               *)

(* The accelerator with the strictly largest chance is chosen. *)
LEMMA LargestChanceWins ==
  ASSUME NEW d \in Devices, NEW chance, \A e \in Accelerators : chance[e] \in Int,
         \A e \in Accelerators : e # d => chance[e] < chance[d]
  PROVE  decideWhichAccelerator(chance) = d
<1>1. /\ chance["LEG"] \in Int /\ chance["MCPU"] \in Int
      /\ chance["GPU"] \in Int /\ chance["MIC"] \in Int
  BY DEF Accelerators, Devices
<1>2. ~(chance["LEG"] > chance[d])
  BY <1>1 DEF Accelerators, Devices
<1>3. ~\A e \in Devices : chance["LEG"] > chance[e]
  BY <1>2
<1>4. CASE d = "MCPU"
  <2>1. \A e \in {"GPU", "MIC"} : chance["MCPU"] > chance[e]
    BY <1>1, <1>4 DEF Accelerators, Devices
  <2> QED BY <1>3, <1>4, <2>1 DEF decideWhichAccelerator
<1>5. CASE d = "GPU"
  <2>1. ~\A e \in {"GPU", "MIC"} : chance["MCPU"] > chance[e]
    BY <1>1, <1>5 DEF Accelerators, Devices
  <2>2. chance["GPU"] > chance["MIC"]
    BY <1>1, <1>5 DEF Accelerators, Devices
  <2> QED BY <1>3, <1>5, <2>1, <2>2 DEF decideWhichAccelerator
<1>6. CASE d = "MIC"
  <2>1. ~\A e \in {"GPU", "MIC"} : chance["MCPU"] > chance[e]
    BY <1>1, <1>6 DEF Accelerators, Devices
  <2>2. ~(chance["GPU"] > chance["MIC"])
    BY <1>1, <1>6 DEF Accelerators, Devices
  <2> QED BY <1>3, <1>6, <2>1, <2>2 DEF decideWhichAccelerator
<1> QED BY <1>4, <1>5, <1>6 DEF Devices

(* Whatever the size of the data and however many of the arguments are on  *)
(* the device already, the decision is to stay.                            *)
LEMMA DecisionIsToStay ==
  ASSUME NEW d \in Devices, NEW held \in [Devices -> Nat], NEW big,
         \A e \in Devices : e # d => held[e] = 0
  PROVE  decideWhichAccelerator(calculateBonus(d, held, big, {})) = d
<1> DEFINE chance == calculateBonus(d, held, big, {})
<1>1. /\ chance["LEG"] = IF big THEN -20 ELSE 20
      /\ chance["MCPU"] = 5 + 30 * held["MCPU"] + (IF big THEN 10 ELSE -10)
                            + (IF d = "MCPU" THEN 50 ELSE 0)
      /\ chance["GPU"] = 15 + 30 * held["GPU"] + (IF big THEN 20 ELSE -20)
                            + (IF d = "GPU" THEN 50 ELSE 0)
      /\ chance["MIC"] = 10 + 30 * held["MIC"] + (IF big THEN 15 ELSE -15)
                            + (IF d = "MIC" THEN 50 ELSE 0)
  BY DEF calculateBonus, initChance, bonusIfOnDevice, bonusBigData, bonusLastAccelerator,
     bonusIfAvailable, Chance, Accelerators, Devices
<1>2. /\ held["MCPU"] \in Nat /\ held["GPU"] \in Nat /\ held["MIC"] \in Nat
      /\ \A e \in {"MCPU", "GPU", "MIC"} : e # d => held[e] = 0
  BY DEF Devices
<1> HIDE DEF chance
<1>3. \A e \in Accelerators : chance[e] \in Int
  <2>1. chance["LEG"] \in Int /\ chance["MCPU"] \in Int
    BY <1>1, <1>2
  <2>2. chance["GPU"] \in Int /\ chance["MIC"] \in Int
    BY <1>1, <1>2
  <2> QED BY <2>1, <2>2 DEF Accelerators, Devices
<1>4. \A e \in Accelerators : e # d => chance[e] < chance[d]
  <2>1. CASE d = "MCPU"
    BY <1>1, <1>2, <2>1 DEF Accelerators, Devices
  <2>2. CASE d = "GPU"
    BY <1>1, <1>2, <2>2 DEF Accelerators, Devices
  <2>3. CASE d = "MIC"
    BY <1>1, <1>2, <2>3 DEF Accelerators, Devices
  <2> QED BY <2>1, <2>2, <2>3 DEF Devices
<1>5. decideWhichAccelerator(chance) = d
  BY <1>3, <1>4, LargestChanceWins
<1> QED BY <1>5 DEF chance

(* Only the device the program is on holds arguments of the call. *)
LEMMA HeldByCurrentOnly ==
  ASSUME RuntimeInv, stage = "call", pc \in DOMAIN program
  PROVE  /\ HeldArguments \in [Devices -> Nat]
         /\ \A e \in Devices : e # current => HeldArguments[e] = 0
<1>1. program[pc].args \in Seq(Argument)
  <2>1. program[pc] \in Statement
    BY DEF RuntimeInv, PassTypeOK
  <2> QED BY <2>1 DEF Statement
<1>2. IsFiniteSet(ArgsOf(pc))
  <2>1. ArgsOf(pc) = 1 .. Len(program[pc].args) /\ Len(program[pc].args) \in Nat
    BY <1>1 DEF ArgsOf
  <2> QED BY <2>1, FS_Interval
<1> DEFINE On(e) == {a \in Pointers(pc) : FoundOn(ValueOf(pc, a)) = e}
<1>3. ASSUME NEW e \in Devices
      PROVE  Cardinality(On(e)) \in Nat
  <2>1. On(e) \in SUBSET ArgsOf(pc)
    BY DEF Pointers
  <2>2. IsFiniteSet(On(e))
    BY <1>2, <2>1, FS_Subset
  <2> QED BY <2>2, FS_CardinalityType
<1>4. ASSUME NEW e \in Devices, e # current
      PROVE  On(e) = {}
  <2> SUFFICES ASSUME NEW a \in Pointers(pc), FoundOn(ValueOf(pc, a)) = e PROVE FALSE
    OBVIOUS
  <2>1. bufferList[e] = NoBuffers
    BY <1>4 DEF RuntimeInv, BuffersOnlyOnHolder, HoldingDevice
  <2>2. ValueOf(pc, a) \in Values
    <3>1. program[pc].args[a] \in Argument
      BY <1>1 DEF Pointers, ArgsOf
    <3> QED BY <3>1 DEF Argument, ValueOf
  <2>3. getBuffer(e, ValueOf(pc, a)) = NoBuffer
    BY <2>1, <2>2 DEF getBuffer, NoBuffers
  <2> QED BY <2>3 DEF FoundOn, Devices
<1>5. HeldArguments = [e \in Devices |-> Cardinality(On(e))]
  BY DEF HeldArguments
<1>6. \A e \in Devices : e # current => Cardinality(On(e)) = 0
  BY <1>4, FS_EmptySet
<1> HIDE DEF On
<1> QED BY <1>3, <1>5, <1>6

LEMMA DecisionStays ==
  ASSUME MaybeUnavailable = {}, RuntimeInv, DecideAtRuntime, current # "LEG"
  PROVE  current' = current
<1>1. stage = "call" /\ pc \in DOMAIN program
  BY ProgramDomain DEF DecideAtRuntime, At, RuntimeInv, RuntimeTypeOK
<1>2. current \in Devices
  BY DEF RuntimeInv, RuntimeTypeOK, Accelerators
<1>3. current' = decideWhichAccelerator(
                   calculateBonus(current, HeldArguments, sum > THRESHOLD, {}))
  BY DEF DecideAtRuntime
<1> QED BY <1>1, <1>2, <1>3, HeldByCurrentOnly, DecisionIsToStay

(* Whatever the program, the size of its data and the buffers it uses: if  *)
(* all devices are available, a program that was moved to a device stays   *)
(* there (registerOpenCL.cpp:357).                                         *)
THEOREM ProgramStaysOnDevice ==
  ASSUME MaybeUnavailable = {}
  PROVE  Spec => SwitchesOnlyFromHost
<1>1. RuntimeInv /\ [Next]_vars
        => [target = "NONE" /\ current' # current => current = "LEG"]_vars
  <2> SUFFICES ASSUME RuntimeInv, Next, target = "NONE", current' # current
               PROVE  current = "LEG"
    OBVIOUS
  <2>1. DecideAtRuntime
    BY DEF Next, Step, Stop, RunPass, Wrapper, staticDecision, CleanupBuffers, TransferToDevice,
       ExecuteKernel, RunLegacy, Release, Return, RunHostCode, CallParentAgain, vars, runtimeVars
  <2> QED BY <2>1, DecisionStays
<1> QED
  BY RuntimeInitInv, RuntimeStepInv, <1>1, PTL DEF Spec, SwitchesOnlyFromHost

(* With all devices built in and available, no wrapper dereferences a      *)
(* device that does not exist (registerOpenCL.cpp:195, :316).              *)
THEOREM NoDeviceIsMissing ==
  ASSUME MaybeUnavailable = {}, Enabled = Devices
  PROVE  Spec => []NoMissingDevice
<1>1. Init => NoMissingDevice
  BY DEF Init, RuntimeInit, NoMissingDevice
<1>2. RuntimeInv /\ NoMissingDevice /\ [Next]_vars => NoMissingDevice'
  <2> SUFFICES ASSUME RuntimeInv, NoMissingDevice, [Next]_vars PROVE stage' # "crashed"
    BY DEF NoMissingDevice
  <2>1. CASE DecideAtRuntime
    <3>1. current' \in Accelerators
      BY <2>1, DecisionIsAccelerator DEF DecideAtRuntime
    <3>2. current' # current => current' # "LEG"
      <4>1. current # "LEG" => current' = current
        BY <2>1, DecisionStays
      <4> QED BY <4>1
    <3> QED BY <2>1, <3>1, <3>2 DEF DecideAtRuntime, HasDevice, Accelerators
  <2>2. CASE staticDecision
    BY <2>2, TargetsAssumption
       DEF staticDecision, HasDevice, Accelerators, RuntimeInv, RuntimeTypeOK
  <2>3. CASE ~DecideAtRuntime /\ ~staticDecision
    BY <2>3 DEF NoMissingDevice, Next, Step, Stop, RunPass, Wrapper, CleanupBuffers,
       TransferToDevice, ExecuteKernel, RunLegacy, Release, Return, RunHostCode,
       CallParentAgain, vars, runtimeVars
  <2> QED BY <2>1, <2>2, <2>3
<1> QED
  BY RuntimeInitInv, RuntimeStepInv, <1>1, <1>2, PTL DEF Spec
-----------------------------------------------------------------------------
(* The pass and the runtime together: no kernel and no host code changes   *)
(* the contents of a read-only buffer while it is on a device, for         *)
(* programs of any length whose host code the pass does not misjudge.      *)

Tame == \A p \in Programs : Regular(p) /\ HostCodeApart(p)

(* The buffer of v on d was created for argument a of call i, which is the *)
(* call of the wrapper or one before it; in an interrupted chain it is not *)
(* one before.                                                             *)
CreatedFor(d, v, i, a) ==
  /\ IsScop(i)
  /\ ValueOf(i, a) = v
  /\ bufferList[d][v].type = typeOptimized[i][a]
  /\ i <= pc
  /\ stage = "call" => i < pc
  /\ flag_chain_interrupt => i = pc

OriginKnown ==
  \A d \in Devices, v \in Values :
    bufferList[d][v] # NoBuffer =>
      \E i \in DOMAIN program : \E a \in ArgsOf(i) : CreatedFor(d, v, i, a)

LegacyOnHost == stage = "legacy" => current = "LEG"

BufferInv ==
  /\ RuntimeInv /\ PassInv /\ ChainInv /\ LegacyOnHost
  /\ OriginKnown /\ ReadOnlyBuffersMatchHost
-----------------------------------------------------------------------------
LEMMA ProgramIsTame ==
  ASSUME Tame, RuntimeInv
  PROVE  Regular(program) /\ HostCodeApart(program)
BY DEF Tame, RuntimeInv, ControlInv

(* When the pass is done, a call keeps its types or speaks for itself.     *)
LEMMA OwnTypeIsKept ==
  ASSUME PassInv, Regular(program), phase = "done",
         NEW i \in DOMAIN program, IsScop(i), NEW a \in ArgsOf(i),
         typeOptimized[i][a] = "IN"
  PROVE  ~Writes(TypeOf(i, a))
<1>1. CASE flag_chain_interrupt
  BY <1>1 DEF PassInv, DoneInv, Unoptimized, Writes
<1>2. CASE ~flag_chain_interrupt
  <2>1. root_pos = 0 /\ i > 0
    BY <1>2, ProgramDomain DEF PassInv, DoneInv
  <2>2. Settled(i)
    BY <1>2, <2>1 DEF PassInv, SettledInv
  <2> QED BY <2>2 DEF Settled, Writes
<1> QED BY <1>1, <1>2

(* The call in the wrapper does not write what is read-only on its device. *)
LEMMA KernelKeepsReadOnly ==
  ASSUME Tame, BufferInv, stage = "transfer", phase = "done",
         NEW d \in Devices, NEW v \in Values,
         bufferList[d][v] # NoBuffer, bufferList[d][v].type = "IN",
         NEW b \in ArgsOf(pc), ValueOf(pc, b) = v
  PROVE  ~Writes(TypeOf(pc, b))
<1>1. pc \in DOMAIN program /\ IsScop(pc) /\ Regular(program)
  BY ProgramIsTame DEF BufferInv, RuntimeInv, ControlInv
<1>0. PICK i \in DOMAIN program : \E a \in ArgsOf(i) : CreatedFor(d, v, i, a)
  BY DEF BufferInv, OriginKnown
<1>2. PICK a \in ArgsOf(i) : CreatedFor(d, v, i, a)
  BY <1>0
<1>3. CASE i = pc
  <2>1. a = b
    BY <1>1, <1>2, <1>3 DEF CreatedFor, Regular, IsScop, ArgsOf, ValueOf
  <2> QED
    BY <1>1, <1>2, <1>3, <2>1, OwnTypeIsKept DEF CreatedFor, BufferInv
<1>4. CASE i # pc
  <2>1. i < pc /\ ~flag_chain_interrupt
    BY <1>1, <1>2, <1>4, ProgramDomain DEF CreatedFor, BufferInv, PassInv
  <2>2. ReadOnlyNeverWritten
    BY PassInvImplies DEF BufferInv
  <2>3. UsedLater(i, a, pc, b) /\ typeOptimized[i][a] = "IN" /\ Optimized
    BY <1>1, <1>2, <2>1 DEF CreatedFor, UsedLater, Optimized
  <2> QED BY <1>1, <2>2, <2>3 DEF ReadOnlyNeverWritten
<1> QED BY <1>3, <1>4

(* Host code between two calls of a chain does not write what is on a      *)
(* device: a chain that is not interrupted has no host code that would.    *)
LEMMA HostCodeKeepsReadOnly ==
  ASSUME Tame, BufferInv, stage = "call", phase = "done",
         pc \in DOMAIN program, ~IsScop(pc),
         NEW d \in Devices, NEW v \in Values,
         bufferList[d][v] # NoBuffer,
         NEW b \in ArgsOf(pc), ValueOf(pc, b) = v
  PROVE  ~Writes(TypeOf(pc, b))
<1>1. HostCodeApart(program)
  BY ProgramIsTame DEF BufferInv
<1>0. PICK i \in DOMAIN program : \E a \in ArgsOf(i) : CreatedFor(d, v, i, a)
  BY DEF BufferInv, OriginKnown
<1>2. PICK a \in ArgsOf(i) : CreatedFor(d, v, i, a)
  BY <1>0
<1>3. bufferList[d] # NoBuffers
  BY DEF NoBuffers
<1>4. ~flag_chain_interrupt /\ ~(\A j \in DOMAIN program : IsScop(j) => j < pc)
  BY <1>3 DEF BufferInv, RuntimeInv, NothingLeftOnDevice, At
<1>5. PICK j \in DOMAIN program : IsScop(j) /\ ~(j < pc)
  BY <1>4
<1>6. i < pc /\ pc < j
  BY <1>2, <1>5, ProgramDomain DEF CreatedFor, BufferInv, PassInv
<1>7. ~ChainInterrupted(program)
  BY <1>4 DEF BufferInv, ChainInv, FlagIsExact
<1>8. <<a, b>> \in Shared(program[i], program[pc])
  BY <1>2 DEF Shared, CreatedFor, ArgsOf, ValueOf
<1>9. \A ab \in Shared(program[i], program[pc]) : ~Writes(program[pc].args[ab[2]].type)
  BY <1>1, <1>2, <1>5, <1>6, <1>7 DEF HostCodeApart, CreatedFor, IsScop
<1> QED BY <1>8, <1>9 DEF TypeOf
-----------------------------------------------------------------------------
(* What no argument writes keeps its contents. *)
LEMMA EffectKeeps ==
  ASSUME NEW m, NEW s, NEW t, NEW v \in DOMAIN m, NEW c \in Element,
         \A b \in DOMAIN s.args : s.args[b].value = v => ~Writes(s.args[b].type)
  PROVE  Effect(m, s, t)[v][c] = m[v][c]
BY DEF Effect, WrittenBy

(* Steps that leave the results of the pass alone. *)
LEMMA PassResultsStay ==
  ASSUME BufferInv, UNCHANGED passVars
  PROVE  /\ PassInv' /\ ChainInv'
         /\ DOMAIN program' = DOMAIN program
         /\ \A i \in DOMAIN program : ArgsOf(i)' = ArgsOf(i)
<1>1. PassInv' /\ ChainInv'
  BY PassStepInv, ChainStepInv DEF BufferInv
<1> QED BY <1>1 DEF passVars, ArgsOf

(* Both invariants hold as long as nothing is on a device. *)
LEMMA EmptyDevices ==
  ASSUME \A d \in Devices : bufferList[d] = NoBuffers
  PROVE  OriginKnown /\ ReadOnlyBuffersMatchHost
BY DEF NoBuffers, OriginKnown, ReadOnlyBuffersMatchHost

LEMMA EmptyDevicesNext ==
  ASSUME \A d \in Devices : bufferList'[d] = NoBuffers
  PROVE  OriginKnown' /\ ReadOnlyBuffersMatchHost'
BY DEF NoBuffers, OriginKnown, ReadOnlyBuffersMatchHost

(* Both invariants survive a step that changes neither memory and does not *)
(* go back in the program.                                                 *)
LEMMA MemoryUnchanged ==
  ASSUME BufferInv, UNCHANGED <<passVars, bufferList, hostMem>>,
         \/ pc' = pc /\ (stage' # "call" \/ stage' = stage)
         \/ pc' = pc + 1 /\ ~flag_chain_interrupt
  PROVE  OriginKnown' /\ ReadOnlyBuffersMatchHost'
<1>1. ReadOnlyBuffersMatchHost'
  BY DEF BufferInv, ReadOnlyBuffersMatchHost
<1>2. OriginKnown'
  <2> SUFFICES ASSUME NEW d \in Devices, NEW v \in Values, bufferList[d][v] # NoBuffer
               PROVE  \E i \in DOMAIN program' : \E a \in ArgsOf(i)' : CreatedFor(d, v, i, a)'
    BY DEF OriginKnown
  <2>0. PICK i \in DOMAIN program : \E a \in ArgsOf(i) : CreatedFor(d, v, i, a)
    BY DEF BufferInv, OriginKnown
  <2>1. PICK a \in ArgsOf(i) : CreatedFor(d, v, i, a)
    BY <2>0
  <2>2. i \in Int /\ pc \in Int
    BY ProgramDomain DEF BufferInv, RuntimeInv, RuntimeTypeOK, PassInv
  <2>3. CreatedFor(d, v, i, a)'
    BY <2>1, <2>2 DEF CreatedFor, IsScop, ValueOf, passVars
  <2> QED BY <2>1, <2>3 DEF passVars, ArgsOf
<1> QED BY <1>1, <1>2
-----------------------------------------------------------------------------
LEMMA DecisionKeeps ==
  ASSUME BufferInv, DecideAtRuntime \/ staticDecision
  PROVE  BufferInv'
<1>1. UNCHANGED <<passVars, bufferList, hostMem, pc>> /\ stage' \in {"cleanup", "crashed"}
  BY DEF DecideAtRuntime, staticDecision
<1>2. RuntimeInv'
  BY DecisionStep DEF BufferInv
<1>3. LegacyOnHost'
  BY <1>1 DEF LegacyOnHost
<1> QED BY <1>1, <1>2, <1>3, PassResultsStay, MemoryUnchanged DEF BufferInv

LEMMA CleanupKeeps ==
  ASSUME BufferInv, CleanupBuffers
  PROVE  BufferInv'
<1>1. UNCHANGED <<passVars, pc, current, previous>> /\ stage = "cleanup"
      /\ stage' = IF current = "LEG" THEN "legacy" ELSE "transfer"
  BY DEF CleanupBuffers, At
<1>2. RuntimeInv' /\ LegacyOnHost'
  BY <1>1, CleanupStep DEF BufferInv, LegacyOnHost
<1>3. CASE previous = current
  <2>1. UNCHANGED <<bufferList, hostMem>>
    BY <1>3 DEF CleanupBuffers
  <2> QED BY <1>1, <1>2, <2>1, PassResultsStay, MemoryUnchanged DEF BufferInv
<1>4. CASE previous # current
  <2>1. cleanUpBuffers_Device(previous)
    BY <1>4 DEF CleanupBuffers
  <2>2. current \in Devices => bufferList[current] = NoBuffers
    BY <1>1, <1>4 DEF BufferInv, RuntimeInv, BuffersOnlyOnHolder, HoldingDevice
  <2>3. current \in Devices => bufferList'[current] = NoBuffers
    BY <1>4, <2>1, <2>2, CleanUpEmpties DEF BufferInv, RuntimeInv
  <2>4. \A d \in Devices : d # current => bufferList'[d] = NoBuffers
    BY <1>1, <1>2 DEF RuntimeInv, BuffersOnlyOnHolder, HoldingDevice
  <2>5. \A d \in Devices : bufferList'[d] = NoBuffers
    BY <2>3, <2>4
  <2> QED BY <1>1, <1>2, <2>5, PassResultsStay, EmptyDevicesNext DEF BufferInv
<1> QED BY <1>3, <1>4

(* A new buffer has the contents of the host memory if it is read-only. *)
LEMMA TransferKeeps ==
  ASSUME BufferInv, TransferToDevice
  PROVE  BufferInv'
<1>1. /\ phase = "done" /\ stage = "transfer" /\ arg \in ArgsOf(pc)
      /\ UNCHANGED <<passVars, pc, stage, current, hostMem>>
      /\ pc \in DOMAIN program /\ IsScop(pc) /\ current \in Devices
  BY EnabledAreDevices
     DEF TransferToDevice, At, BufferInv, RuntimeInv, ControlInv
<1>2. RuntimeInv' /\ LegacyOnHost'
  BY <1>1, TransferStep DEF BufferInv, LegacyOnHost
<1> DEFINE new == createAndPopulateBuffer(pc, arg)
           w == ValueOf(pc, arg)
<1>3. CASE UNCHANGED bufferList
  <2>1. UNCHANGED <<passVars, bufferList, hostMem>> /\ pc' = pc /\ stage' = stage
    BY <1>1, <1>3
  <2>2. OriginKnown' /\ ReadOnlyBuffersMatchHost'
    BY <2>1, MemoryUnchanged
  <2>3. PassInv' /\ ChainInv'
    BY <2>1, PassResultsStay
  <2> QED BY <1>2, <2>2, <2>3 DEF BufferInv
<1>4. CASE bufferList' = [bufferList EXCEPT ![current][w] = new]
  <2>1. ASSUME NEW d \in Devices, NEW v \in Values
        PROVE  bufferList'[d][v] = IF d = current /\ v = w THEN new ELSE bufferList[d][v]
    BY <1>1, <1>4 DEF BufferInv, RuntimeInv, RuntimeTypeOK
  <2>2. /\ new.type = typeOptimized[pc][arg]
        /\ new.type = "IN" => \A c \in DOMAIN new.data : new.data[c] = hostMem[w][c]
    BY DEF createAndPopulateBuffer, Uploaded
  <2>3. ReadOnlyBuffersMatchHost'
    <3> HIDE DEF new, w
    <3> SUFFICES ASSUME NEW d \in Devices, NEW v \in Values,
                        bufferList'[d][v] # NoBuffer, bufferList'[d][v].type = "IN",
                        NEW c \in DOMAIN bufferList'[d][v].data
                 PROVE  bufferList'[d][v].data[c] = hostMem'[v][c]
      BY DEF ReadOnlyBuffersMatchHost
    <3>1. CASE d = current /\ v = w
      BY <1>1, <2>1, <2>2, <3>1
    <3>2. CASE ~(d = current /\ v = w)
      BY <1>1, <2>1, <3>2 DEF BufferInv, ReadOnlyBuffersMatchHost
    <3> QED BY <3>1, <3>2
  <2>4. OriginKnown'
    <3> SUFFICES ASSUME NEW d \in Devices, NEW v \in Values, bufferList'[d][v] # NoBuffer
                 PROVE  \E i \in DOMAIN program' : \E a \in ArgsOf(i)' : CreatedFor(d, v, i, a)'
      BY DEF OriginKnown
    <3>1. CASE d = current /\ v = w
      <4>1. PICK i \in DOMAIN program : i = pc
        BY <1>1
      <4>2. PICK a \in ArgsOf(i) : a = arg
        BY <1>1, <4>1
      <4>3. bufferList'[d][v].type = typeOptimized[i][a] /\ ValueOf(i, a) = v /\ IsScop(i)
        BY <1>1, <2>1, <2>2, <3>1, <4>1, <4>2
      <4>4. i \in Int
        BY ProgramDomain DEF BufferInv, PassInv
      <4>5. CreatedFor(d, v, i, a)'
        <5> HIDE DEF w, new
        <5> QED BY <1>1, <4>1, <4>3, <4>4 DEF CreatedFor, IsScop, ValueOf, passVars
      <4> QED BY <1>1, <4>2, <4>5 DEF passVars, ArgsOf
    <3>2. CASE ~(d = current /\ v = w)
      <4>1. bufferList'[d][v] = bufferList[d][v]
        BY <2>1, <3>2
      <4>2. PICK i \in DOMAIN program : \E a \in ArgsOf(i) : CreatedFor(d, v, i, a)
        BY <4>1 DEF BufferInv, OriginKnown
      <4>3. PICK a \in ArgsOf(i) : CreatedFor(d, v, i, a)
        BY <4>2
      <4>4. CreatedFor(d, v, i, a)'
        BY <1>1, <4>1, <4>3 DEF CreatedFor, IsScop, ValueOf, passVars
      <4> QED BY <1>1, <4>3, <4>4 DEF passVars, ArgsOf
    <3> QED BY <3>1, <3>2
  <2> QED BY <1>1, <1>2, <2>3, <2>4, PassResultsStay DEF BufferInv
<1> QED BY <1>3, <1>4 DEF TransferToDevice

(* A kernel leaves the contents of a read-only buffer as they are. *)
LEMMA ExecuteKeeps ==
  ASSUME Tame, BufferInv, ExecuteKernel
  PROVE  BufferInv'
<1>1. /\ phase = "done" /\ stage = "transfer" /\ stage' = "release"
      /\ UNCHANGED <<passVars, pc, current, hostMem>>
      /\ current \in Devices
  BY EnabledAreDevices DEF ExecuteKernel, At, BufferInv, RuntimeInv, ControlInv
<1>2. RuntimeInv' /\ LegacyOnHost'
  BY <1>1, ExecuteStep DEF BufferInv, LegacyOnHost
<1> DEFINE mem == DeviceMemory(current)
           result == Effect(mem, program[pc], Time)
           after == WithContents(bufferList[current], result)
<1>3. \A d \in Devices : bufferList'[d] = IF d = current THEN after ELSE bufferList[d]
  BY DEF ExecuteKernel, BufferInv, RuntimeInv, RuntimeTypeOK
<1>4. ASSUME NEW v \in Values
      PROVE  /\ bufferList[current][v] = NoBuffer => after[v] = NoBuffer
             /\ bufferList[current][v] # NoBuffer =>
                  /\ after[v].type = bufferList[current][v].type
                  /\ DOMAIN after[v].data = DOMAIN bufferList[current][v].data
                  /\ \A c \in DOMAIN after[v].data : after[v].data[c] = result[v][c]
  <2>1. bufferList[current][v] # NoBuffer =>
          after[v] = [type |-> bufferList[current][v].type,
                      data |-> [c \in DOMAIN bufferList[current][v].data |-> result[v][c]]]
    BY DEF WithContents
  <2>2. bufferList[current][v] = NoBuffer => after[v] = NoBuffer
    BY DEF WithContents
  <2> HIDE DEF result, after
  <2> QED BY <2>1, <2>2
<1>5. ReadOnlyBuffersMatchHost'
  <2> SUFFICES ASSUME NEW d \in Devices, NEW v \in Values,
                      bufferList'[d][v] # NoBuffer, bufferList'[d][v].type = "IN",
                      NEW c \in DOMAIN bufferList'[d][v].data
               PROVE  bufferList'[d][v].data[c] = hostMem[v][c]
    BY <1>1 DEF ReadOnlyBuffersMatchHost
  <2>1. CASE d # current
    BY <1>3, <2>1 DEF BufferInv, ReadOnlyBuffersMatchHost
  <2>2. CASE d = current
    <3> DEFINE b == bufferList[current][v]
    <3>1. b # NoBuffer /\ b.type = "IN" /\ c \in DOMAIN b.data
          /\ bufferList'[d][v].data[c] = result[v][c]
      <4> HIDE DEF after, result
      <4> QED BY <1>3, <1>4, <2>2
    <3>2. c \in Element
      <4>1. b \in Buffer
        BY <1>1, <3>1 DEF BufferInv, RuntimeInv, RuntimeTypeOK
      <4>2. b.data \in Seq(Data) /\ Len(b.data) <= MaxSize
        BY <4>1 DEF Buffer
      <4>3. c \in 1 .. Len(b.data) /\ Len(b.data) \in Nat
        BY <3>1, <4>2
      <4> QED BY <4>2, <4>3, MaxSizeAssumption DEF Element
    <3>3. \A a \in DOMAIN program[pc].args :
            program[pc].args[a].value = v => ~Writes(program[pc].args[a].type)
      BY <1>1, <3>1, KernelKeepsReadOnly DEF ArgsOf, ValueOf, TypeOf
    <3>4. result[v][c] = mem[v][c]
      <4>1. v \in DOMAIN mem
        BY DEF DeviceMemory
      <4> HIDE DEF mem
      <4> QED BY <3>2, <3>3, <4>1, EffectKeeps
    <3>5. mem[v][c] = b.data[c]
      BY <3>1, <3>2 DEF DeviceMemory
    <3>6. b.data[c] = hostMem[v][c]
      BY <1>1, <3>1 DEF BufferInv, ReadOnlyBuffersMatchHost
    <3> HIDE DEF result, mem, after
    <3> QED BY <3>1, <3>4, <3>5, <3>6
  <2> QED BY <2>1, <2>2
<1>6. OriginKnown'
  <2> SUFFICES ASSUME NEW d \in Devices, NEW v \in Values, bufferList'[d][v] # NoBuffer
               PROVE  \E i \in DOMAIN program' : \E a \in ArgsOf(i)' : CreatedFor(d, v, i, a)'
    BY DEF OriginKnown
  <2>1. bufferList[d][v] # NoBuffer /\ bufferList'[d][v].type = bufferList[d][v].type
    <3> HIDE DEF after, result
    <3> QED BY <1>3, <1>4
  <2>2. PICK i \in DOMAIN program : \E a \in ArgsOf(i) : CreatedFor(d, v, i, a)
    BY <2>1 DEF BufferInv, OriginKnown
  <2>3. PICK a \in ArgsOf(i) : CreatedFor(d, v, i, a)
    BY <2>2
  <2>4. CreatedFor(d, v, i, a)'
    BY <1>1, <2>1, <2>3 DEF CreatedFor, IsScop, ValueOf, passVars
  <2> QED BY <1>1, <2>3, <2>4 DEF passVars, ArgsOf
<1> QED BY <1>1, <1>2, <1>5, <1>6, PassResultsStay DEF BufferInv

(* The legacy_block runs when nothing is on a device. *)
LEMMA LegacyKeeps ==
  ASSUME BufferInv, RunLegacy
  PROVE  BufferInv'
<1>1. stage = "legacy" /\ stage' = "release" /\ UNCHANGED <<passVars, bufferList>>
  BY DEF RunLegacy, At
<1>2. RuntimeInv' /\ LegacyOnHost'
  BY <1>1, HostStep DEF BufferInv, LegacyOnHost
<1>3. \A d \in Devices : bufferList'[d] = NoBuffers
  BY <1>1, EnabledAreDevices
     DEF BufferInv, LegacyOnHost, RuntimeInv, BuffersOnlyOnHolder, HoldingDevice
<1> QED BY <1>1, <1>2, <1>3, PassResultsStay, EmptyDevicesNext DEF BufferInv

LEMMA HostCodeKeeps ==
  ASSUME Tame, BufferInv, RunHostCode
  PROVE  BufferInv'
<1>1. /\ phase = "done" /\ stage = "call" /\ stage' = "call" /\ pc' = pc + 1
      /\ pc \in DOMAIN program /\ ~IsScop(pc)
      /\ UNCHANGED <<passVars, bufferList>>
      /\ hostMem' = Effect(hostMem, program[pc], Time)
  BY ProgramDomain
     DEF RunHostCode, At, BufferInv, RuntimeInv, RuntimeTypeOK, PassInv
<1>2. RuntimeInv' /\ LegacyOnHost'
  BY <1>1, HostStep DEF BufferInv, LegacyOnHost
<1>3. ReadOnlyBuffersMatchHost'
  <2> SUFFICES ASSUME NEW d \in Devices, NEW v \in Values,
                      bufferList[d][v] # NoBuffer, bufferList[d][v].type = "IN",
                      NEW c \in DOMAIN bufferList[d][v].data
               PROVE  bufferList[d][v].data[c] = hostMem'[v][c]
    BY <1>1 DEF ReadOnlyBuffersMatchHost
  <2>1. c \in Element
    <3>1. bufferList[d][v] \in Buffer
      BY DEF BufferInv, RuntimeInv, RuntimeTypeOK
    <3>2. bufferList[d][v].data \in Seq(Data) /\ Len(bufferList[d][v].data) <= MaxSize
      BY <3>1 DEF Buffer
    <3>3. c \in 1 .. Len(bufferList[d][v].data) /\ Len(bufferList[d][v].data) \in Nat
      BY <3>2
    <3> QED BY <3>2, <3>3, MaxSizeAssumption DEF Element
  <2>2. \A a \in DOMAIN program[pc].args :
          program[pc].args[a].value = v => ~Writes(program[pc].args[a].type)
    BY <1>1, HostCodeKeepsReadOnly DEF ArgsOf, ValueOf, TypeOf
  <2>3. v \in DOMAIN hostMem
    BY DEF BufferInv, RuntimeInv, RuntimeTypeOK
  <2>4. hostMem'[v][c] = hostMem[v][c]
    BY <1>1, <2>1, <2>2, <2>3, EffectKeeps
  <2> QED BY <2>4 DEF BufferInv, ReadOnlyBuffersMatchHost
<1>4. OriginKnown'
  <2> SUFFICES ASSUME NEW d \in Devices, NEW v \in Values, bufferList[d][v] # NoBuffer
               PROVE  \E i \in DOMAIN program' : \E a \in ArgsOf(i)' : CreatedFor(d, v, i, a)'
    BY <1>1 DEF OriginKnown
  <2>1. ~flag_chain_interrupt
    BY <1>1 DEF BufferInv, RuntimeInv, NothingLeftOnDevice, At, NoBuffers
  <2>2. PICK i \in DOMAIN program : \E a \in ArgsOf(i) : CreatedFor(d, v, i, a)
    BY DEF BufferInv, OriginKnown
  <2>3. PICK a \in ArgsOf(i) : CreatedFor(d, v, i, a)
    BY <2>2
  <2>4. i \in Int /\ pc \in Int
    BY ProgramDomain DEF BufferInv, RuntimeInv, RuntimeTypeOK, PassInv
  <2>5. CreatedFor(d, v, i, a)'
    BY <1>1, <2>1, <2>3, <2>4 DEF CreatedFor, IsScop, ValueOf, passVars
  <2> QED BY <1>1, <2>3, <2>5 DEF passVars, ArgsOf
<1> QED BY <1>1, <1>2, <1>3, <1>4, PassResultsStay DEF BufferInv

(* A buffer stays on a device behind a wrapper only if the chain is not    *)
(* interrupted and goes on.                                                *)
LEMMA ReleaseKeeps ==
  ASSUME BufferInv, Release
  PROVE  BufferInv'
<1>1. /\ stage = "release" /\ stage' = "call" /\ pc' = pc + 1
      /\ UNCHANGED passVars
  BY DEF Release, Return, At
<1>2. RuntimeInv' /\ LegacyOnHost'
  BY <1>1, ReleaseStep DEF BufferInv, LegacyOnHost
<1>3. CASE flag_chain_interrupt \/ pc = LastScop
  <2>1. \A d \in Devices : bufferList'[d] = NoBuffers
    BY <1>3, ReleaseEmpties DEF BufferInv
  <2> QED BY <1>1, <1>2, <2>1, PassResultsStay, EmptyDevicesNext DEF BufferInv
<1>4. CASE ~(flag_chain_interrupt \/ pc = LastScop)
  <2>1. UNCHANGED <<passVars, bufferList, hostMem>> /\ pc' = pc + 1 /\ ~flag_chain_interrupt
    BY <1>1, <1>4 DEF Release, ReleaseInterrupted, ReleaseLast
  <2>2. OriginKnown' /\ ReadOnlyBuffersMatchHost'
    BY <2>1, MemoryUnchanged
  <2> QED BY <1>1, <1>2, <2>2, PassResultsStay DEF BufferInv
<1> QED BY <1>3, <1>4

(* Between two calls of the SCoP parent nothing is on a device. *)
LEMMA NextFrameKeeps ==
  ASSUME BufferInv, CallParentAgain
  PROVE  BufferInv'
<1>1. /\ phase = "done" /\ stage = "call" /\ pc > Len(program)
      /\ UNCHANGED <<passVars, stage, current, bufferList>>
  BY DEF CallParentAgain, At
<1>2. RuntimeInv' /\ LegacyOnHost'
  BY <1>1, CallParentAgainStep DEF BufferInv, LegacyOnHost
<1>3. \A i \in DOMAIN program : i < pc
  BY <1>1, ProgramDomain DEF BufferInv, RuntimeInv, RuntimeTypeOK, PassInv
<1>4. \A d \in Devices : bufferList'[d] = NoBuffers
  BY <1>1, <1>3 DEF BufferInv, RuntimeInv, NothingLeftOnDevice, At
<1> QED BY <1>1, <1>2, <1>4, PassResultsStay, EmptyDevicesNext DEF BufferInv

(* While the pass runs, the application does not. *)
LEMMA RunPassKeeps ==
  ASSUME BufferInv, RunPass
  PROVE  BufferInv'
<1>1. UNCHANGED runtimeVars /\ PassNext /\ phase # "done"
  BY DEF RunPass, PassNext, ScanScopCall, ScanHostCall, ScanOther, Scan, EndScan, UpdateRoot,
     EndUpdate
<1>2. RuntimeInv' /\ LegacyOnHost'
  BY <1>1, PassStepRuntime DEF BufferInv, LegacyOnHost, runtimeVars
<1>3. PassInv' /\ ChainInv'
  BY <1>1, PassStepInv, ChainStepInv DEF BufferInv
<1>4. \A d \in Devices : bufferList'[d] = NoBuffers
  BY <1>1 DEF BufferInv, RuntimeInv, ControlInv, runtimeVars
<1> QED BY <1>2, <1>3, <1>4, EmptyDevicesNext DEF BufferInv
-----------------------------------------------------------------------------
LEMMA BufferInitInv ==
  ASSUME Init
  PROVE  BufferInv
<1>1. RuntimeInv /\ PassInv /\ ChainInv
  BY RuntimeInitInv, PassInitInv, ChainInitInv DEF Init
<1>2. LegacyOnHost /\ \A d \in Devices : bufferList[d] = NoBuffers
  BY DEF Init, RuntimeInit, LegacyOnHost
<1> QED BY <1>1, <1>2, EmptyDevices DEF BufferInv

LEMMA BufferStepInv ==
  ASSUME Tame, BufferInv, [Next]_vars
  PROVE  BufferInv'
<1>1. CASE UNCHANGED vars
  <2>1. UNCHANGED <<passVars, bufferList, hostMem>> /\ pc' = pc /\ stage' = stage
        /\ current' = current
    BY <1>1 DEF vars, runtimeVars
  <2>2. RuntimeInv'
    BY <1>1, RuntimeStepInv DEF BufferInv
  <2>3. OriginKnown' /\ ReadOnlyBuffersMatchHost'
    BY <2>1, MemoryUnchanged
  <2>4. LegacyOnHost'
    BY <2>1 DEF BufferInv, LegacyOnHost
  <2> QED BY <2>1, <2>2, <2>3, <2>4, PassResultsStay DEF BufferInv
<1> QED
  BY <1>1, DecisionKeeps, CleanupKeeps, TransferKeeps, ExecuteKeeps, LegacyKeeps,
     HostCodeKeeps, ReleaseKeeps, NextFrameKeeps, RunPassKeeps DEF Next, Step, Wrapper, Stop

(* For every set of devices and every sequence of decisions: a buffer that *)
(* is released without being copied back holds what the host memory holds, *)
(* provided no SCoP is passed a pointer twice and host code the pass does  *)
(* not notice leaves the SCoPs' data alone (openCLDevice.cpp:273,          *)
(* scopdependency.cpp:143).                                                *)
THEOREM ReadOnlyBuffersSafe ==
  ASSUME Tame
  PROVE  Spec => []ReadOnlyBuffersMatchHost
<1>1. Init => BufferInv
  BY BufferInitInv
<1>2. BufferInv /\ [Next]_vars => BufferInv'
  BY BufferStepInv
<1>3. BufferInv => ReadOnlyBuffersMatchHost
  BY DEF BufferInv
<1> QED
  BY <1>1, <1>2, <1>3, PTL DEF Spec
=============================================================================
