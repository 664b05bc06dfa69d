-------------------------- MODULE KernelCompilation --------------------------
(***************************************************************************)
(* Compiling the OpenCL kernels.  compileForDevice runs in the             *)
(* application's thread whenever a decision asks for a device: it starts a *)
(* thread for every other device that is neither compiled nor being        *)
(* compiled, waits for its own device, and compiles that itself if nobody  *)
(* has.  The only communication is by the two flags of a device; reading   *)
(* one and acting on it are separate steps.                                *)
(*                                                                         *)
(* The calls may ask for any devices, in any order.  Those of today's      *)
(* decisions ask for one device only: a static decision names the same one *)
(* again, and a dynamic one does not leave a device while all of them are  *)
(* available.                                                              *)
(*                                                                         *)
(* A compiler is whoever runs compileKernel: Main or a started thread.     *)
(* The flags are plain bools compiled at -O0; a read or write of one is    *)
(* one step.                                                               *)
(***************************************************************************)
EXTENDS Integers, Sequences

CONSTANTS
  deviceList,    (* the devices built in, in order                         *)
  kernelNames,   (* the kernels added by addClKernel, in order             *)
  Requestable,   (* the devices the decisions may ask for                  *)
  MaybeMissing,  (* the devices this machine may not have                  *)
  MaxCalls       (* bound: calls of compileForDevice                       *)

DeviceSet == {deviceList[i] : i \in DOMAIN deviceList}

ASSUME CompilationAssumption ==
  /\ deviceList \in Seq(DeviceSet)
  /\ kernelNames \in Seq({kernelNames[i] : i \in DOMAIN kernelNames})
  /\ Requestable \subseteq DeviceSet
  /\ MaybeMissing \subseteq DeviceSet
  /\ MaxCalls \in Nat

(* Compiler 0 is the application's thread; a call starts at most one       *)
(* thread for each other device.                                           *)
Main      == 0
Threads   == 1 .. MaxCalls * (Len(deviceList) - 1)
Compilers == {Main} \cup Threads
NoOne     == -1

VARIABLES
  inCompilationPhase,  (* of a device                                      *)
  isCompiled,          (* of a device                                      *)
  context,             (* the compiler whose context the device has        *)
  kernelList,          (* the compiler whose program a kernel is from      *)
  compilerPc,          (* "idle", "begin", "import", "flag" or "add"       *)
  compiles,            (* the device a compiler works on                   *)
  nextKernel,          (* the index of the kernel it adds next             *)
  compilerThreads,     (* the number of threads started                    *)
  mainPc,              (* "idle", "scan", "spawn", "wait", "check",        *)
                       (* "compile", "returned" or "exited"                *)
  requested,           (* the parameter of compileForDevice                *)
  index,               (* the iterator over deviceList                     *)
  calls

flags    == <<inCompilationPhase, isCompiled>>
compiler == <<compilerPc, compiles, nextKernel>>
main     == <<mainPc, requested, index, calls, compilerThreads>>
vars     == <<flags, context, kernelList, compiler, main>>

Init ==
  /\ inCompilationPhase = [d \in DeviceSet |-> FALSE]
  /\ isCompiled = [d \in DeviceSet |-> FALSE]
  /\ context = [d \in DeviceSet |-> NoOne]
  /\ kernelList = [d \in DeviceSet |-> [k \in DOMAIN kernelNames |-> NoOne]]
  /\ compilerPc = [c \in Compilers |-> "idle"]
  /\ compiles = [c \in Compilers |-> deviceList[1]]
  /\ nextKernel = [c \in Compilers |-> 1]
  /\ compilerThreads = 0
  /\ mainPc = "idle"
  /\ requested = deviceList[1]
  /\ index = 1
  /\ calls = 0

Running == mainPc # "exited"

(* compileKernel, run by compiler c *)

Goto(c, from, to) ==
  /\ Running
  /\ compilerPc[c] = from
  /\ compilerPc' = [compilerPc EXCEPT ![c] = to]

SetInCompilationPhase(c) ==
  /\ Goto(c, "begin", "import")
  /\ inCompilationPhase' = [inCompilationPhase EXCEPT ![compiles[c]] = TRUE]
  /\ UNCHANGED <<isCompiled, context, kernelList, compiles, nextKernel, main>>

(* importKernel: a new context, queue and program replace what was there.  *)
ImportKernel(c) ==
  /\ Goto(c, "import", "flag")
  /\ context' = [context EXCEPT ![compiles[c]] = c]
  /\ UNCHANGED <<flags, kernelList, compiles, nextKernel, main>>

(* importKernel exits the process when there is no such device. *)
ImportWithoutDevice(c) ==
  /\ compiles[c] \in MaybeMissing /\ context[compiles[c]] = NoOne
  /\ Goto(c, "import", "idle")
  /\ mainPc' = "exited"
  /\ UNCHANGED <<flags, context, kernelList, compiles, nextKernel, requested, index,
                 calls, compilerThreads>>

SetIsCompiled(c) ==
  /\ Goto(c, "flag", "add")
  /\ isCompiled' = [isCompiled EXCEPT ![compiles[c]] = TRUE]
  /\ nextKernel' = [nextKernel EXCEPT ![c] = 1]
  /\ UNCHANGED <<inCompilationPhase, context, kernelList, compiles, main>>

(* addKernel takes the device's current program; emplace keeps a kernel    *)
(* that is there already.                                                  *)
AddKernel(c) ==
  LET d == compiles[c]  k == nextKernel[c] IN
  /\ Running
  /\ compilerPc[c] = "add" /\ k <= Len(kernelNames)
  /\ kernelList' = [kernelList EXCEPT ![d][k] = IF @ = NoOne THEN context[d] ELSE @]
  /\ nextKernel' = [nextKernel EXCEPT ![c] = k + 1]
  /\ UNCHANGED <<flags, context, compilerPc, compiles, main>>

(* Mutant: the phase ends when the program is built. *)
EndCompilationPhaseEarly(c) ==
  /\ Goto(c, "add", "idle")
  /\ inCompilationPhase' = [inCompilationPhase EXCEPT ![compiles[c]] = FALSE]
  /\ UNCHANGED <<isCompiled, context, kernelList, compiles, nextKernel, main>>

(* Mutant: the flag is never reset. *)
EndCompilationPhaseForgotten(c) ==
  /\ nextKernel[c] > Len(kernelNames)
  /\ Goto(c, "add", "idle")
  /\ UNCHANGED <<flags, context, kernelList, compiles, nextKernel, main>>

EndCompilationPhase(c) ==
  /\ nextKernel[c] > Len(kernelNames)
  /\ Goto(c, "add", "idle")
  /\ inCompilationPhase' = [inCompilationPhase EXCEPT ![compiles[c]] = FALSE]
  /\ UNCHANGED <<isCompiled, context, kernelList, compiles, nextKernel, main>>

CompileKernel(c) ==
  \/ SetInCompilationPhase(c) \/ ImportKernel(c) \/ ImportWithoutDevice(c)
  \/ SetIsCompiled(c) \/ AddKernel(c) \/ EndCompilationPhase(c)

(* compileForDevice, run by Main *)

data == <<flags, context, kernelList>>

(* c starts to run compileKernel for d. *)
StartCompiler(c, d) ==
  /\ compilerPc' = [compilerPc EXCEPT ![c] = "begin"]
  /\ compiles' = [compiles EXCEPT ![c] = d]
  /\ UNCHANGED nextKernel

CompileForDevice(d) ==
  /\ mainPc = "idle" /\ calls < MaxCalls
  /\ mainPc' = "scan"
  /\ requested' = d
  /\ index' = 1
  /\ calls' = calls + 1
  /\ UNCHANGED <<data, compiler, compilerThreads>>

(* A device is skipped if it is the requested one or already in the works. *)
SkipDevice ==
  /\ mainPc = "scan" /\ index <= Len(deviceList)
  /\ \/ deviceList[index] = requested
     \/ inCompilationPhase[deviceList[index]]
  /\ index' = index + 1
  /\ UNCHANGED <<data, compiler, mainPc, requested, calls, compilerThreads>>

(* Otherwise the second flag is read. *)
NotInCompilationPhase ==
  /\ mainPc = "scan" /\ index <= Len(deviceList)
  /\ deviceList[index] # requested
  /\ ~inCompilationPhase[deviceList[index]]
  /\ mainPc' = "spawn"
  /\ UNCHANGED <<data, compiler, requested, index, calls, compilerThreads>>

SkipCompiledDevice ==
  /\ mainPc = "spawn"
  /\ isCompiled[deviceList[index]]
  /\ mainPc' = "scan"
  /\ index' = index + 1
  /\ UNCHANGED <<data, compiler, requested, calls, compilerThreads>>

(* Mutant: the loop stays at the device. *)
SpawnThreadAgain ==
  /\ mainPc = "spawn"
  /\ ~isCompiled[deviceList[index]]
  /\ compilerThreads' = compilerThreads + 1
  /\ StartCompiler(compilerThreads', deviceList[index])
  /\ mainPc' = "scan"
  /\ UNCHANGED <<data, requested, index, calls>>

SpawnThread ==
  /\ mainPc = "spawn"
  /\ ~isCompiled[deviceList[index]]
  /\ compilerThreads' = compilerThreads + 1
  /\ StartCompiler(compilerThreads', deviceList[index])
  /\ mainPc' = "scan"
  /\ index' = index + 1
  /\ UNCHANGED <<data, requested, calls>>

EndScan ==
  /\ mainPc = "scan" /\ index > Len(deviceList)
  /\ mainPc' = "wait"
  /\ UNCHANGED <<data, compiler, requested, index, calls, compilerThreads>>

(* Leaves the loop that spins on inCompilationPhase. *)
EndWait ==
  /\ mainPc = "wait"
  /\ ~inCompilationPhase[requested]
  /\ mainPc' = "check"
  /\ UNCHANGED <<data, compiler, requested, index, calls, compilerThreads>>

(* Mutant: nobody looks whether the device was compiled. *)
FindCompiledUnchecked ==
  /\ mainPc = "check"
  /\ mainPc' = "returned"
  /\ UNCHANGED <<data, compiler, requested, index, calls, compilerThreads>>

FindCompiled ==
  /\ mainPc = "check"
  /\ isCompiled[requested]
  /\ mainPc' = "returned"
  /\ UNCHANGED <<data, compiler, requested, index, calls, compilerThreads>>

CompileHere ==
  /\ mainPc = "check"
  /\ ~isCompiled[requested]
  /\ StartCompiler(Main, requested)
  /\ mainPc' = "compile"
  /\ UNCHANGED <<data, requested, index, calls, compilerThreads>>

EndCompileHere ==
  /\ mainPc = "compile"
  /\ compilerPc[Main] = "idle"
  /\ mainPc' = "returned"
  /\ UNCHANGED <<data, compiler, requested, index, calls, compilerThreads>>

(* The application uses the kernels until its next decision. *)
NextDecision ==
  /\ mainPc = "returned"
  /\ mainPc' = "idle"
  /\ UNCHANGED <<data, compiler, requested, index, calls, compilerThreads>>

MainStep ==
  \/ \E d \in Requestable : CompileForDevice(d)
  \/ SkipDevice \/ NotInCompilationPhase \/ SkipCompiledDevice \/ SpawnThread
  \/ EndScan \/ EndWait \/ FindCompiled \/ CompileHere \/ EndCompileHere
  \/ NextDecision

Next == MainStep \/ \E c \in Compilers : CompileKernel(c)

Spec == Init /\ [][Next]_vars

(* The operating system runs every thread. *)
FairSpec ==
  /\ Spec
  /\ WF_vars(MainStep)
  /\ \A c \in Compilers : WF_vars(CompileKernel(c))
-----------------------------------------------------------------------------
CompilationTypeOK ==
  /\ inCompilationPhase \in [DeviceSet -> BOOLEAN]
  /\ isCompiled \in [DeviceSet -> BOOLEAN]
  /\ context \in [DeviceSet -> Compilers \cup {NoOne}]
  /\ kernelList \in [DeviceSet -> [DOMAIN kernelNames -> Compilers \cup {NoOne}]]
  /\ compilerPc \in [Compilers -> {"idle", "begin", "import", "flag", "add"}]
  /\ compiles \in [Compilers -> DeviceSet]
  /\ nextKernel \in [Compilers -> 1 .. Len(kernelNames) + 1]
  /\ compilerThreads \in {0} \cup Threads
  /\ mainPc \in {"idle", "scan", "spawn", "wait", "check", "compile",
                 "returned", "exited"}
  /\ requested \in DeviceSet
  /\ index \in 1 .. Len(deviceList) + 1
  /\ calls \in 0 .. MaxCalls

Usable(d) ==
  \A k \in DOMAIN kernelNames :
    kernelList[d][k] # NoOne /\ kernelList[d][k] = context[d]

(* No thread was started for d. *)
LeftToMain(d) == \A t \in Threads : t <= compilerThreads => compiles[t] # d

(* When compileForDevice returns for a device it never gave to a thread,   *)
(* every kernel of the device is there, and belongs to the context the     *)
(* buffers and the command queue will be created in, whatever the threads  *)
(* of the other devices do meanwhile (registerOpenCL.cpp:225).             *)
UsableIfLeftToMain ==
  mainPc = "returned" /\ LeftToMain(requested) => Usable(requested)

(* The flags of a device, read together, do not lie: a compiled device     *)
(* that is not in its compilation phase has all its kernels, even if two   *)
(* threads compile it (registerOpenCL.cpp:167, :190).                      *)
IdleMeansComplete ==
  \A d \in DeviceSet : isCompiled[d] /\ ~inCompilationPhase[d] =>
    \A k \in DOMAIN kernelNames : kernelList[d][k] # NoOne

(* Nobody spins for nobody: while a device is in its compilation phase,    *)
(* some compiler that has begun with it has not ended; and if the          *)
(* application's thread spins, that is another thread, which only the end  *)
(* of the process keeps from lowering the flag (registerOpenCL.cpp:167,    *)
(* :190, :221).                                                            *)
CompilesNow(c, d) == compiles[c] = d /\ compilerPc[c] \in {"import", "flag", "add"}

RaisedFlagHasCompiler ==
  Running => \A d \in DeviceSet : inCompilationPhase[d] =>
    \E c \in Compilers : CompilesNow(c, d) /\ (mainPc = "wait" => c # Main)

(* The spinning application gets out of compileForDevice, or the process   *)
(* ends (registerOpenCL.cpp:221).                                          *)
CompileForDeviceReturns ==
  mainPc = "scan" ~> mainPc \in {"returned", "exited"}
=============================================================================
