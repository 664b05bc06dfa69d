---------------------- MODULE KernelCompilation_proofs ----------------------
(***************************************************************************)
(* For every number of devices, kernels, threads and calls: a device that  *)
(* is compiled and not in its compilation phase has all its kernels, a     *)
(* device that no thread compiles is usable when compileForDevice returns, *)
(* and a raised flag always has a compiler that will lower it.             *)
(***************************************************************************)
EXTENDS KernelCompilation, TLAPS

Complete(d) == \A k \in DOMAIN kernelNames : kernelList[d][k] # NoOne

(* The types the proofs need. *)
FlagsTypeOK ==
  /\ inCompilationPhase \in [DeviceSet -> BOOLEAN]
  /\ isCompiled \in [DeviceSet -> BOOLEAN]
  /\ context \in [DeviceSet -> Compilers \cup {NoOne}]
  /\ kernelList \in [DeviceSet -> [DOMAIN kernelNames -> Compilers \cup {NoOne}]]
  /\ compilerPc \in [Compilers -> {"idle", "begin", "import", "flag", "add"}]
  /\ compiles \in [Compilers -> DeviceSet]
  /\ nextKernel \in [Compilers -> Nat \ {0}]
  /\ compilerThreads \in Nat
  /\ requested \in DeviceSet
  /\ index \in Nat \ {0}
  /\ mainPc = "spawn" => index <= Len(deviceList)

(* A compiler that has begun has raised the flag, and only a compiler that *)
(* has added every kernel lowers it again.                                 *)
RaisedUntilComplete ==
  \A c \in Compilers : compilerPc[c] \in {"import", "flag", "add"} =>
    inCompilationPhase[compiles[c]] \/ Complete(compiles[c])

ContextImported ==
  \A c \in Compilers : compilerPc[c] \in {"flag", "add"} => context[compiles[c]] # NoOne

AddedSoFar ==
  \A c \in Compilers : compilerPc[c] = "add" =>
    \A k \in DOMAIN kernelNames : k < nextKernel[c] => kernelList[compiles[c]][k] # NoOne

CompilationInv ==
  /\ FlagsTypeOK
  /\ RaisedUntilComplete /\ ContextImported /\ AddedSoFar
  /\ IdleMeansComplete

(* A device of the list is a device. *)
LEMMA ListedIsDevice ==
  ASSUME NEW i \in DOMAIN deviceList
  PROVE  deviceList[i] \in DeviceSet
  BY DEF DeviceSet

LEMMA CompilersAreInts == Compilers \subseteq Int /\ NoOne \notin Compilers /\ Main \in Compilers
  BY DEF Compilers, Threads, Main, NoOne

(* There is a first device, unless the build has none; then nothing runs.  *)
LEMMA InitCompilationInv ==
  ASSUME DeviceSet # {}, Init
  PROVE  CompilationInv
<1>1. Len(deviceList) \in Nat /\ DOMAIN deviceList = 1 .. Len(deviceList)
  BY CompilationAssumption
<1>2. 1 \in DOMAIN deviceList
  BY <1>1 DEF DeviceSet
<1>3. deviceList[1] \in DeviceSet
  BY <1>2, ListedIsDevice
<1>4. FlagsTypeOK
  BY <1>3, CompilersAreInts DEF Init, FlagsTypeOK
<1>5. RaisedUntilComplete /\ ContextImported /\ AddedSoFar
  BY DEF Init, RaisedUntilComplete, ContextImported, AddedSoFar
<1>6. IdleMeansComplete
  BY DEF Init, IdleMeansComplete
<1> QED
  BY <1>4, <1>5, <1>6 DEF CompilationInv

(* What every step of the main thread keeps: it starts compilers, but      *)
(* touches no flag, context or kernel.                                     *)
LEMMA MainStepInv ==
  ASSUME CompilationInv, MainStep
  PROVE  CompilationInv'
<1> USE DEF CompilationInv
<1>1. UNCHANGED data
  BY DEF MainStep, CompileForDevice, SkipDevice, NotInCompilationPhase, SkipCompiledDevice,
     SpawnThread, EndScan, EndWait, FindCompiled, CompileHere, EndCompileHere, NextDecision
<1>2. Len(deviceList) \in Nat /\ DOMAIN deviceList = 1 .. Len(deviceList)
  BY CompilationAssumption
<1>3. \/ UNCHANGED compiler
      \/ \E c \in Int : \E d \in DeviceSet : StartCompiler(c, d)
  <2>1. CASE SpawnThread
    <3>1. index \in DOMAIN deviceList
      BY <2>1, <1>2 DEF SpawnThread, FlagsTypeOK
    <3>2. deviceList[index] \in DeviceSet
      BY <3>1, ListedIsDevice
    <3>3. compilerThreads' \in Int
      BY <2>1 DEF SpawnThread, FlagsTypeOK
    <3> QED
      BY <2>1, <3>2, <3>3 DEF SpawnThread
  <2>2. CASE CompileHere
    BY <2>2 DEF CompileHere, FlagsTypeOK, Main
  <2> QED
    BY <2>1, <2>2 DEF MainStep, CompileForDevice, SkipDevice, NotInCompilationPhase,
       SkipCompiledDevice, EndScan, EndWait, FindCompiled, EndCompileHere, NextDecision,
       compiler
<1>4. \A c \in Compilers : compilerPc'[c] \in {"import", "flag", "add"} =>
        compilerPc'[c] = compilerPc[c] /\ compiles'[c] = compiles[c] /\ nextKernel'[c] = nextKernel[c]
  BY <1>3 DEF StartCompiler, FlagsTypeOK, compiler
<1>5. compilerPc' \in [Compilers -> {"idle", "begin", "import", "flag", "add"}]
      /\ compiles' \in [Compilers -> DeviceSet] /\ nextKernel' = nextKernel
  BY <1>3 DEF StartCompiler, FlagsTypeOK, compiler
<1>6. compilerThreads' \in Nat /\ requested' \in DeviceSet
  BY CompilationAssumption DEF FlagsTypeOK, MainStep, CompileForDevice, SkipDevice,
     NotInCompilationPhase, SkipCompiledDevice, SpawnThread, EndScan, EndWait, FindCompiled,
     CompileHere, EndCompileHere, NextDecision
<1>7. index' \in Nat \ {0} /\ (mainPc' = "spawn" => index' <= Len(deviceList))
  BY <1>2 DEF FlagsTypeOK, MainStep, CompileForDevice, SkipDevice, NotInCompilationPhase,
     SkipCompiledDevice, SpawnThread, EndScan, EndWait, FindCompiled, CompileHere,
     EndCompileHere, NextDecision
<1>8. FlagsTypeOK'
  BY <1>1, <1>5, <1>6, <1>7 DEF FlagsTypeOK, data, flags
<1>9. (RaisedUntilComplete /\ ContextImported /\ AddedSoFar)'
  BY <1>1, <1>4 DEF RaisedUntilComplete, ContextImported, AddedSoFar, Complete, data, flags
<1>10. IdleMeansComplete'
  BY <1>1 DEF IdleMeansComplete, data, flags
<1> QED
  BY <1>8, <1>9, <1>10

(* A step of a compiler. *)
LEMMA CompileStepInv ==
  ASSUME CompilationInv, NEW c \in Compilers, CompileKernel(c)
  PROVE  CompilationInv'
<1> USE DEF CompilationInv
<1> DEFINE d == compiles[c]
<1>1. /\ d \in DeviceSet /\ compiles' = compiles
      /\ \A e \in Compilers : e # c => compilerPc'[e] = compilerPc[e] /\ nextKernel'[e] = nextKernel[e]
  BY DEF FlagsTypeOK, CompileKernel, SetInCompilationPhase, ImportKernel, ImportWithoutDevice,
     SetIsCompiled, AddKernel, EndCompilationPhase, Goto
<1>2. \A k \in DOMAIN kernelNames : nextKernel[c] > Len(kernelNames) => k < nextKernel[c]
  BY CompilationAssumption DEF FlagsTypeOK
<1>3. CASE SetInCompilationPhase(c)
  <2>1. FlagsTypeOK'
    BY <1>3 DEF SetInCompilationPhase, Goto, FlagsTypeOK, main
  <2> QED
    BY <1>1, <1>3, <2>1 DEF SetInCompilationPhase, Goto, FlagsTypeOK, RaisedUntilComplete,
       ContextImported, AddedSoFar, IdleMeansComplete, Complete
<1>4. CASE ImportKernel(c)
  <2>1. FlagsTypeOK'
    BY <1>4 DEF ImportKernel, Goto, FlagsTypeOK, main, flags
  <2> QED
    BY <1>1, <1>4, <2>1, CompilersAreInts DEF ImportKernel, Goto, FlagsTypeOK,
       RaisedUntilComplete, ContextImported, AddedSoFar, IdleMeansComplete, Complete, flags
<1>5. CASE ImportWithoutDevice(c)
  <2>1. FlagsTypeOK'
    BY <1>5 DEF ImportWithoutDevice, Goto, FlagsTypeOK, flags
  <2> QED
    BY <1>1, <1>5, <2>1 DEF ImportWithoutDevice, Goto, FlagsTypeOK, RaisedUntilComplete,
       ContextImported, AddedSoFar, IdleMeansComplete, Complete, flags
<1>6. CASE SetIsCompiled(c)
  <2>1. FlagsTypeOK'
    BY <1>6 DEF SetIsCompiled, Goto, FlagsTypeOK, main
  <2>2. RaisedUntilComplete' /\ ContextImported'
    BY <1>1, <1>6, <2>1 DEF SetIsCompiled, Goto, FlagsTypeOK, RaisedUntilComplete,
       ContextImported, Complete
  <2>3. AddedSoFar'
    <3>1. nextKernel'[c] = 1 /\ compilerPc[c] = "flag" /\ UNCHANGED kernelList
      BY <1>6 DEF SetIsCompiled, Goto, FlagsTypeOK
    <3>2. \A k \in DOMAIN kernelNames : ~(k < 1)
      BY CompilationAssumption
    <3> QED
      BY <1>1, <3>1, <3>2 DEF AddedSoFar
  <2>4. IdleMeansComplete'
    BY <1>1, <1>6 DEF SetIsCompiled, Goto, FlagsTypeOK, RaisedUntilComplete,
       IdleMeansComplete, Complete
  <2> QED
    BY <2>1, <2>2, <2>3, <2>4
<1>7. CASE AddKernel(c)
  <2> DEFINE k == nextKernel[c]
  <2>1. k \in DOMAIN kernelNames /\ context[d] # NoOne /\ context[d] \in Compilers
    BY <1>1, <1>7, CompilationAssumption DEF AddKernel, FlagsTypeOK, ContextImported
  <2>2. /\ kernelList' = [kernelList EXCEPT ![d][k] = IF @ = NoOne THEN context[d] ELSE @]
        /\ nextKernel' = [nextKernel EXCEPT ![c] = k + 1]
        /\ UNCHANGED <<flags, context, compilerPc, compiles, main>>
    BY <1>7 DEF AddKernel
  <2>3. kernelList' \in [DeviceSet -> [DOMAIN kernelNames -> Compilers \cup {NoOne}]]
    BY <2>1, <2>2, <1>1 DEF FlagsTypeOK
  <2>4. FlagsTypeOK'
    BY <2>2, <2>3 DEF FlagsTypeOK, flags, main
  <2>5. \A e \in DeviceSet, j \in DOMAIN kernelNames :
          kernelList[e][j] # NoOne => kernelList'[e][j] # NoOne
    BY <2>1, <2>2, <1>1 DEF FlagsTypeOK
  <2>6. kernelList'[d][k] # NoOne
    BY <2>1, <2>2, <1>1 DEF FlagsTypeOK
  <2>7. RaisedUntilComplete' /\ ContextImported' /\ IdleMeansComplete'
    BY <2>2, <2>5 DEF FlagsTypeOK, flags, RaisedUntilComplete, ContextImported,
       IdleMeansComplete, Complete
  <2>8. AddedSoFar'
    <3> SUFFICES ASSUME NEW e \in Compilers, compilerPc'[e] = "add",
                        NEW j \in DOMAIN kernelNames, j < nextKernel'[e]
                 PROVE  kernelList'[compiles'[e]][j] # NoOne
      BY DEF AddedSoFar
    <3>1. j \in Nat /\ k \in Nat /\ compiles[e] \in DeviceSet
      BY CompilationAssumption DEF FlagsTypeOK
    <3>2. CASE e # c
      BY <1>1, <2>2, <2>5, <3>1, <3>2 DEF AddedSoFar
    <3>3. CASE e = c /\ j = k
      BY <2>6, <2>2, <3>3
    <3>4. CASE e = c /\ j # k
      <4>1. j < nextKernel[e]
        BY <2>2, <3>1, <3>4 DEF FlagsTypeOK
      <4> QED
        BY <4>1, <2>2, <2>5, <3>1 DEF AddedSoFar
    <3> QED
      BY <3>2, <3>3, <3>4
  <2> QED
    BY <2>4, <2>7, <2>8
<1>8. CASE EndCompilationPhase(c)
  <2>1. FlagsTypeOK'
    BY <1>8 DEF EndCompilationPhase, Goto, FlagsTypeOK, main
  <2>2. Complete(d)
    BY <1>2, <1>8 DEF EndCompilationPhase, Goto, AddedSoFar, Complete
  <2>3. RaisedUntilComplete' /\ ContextImported' /\ AddedSoFar'
    BY <1>1, <1>8, <2>1, <2>2 DEF EndCompilationPhase, Goto, FlagsTypeOK,
       RaisedUntilComplete, ContextImported, AddedSoFar, Complete
  <2>4. IdleMeansComplete'
    BY <1>1, <1>8, <2>2 DEF EndCompilationPhase, Goto, FlagsTypeOK, IdleMeansComplete, Complete
  <2> QED
    BY <2>1, <2>3, <2>4
<1> QED
  BY <1>3, <1>4, <1>5, <1>6, <1>7, <1>8 DEF CompileKernel

(* However many threads compile the same device, and however the decisions *)
(* ask for devices: the two flags of a device, read together, are right.   *)
THEOREM IdleDevicesAreComplete ==
  ASSUME DeviceSet # {}
  PROVE  Spec => []IdleMeansComplete
<1>1. Init => CompilationInv
  BY InitCompilationInv
<1>2. CompilationInv /\ [Next]_vars => CompilationInv'
  <2> SUFFICES ASSUME CompilationInv, [Next]_vars PROVE CompilationInv'
    OBVIOUS
  <2>1. CASE UNCHANGED vars
    BY <2>1 DEF CompilationInv, FlagsTypeOK, RaisedUntilComplete, ContextImported, AddedSoFar,
       IdleMeansComplete, Complete, vars, flags, compiler, main
  <2> QED
    BY <2>1, MainStepInv, CompileStepInv DEF Next
<1>3. CompilationInv => IdleMeansComplete
  BY DEF CompilationInv
<1> QED
  BY <1>1, <1>2, <1>3, PTL DEF Spec
-----------------------------------------------------------------------------
(* A device that is left to the application's thread is compiled by nobody *)
(* else.                                                                   *)

ThreadsStarted ==
  /\ \A t \in Threads : compilerPc[t] # "idle" => t <= compilerThreads
  /\ compilerPc[Main] # "idle" => mainPc \in {"compile", "exited"}
  /\ mainPc = "compile" => compiles[Main] = requested

(* The kernels of g are of Main's context, and complete when Main is done. *)
KernelsByMain(g) ==
  /\ context[g] \in {NoOne, Main}
  /\ \A k \in DOMAIN kernelNames : kernelList[g][k] # NoOne =>
       kernelList[g][k] = Main /\ context[g] = Main
  /\ isCompiled[g] => Complete(g) \/ (compilerPc[Main] = "add" /\ compiles[Main] = g)
  /\ mainPc = "compile" /\ requested = g /\ compilerPc[Main] = "idle" => Complete(g)
  /\ mainPc = "returned" /\ requested = g => Complete(g)

LeftToMainInv(g) ==
  CompilationInv /\ ThreadsStarted /\ (LeftToMain(g) => KernelsByMain(g))

LEMMA CompilersAreMainAndThreads ==
  /\ Compilers = {Main} \cup Threads
  /\ Main \notin Threads
  /\ \A t \in Threads : t \in Nat
BY DEF Compilers, Threads, Main

LEMMA InitLeftToMainInv ==
  ASSUME NEW g \in DeviceSet, Init
  PROVE  LeftToMainInv(g)
<1>1. CompilationInv
  BY InitCompilationInv
<1>2. ThreadsStarted /\ KernelsByMain(g)
  BY CompilersAreMainAndThreads DEF Init, ThreadsStarted, KernelsByMain
<1> QED
  BY <1>1, <1>2 DEF LeftToMainInv

LEMMA MainStepLeftToMain ==
  ASSUME NEW g \in DeviceSet, LeftToMainInv(g), MainStep
  PROVE  LeftToMainInv(g)'
<1> USE DEF LeftToMainInv
<1>1. CompilationInv'
  BY MainStepInv
<1>2. FlagsTypeOK
  BY DEF CompilationInv
<1>3. UNCHANGED data
  BY DEF MainStep, CompileForDevice, SkipDevice, NotInCompilationPhase, SkipCompiledDevice,
     SpawnThread, EndScan, EndWait, FindCompiled, CompileHere, EndCompileHere, NextDecision
<1>4. CASE SpawnThread
  <2>1. compilerThreads' \in Nat /\ compilerThreads' # Main /\ compilerThreads' > compilerThreads
    BY <1>2, <1>4 DEF SpawnThread, FlagsTypeOK, Main
  <2>2. mainPc = "spawn" /\ mainPc' = "scan" /\ requested' = requested
    BY <1>4 DEF SpawnThread
  <2>3. /\ compilerPc'[Main] = compilerPc[Main] /\ compiles'[Main] = compiles[Main]
        /\ \A t \in Threads : t # compilerThreads' =>
             compilerPc'[t] = compilerPc[t] /\ compiles'[t] = compiles[t]
    BY <1>2, <1>4, <2>1, CompilersAreMainAndThreads DEF SpawnThread, StartCompiler, FlagsTypeOK
  <2>4. ThreadsStarted'
    BY <1>2, <1>4, <2>1, <2>2, <2>3, CompilersAreMainAndThreads
    DEF SpawnThread, ThreadsStarted, FlagsTypeOK
  <2>5. LeftToMain(g)' => LeftToMain(g)
    BY <1>2, <1>4, <2>1, <2>3, CompilersAreMainAndThreads
    DEF SpawnThread, LeftToMain, FlagsTypeOK
  <2>6. KernelsByMain(g) => KernelsByMain(g)'
    BY <1>3, <2>2, <2>3 DEF KernelsByMain, Complete, data, flags
  <2> QED
    BY <1>1, <2>4, <2>5, <2>6
<1>5. CASE CompileHere
  <2>1. /\ mainPc = "check" /\ mainPc' = "compile" /\ ~isCompiled[requested]
        /\ UNCHANGED <<requested, compilerThreads>>
        /\ compilerPc[Main] = "idle"
    BY <1>5 DEF CompileHere, ThreadsStarted
  <2>2. /\ compilerPc'[Main] = "begin" /\ compiles'[Main] = requested
        /\ \A t \in Threads : compilerPc'[t] = compilerPc[t] /\ compiles'[t] = compiles[t]
    BY <1>2, <1>5, CompilersAreMainAndThreads DEF CompileHere, StartCompiler, FlagsTypeOK
  <2>3. ThreadsStarted' /\ (LeftToMain(g)' => LeftToMain(g))
    BY <2>1, <2>2 DEF ThreadsStarted, LeftToMain
  <2>4. KernelsByMain(g) => KernelsByMain(g)'
    BY <1>3, <2>1, <2>2 DEF KernelsByMain, Complete, data, flags
  <2> QED
    BY <1>1, <2>3, <2>4
<1>6. CASE ~SpawnThread /\ ~CompileHere
  <2>1. UNCHANGED <<compiler, compilerThreads>>
    BY <1>6 DEF MainStep, CompileForDevice, SkipDevice, NotInCompilationPhase,
       SkipCompiledDevice, EndScan, EndWait, FindCompiled, EndCompileHere, NextDecision
  <2>2. LeftToMain(g)' <=> LeftToMain(g)
    BY <2>1 DEF LeftToMain, compiler
  <2>3. \/ mainPc' \notin {"compile", "returned"} /\ mainPc \notin {"compile", "exited"}
        \/ FindCompiled \/ EndCompileHere
    BY <1>6 DEF MainStep, CompileForDevice, SkipDevice, NotInCompilationPhase,
       SkipCompiledDevice, EndScan, EndWait, NextDecision
  <2>4. ThreadsStarted'
    BY <2>1, <2>3 DEF ThreadsStarted, compiler, FindCompiled, EndCompileHere
  <2>5. KernelsByMain(g) => KernelsByMain(g)'
    <3>1. CASE FindCompiled
      <4>1. compilerPc[Main] = "idle"
        BY <3>1 DEF FindCompiled, ThreadsStarted
      <4> QED
        BY <1>3, <2>1, <3>1, <4>1 DEF FindCompiled, KernelsByMain, Complete, data, flags, compiler
    <3>2. CASE EndCompileHere
      BY <1>3, <2>1, <3>2 DEF EndCompileHere, KernelsByMain, Complete, data, flags, compiler
    <3>3. CASE mainPc' \notin {"compile", "returned"} /\ mainPc \notin {"compile", "exited"}
      BY <1>3, <2>1, <3>3 DEF KernelsByMain, Complete, data, flags, compiler
    <3> QED
      BY <2>3, <3>1, <3>2, <3>3
  <2> QED
    BY <1>1, <2>2, <2>4, <2>5
<1> QED
  BY <1>4, <1>5, <1>6

LEMMA CompileStepLeftToMain ==
  ASSUME NEW g \in DeviceSet, LeftToMainInv(g), NEW c \in Compilers, CompileKernel(c)
  PROVE  LeftToMainInv(g)'
<1> USE DEF LeftToMainInv
<1>1. CompilationInv'
  BY CompileStepInv
<1>2. FlagsTypeOK /\ ContextImported /\ AddedSoFar
  BY DEF CompilationInv
<1>3. /\ compiles' = compiles
      /\ UNCHANGED <<requested, index, compilerThreads>> /\ mainPc' \in {mainPc, "exited"}
      /\ \A e \in Compilers : e # c => compilerPc'[e] = compilerPc[e]
      /\ compilerPc[c] # "idle"
  BY <1>2 DEF FlagsTypeOK, CompileKernel, SetInCompilationPhase, ImportKernel,
     ImportWithoutDevice, SetIsCompiled, AddKernel, EndCompilationPhase, Goto, main
<1>4. ThreadsStarted'
  BY <1>3, CompilersAreMainAndThreads DEF ThreadsStarted
<1>5. LeftToMain(g)' <=> LeftToMain(g)
  BY <1>3 DEF LeftToMain
<1> SUFFICES ASSUME LeftToMain(g), KernelsByMain(g) PROVE KernelsByMain(g)'
  BY <1>1, <1>4, <1>5
<1>6. CASE compiles[c] # g
  <2>1. compiles[c] \in DeviceSet
    BY <1>2 DEF FlagsTypeOK
  <2>2. context'[g] = context[g] /\ kernelList'[g] = kernelList[g] /\ isCompiled'[g] = isCompiled[g]
    BY <1>2, <1>6, <2>1 DEF FlagsTypeOK, CompileKernel, SetInCompilationPhase, ImportKernel,
       ImportWithoutDevice, SetIsCompiled, AddKernel, EndCompilationPhase, flags
  <2>3. c # Main => compilerPc'[Main] = compilerPc[Main]
    BY <1>3, CompilersAreMainAndThreads
  <2>4. CASE c = Main
    <3>1. mainPc = "compile" => requested # g
      BY <1>6, <2>4 DEF ThreadsStarted
    <3> QED
      BY <1>3, <1>6, <2>2, <2>4, <3>1 DEF KernelsByMain, Complete
  <2> QED
    BY <1>3, <2>2, <2>3, <2>4 DEF KernelsByMain, Complete
<1>7. CASE compiles[c] = g
  <2>0. c = Main
    BY <1>3, <1>7, CompilersAreMainAndThreads DEF LeftToMain, ThreadsStarted
  <2>1. mainPc = "compile" /\ requested = g
    BY <1>3, <1>7, <2>0 DEF ThreadsStarted, CompileKernel, SetInCompilationPhase, ImportKernel,
       ImportWithoutDevice, SetIsCompiled, AddKernel, EndCompilationPhase, Goto, Running
  <2>2. CASE SetInCompilationPhase(c) \/ ImportWithoutDevice(c)
    BY <1>2, <1>3, <1>7, <2>0, <2>1, <2>2 DEF SetInCompilationPhase, ImportWithoutDevice, Goto,
       FlagsTypeOK, KernelsByMain, Complete, flags, main
  <2>3. CASE ImportKernel(c)
    BY <1>2, <1>3, <1>7, <2>0, <2>1, <2>3, CompilersAreInts DEF ImportKernel, Goto,
       FlagsTypeOK, KernelsByMain, Complete, flags, main
  <2>4. CASE SetIsCompiled(c)
    BY <1>2, <1>3, <1>7, <2>0, <2>1, <2>4 DEF SetIsCompiled, Goto,
       FlagsTypeOK, KernelsByMain, Complete, flags, main
  <2>5. CASE AddKernel(c)
    <3>1. compilerPc[c] = "add" /\ context[g] = Main
      BY <1>2, <1>7, <2>5 DEF AddKernel, ContextImported, KernelsByMain
    <3>2. \A k \in DOMAIN kernelNames :
            /\ kernelList'[g][k] # NoOne => kernelList'[g][k] = Main
            /\ kernelList[g][k] # NoOne => kernelList'[g][k] # NoOne
      BY <1>2, <1>7, <2>5, <3>1 DEF AddKernel, FlagsTypeOK, KernelsByMain
    <3> QED
      BY <1>2, <1>3, <1>7, <2>0, <2>1, <2>5, <3>1, <3>2
      DEF AddKernel, KernelsByMain, Complete, flags, main
  <2>6. CASE EndCompilationPhase(c)
    <3>1. Complete(g)
      <4>1. \A k \in DOMAIN kernelNames : nextKernel[c] > Len(kernelNames) => k < nextKernel[c]
        BY <1>2, CompilationAssumption DEF FlagsTypeOK
      <4> QED
        BY <1>2, <1>7, <2>6, <4>1 DEF EndCompilationPhase, Goto, AddedSoFar, Complete
    <3> QED
      BY <1>2, <1>3, <1>7, <2>0, <2>1, <2>6, <3>1 DEF EndCompilationPhase, Goto,
         FlagsTypeOK, KernelsByMain, Complete, flags, main
  <2> QED
    BY <2>2, <2>3, <2>4, <2>5, <2>6 DEF CompileKernel
<1> QED
  BY <1>6, <1>7

UsableInv == \A g \in DeviceSet : LeftToMainInv(g)

LEMMA CompilationHasUsable == ASSUME DeviceSet # {} PROVE Spec => []UsableInv
<1>1. Init => UsableInv
  BY InitLeftToMainInv DEF UsableInv
<1>2. UsableInv /\ [Next]_vars => UsableInv'
  <2> SUFFICES ASSUME UsableInv, [Next]_vars, NEW g \in DeviceSet PROVE LeftToMainInv(g)'
    BY DEF DeviceSet, UsableInv
  <2>1. CASE UNCHANGED vars
    BY <2>1 DEF UsableInv, LeftToMainInv, ThreadsStarted, LeftToMain, KernelsByMain,
       CompilationInv, FlagsTypeOK, RaisedUntilComplete, ContextImported, AddedSoFar,
       IdleMeansComplete, Complete, vars, flags, compiler, main
  <2> QED
    BY <2>1, MainStepLeftToMain, CompileStepLeftToMain DEF Next, UsableInv
<1> QED
  BY <1>1, <1>2, PTL DEF Spec

(* Whatever the threads of the other devices do meanwhile, a device that   *)
(* is left to the application's thread has its kernels, in its own         *)
(* context, when compileForDevice returns for it.                          *)
THEOREM LeftToMainIsUsable ==
  ASSUME DeviceSet # {}
  PROVE  Spec => []UsableIfLeftToMain
<1>1. UsableInv => UsableIfLeftToMain
  <2> SUFFICES ASSUME UsableInv, mainPc = "returned", LeftToMain(requested)
               PROVE  Usable(requested)
    BY DEF UsableIfLeftToMain
  <2>1. requested \in DeviceSet /\ CompilationInv
    BY DEF UsableInv, LeftToMainInv, CompilationInv, FlagsTypeOK
  <2> QED
    BY <2>1 DEF UsableInv, LeftToMainInv, KernelsByMain, Complete, Usable
<1> QED
  BY <1>1, CompilationHasUsable, PTL
-----------------------------------------------------------------------------
(* Whoever raised a flag is still at work. *)
FlagsHaveCompilers ==
  Running => \A d \in DeviceSet : inCompilationPhase[d] => \E c \in Compilers : CompilesNow(c, d)

(* A compiler is started only where none is at work. *)
LEMMA MainStepKeepsCompilers ==
  ASSUME CompilationInv, ThreadsStarted, FlagsHaveCompilers, MainStep
  PROVE  FlagsHaveCompilers'
<1>1. FlagsTypeOK
  BY DEF CompilationInv
<1>2. UNCHANGED flags /\ (Running' => Running)
  BY DEF MainStep, CompileForDevice, SkipDevice, NotInCompilationPhase, SkipCompiledDevice,
     SpawnThread, EndScan, EndWait, FindCompiled, CompileHere, EndCompileHere, NextDecision,
     data, Running
<1>3. ASSUME NEW c \in Compilers, NEW d \in DeviceSet, CompilesNow(c, d)
      PROVE  CompilesNow(c, d)'
  <2>1. CASE SpawnThread
    <3>1. compilerThreads' = compilerThreads + 1 /\ compilerThreads \in Nat
      BY <1>1, <2>1 DEF SpawnThread, FlagsTypeOK
    <3>2. c # compilerThreads'
      BY <1>3, <3>1, CompilersAreMainAndThreads DEF ThreadsStarted, CompilesNow, Main
    <3> QED BY <1>1, <1>3, <2>1, <3>2 DEF SpawnThread, StartCompiler, CompilesNow, FlagsTypeOK
  <2>2. CASE CompileHere
    <3>1. c # Main
      BY <1>3, <2>2 DEF CompileHere, ThreadsStarted, CompilesNow
    <3> QED BY <1>1, <1>3, <2>2, <3>1 DEF CompileHere, StartCompiler, CompilesNow, FlagsTypeOK
  <2>3. CASE UNCHANGED compiler
    BY <1>3, <2>3 DEF compiler, CompilesNow
  <2> QED
    BY <2>1, <2>2, <2>3 DEF MainStep, CompileForDevice, SkipDevice, NotInCompilationPhase,
       SkipCompiledDevice, EndScan, EndWait, FindCompiled, EndCompileHere, NextDecision
<1> QED BY <1>2, <1>3 DEF FlagsHaveCompilers, flags

(* A compiler goes on with its device until it lowers the flag itself.     *)
LEMMA CompileStepKeepsCompilers ==
  ASSUME CompilationInv, FlagsHaveCompilers, NEW c \in Compilers, CompileKernel(c)
  PROVE  FlagsHaveCompilers'
<1>1. FlagsTypeOK /\ Running /\ compiles' = compiles
  BY DEF CompilationInv, CompileKernel, SetInCompilationPhase, ImportKernel,
     ImportWithoutDevice, SetIsCompiled, AddKernel, EndCompilationPhase, Goto
<1>2. \A e \in Compilers : e # c => compilerPc'[e] = compilerPc[e]
  BY <1>1 DEF FlagsTypeOK, CompileKernel, SetInCompilationPhase, ImportKernel,
     ImportWithoutDevice, SetIsCompiled, AddKernel, EndCompilationPhase, Goto
<1>3. \/ ~Running'
      \/ compilerPc'[c] \in {"import", "flag", "add"}
      \/ inCompilationPhase' = [inCompilationPhase EXCEPT ![compiles[c]] = FALSE]
  BY <1>1 DEF FlagsTypeOK, CompileKernel, SetInCompilationPhase, ImportKernel,
     ImportWithoutDevice, SetIsCompiled, AddKernel, EndCompilationPhase, Goto, Running
<1>4. ASSUME NEW d \in DeviceSet, inCompilationPhase'[d], d # compiles[c]
      PROVE  inCompilationPhase[d]
  BY <1>1, <1>4 DEF FlagsTypeOK, CompileKernel, SetInCompilationPhase, ImportKernel,
     ImportWithoutDevice, SetIsCompiled, AddKernel, EndCompilationPhase, flags
<1> SUFFICES ASSUME Running', NEW d \in DeviceSet, inCompilationPhase'[d]
             PROVE  \E e \in Compilers : CompilesNow(e, d)'
  BY DEF FlagsHaveCompilers
<1>5. CASE d = compiles[c]
  <2>1. compilerPc'[c] \in {"import", "flag", "add"}
    BY <1>1, <1>3, <1>5 DEF FlagsTypeOK
  <2> QED BY <1>1, <1>5, <2>1 DEF CompilesNow
<1>6. CASE d # compiles[c]
  <2>1. PICK e \in Compilers : CompilesNow(e, d)
    BY <1>1, <1>4, <1>6 DEF FlagsHaveCompilers
  <2>2. e # c
    BY <1>6, <2>1 DEF CompilesNow
  <2> QED BY <1>1, <1>2, <2>1, <2>2 DEF CompilesNow
<1> QED BY <1>5, <1>6

(* For any devices, kernels and number of threads: a raised flag has       *)
(* somebody who will lower it, and who is not the one that waits for that. *)
THEOREM NobodyWaitsForNobody ==
  ASSUME DeviceSet # {}
  PROVE  Spec => []RaisedFlagHasCompiler
<1>1. UsableInv => CompilationInv /\ ThreadsStarted
  BY DEF UsableInv, LeftToMainInv
<1>2. Init => FlagsHaveCompilers
  BY DEF Init, FlagsHaveCompilers
<1>3. UsableInv /\ FlagsHaveCompilers /\ [Next]_vars => FlagsHaveCompilers'
  <2> SUFFICES ASSUME UsableInv, FlagsHaveCompilers, [Next]_vars PROVE FlagsHaveCompilers'
    OBVIOUS
  <2>1. CASE UNCHANGED vars
    BY <2>1 DEF FlagsHaveCompilers, CompilesNow, Running, vars, flags, compiler, main
  <2> QED BY <1>1, <2>1, MainStepKeepsCompilers, CompileStepKeepsCompilers DEF Next
<1>4. UsableInv /\ FlagsHaveCompilers => RaisedFlagHasCompiler
  BY <1>1 DEF FlagsHaveCompilers, RaisedFlagHasCompiler, CompilesNow, ThreadsStarted
<1> QED BY <1>2, <1>3, <1>4, CompilationHasUsable, PTL DEF Spec
-----------------------------------------------------------------------------
(* How many threads there are: a call starts one for each device it looks  *)
(* at, but none for the requested one.                                     *)

Others == Len(deviceList) - 1

PassedRequested == \E j \in 1 .. index - 1 : deviceList[j] = requested

StartedSoFar ==
  /\ index \in 1 .. Len(deviceList) + 1
  /\ mainPc \in {"idle", "scan", "spawn", "wait", "check", "compile", "returned", "exited"}
  /\ calls \in 0 .. MaxCalls
  /\ nextKernel \in [Compilers -> 1 .. Len(kernelNames) + 1]
  /\ mainPc = "spawn" => deviceList[index] # requested
  /\ IF mainPc \in {"scan", "spawn"}
       THEN /\ calls # 0
            /\ compilerThreads <= (calls - 1) * Others + (index - 1)
            /\ PassedRequested => compilerThreads < (calls - 1) * Others + (index - 1)
       ELSE compilerThreads <= calls * Others

ThreadInv == CompilationInv /\ StartedSoFar

LEMMA ListAndNames ==
  /\ Len(deviceList) \in Nat /\ DOMAIN deviceList = 1 .. Len(deviceList)
  /\ Len(kernelNames) \in Nat /\ DOMAIN kernelNames = 1 .. Len(kernelNames)
  /\ MaxCalls \in Nat
BY CompilationAssumption

(* One call's share of the threads. *)
LEMMA OneCallMore ==
  ASSUME NEW n \in Nat, n # 0, NEW k \in Nat
  PROVE  (n - 1) * k + k = n * k /\ (n - 1) * k \in Nat /\ n * k \in Nat
OBVIOUS

LEMMA MoreCallsMoreThreads ==
  ASSUME NEW m \in Nat, NEW n \in 0 .. m, NEW k \in Nat
  PROVE  n * k <= m * k
<1>1. (m - n) * k >= 0
  OBVIOUS
<1>2. (m - n) * k = m * k - n * k
  OBVIOUS
<1> QED BY <1>1, <1>2

(* Wherever the scan is, the calls so far have not started too many.       *)
LEMMA EnoughThreads ==
  ASSUME DeviceSet # {}, ThreadInv
  PROVE  /\ Others \in Nat
         /\ compilerThreads <= calls * Others
         /\ compilerThreads \in {0} \cup Threads
<1>1. PICK j \in DOMAIN deviceList : deviceList[j] = requested
  BY DEF ThreadInv, CompilationInv, FlagsTypeOK, DeviceSet
<1>2. j \in 1 .. Len(deviceList) /\ Others \in Nat /\ Others = Len(deviceList) - 1
  BY <1>1, ListAndNames DEF Others
<1>3. /\ compilerThreads \in Nat /\ index \in 1 .. Len(deviceList) + 1
      /\ calls \in 0 .. MaxCalls
  BY DEF ThreadInv, CompilationInv, FlagsTypeOK, StartedSoFar
<1>4. compilerThreads <= calls * Others
  <2>1. CASE mainPc \in {"scan", "spawn"}
    <3>1. /\ calls # 0
          /\ compilerThreads <= (calls - 1) * Others + (index - 1)
          /\ PassedRequested => compilerThreads < (calls - 1) * Others + (index - 1)
      BY <2>1 DEF ThreadInv, StartedSoFar
    <3>2. ~PassedRequested => index - 1 <= Others
      BY <1>1, <1>2, <1>3 DEF PassedRequested
    <3>3. index - 1 <= Others + 1
      BY <1>2, <1>3, ListAndNames
    <3>4. (calls - 1) * Others + Others = calls * Others
          /\ (calls - 1) * Others \in Nat /\ calls * Others \in Nat
      BY <1>2, <1>3, <3>1, OneCallMore, ListAndNames
    <3> DEFINE before == (calls - 1) * Others  after == calls * Others
    <3>5. compilerThreads <= before + Others
      <4>1. compilerThreads <= before + (index - 1) /\ before \in Nat
        BY <3>1, <3>4
      <4>2. PassedRequested => compilerThreads < before + (index - 1)
        BY <3>1
      <4> HIDE DEF before
      <4> QED BY <1>2, <1>3, <3>2, <3>3, <4>1, <4>2
    <3> QED BY <3>4, <3>5
  <2>2. CASE mainPc \notin {"scan", "spawn"}
    BY <2>2 DEF ThreadInv, StartedSoFar
  <2> QED BY <2>1, <2>2
<1>5. calls * Others <= MaxCalls * Others /\ MaxCalls * Others \in Nat /\ calls * Others \in Nat
  BY <1>2, <1>3, ListAndNames, MoreCallsMoreThreads
<1>6. compilerThreads <= MaxCalls * Others
  BY <1>3, <1>4, <1>5
<1>7. Threads = 1 .. MaxCalls * Others
  BY DEF Threads, Others
<1> QED BY <1>2, <1>3, <1>4, <1>5, <1>6, <1>7

LEMMA InitThreadInv ==
  ASSUME DeviceSet # {}, Init
  PROVE  ThreadInv
<1>1. CompilationInv
  BY InitCompilationInv
<1>2. 0 * Others = 0
  <2>1. Others \in Int
    BY ListAndNames DEF Others
  <2> QED BY <2>1
<1>3. StartedSoFar
  BY <1>2, ListAndNames DEF Init, StartedSoFar
<1> QED BY <1>1, <1>3 DEF ThreadInv

LEMMA CompileStepThreads ==
  ASSUME DeviceSet # {}, ThreadInv, NEW c \in Compilers, CompileKernel(c)
  PROVE  StartedSoFar'
<1>1. nextKernel' \in [Compilers -> 1 .. Len(kernelNames) + 1]
  BY ListAndNames DEF ThreadInv, StartedSoFar, CompileKernel, SetInCompilationPhase, ImportKernel,
     ImportWithoutDevice, SetIsCompiled, AddKernel, EndCompilationPhase, main
<1>2. CASE ImportWithoutDevice(c)
  BY <1>1, <1>2, EnoughThreads DEF ThreadInv, StartedSoFar, ImportWithoutDevice
<1>3. CASE UNCHANGED main
  BY <1>1, <1>3 DEF ThreadInv, StartedSoFar, PassedRequested, main
<1> QED
  BY <1>2, <1>3 DEF CompileKernel, SetInCompilationPhase, ImportKernel, SetIsCompiled,
     AddKernel, EndCompilationPhase

LEMMA MainStepThreads ==
  ASSUME DeviceSet # {}, ThreadInv, MainStep
  PROVE  StartedSoFar'
<1> USE DEF StartedSoFar
<1>1. /\ Others \in Nat /\ compilerThreads <= calls * Others /\ StartedSoFar
      /\ compilerThreads \in Nat /\ index \in 1 .. Len(deviceList) + 1
      /\ calls \in 0 .. MaxCalls /\ requested \in DeviceSet
      /\ mainPc = "spawn" => index <= Len(deviceList)
  BY EnoughThreads DEF ThreadInv, CompilationInv, FlagsTypeOK
<1>2. nextKernel' = nextKernel
  BY DEF MainStep, CompileForDevice, SkipDevice, NotInCompilationPhase, SkipCompiledDevice,
     SpawnThread, EndScan, EndWait, FindCompiled, CompileHere, EndCompileHere, NextDecision,
     StartCompiler, compiler
<1>3. ASSUME NEW d \in Requestable, CompileForDevice(d)
      PROVE  StartedSoFar'
  <2>1. calls' = calls + 1 /\ index' = 1 /\ mainPc' = "scan" /\ compilerThreads' = compilerThreads
    BY <1>3 DEF CompileForDevice
  <2>2. calls' - 1 = calls /\ ~PassedRequested'
    BY <1>1, <2>1 DEF PassedRequested
  <2> QED BY <1>1, <1>2, <1>3, <2>1, <2>2, ListAndNames DEF CompileForDevice
<1>4. ASSUME index' = index + 1, mainPc' = "scan", mainPc \in {"scan", "spawn"},
             index <= Len(deviceList), UNCHANGED <<requested, calls>>,
             \/ compilerThreads' = compilerThreads
             \/ compilerThreads' = compilerThreads + 1 /\ deviceList[index] # requested
      PROVE  StartedSoFar'
  <2> DEFINE before == (calls - 1) * Others
  <2>1. calls # 0 /\ before \in Nat
    BY <1>1, <1>4, OneCallMore, ListAndNames
  <2>2. /\ compilerThreads <= before + (index - 1)
        /\ PassedRequested => compilerThreads < before + (index - 1)
    BY <1>1, <1>4
  <2>3. PassedRequested' => PassedRequested \/ deviceList[index] = requested
    BY <1>1, <1>4 DEF PassedRequested
  <2>4. (calls' - 1) * Others = before
    BY <1>4
  <2>5. before' = before
    BY <1>4 DEF Others
  <2>6. /\ compilerThreads' <= before + (index' - 1)
        /\ PassedRequested' => compilerThreads' < before + (index' - 1)
    <3> HIDE DEF before
    <3> QED BY <1>1, <1>4, <2>1, <2>2, <2>3
  <2> QED BY <1>1, <1>2, <1>4, <2>1, <2>4, <2>6, ListAndNames
<1>5. CASE SkipDevice
  BY <1>4, <1>5 DEF SkipDevice
<1>6. CASE SkipCompiledDevice
  BY <1>1, <1>4, <1>6 DEF SkipCompiledDevice
<1>7. CASE SpawnThread
  BY <1>1, <1>4, <1>7 DEF SpawnThread
<1>8. CASE NotInCompilationPhase
  BY <1>1, <1>8 DEF NotInCompilationPhase, PassedRequested, compiler
<1>9. ASSUME mainPc' \in {"idle", "wait", "check", "compile", "returned"},
             UNCHANGED <<requested, index, calls, compilerThreads>>
      PROVE  StartedSoFar'
  BY <1>1, <1>2, <1>9
<1> QED
  BY <1>3, <1>5, <1>6, <1>7, <1>8, <1>9 DEF MainStep, EndScan, EndWait, FindCompiled,
     CompileHere, EndCompileHere, NextDecision

(* For any devices, kernels and number of calls: the types, and no call    *)
(* starts more than one thread for each other device                       *)
(* (registerOpenCL.cpp:205).                                               *)
THEOREM CompilationTypeCorrect ==
  ASSUME DeviceSet # {}
  PROVE  Spec => []CompilationTypeOK
<1>1. Init => ThreadInv
  BY InitThreadInv
<1>2. ThreadInv /\ [Next]_vars => ThreadInv'
  <2> SUFFICES ASSUME ThreadInv, [Next]_vars
               PROVE  ThreadInv'
    OBVIOUS
  <2>1. CASE MainStep
    BY <2>1, MainStepInv, MainStepThreads DEF ThreadInv
  <2>2. ASSUME NEW c \in Compilers, CompileKernel(c)
        PROVE  ThreadInv'
    BY <2>2, CompileStepInv, CompileStepThreads DEF ThreadInv
  <2>3. CASE UNCHANGED vars
    <3>1. StartedSoFar'
      BY <2>3 DEF vars, main, compiler, ThreadInv, StartedSoFar, PassedRequested
    <3>2. CompilationInv'
      BY <2>3 DEF vars, main, compiler, data, flags, ThreadInv, CompilationInv, FlagsTypeOK,
         RaisedUntilComplete, ContextImported, AddedSoFar, IdleMeansComplete, Complete
    <3> QED BY <3>1, <3>2 DEF ThreadInv
  <2> QED BY <2>1, <2>2, <2>3 DEF Next
<1>3. ThreadInv => CompilationTypeOK
  BY EnoughThreads DEF ThreadInv, CompilationInv, FlagsTypeOK, StartedSoFar, CompilationTypeOK
<1> QED
  BY <1>1, <1>2, <1>3, PTL DEF Spec
=============================================================================
