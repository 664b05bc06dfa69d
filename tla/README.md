# HTrOP in TLA+

HTrOP takes an LLVM bitcode module, finds the static control parts (SCoPs) of
its loops, has a server translate them to OpenCL kernels, and rewrites the
program so that every SCoP call decides at run time whether it runs on the host
or on an accelerator. This directory models that system in TLA+, checks the
models with TLC and proves the central invariants with TLAPS. All paths below
are relative to `src/`.

## 1. The system

```
 bitcode ──> client: ScopDetect, analyseScop ──> ScopDependency ──> wrappers ──> application (JIT)
                        │      ▲                                                   │
            REQ_CODE_GEN│      │ .cl text                            runtime decision, buffers,
                        ▼      │                                     kernel compilation threads
             server: one handler thread per client, cache, .cl file
```

| Component | Code | State | Operations | What makes it correct |
|---|---|---|---|---|
| Transfer types | `client/pass/scopdetect.cpp` | a `DataTransferType` and `isPointer` for each argument | `runOnScop` over Polly's memory accesses | the type does not depend on Polly's order; no transfer gets lost |
| ScopDependency pass | `client/pass/scopdependency.cpp` | the recorded calls, chain flags, `typeOptimized` and sizes per call and argument | `runOnFunction` (two loops), `updateRootBufferWithChildren` | an optimized call speaks for all later users of its buffers; no optimization across host calls |
| SCoP functions | `client/htropclient.cpp` (`analyseScop`) | the list of SCoP functions | extraction, cloning one function per call | each call has a function of its own |
| Runtime decision | `dependencies/registerOpenCL.cpp` | four chances, the current and the previous accelerator | `initChance`, `bonus*`, `decideWhichAccelerator`, `staticDecision` | never chooses an accelerator that does not exist; does not bounce |
| Wrappers and device buffers | `htropclient.cpp` (`handleOclBinary`), `registerOpenCL.cpp`, `common/openCLDevice.cpp` | `bufferList` of each device, host memory | decide, clean up, transfer, execute, legacy path, cleanup behind calls | the rewritten program computes what the original does; what goes to a device comes back |
| Kernel compilation | `registerOpenCL.cpp` (`compileForDevice`, `compileKernel`), `openCLDevice.cpp` | `isCompiled`, `inCompilationPhase`, context, `kernelList` of each device; compiler threads | start threads, spin, compile in place | the kernels are there, and of the right context, when they are used; the caller gets out |
| Protocol, client side | `htropclient.cpp`, `client/main.cpp` | connection, receiving thread, `processed` | connect, request, answer, link in, spin, run again | the application runs with its own kernels; the wait ends |
| Protocol, server side | `server/htropserver.cpp`, `openCLCbackend.cpp` | handler threads, `cacheList`, `.cl` files | receive, look up, request IR, generate, cache, announce, send | handlers of different clients do not disturb each other |
| Message framing | `common/messageHelper.cpp` | how far `send` and `recv` are in a message | `send`, `recv` | whole messages in order, however the stream cuts them |
| Bounds and dimensions | `scopdetect.cpp` (`resolveDomainString`, `ScopLoopInfo`), `htropclient.cpp` | bounds of each argument, names of loop levels | reading the text isl prints, comparing offsets, the "+1 fix" | the size is the number of elements the SCoP accesses; every level has a name |
| Size expressions | `dependencies/oclFunctions.cpp`, `common/math_parser.cpp` | – | substitution in a text, parsing, evaluation | agrees with arithmetic |
| Parallel depth | `client/pass/depdetect.cpp` | parallel depth | search over loads and stores | no deeper than any store |
| Kernel dimensions | `htropclient.cpp` (`sendCodeGenReq`, `createLocalAndGlobalWorkGroups`), `server/openCLCbackend.cpp`, `registerOpenCL.cpp` (`executeOCLKernel`) | depths requested, arguments that bound dimensions | request, choice of loops, work sizes | the work items run every iteration exactly once |
| AccScore | `client/pass/accscore.cpp` | scores | analysis | – (nothing reads its result) |
| OpenCL text rewriting | `server/utils/cl_replace.cpp` | – | text replacement | – |
| LLVM and string helpers, `hds.pb.*`, `test/motion` | | | | – |

How they interact: client and server exchange messages over TCP; handlers share
a cache and, through the file system, a `.cl` file; the client's main thread and
its receiving thread share the flag `processed`; the rewritten application and
its compiler threads share the flags of a device; the wrappers communicate
only through the device buffers that one call leaves for the next, and which
the ScopDependency pass has planned. The dimensions of a kernel are decided in three
places: DepDetect in the client proposes a depth, the server takes that many loops
and reports which arguments bound them, and the client starts work items by the values of these
arguments.

What is hard here, and hard to test:

* **Long protocol sequences.** A buffer is created by one call, reused by later
  ones with the type and size of the first, and released by the last, or by a
  switch of accelerator in between. Whether that is right depends on the whole
  program, on the decisions, and on a pass that looks at one call ahead only.
* **Interleavings.** Compiler threads and their caller see two unlocked flags;
  the handlers of the server share a file and cached messages.
* **Failure.** Clients and the server may be killed between any two steps; an
  assertion in one handler ends all of them.
* **Liveness.** Two loops spin on flags which other threads have to set.
* **Undefined data.** Buffers that are only written are not uploaded.
* **Analysis by text.** Bounds and sizes are strings that isl printed; names are searched
  and replaced in them, and the result is parsed again at run time. Polly yields
  the accesses in an order nobody controls.
* **Agreement.** Every call needs a SCoP function of its own; copies are
  analysed by a new pass and must come out like their originals.

The complete list, at the lines where it bites, with the properties for each
item or the reason why there is none yet, is `hazards` in `PROJECT.json`.

## 2. The models

| Module | Models | Uses |
|---|---|---|
| `TransferTypes` | the type tables of `setDataTransferType`, `updateRootBufferWithChildren`, `createAndPopulateBuffer` and `cleanUpBuffers` | |
| `AccessTyping` | `ScopDetect::runOnScop` over the accesses: types | `TransferTypes` |
| `SizeExpressions` | `replaceWithValue`, the math parser, over texts of tokens | |
| `ScopBounds` | `runOnScop`: bounds from isl's texts; `resolveScopValue` | `AccessTyping`, `SizeExpressions` |
| `ParallelDepth` | `DepDetect` | |
| `ScopExtraction` | `analyseScop`, `runScopDetection`: candidates, parents, copies | `ParallelDepth` |
| `KernelGeneration` | request, choice of loops, work items | `ScopExtraction` |
| `ScopDetection` | **composition** of the client's whole analysis, and the kernels made of it | `KernelGeneration`, `ScopBounds` |
| `ScopDependency` | the pass, instruction by instruction | `TransferTypes`, `SizeExpressions` |
| `AcceleratorDecision` | chances and bonuses, as integers in hundredths | |
| `KernelEffects` | what a statement reads and writes in a memory | `TransferTypes` |
| `SequentialProgram` | **abstract specification**: the application before the rewriting | `KernelEffects` |
| `OffloadRuntime` | the rewritten application, composed with the pass; refines `SequentialProgram` | `ScopDependency`, `AcceleratorDecision`, `KernelEffects` |
| `KernelCompilation` | `compileForDevice`, `compileKernel`, `importKernel`, `addKernel` | |
| `MessageQueue` | **abstract specification**: one direction of a connection, as a queue of messages | |
| `MessageFraming` | `Message::send` and `Message::recv` over a stream of bytes; refines `MessageQueue` | `MessageQueue` |
| `KernelService` | **abstract specification**: every client is served as if it were alone | |
| `CodeGenProtocol` | clients, handlers and server; refines `KernelService` | `KernelService` |
| `MC*` | the instances TLC checks | |
| `*_proofs` | theorems | |

### AccessTyping

State: `type`, `isPointer`, and the history `seen` of the kinds of access. An
action is one iteration of the loop over accesses (`scopdetect.cpp:586–704`): an
array access, a scalar access (marks the argument as no pointer and is skipped), or an access
whose base is no argument. The choice among them is free, because Polly is
external and its order is not promised.

### The analysis: ScopExtraction, ScopBounds, KernelGeneration, ScopDetection

`ScopExtraction` is the loop of `analyseScop`. `BeginDetection` is `runOnScop` up to
its loop over the statements (parent, depth, loop names), `EndDetection` the rest of
`runScopDetection`; `FindRepeatedCalls` marks the calls of the parent that call
a SCoP function for a second time, and `CloneScop` gives one of them a copy, which
is analysed like any candidate. `ParentsAgree` and `ParentsDiffer` are the assertions at
the end. Every way in which the process ends (an index DepDetect does not implement, a store without
a loop, several parents, no parent) leads to the stage `"aborted"`. A function is
named by its original name and the number of the copy.

`ScopBounds` models what the client does with text. A text is a sequence of
tokens: numbers, operators, brackets and letters; names are sequences of letters, so
that a name may be part of another. `Printed` is isl's way to print an affine
form (external, for the forms the code handles). `UpdateBounds` is what one access does to the bounds of its
argument: the index with all iterators 0 decides whether it replaces the smallest and
the largest seen so far. `PlusOneFix` is the last loop of `runOnScop`.
`resolveScopValue` is what the application computes of the text when a
buffer is created: values replace names, and `Eval` parses as `math_parser.cpp` does.
The meaning that isl's objects have is given independently, by `ValueAt`, `Points` and
`Indices` in `ScopDetection`.

`KernelGeneration`: `sendCodeGenReq` lists the SCoP functions in the order of their
names, `GenerateKernel` is the server's work on one of them, `AssertFoundArg` its
assertions, and `WorkItems` the index space the client starts.

`ScopDetection` runs them together: within a detection, `ProcessAccess` handles the accesses
in any order that finishes a statement before the next one.

What is abstracted: bounds of dimensions other than the first (nothing reads them), division, the width of
`long`, local work sizes, loops that do not begin at 0 (the server then adds an
offset and a guard to the kernel), and functions in which the nest of loops is not the
first loop with its first subloops.

The code reads correctly only what is written in a certain form. The properties are about such SCoPs, the model
is about all, and the instances contain SCoPs that are not:

| Condition | Without it |
|---|---|
| `NamesApart` | `n` is replaced within `nn` (`oclFunctions.cpp:62`) |
| `Rectangular` | the bound of an iterator in terms of another is taken for a name that no argument has |
| `RegularArray`: one domain, growing index, smallest offset 0, no scalar access | the last domain met decides, minimum and maximum change places, the "+1 fix" is left out (`scopdetect.cpp:816`), `isPointer` is that of the last access (`:676`) |
| `OneNest` | stores outside the nest the server takes are run by every work item |
| `DepthIsChosenWell` | a depth the user gives that is deeper than a store makes work items repeat it (`scopdetect.cpp:345`) |
| one depth at most, in `CopiesAgree` | a list of depths goes on at the copies (`scopdetect.cpp:345`) |
| one name or enough names, in `LevelsNamed` | two names for three levels leave a level unnamed, and the loop at `scopdependency.cpp:219` does not end (`scopdetect.cpp:505`) |

### ScopDependency

A program is a sequence of statements: SCoP calls with their arguments, direct
host calls, and host code which is no direct call and which the first loop
does not look at. `ScanScopCall`, `ScanHostCall`, `ScanOther` are one iteration of
the first loop each, `EndScan` is the heuristic between the loops, `UpdateRoot`
one iteration of the second loop with all it calls, `EndUpdate` its end.

Because `analyseScop` clones the SCoP function for every further call, a call,
its function and its position in the program are the same thing.

The pass stops at the first argument with the same value of the first later
call. If a call passes a pointer twice, or one no access refers to (type
`UNKNOWN`), later uses are overlooked; `Regular` excludes such programs from the
properties, not from the model.

The size of an argument is the text `ScopDetect` has made (`maxStr`), in the tokens of `SizeExpressions`.
`updateRootBufferWithChildren` does not compare sizes: it replaces the names of loop levels in the root's
text and in the child's by `(0)`, each by the names of its own SCoP, evaluates what is left (`ConstantOf`), and takes over the
child's text if its constant is greater (`IsLarger`, `RootText`, `scopdependency.cpp:208-263`). The text is
copied as it is, in names of the SCoP it came from. So the pass sees that `1 + (n)` is more than
`1 + (-1 + n)`, but a root of size `n` keeps its text however large a later size `m` is, and a name the root's SCoP does
not have is left in a text it took over: `2m` then comes to 2. The model does all
of this; what a text comes to when the call is executed, `size`, is in the programs for the
properties to speak of, and no action of the pass reads it. Two conditions say for which programs the comparison
means what it is made for; the instance contains programs that meet both, one and none:

| Condition | Without it |
|---|---|
| `ReadAlike` | a call has no name of its own for one in a text that has gone up to it, and compares another constant (`scopdependency.cpp:215`) |
| `DifferInConstants` | sizes with different names or coefficients are as large as their constants to the pass (`scopdependency.cpp:257`) |

`SizeCoversLaterUses` needs both. `PassIsExact` says without `DifferInConstants` what the pass does compute: the text of
the first use with the largest constant. Nothing of this does harm today, as no code reads the optimized text:
buffers are created with the SCoP's own (`htropclient.cpp:728`, `:1197`).

The comment at `scopdependency.h:75` says that the flag is raised if a chain is
interrupted by code on the host. The code compares the number of closed chains with 1
(`scopdependency.cpp:402`), so a single host call between two SCoP calls does not raise it and the program
is optimized; theorem `FlagCountsChains` says so for all programs.

### OffloadRuntime

The rewritten program is one thread. `stage` is its position in the wrapper:
decision (`DecideAtRuntime` or `staticDecision`), cleanup of the accelerator that
is left (`CleanupBuffers`), `TransferToDevice` argument by argument and
`ExecuteKernel`, or `RunLegacy`, and `Release`, which is the
`cleanUpBuffers_Device` call that `handleOclBinary` places behind every wrapper
of an interrupted chain, and behind the last one otherwise. `RunHostCode` is a
statement the client does not touch. `CallParentAgain`: the application calls the
function several times, and `current` keeps its value.

What is abstracted here:

* An element of memory holds the time of its last write, so that every stale
  copy is visible, or `Undef`. A size is what the text of the call's own SCoP comes to, a number; the
  optimized text is read by no action, as in the code.
* OpenCL calls succeed and are finished on return (they are followed by
  `clFinish` or are blocking).
* The SCoP parent has no branches: its statements run in program order.
* `isAvailable` always answers true at present; its body says "device
  specific. Replace …" (`openCLDevice.cpp:316–319`). `MaybeUnavailable` names
  the devices for which it may answer false. The decision already handles that
  answer, and without it no program ever leaves a device again.
* A device pointer that is NULL is dereferenced by `compileForDevice`; the
  stage is then `"crashed"` and nothing follows.

`SequentialProgram` runs the statements one after the other on host memory. It
records in `seen` what every statement reads, so a rewritten program that computes from
stale or undefined data differs even if the data is overwritten later.
The refinement mapping takes an element from the device that holds buffers, if
it is defined there, and from the host otherwise (`LogicalMem`), and counts a
statement as done when its kernel has run (`LogicalPc`).

The rewriting is not faithful for every program. `Offloadable` states for which
it is, and each conjunct is there because of something the code does:

| Conjunct | Without it |
|---|---|
| `Regular` | the pass overlooks later uses (`scopdependency.cpp:266`) |
| `HostCodeApart` | host code the pass does not count as an interruption reads or writes the host copy of what is on a device (`scopdependency.cpp:301`, `:402`) |
| `SizesDoNotGrow` | the buffer is created with the size of its first user only, although the pass has computed the larger one (`htropclient.cpp:1197`), and a later kernel of the chain runs beyond it; where the chain is interrupted every call has buffers of its own and sizes may grow |
| `OutputsCovered` | elements an `OUT` argument's kernel does not write come back undefined (`openCLDevice.cpp:255`); run `OffloadRuntimeBorder` shows it |

### KernelCompilation

Compiler 0 is the application's thread, the others are the threads it starts.
Every read and write of `inCompilationPhase` and `isCompiled` is a step of its
own: they are plain bools. `ImportKernel` replaces the context of the device;
`kernelList` records from whose context a kernel comes, as kernels and buffers of
different contexts cannot be used together. `ImportWithoutDevice` is the
`exit(0)` of a thread whose device this machine does not have. A decision for
the host does not call `compileForDevice`, so `Requestable` has devices only.

The calls may ask for any devices in any order, which is more than today's callers do: a static decision
always asks for one device, and a dynamic one never leaves a device while all are available
(`ProgramStaysOnDevice`). What is checked and proved here therefore holds for whatever decides. It is also why nothing is said of a
device that an earlier call has left to a thread. That thread raises the flag itself
(`registerOpenCL.cpp:167`), so a call for its device may return before it has begun; but no caller makes such a call
until `isAvailable` is given a body.

### CodeGenProtocol

Per client: the main thread (`mainPc`), the receiving thread (`threadPc`), two
queues of whole messages in order, and its handler in the server (`handlerPc`).
Handlers share `cacheList` (key: the name of the SCoP parent) and `clFile` (same
key). Opening a `.cl` file, writing it, measuring and reading it (both in `fileToBuffer`), entering the size in the message, announcing
it and sending what was read are separate steps, and other handlers may come in between any two of them. If the file
has another length when it is read than when it was measured, the buffer gets a part of it or is not filled (`ReadInto`). A cached message is shared: `message[c]` names the
client it was made for, and `binarysize` belongs to that message.

Processes may end at any step. `Cut` says that any suffix of what they had
sent may be lost. A send to a closed connection is lost or raises SIGPIPE, which
neither program handles. `AbortWithoutLLVMIR` is the failing assertion at
`htropserver.cpp:312`.

`KernelService` has no server: in every run of its program a client waits, runs with the
kernels of its own SCoPs, or ends. `StateOf` and `KernelsInUse` map the protocol to it. Kernels
that are linked in count from the moment the application starts, so all steps of
handlers and of the receiving thread are invisible.

### MessageFraming

One direction of a connection: a thread that calls `Message::send` and one that calls
`Message::recv`. `SendHeader` writes type and size, `SendBody` is one iteration of the loop that writes the
payload; `RecvHeader` is the single `recv` of the header, `RecvBody` one iteration of the loop behind it, and
`RecvEnd` a `recv` of the system that returns 0. The lengths the system handles at a time are free.
`SenderEnds` may happen at any byte and may lose any bytes that have not been read yet.

A byte is the position it has in the stream, so a payload is known by where it begins and ends, and one read from a wrong
place differs from the one sent. What a header contains is known at the places where headers begin; anywhere
else, or in a part of a header, `Found` yields any type and size. `HeadersWhole` says that a header never arrives in
parts: nothing in the code makes sure of that, though eight bytes written at once usually stay together. With
`HeadersWhole = FALSE` in `MessageFraming.cfg`, TLC shows `recv` take the first byte of a header for all of it
(`messageHelper.cpp:150`) and return a message nobody has sent.

`MessageQueue` has no bytes. A message is on its way from the call of `send`; when the sender ends, those whose bytes
are not all there are the ones that are lost (`Arriving`). This is the queue `CodeGenProtocol` has in both
directions of each connection, with `Cut` for the loss. Headers here are of any type and size, while each message of `CodeGenProtocol`
is one of the types in `messageTypes.h`.

## 3. The runs

Passing runs:

| Run | Instance | What it shows |
|---|---|---|
| `ScopDetection` | modules with two SCoP functions of 7 kinds, called up to 3 times by main, once by another function and by one that checks results; lists of depths for analysis and code generation, or none (64,848 states) | `TypeIsOrderIndependent`, `TypesComplete`: the type of an argument is a function of its accesses, all of them, in copies too. `TransfersOnlyAdded`: an upload or write-back once needed stays. `SizeIsExact`: the size computed from text is the number of elements accessed. Before the run TLC evaluates `TextsAreRead`, the hypothesis the proofs about sizes rest on. `OwnFunction`, `LevelsNamed`. `CopiesAgree`, `CopiesHaveSameSizes`: a copy of a function comes out like its original. `StoresRunOnce`: the work items of a kernel run each iteration of each store once |
| `ScopDependency` | all programs of up to 4 statements of 11 kinds over 2 buffers, with sizes `n - 1`, `n`, `n + 1` and `2m` (173,527 states) | `ReadOnlyNeverWritten`, `SizeCoversLaterUses`: looking at the next user only is enough, over any number of calls between, for sizes that differ in constants; `PassIsExact`: the pass adds nothing that no later call needs, keeps the first text with the largest constant, and does nothing at all with the flag raised (`InterruptPreventsOptimization`). `FlagOnlyIfInterrupted` |
| `OffloadRuntime` | all offloadable programs of up to 4 statements, 2 frames, targets none, host, GPU (1.56 million states) | `ImplementsOriginal`: the rewritten program is a refinement of the original. `KernelStaysInBuffers`: the buffers a kernel is given, most of them created for another call, are there and large enough. `NothingLeftOnDevice`, `ReadOnlyBuffersMatchHost`; with all devices built in `NoMissingDevice`; `SwitchesOnlyFromHost` |
| `OffloadRuntimeSwitching` | offloadable programs of up to 3 calls over 2 buffers, GPU and MIC may be unavailable at any decision | the same with buffers following the program from device to device, `BuffersOnlyOnHolder`, and `BuffersAreReleased` (liveness) |
| `KernelCompilation` | 3 devices, of which the MIC may be missing, 2 kernels, 2 calls | what the two flags do guarantee: `IdleMeansComplete`, and `UsableIfLeftToMain` for a device no thread was started for; `RaisedFlagHasCompiler`: a flag somebody spins on has a thread that will lower it; `CompileForDeviceReturns` (liveness) |
| `CodeGenProtocol` | 2 clients of different names and programs, 2 runs each, with and without cache, clients may be killed, server may be stopped (19,905 states) | `OwnKernels`, `NobodyWaitsInVain`: thread and handler never wait for each other; `RequestIsAnswered` (liveness, as long as the server lives); `ServesEachAlone`: the protocol is a refinement of `KernelService` |
| `CodeGenProtocolSharedFile` | 2 clients of one name and different programs, 2 runs each, without cache, clients may be killed, server may be stopped (392,458 states) | `AnnouncedIsDelivered`: what follows an announcement is as long as announced, although the other handler may truncate and write the file before it is measured, between measuring and reading, and between reading and sending |
| `MessageFraming` | 3 messages of 0, 1 or 3 bytes, headers of 2 bytes that arrive in one piece, parts of any lengths, a sender that may end (74,548 states) | `ReceivedAsSent`: what `recv` returns is what was sent. `FramesAreMessages`: both programs may reckon with whole messages (refinement of `MessageQueue`). `SentIsDelivered` (liveness) |

Runs whose property says what a comment or doc of the code says, and which TLC
finds violated (`findings` in `PROJECT.json` has the quotations):

| Run | Property | Counterexample |
|---|---|---|
| `OffloadRuntimeDefaultBuild` | `NoMissingDevice` | only MCPU is built in, but big data makes the GPU the best choice |
| `OffloadRuntimeBorder` | `ImplementsOriginal` | a SCoP that skips the border of its output, like `kernel_gauss` of the motion test |
| `CodeGenProtocolSameName` | `OwnKernels` | two clients whose SCoP parents are both called `main` share a `.cl` file |
| `CodeGenProtocolWait` | `WaitEnds` | a killed client ends the server through the assertion; the other client spins forever |

Why the bounds are enough:

* *Modules of ScopDetection.* Calls `f g f`, `g h g g` and `f f` separate and join
  repeated calls, make up to two copies of one function, and a call by a second
  function gives the SCoPs no common parent. Statements with two or three accesses allow every
  order of a smaller, an equal and a larger offset. Depth lists are shorter than, as long as and different
  from what the SCoPs have. Parameters run up to `MaxParam` = 2 and iterators up to `MaxIterator` = 3, which
  is larger than any bound of a domain; expressions are affine, so wrong coefficients and constants show
  at these values.
* *Programs of 4 statements.* The flag needs two closed chains: SCoP, host call,
  SCoP, host call. Three calls are the fewest for a child of a child, that is,
  for information to pass through a call in between.
* *Four sizes in ScopDependency.* `n - 1`, `n` and `n + 1` have a smaller, an equal and a larger constant, and a largest one may come first,
  in between or last; `2m` differs in its name, is not larger by its constant, and comes to something else for a SCoP without a loop `m`. Calls are
  executed with n = 2 and m = 3, so the size in `m` is the largest although its constant is not.
* *Two buffers, two elements.* A call relates at most two buffers here; two elements tell a
  partial from a complete write and a small from a large size in `OffloadRuntime`.
* *THRESHOLD = 1* makes calls with one element small and calls with two big.
* *Two frames* are the fewest in which a call starts with an accelerator, and
  possibly buffers, left over from an earlier one.
* *Three devices, two kernels, two calls of compileForDevice.* Two kernels make
  a kernel list half full; the second call is the first to meet a thread started by an earlier one;
  the third device is a thread next to the one in question. `MaxCalls` and
  `ProgramRuns` are the only bounds on counters.
* *Two clients, two runs.* Two handlers are enough to share a file, a message
  and a server; the second run is the first that finds an entry in the cache. Different programs of one name have
  files of different length in `CodeGenProtocolSharedFile`.
* *Three messages of up to three bytes.* A payload of three bytes can be cut in every way that differs (first,
  middle, last part), one of one byte cannot, and one without bytes skips both loops. Headers need two bytes to be
  cut. What goes wrong in one message shows in the next, and the third meets a reader that is two messages behind.

`CHECK_DEADLOCK FALSE` is set where the system really stops: the analysis when the kernels are
generated or a process has ended, the pass when it is done,
`compileForDevice` after `MaxCalls` or an exit of the process, the clients when all have
ended, the connection when all messages are through or the end has been reported. `OffloadRuntime` has a `Stop` step for its two ends, so TLC looks for
deadlocks everywhere else.

## 4. Fairness

* `OffloadRuntime!FairSpec`: weak fairness of `Step`. The rewritten application
  is one thread which the operating system runs as long as it can take a step.
* `KernelCompilation!FairSpec`: weak fairness of the main thread and of every
  compiler. They are OS threads; the loop that waits only reads a flag, so it is
  `EndWait` being enabled and not its taking turns that matters.
* `CodeGenProtocol!FairSpec`: weak fairness of every client's and every
  handler's steps, for the same reason. Nobody has to kill a process: `Leave`
  and `StopServer` have no fairness.
* `MessageFraming!FairFraming`: weak fairness of `SendBody` and of the receiver's steps. Both are loops of running threads, and
  bytes that are in the stream can be read. Nobody has to send another message, and nobody has to end.

## 5. The proofs

The constants are arbitrary in all theorems: any number of values, programs of any
length, any devices built in, any targets, thresholds and frames, any device and kernel
lists. Assumptions are the `ASSUME`s in the modules, which say what kind of
thing each constant is (in `ScopExtraction`, `KernelGeneration` and `ScopDetection` what LLVM and Polly
promise: a function has finitely many calls, an instruction is in a sequence of different loops, a loop
the server can take is bounded by an integer argument of the function or by none, an access has one of the three kinds, and
the constant of an index is an integer), and some theorems name one more:

* `TextsAreRead` for `SizesAreExact` and `SizesOfCopies`: for every index of a regular SCoP, the text isl prints, with
  the iterators at 0 or at their lower bounds, evaluates to the constant of the index, and with the iterators at their upper
  bounds and "+1" to one more than the largest index in the domain. It is about constants only (an index, a
  domain, values of parameters), not about the analysis. It cannot be proved here, since what `ReplaceName` and `Eval`
  compute of a text of any length takes an induction over texts; `MCScopDetection` assumes it, so
  TLC evaluates it, and finds it true, for all SCoPs of the instance;

* `DeviceSet # {}` in `KernelCompilation_proofs`: a build without any device has nothing to compile;
* `Tame` for `ReadOnlyBuffersSafe` in `OffloadRuntime_proofs`, the two conjuncts `Regular` and `HostCodeApart` of
  `Offloadable` for every program, and all four conjuncts, `AllOffloadable`, in
  `OffloadRefinement_proofs`;
* `MaybeUnavailable = {}` for `ProgramStaysOnDevice` and `NoDeviceIsMissing`, and for the second
  also `Enabled = Devices` (the run `OffloadRuntimeDefaultBuild` shows that it is needed);
* `NamesDiffer` for `KernelsAreOwn` and `ProtocolIsService`: no two clients call their SCoPs from functions of the
  same name (the run `CodeGenProtocolSameName` shows that it is needed);
* `MessagesApart` for `DeliveryAsAnnounced`, `ExchangesGoOn` and `ProtocolTypeCorrect`: names differ, or the cache is off, as it is by
  default (`server/main.cpp:35`). Clients of one name may share files then, but no message. Where they share a message, TLC finds
  `AnnouncedIsDelivered` violated with three clients: one handler measures the file, a second one writes it anew, and a third,
  which has found the message in the cache, enters the new size before the first announces it (`htropserver.cpp:381`);
* `HeadersWhole` for `ReceivedIsSent` and `FramingIsQueue`: headers arrive in one piece (with
  `HeadersWhole = FALSE` TLC finds `ReceivedAsSent` violated).

| Theorem | States | Argument |
|---|---|---|
| `EveryCallOwnFunction` | `OwnFunction` | see below |
| `LevelsHaveNames` | `LevelsNamed` | `LoopsRecorded` says that a SCoP's loops are the `LoopNames` of its context for a depth that is a number; `DepthIsNumber` needs that a SCoP without a store in a loop ends the process before |
| `DetectionExtracts` | `DetectionSpec => ExtractionSpec` | step by step; it carries `EveryCallOwnFunction` and `LevelsHaveNames` over to the composed analysis (`DetectionKeepsCallsApart`) |
| `TypesCorrect`, `OrderIndependence` | `TypeOK`, `TypeIsOrderIndependent` of `AccessTyping` | the property and the types are inductive: one access changes `type` exactly as it changes `RequiredType(seen)` (`AccessMatchesRequired`) |
| `TransfersAreKept` | `TransfersOnlyAdded` | by the types, one access keeps what a type stands for (`AccessKeepsTransfers`) |
| `DetectionTypes` | `DetectionSpec => Spec` of `AccessTyping`, and with it the two properties above | an access of a statement is an `Access` of `AccessTyping`; needs that Polly's kinds of access are the three of `AccessType` |
| `TypesAreComplete` | `TypesComplete` | see below |
| `CopiesAreAnalysedAlike` | `CopiesAgree` | see below |
| `SizesAreExact`, `SizesOfCopies` | `SizeIsExact`, `CopiesHaveSameSizes`, if texts are read as what they say | see below |
| `EveryIterationRunsOnce` | `StoresRunOnce`, and `StoresRunOnceForAll`, the same for all numbers of iterations | see below |
| `PassTypesCorrect`, `ReadOnlySafe`, `SizesSufficient` | the pass is right for programs of any length, `SizesSufficient` with the two conditions of `SizeCoversLaterUses` | see below |
| `PassComputesNeeds` | `PassIsExact`: types and texts as a function of the program and the flag | see below |
| `FlagPreventsOptimization` | `InterruptPreventsOptimization`, a part of `PassIsExact` | calls that the second loop has not reached are `Unoptimized`, and with the flag it does not run |
| `FlagNeedsInterrupt`, `FlagCountsChains` | `FlagOnlyIfInterrupted`, `FlagIsExact` | see below |
| `ReadOnlyBuffersSafe` | `ReadOnlyBuffersMatchHost` | see below |
| `ProgramStaysOnDevice`, `NoDeviceIsMissing` | `SwitchesOnlyFromHost`, `NoMissingDevice` | see below |
| `RewritingIsFaithful` | `ImplementsOriginal` | see below |
| `KernelsStayInBuffers` | `KernelStaysInBuffers` | `LargeEnough` and `TransferredSoFar` of the refinement's invariant, when all arguments of the call have been transferred |
| `RuntimeTypeCorrect`, `BuffersOnOneDevice`, `EverythingReturns` | `RuntimeTypeOK`, `BuffersOnlyOnHolder`, `NothingLeftOnDevice` | one invariant, see below |
| `IdleDevicesAreComplete` | `IdleMeansComplete` | see below |
| `LeftToMainIsUsable` | `UsableIfLeftToMain` | only Main ever works on the device, so its kernels and its context have the same compiler; needs that every thread number above `compilerThreads` is unused |
| `NobodyWaitsForNobody` | `RaisedFlagHasCompiler` | see below |
| `CompilationTypeCorrect` | `CompilationTypeOK`, with its bound on the number of threads | `StartedSoFar` counts them: earlier calls have started at most `Others` each, this one at most one per device the scan has passed, the requested one excepted |
| `KernelsAreOwn`, `DeliveryAsAnnounced`, `ProtocolTypeCorrect` | `OwnKernels`, `AnnouncedIsDelivered`, `ProtocolTypeOK` | one invariant, see below; only the first needs that names differ |
| `ExchangesGoOn` | `NobodyWaitsInVain` | from the same invariant: `HandlerView` leaves no state in which both sides wait and nothing is on its way |
| `ProtocolIsService` | `ServesEachAlone` | see below |
| `FramingTypesCorrect` | `FramingTypeOK` | with `recv_size` at most `read`, and a message that has been sent while `send` is in its loop; without `HeadersWhole` |
| `ReceivedIsSent`, `FramingIsQueue` | `ReceivedAsSent`, `FramesAreMessages` | see below |

*The analysis.* `OwnFunction` speaks of an analysis that has ended well, so `ExtractionInv`
says for every stage what is left to do. A call still calls the function it called or a copy of it; the number of a copy
is below `seq`, so a new copy is called by nobody; every called function with a SCoP is analysed,
is about to be, or is in the list of candidates; no function is analysed twice. While copies are
made, each call of the parent that shares its function with an earlier one is still in
`repeatedCalls`. In the end nothing is left there, and since the assertion holds that all parents
agree, two different functions cannot share one either. The theorem is about `ExtractionSpec`, and by
`DetectionExtracts` about the whole analysis.

*Types of the analysis.* `TypesComplete` and `CopiesAgree` speak of an analysis that has ended.
`AnalysisInv` says what has been seen before: the arguments of a function that is neither
analysed nor being analysed have no type and have seen nothing; those of an analysed one have
seen all accesses that were due, and those of the one being analysed the accesses that
are no longer in `todo` (`Processed`). `TypeIsOrderIndependent` turns what was seen into the type,
so completeness follows (`AllKindsSeen`). A copy is a different function of the same name, and the SCoP is
found by the name, so original and copy have seen the same kinds. `DepthsInv` adds that the entry of an
analysed SCoP in `scopDS` depends on its name only, as long as the user gives one depth at most.

*The sizes.* An array has many accesses, and the order they are met in is free, so `SizeIsExact` needs to know what the
bounds are in the middle of it. `BoundsInv` says so for regular SCoPs: the bounds of an array are those `UpdateBounds` started with as
long as none of its accesses has been met (`Met`); afterwards there are a smallest and a largest among the
accesses met so far, `offset_min` and `offset_max` are their constants, and the text is that of the largest, with "+1" once the
function is analysed and its smallest constant is 0. One access keeps this (`FirstAccessBounds`, `NextAccessBounds`): by the hypothesis its offset, which the code
computes from a text, is its constant, so replacing a bound or leaving it is a comparison of integers. When the
analysis is done all accesses have been met (`AllIsProcessed`). Two accesses of a regular array with the same constant have the same index
(its terms are the same for all accesses, and so is the domain: iterators and constraints), hence the same text (`SameOffsetSameText`); so a copy,
whose accesses are met in another order, ends with the same bounds. The largest index of the access with the largest constant is
the largest of all (`LargestIndex`), and by the hypothesis the size is one more.

*The work items.* `EveryIterationRunsOnce` crosses three components. `RequestInv`: the list that
`sendCodeGenReq` makes consists of analysed functions, each with the depth DepDetect found unless the
user gave one; `AnswerInv`: for each kernel generated so far the loops that
became dimensions are the first ones of the nest, as many as were asked for, and each
is bounded by an argument of the function (what the assertions at `openCLCbackend.cpp:229` are for).
A store is at least as deep as the depth, since that is the
minimum over the stores (`MaxIsMember`, `MinOfTwo`), so its first loops are the dimensions. Hence an iteration
`v` of the store is run by the item whose number is `v` cut off at the number of dimensions and by no
other, and that number is in the index space, whose sides are the values of the bounding arguments
(`WorkItemExists`).

*The pass.* `ReadOnlyNeverWritten` speaks of the finished pass, so it is not
inductive. The invariant `PassInv` says in addition where the second loop is:
the calls up to `root_pos` are still `Unoptimized`, those after it are `Settled`. A
settled call speaks for all its later users: it is not `IN` if one of them
writes the buffer. When the loop reaches a call, the next user of each
buffer (`ChildIsNextUser`, which rests on the minimum of a set of naturals) is
settled already, and the root takes over what it says (`RootBecomesSettled`).
`SettledInv` also keeps that `OUT` stays `OUT` and that a writing call stays
a writing one, without which the next root could not rely on the type.
`PassComputesNeeds` is the converse as well. `Settled` says that the type and the text *are* what
the later uses ask for: the type joined with their writes, and, if texts are `ReadAlike`, the text of the first of them whose constant
is the largest. Since the next user of a buffer is used by whoever uses it later, the
uses of a call are its own and those of its next user; the text that has come up to the next user has the same constant in
the names of the root, so one comparison decides between the root's own and all later ones
(`LargerTextGoesUp`). With `DifferInConstants`, the use with the largest constant is the one with the largest size, which is `SizesSufficient`.

*The runtime.* `RuntimeInv` adds to types and properties `ControlInv`: inside
the wrapper the statement is a SCoP call, in the accelerated block the current
accelerator is a device that is built in, and before the pass is done nothing is
on a device. `BuffersOnlyOnHolder` is inductive only with the
distinction which accelerator holds the buffers: between the decision and the cleanup it is still
the previous one (`HoldingDevice`). `NothingLeftOnDevice` follows because the release
behind a call empties exactly the holder (`ReleaseEmpties`), and the last call in the program
has no call behind it (`LastScopIsLast`).

*The chains.* The flag is a counter compared with 1, so the proof has to know what the counter
counts. `ChainInv` says that `flag_new_chain` tells whether a chain is open after the statements
seen so far, and that `runner_chain_id` is the cardinality of the set of those that closed one. Two
of them have a SCoP call before the first, and one between the first and the second
(`TwoChainsHaveCallBetween`). `FlagIsExact`, the other half, is what the next proof needs.

*Read-only buffers.* This is the property in which pass and runtime meet: a buffer of type `IN` is
released without being copied back, so its contents must be those of the host memory whenever it is on a
device. `BufferInv` remembers where a buffer comes from (`OriginKnown`): from the call in the
wrapper or an earlier one of this frame, with the optimized type of that call, and not from an earlier one if
the chain is interrupted. A kernel cannot write it then, since `ReadOnlySafe` speaks for all
later calls (`KernelKeepsReadOnly`); host code cannot, since in a chain that is not interrupted
`HostCodeApart` rules it out, and otherwise nothing is on a device at that point
(`HostCodeKeepsReadOnly`). Buffers are gone when the function is called again, by `NothingLeftOnDevice`.

*The refinement.* `RewritingIsFaithful` is the whole of the offloading: decision, cleanup, transfers,
kernels and release of any program are steps of the original program or no steps of it. Seen through
the mapping, decision, cleanup, transfer and release must leave `LogicalMem` alone, and a kernel must
change it as the SCoP would. `RefineInv` adds to `BufferInv` what that takes. `HostDefined`: host
memory is always defined, so what is copied to a device is, too. `UndefinedIsOutput`: an element of a buffer is
undefined only if the buffer was created as `OUT` and the kernel that writes all of it has not run yet,
so nothing undefined is ever copied back or read. `LargeEnough`: a buffer covers what the call in the wrapper and, unless
the chain is interrupted, all later users touch, from `SizesDoNotGrow`; an interrupted chain has no buffers left behind a call
(`NothingLeftOnDevice`). `ChangesAreOutput`: an element
that differs from the host's belongs to a value that a SCoP which has run writes; so its buffer is copied back, and
`HostCodeApart` keeps host code away from it. `TransferredSoFar` says which arguments of the call in the wrapper are on the device already.

*The decision.* Arguments lie on the current device only, by `BuffersOnlyOnHolder`, so
no other device gets a bonus for them (`HeldByCurrentOnly`). The bonus for staying
is then more than any difference the other bonuses make (`DecisionIsToStay`), whatever the
number of arguments on the device; the host is chosen only by a program that is there. Since a
decision that leaves a device for the host is the one that dereferences NULL, and the other
devices exist, nothing crashes.

*The flags.* A device may be compiled by two threads at once, and the first to
finish lowers the flag while the second is at work. `IdleMeansComplete` holds
nevertheless, and `RaisedUntilComplete` says why: while a compiler is past
its first step, the flag is up or all kernels are there, and kernels never
disappear. `AddedSoFar` and `ContextImported` say what a compiler in the
middle of `addKernel` has achieved. `RaisedFlagHasCompiler` is the other direction: only a compiler that begins with a device raises its flag, and
the one that ends lowers it, though another may still be at work, so a raised flag has a compiler past its first step that has not ended
(`FlagsHaveCompilers`). The application's thread is none of them while it spins, so it waits for another thread.

*The protocol.* `ProtocolInv` has two parts. What every pair of client and handler has is a message of its own, because names differ or the cache
is off, and so sizes that agree from the measuring of the file to the end of the sending: `HandlerData` says so at each step, whatever the file contains, and
`AnnouncedIsDelivered` follows. If names differ, a cache entry and a `.cl` file belong to one client too, and `OwnData` says
what they and the handler's message contain. Each client talks
to its own handler only; `ClientView` and `HandlerView` list the states of that
conversation: where both stand and which messages, two at most, are on their way. When the server
has ended, `ClientView` alone remains, for every beginning of the queue may still arrive (`ShortCuts`).
A step of one client leaves the conversations of all others alone (`OthersUntouched`), so the number of clients
does not matter. For `ProtocolIsService`, each step is seen as a step of the one client that takes it,
or not at all: kernels are only linked in while their client waits (`LinkingIsNotSeen`), and what a
client starts with is then its own, by `ClientView` (`FinishedServes`).

*The framing.* `ReceivedAsSent` is inductive together with where everybody is in the stream. `Layout`: each message
begins where the one before it ends, so no two begin at the same place (`PlacesDiffer`). `Writer`: outside
its loop `send` has written all of every message, within it `total` bytes of the last one. `Reader`: between two messages
`recv` is at the end of the last one it has returned, within one `recv_size` bytes behind the beginning of
the next. So a header that is read whole is the next message's (`NextHeader`), and a payload that is complete ends
where that message ends (`RecvBodyReturns`). For `FramingIsQueue`, steps within a message are not seen (`BytesAreNotSeen`);
`recv` never gets beyond what arrives in the end (`DeliveredArrives`), and as the messages whose bytes are all there
are a beginning of those sent (`ArrivingIsLast`), ending loses the last ones of the queue (`EndIsSeen`). If
`recv` reports the end, no byte of the next message is left to read, so nothing is on its way (`RecvEndIsSeen`).

Only model-checked: liveness (`BuffersAreReleased`, `CompileForDeviceReturns`,
`RequestIsAnswered`, `SentIsDelivered`), which is out of this prover's reach, and `TextsAreRead`, the hypothesis about
texts. For two of the liveness properties the safety part is proved: whoever waits while the server lives, or
while a flag is up, waits for something that is on its way (`ExchangesGoOn`, `NobodyWaitsForNobody`). All other properties of the passing
runs are proved. (`SizeIsExact` evaluates indices for parameters up to `MaxParam` and iterators up to
`MaxIterator`, in the theorem as in the run.)

## 6. What is not modelled

* OpenCL calls that fail, and exceptions while a size is evaluated (the wrapper
  then skips the kernel).
* A SCoP parent with branches, loops, several returns or indirect calls around
  the SCoP calls; with branches, the final cleanup is then not behind the call that is executed last.
* Data races below the level of an operation (`std::map`, `LLVMContext`).
* Lengths of the buffers that callers of `Message::recv` pass: it takes the length from the header
  (`htropserver.cpp:185`, `htropclient.cpp:190`). A `send` that fails while its process lives on.
* Dependences between iterations: DepDetect computes `hasLoopDependencies`, but nothing reads it
  (`depdetect.cpp:178`), so loops become dimensions of a kernel whether or not one iteration reads what
  another writes. `StoresRunOnce` says that iterations run once; their order is outside the model.
* The IR of a kernel's loops: removing a loop, offsets and guards of loops that do not begin at 0.
* `AccScore`: `runScopDetection` runs it, but sets every affinity in `ScopDS::resources` to 0 and reads
  nothing of its result; the decision at run time has its own table.
* `cl_replace.cpp`: it edits the text axtor prints by search strings, and whether
  that is right depends on axtor's wording.
* `llvmHelper.cpp`: construction of IR as such; what the constructed code does is `OffloadRuntime`.
* `hds.pb.*` is generated, `test/motion` is an input.

## 7. Plan

What would come next, in this order:

1. Extensions of `OffloadRuntime`: failing OpenCL calls and the exception edge
   of the wrapper; a parent with a branch.
2. Joining the `_client.cl` file of `CodeGenProtocol` with `KernelCompilation`,
   which reads it at the first decision.
