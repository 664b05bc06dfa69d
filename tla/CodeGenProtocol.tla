---------------------------- MODULE CodeGenProtocol ----------------------------
(***************************************************************************)
(* How clients get their kernels.  A client connects to the server, starts *)
(* a thread that answers it, sends the code generation request and waits   *)
(* for the thread to link the kernels in; then it runs the application.    *)
(* The server runs a handler thread per connection.  The handlers share    *)
(* the cache and, by its name, the .cl file the kernels are written to.    *)
(*                                                                         *)
(* Messages arrive whole and in order.  A client may be killed at any time *)
(* and closes its connection when it ends; sending to a closed connection  *)
(* is lost or, as SIGPIPE is not handled, ends the sender.                 *)
(***************************************************************************)
EXTENDS Integers, Sequences

CONSTANTS
  Clients,         (* the client processes                                 *)
  ParentName,      (* scopFunctionParent->getName() of each                *)
  Program,         (* what each runs: the code of its SCoPs                *)
  CacheOptions,    (* the values --enable-cache may have                   *)
  ProgramRuns,     (* --runs of the clients                                *)
  MayLeave,        (* the clients that may be killed                       *)
  MayStop,         (* whether the server may be stopped                    *)
  Empty, Mixed,    (* a .cl file that is truncated, that two have written  *)
  None             (* no message, no kernels, no binary                    *)

Names == {ParentName[c] : c \in Clients}
Codes == {Program[c] : c \in Clients}
Content == Codes \cup {Empty, Mixed}

ASSUME ProtocolAssumption ==
  /\ DOMAIN ParentName = Clients /\ DOMAIN Program = Clients
  /\ CacheOptions \subseteq BOOLEAN
  /\ ProgramRuns \in Nat \ {0}
  /\ MayLeave \subseteq Clients /\ MayStop \in BOOLEAN
  /\ Empty \notin Codes \cup {Mixed, None} /\ Mixed \notin Codes \cup {None}
  /\ None \notin Codes \cup Clients

VARIABLES
  mainPc,      (* "start", "connected", "wait", "app" or "left"            *)
  run,         (* the iteration of the loop in main                        *)
  threadPc,    (* handleHTROPServerCommunication: "none", "recv",          *)
               (* "binary", "processed" or "ended"                         *)
  processed,   (* HTROPClient::processed                                   *)
  announced,   (* codeGenMsgFromServer in handleCompiledBinary             *)
  kernels,     (* what handleOclBinary has linked into the program         *)
  toServer, toClient,
  server,      (* "up" or "down"                                           *)
  handlerPc,   (* connection_handler: "none", "recv", "waitIR",            *)
               (* "generate", "write", "cache", "file", "read", "set",     *)
               (* "ready" or "binary"                                      *)
  message,     (* codegenMessageFromServer: the client it was made for     *)
  binaryCodeSize,  (* what the handler measures: the content it finds      *)
  buffer,      (* binaryCodeBuffer                                         *)
  binarysize,  (* of the message made for a client: the content measured   *)
  isCacheEnabled,
  cacheList,   (* the cached message of a name                             *)
  clFile       (* the .cl file of a name                                   *)

binaryVars  == <<processed, announced, kernels>>
handlerVars == <<message, binaryCodeSize, buffer, binarysize>>
sharedVars  == <<isCacheEnabled, cacheList, clFile>>
vars == <<mainPc, run, threadPc, binaryVars, toServer, toClient, server, handlerPc,
          handlerVars, sharedVars>>

All(value) == [c \in Clients |-> value]

Init ==
  /\ mainPc = All("start") /\ run = All(1)
  /\ threadPc = All("none") /\ processed = All(FALSE)
  /\ announced = All(None) /\ kernels = All(None)
  /\ toServer = All(<< >>) /\ toClient = All(<< >>)
  /\ server = "up" /\ handlerPc = All("none")
  /\ message = All(None) /\ binaryCodeSize = All(None)
  /\ buffer = All(None) /\ binarysize = All(None)
  /\ isCacheEnabled \in CacheOptions
  /\ cacheList = [n \in Names |-> None]
  /\ clFile = [n \in Names |-> Empty]

(* Messages and processes that end *)

Msg(type, payload) == [type |-> type, payload |-> payload]
Alive(c) == mainPc[c] # "left"

AtServer(c, type) == toServer[c] # << >> /\ Head(toServer[c]).type = type
AtClient(c, type) == Alive(c) /\ toClient[c] # << >> /\ Head(toClient[c]).type = type

(* recv finds nothing and nobody who could still send something. *)
ClientHasGone(c) == toServer[c] = << >> /\ ~Alive(c)
ServerHasGone(c) == toClient[c] = << >> /\ server = "down"

(* What may still arrive of a queue after its sender has ended. *)
Cut(queue) == {SubSeq(queue, 1, n) : n \in 0 .. Len(queue)}

ClientEnds(c) ==
  /\ mainPc' = [mainPc EXCEPT ![c] = "left"]
  /\ threadPc' = [threadPc EXCEPT ![c] = "ended"]
  /\ \E queue \in Cut(toServer[c]) : toServer' = [toServer EXCEPT ![c] = queue]
  /\ toClient' = [toClient EXCEPT ![c] = << >>]

(* All handlers end with the server. *)
ServerEnds ==
  /\ server' = "down"
  /\ handlerPc' = All("none")
  /\ \E queue \in [Clients -> UNION {Cut(toClient[c]) : c \in Clients}] :
       /\ \A c \in Clients : queue[c] \in Cut(toClient[c])
       /\ toClient' = queue

ClientSends(c, m) ==
  toServer' = IF server = "up" THEN [toServer EXCEPT ![c] = Append(@, m)] ELSE toServer

(* The main thread of client c *)

(* The server accepts and starts a handler.  That there is no server is    *)
(* returned, but main does not look.                                       *)
connectToHTROPServer(c) ==
  /\ mainPc[c] = "start"
  /\ mainPc' = [mainPc EXCEPT ![c] = "connected"]
  /\ handlerPc' = IF server = "up" THEN [handlerPc EXCEPT ![c] = "recv"] ELSE handlerPc
  /\ UNCHANGED <<run, threadPc, binaryVars, toServer, toClient, server, handlerVars, sharedVars>>

(* handleRequests: starts the thread and sends the request. *)
sendCodeGenReq(c) ==
  /\ mainPc[c] = "connected"
  /\ \/ /\ mainPc' = [mainPc EXCEPT ![c] = "wait"]
        /\ threadPc' = [threadPc EXCEPT ![c] = "recv"]
        /\ ClientSends(c, Msg("REQ_CODE_GEN", Program[c]))
        /\ UNCHANGED toClient
     \/ server = "down" /\ ClientEnds(c)
  /\ UNCHANGED <<run, binaryVars, server, handlerPc, handlerVars, sharedVars>>

(* Mutant: the loop also ends when the receiving thread does. *)
finishedOrEnded(c) ==
  /\ mainPc[c] = "wait" /\ (processed[c] \/ threadPc[c] = "ended")
  /\ mainPc' = [mainPc EXCEPT ![c] = "app"]
  /\ UNCHANGED <<run, threadPc, binaryVars, toServer, toClient, server, handlerPc,
                 handlerVars, sharedVars>>

(* Leaves the loop that spins on finished. *)
finished(c) ==
  /\ mainPc[c] = "wait" /\ processed[c]
  /\ mainPc' = [mainPc EXCEPT ![c] = "app"]
  /\ UNCHANGED <<run, threadPc, binaryVars, toServer, toClient, server, handlerPc,
                 handlerVars, sharedVars>>

(* A new HTROPClient.  The old connection stays open, but nothing is sent  *)
(* on it any more: both its threads are left out.                          *)
NewClient(c) ==
  /\ mainPc' = [mainPc EXCEPT ![c] = "start"]
  /\ run' = [run EXCEPT ![c] = @ + 1]
  /\ threadPc' = [threadPc EXCEPT ![c] = "none"]
  /\ processed' = [processed EXCEPT ![c] = FALSE]
  /\ announced' = [announced EXCEPT ![c] = None]
  /\ kernels' = [kernels EXCEPT ![c] = None]
  /\ handlerPc' = [handlerPc EXCEPT ![c] = "none"]
  /\ UNCHANGED <<toServer, toClient, server, handlerVars, sharedVars>>

(* Mutant: one run too many. *)
NextRunOffByOne(c) ==
  /\ mainPc[c] = "app" /\ run[c] <= ProgramRuns
  /\ NewClient(c)

NextRun(c) ==
  /\ mainPc[c] = "app" /\ run[c] < ProgramRuns
  /\ NewClient(c)

(* The application ends, or the process is killed. *)
Leave(c) ==
  /\ Alive(c)
  /\ \/ c \in MayLeave
     \/ mainPc[c] = "app" /\ run[c] = ProgramRuns
  /\ ClientEnds(c)
  /\ UNCHANGED <<run, binaryVars, server, handlerPc, handlerVars, sharedVars>>

(* The thread of client c, handleHTROPServerCommunication *)

Thread(c, from, to) ==
  /\ Alive(c) /\ threadPc[c] = from
  /\ threadPc' = [threadPc EXCEPT ![c] = to]

(* recv of the expected message. *)
Receive(c, type) ==
  /\ AtClient(c, type)
  /\ toClient' = [toClient EXCEPT ![c] = Tail(@)]

(* Mutant: the request is taken but not answered. *)
handleLLVMIRReqUnanswered(c) ==
  /\ Thread(c, "recv", "recv")
  /\ Receive(c, "REQ_LLVM_IR")
  /\ UNCHANGED <<mainPc, run, binaryVars, toServer, server, handlerPc, handlerVars, sharedVars>>

handleLLVMIRReq(c) ==
  /\ threadPc[c] = "recv" /\ AtClient(c, "REQ_LLVM_IR")
  /\ \/ /\ Receive(c, "REQ_LLVM_IR")
        /\ ClientSends(c, Msg("RSP_LLVM_IR", Program[c]))
        /\ UNCHANGED <<mainPc, threadPc>>
     \/ server = "down" /\ ClientEnds(c)
  /\ UNCHANGED <<run, binaryVars, server, handlerPc, handlerVars, sharedVars>>

(* handleCompiledBinary: allocates what the server announces, ...          *)
handleCompiledBinary(c) ==
  /\ Thread(c, "recv", "binary")
  /\ Receive(c, "RSP_CODE_GEN_COMPLETE")
  /\ announced' = [announced EXCEPT ![c] = Head(toClient[c]).payload]
  /\ UNCHANGED <<mainPc, run, processed, kernels, toServer, server, handlerPc,
                 handlerVars, sharedVars>>

(* ... receives the binary, makes the wrappers for it and links it in, ... *)
handleOclBinary(c) ==
  /\ Thread(c, "binary", "processed")
  /\ Receive(c, "BINARY_STREAM")
  /\ kernels' = [kernels EXCEPT ![c] = [info |-> announced[c].info,
                                        code |-> Head(toClient[c]).payload.code]]
  /\ UNCHANGED <<mainPc, run, processed, announced, toServer, server, handlerPc,
                 handlerVars, sharedVars>>

(* ... and tells the main thread.                                          *)
SetProcessed(c) ==
  /\ Thread(c, "processed", "recv")
  /\ processed' = [processed EXCEPT ![c] = TRUE]
  /\ UNCHANGED <<mainPc, run, announced, kernels, toServer, toClient, server, handlerPc,
                 handlerVars, sharedVars>>

(* The thread ends; waiting for the binary, it ends the process. *)
ServerDisconnected(c) ==
  /\ Alive(c) /\ ServerHasGone(c)
  /\ \/ Thread(c, "recv", "ended") /\ UNCHANGED <<mainPc, toServer, toClient>>
     \/ threadPc[c] = "binary" /\ ClientEnds(c)
  /\ UNCHANGED <<run, binaryVars, server, handlerPc, handlerVars, sharedVars>>

ClientStep(c) ==
  \/ connectToHTROPServer(c) \/ sendCodeGenReq(c) \/ finished(c) \/ NextRun(c)
  \/ handleLLVMIRReq(c) \/ handleCompiledBinary(c) \/ handleOclBinary(c)
  \/ SetProcessed(c) \/ ServerDisconnected(c)

(* The handler of client c, connection_handler *)

Handler(c, from, to) ==
  /\ handlerPc[c] = from
  /\ handlerPc' = [handlerPc EXCEPT ![c] = to]

Take(c, type) ==
  /\ AtServer(c, type)
  /\ toServer' = [toServer EXCEPT ![c] = Tail(@)]

(* Sends m and goes on, unless the client has gone and it is the end. *)
HandlerSends(c, m, from, to) ==
  \/ /\ Handler(c, from, to)
     /\ toClient' = IF Alive(c) THEN [toClient EXCEPT ![c] = Append(@, m)] ELSE toClient
     /\ UNCHANGED server
  \/ handlerPc[c] = from /\ ~Alive(c) /\ ServerEnds

(* Mutant: the key of the cache does not tell callers apart. *)
isCodeCachedByAnyName(c) ==
  LET found == {cacheList[n] : n \in Names} \ {None}
  IN  IF found = {} THEN None ELSE CHOOSE m \in found : TRUE

isCodeCached(c) == cacheList[ParentName[c]]

(* handleCodeGenReq takes the message from the cache, ...                  *)
FindInCache(c) ==
  /\ isCacheEnabled /\ isCodeCached(c) # None
  /\ Handler(c, "recv", "file")
  /\ Take(c, "REQ_CODE_GEN")
  /\ message' = [message EXCEPT ![c] = isCodeCached(c)]
  /\ UNCHANGED <<mainPc, run, threadPc, binaryVars, toClient, server, binaryCodeSize,
                 buffer, binarysize, sharedVars>>

(* ... or asks for the code of the SCoPs.                                  *)
RequestLLVMIR(c) ==
  /\ ~(isCacheEnabled /\ isCodeCached(c) # None)
  /\ Take(c, "REQ_CODE_GEN")
  /\ HandlerSends(c, Msg("REQ_LLVM_IR", None), "recv", "waitIR")
  /\ UNCHANGED <<mainPc, run, threadPc, binaryVars, handlerVars, sharedVars>>

ReceiveLLVMIR(c) ==
  /\ Handler(c, "waitIR", "generate")
  /\ Take(c, "RSP_LLVM_IR")
  /\ UNCHANGED <<mainPc, run, threadPc, binaryVars, toClient, server, handlerVars, sharedVars>>

(* The assertion that the message is an RSP_LLVM_IR fails. *)
AbortWithoutLLVMIR(c) ==
  /\ handlerPc[c] = "waitIR" /\ ClientHasGone(c)
  /\ ServerEnds
  /\ UNCHANGED <<mainPc, run, threadPc, binaryVars, toServer, handlerVars, sharedVars>>

(* generateOpenCLCode opens the .cl file, which truncates it, ...          *)
OpenClFile(c) ==
  /\ Handler(c, "generate", "write")
  /\ clFile' = [clFile EXCEPT ![ParentName[c]] = Empty]
  /\ message' = [message EXCEPT ![c] = c]
  /\ UNCHANGED <<mainPc, run, threadPc, binaryVars, toServer, toClient, server,
                 binaryCodeSize, buffer, binarysize, isCacheEnabled, cacheList>>

(* ... and writes the kernels to it, over those another handler has        *)
(* written since.                                                          *)
WriteClFile(c) ==
  LET n == ParentName[c] IN
  /\ Handler(c, "write", "cache")
  /\ \E content \in IF clFile[n] \in {Empty, Program[c]} THEN {Program[c]}
                                                       ELSE {Program[c], Mixed} :
       clFile' = [clFile EXCEPT ![n] = content]
  /\ UNCHANGED <<mainPc, run, threadPc, binaryVars, toServer, toClient, server, handlerVars,
                 isCacheEnabled, cacheList>>

(* insert keeps an entry that is there. *)
addToCache(c) ==
  LET n == ParentName[c] IN
  /\ Handler(c, "cache", "file")
  /\ cacheList' = [cacheList EXCEPT ![n] = IF @ = None THEN message[c] ELSE @]
  /\ UNCHANGED <<mainPc, run, threadPc, binaryVars, toServer, toClient, server, handlerVars,
                 isCacheEnabled, clFile>>

(* The .cl file the message names; another handler may be at it too.       *)
File(c) == clFile[ParentName[message[c]]]

(* fileToBuffer measures the file, ...                                     *)
MeasureFile(c) ==
  /\ Handler(c, "file", "read")
  /\ binaryCodeSize' = [binaryCodeSize EXCEPT ![c] = File(c)]
  /\ UNCHANGED <<mainPc, run, threadPc, binaryVars, toServer, toClient, server, message,
                 buffer, binarysize, sharedVars>>

(* What is read of a content into a buffer of the size of another.         *)
ReadInto(size, content) ==
  IF size = content THEN {content}
  ELSE IF Empty \in {size, content} THEN {Empty} ELSE {content, Mixed}

(* ... allocates a buffer of that size and fills it from the file.         *)
ReadFile(c) ==
  /\ Handler(c, "read", "set")
  /\ \E content \in ReadInto(binaryCodeSize[c], File(c)) :
       buffer' = [buffer EXCEPT ![c] = content]
  /\ UNCHANGED <<mainPc, run, threadPc, binaryVars, toServer, toClient, server, message,
                 binaryCodeSize, binarysize, sharedVars>>

(* The size is set in the message, which may be another handler's too.     *)
set_binarysize(c) ==
  /\ Handler(c, "set", "ready")
  /\ binarysize' = [binarysize EXCEPT ![message[c]] = binaryCodeSize[c]]
  /\ UNCHANGED <<mainPc, run, threadPc, binaryVars, toServer, toClient, server, message,
                 binaryCodeSize, buffer, sharedVars>>

SendCodeGenReady(c) ==
  /\ HandlerSends(c, Msg("RSP_CODE_GEN_COMPLETE",
                         [info |-> Program[message[c]], size |-> binarysize[message[c]]]),
                  "ready", "binary")
  /\ UNCHANGED <<mainPc, run, threadPc, binaryVars, toServer, handlerVars, sharedVars>>

(* Mutant: the file is sent as it is found by now. *)
SendBinaryRereads(c) ==
  /\ HandlerSends(c, Msg("BINARY_STREAM", [code |-> File(c), size |-> File(c)]),
                  "binary", "recv")
  /\ UNCHANGED <<mainPc, run, threadPc, binaryVars, toServer, handlerVars, sharedVars>>

SendBinary(c) ==
  /\ HandlerSends(c, Msg("BINARY_STREAM", [code |-> buffer[c], size |-> binaryCodeSize[c]]),
                  "binary", "recv")
  /\ UNCHANGED <<mainPc, run, threadPc, binaryVars, toServer, handlerVars, sharedVars>>

ClientDisconnected(c) ==
  /\ Handler(c, "recv", "none") /\ ClientHasGone(c)
  /\ UNCHANGED <<mainPc, run, threadPc, binaryVars, toServer, toClient, server, handlerVars,
                 sharedVars>>

HandlerStep(c) ==
  \/ FindInCache(c) \/ RequestLLVMIR(c) \/ ReceiveLLVMIR(c) \/ AbortWithoutLLVMIR(c)
  \/ OpenClFile(c) \/ WriteClFile(c) \/ addToCache(c)
  \/ MeasureFile(c) \/ ReadFile(c) \/ set_binarysize(c)
  \/ SendCodeGenReady(c) \/ SendBinary(c) \/ ClientDisconnected(c)

(* SIGINT *)
StopServer ==
  /\ MayStop /\ server = "up"
  /\ ServerEnds
  /\ UNCHANGED <<mainPc, run, threadPc, binaryVars, toServer, handlerVars, sharedVars>>

Next ==
  \/ \E c \in Clients : ClientStep(c) \/ HandlerStep(c) \/ Leave(c)
  \/ StopServer

Spec == Init /\ [][Next]_vars

(* The threads of both processes run; nobody has to kill anything. *)
FairSpec ==
  /\ Spec
  /\ \A c \in Clients : WF_vars(ClientStep(c)) /\ WF_vars(HandlerStep(c))
-----------------------------------------------------------------------------
Messages ==
  {Msg("REQ_LLVM_IR", None)}
    \cup [type : {"REQ_CODE_GEN", "RSP_LLVM_IR"}, payload : Codes]
    \cup [type : {"RSP_CODE_GEN_COMPLETE"}, payload : [info : Codes, size : Content]]
    \cup [type : {"BINARY_STREAM"}, payload : [code : Content, size : Content]]

ProtocolTypeOK ==
  /\ mainPc \in [Clients -> {"start", "connected", "wait", "app", "left"}]
  /\ run \in [Clients -> 1 .. ProgramRuns]
  /\ threadPc \in [Clients -> {"none", "recv", "binary", "processed", "ended"}]
  /\ processed \in [Clients -> BOOLEAN]
  /\ announced \in [Clients -> [info : Codes, size : Content] \cup {None}]
  /\ kernels \in [Clients -> [info : Codes, code : Content] \cup {None}]
  /\ toServer \in [Clients -> Seq(Messages)]
  /\ toClient \in [Clients -> Seq(Messages)]
  /\ server \in {"up", "down"}
  /\ handlerPc \in [Clients -> {"none", "recv", "waitIR", "generate", "write", "cache",
                                "file", "read", "set", "ready", "binary"}]
  /\ message \in [Clients -> Clients \cup {None}]
  /\ binaryCodeSize \in [Clients -> Content \cup {None}]
  /\ buffer \in [Clients -> Content \cup {None}]
  /\ binarysize \in [Clients -> Content \cup {None}]
  /\ isCacheEnabled \in CacheOptions
  /\ cacheList \in [Names -> Clients \cup {None}]
  /\ clFile \in [Names -> Content]

(* An application only ever runs with the kernels generated from its own   *)
(* SCoPs, and with the description that belongs to them, whoever connects, *)
(* leaves or shares the server meanwhile (htropclient.cpp:708, main.cpp:273*)
OwnKernels ==
  \A c \in Clients : mainPc[c] = "app" =>
    kernels[c] = [info |-> Program[c], code |-> Program[c]]

(* What follows an announcement is as long as was announced, and thus as   *)
(* what the client has allocated, although other handlers truncate and     *)
(* write the .cl file from when it is measured until its content is sent   *)
(* (htropserver.cpp:379-412, llvmHelper.cpp:398, htropclient.cpp:676).     *)
(* That takes a message no other handler writes its size into: it holds    *)
(* without the cache, which is the default (server/main.cpp:35), and of    *)
(* clients that share no name.  With the cache, a handler that finds the   *)
(* message of another there while a third rewrites the file can break it.  *)
AnnouncedIsDelivered ==
  \A c \in Clients : Alive(c) /\ threadPc[c] = "binary" /\ toClient[c] # << >> =>
    /\ Head(toClient[c]).type = "BINARY_STREAM"
    /\ Head(toClient[c]).payload.size = announced[c].size

(* No deadlock across the connection: as long as the server lives, a       *)
(* client that spins is never one whose thread and handler wait for each   *)
(* other.  Either a message is under way that its receiver waits for, or   *)
(* the handler is at work, or the thread is about to end the wait          *)
(* (htropclient.cpp:182-235, htropserver.cpp:174-409, main.cpp:273).       *)
AtWork == {"generate", "write", "cache", "file", "read", "set", "ready", "binary"}

ExchangeGoesOn(c) ==
  \/ handlerPc[c] = "recv"   /\ AtServer(c, "REQ_CODE_GEN")
  \/ handlerPc[c] = "waitIR" /\ AtServer(c, "RSP_LLVM_IR")
  \/ handlerPc[c] \in AtWork
  \/ threadPc[c] = "recv"    /\ AtClient(c, "REQ_LLVM_IR")
  \/ threadPc[c] = "recv"    /\ AtClient(c, "RSP_CODE_GEN_COMPLETE")
  \/ threadPc[c] = "binary"  /\ AtClient(c, "BINARY_STREAM")
  \/ threadPc[c] = "processed"

NobodyWaitsInVain ==
  \A c \in Clients :
    server = "up" /\ mainPc[c] = "wait" /\ ~processed[c] => ExchangeGoesOn(c)

(* Connections, requests, cache and files are a way to serve every client  *)
(* as if it were alone: what a client sees of the server, from one run to  *)
(* the next, is that it waits and then has its own kernels, and no step of *)
(* another client, of a handler or of the server is a step of its own      *)
(* (main.cpp:258-275, htropserver.cpp:174).                                *)
StateOf(c) ==
  CASE mainPc[c] = "app"  -> "running"
    [] mainPc[c] = "left" -> "ended"
    [] OTHER              -> "waiting"

KernelsInUse(c) == IF mainPc[c] = "app" THEN kernels[c] ELSE None

Service == INSTANCE KernelService
             WITH state   <- [c \in Clients |-> StateOf(c)],
                  kernels <- [c \in Clients |-> KernelsInUse(c)]

ServesEachAlone == Service!Spec

(* As long as the server lives, a spinning client gets to its application, *)
(* or ends, whatever other clients do to the server they share             *)
(* (htropserver.cpp:174, main.cpp:273).                                    *)
RequestIsAnswered ==
  \A c \in Clients : mainPc[c] = "wait" ~> mainPc[c] \in {"app", "left"} \/ server = "down"

(* "Wait for the codegen to complete before we start the application"      *)
(* (main.cpp:272): the wait does come to its end.                          *)
WaitEnds ==
  \A c \in Clients : mainPc[c] = "wait" ~> mainPc[c] \in {"app", "left"}
=============================================================================
