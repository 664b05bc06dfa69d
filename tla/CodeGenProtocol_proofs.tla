------------------------- MODULE CodeGenProtocol_proofs -------------------------
(***************************************************************************)
(* The code generation protocol for any number of clients, of runs and of  *)
(* disconnects.  If no handler uses the message of another, because there  *)
(* is no cache or because no two clients call their SCoPs from functions   *)
(* of the same name, each client is in a conversation with its own handler *)
(* of which the invariant lists every state: it does not wait in vain, and *)
(* receives as much as was announced, although handlers may rewrite each   *)
(* other's .cl file.  If names differ, the handlers share no file either,  *)
(* and each client gets its own kernels.                                   *)
(***************************************************************************)
EXTENDS CodeGenProtocol, SequenceTheorems, TLAPS

NamesDiffer == \A c, e \in Clients : ParentName[c] = ParentName[e] => c = e

MessagesApart == NamesDiffer \/ CacheOptions \subseteq {FALSE}

(* The messages of a conversation that goes as it should.  The handler     *)
(* measures and reads the file anew for the next conversation only.        *)
Code(c)    == Msg("REQ_CODE_GEN", Program[c])
Ask        == Msg("REQ_LLVM_IR", None)
IR(c)      == Msg("RSP_LLVM_IR", Program[c])
Own(c)     == [info |-> Program[c], size |-> binaryCodeSize[c]]
Ready(c)   == Msg("RSP_CODE_GEN_COMPLETE", Own(c))
Binary(c)  == Msg("BINARY_STREAM", [code |-> buffer[c], size |-> binaryCodeSize[c]])
Linked(c)  == NamesDiffer => kernels[c] = [info |-> Program[c], code |-> Program[c]]

(* What the threads of a client that has not ended have seen, and what the *)
(* server may have sent them.                                              *)
ClientView(c) ==
  /\ processed[c] => Linked(c)
  /\ mainPc[c] = "app" => processed[c]
  /\ mainPc[c] \in {"start", "connected"} <=> threadPc[c] = "none"
  /\ threadPc[c] = "none" => ~processed[c] /\ toClient[c] = << >>
  /\ threadPc[c] = "recv" =>
       IF processed[c] THEN toClient[c] = << >>
       ELSE toClient[c] \in {<< >>, <<Ask>>, <<Ready(c)>>, <<Ready(c), Binary(c)>>}
  /\ threadPc[c] = "binary" =>
       ~processed[c] /\ announced[c] = Own(c) /\ toClient[c] \in {<< >>, <<Binary(c)>>}
  /\ threadPc[c] = "processed" => ~processed[c] /\ Linked(c) /\ toClient[c] = << >>
  /\ threadPc[c] = "ended" => server = "down" /\ toClient[c] = << >>

(* While the server lives, its handler and the client are at the same      *)
(* place of the conversation.                                              *)
Receiving(c) == threadPc[c] = "recv" /\ ~processed[c]

HandlerView(c) ==
  /\ handlerPc[c] = "none" <=> mainPc[c] = "start"
  /\ handlerPc[c] \in {"none", "recv"} /\ threadPc[c] = "none" =>
       toServer[c] = << >>
  /\ threadPc[c] = "none" => handlerPc[c] \in {"none", "recv"}
  /\ handlerPc[c] = "recv" /\ threadPc[c] # "none" =>
       \/ toServer[c] = <<Code(c)>> /\ toClient[c] = << >> /\ Receiving(c)
       \/ /\ toServer[c] = << >>
          /\ \/ toClient[c] = <<Ready(c), Binary(c)>> /\ Receiving(c)
             \/ toClient[c] = <<Binary(c)>> /\ threadPc[c] = "binary"
             \/ toClient[c] = << >> /\ (processed[c] \/ threadPc[c] = "processed")
  /\ handlerPc[c] = "waitIR" =>
       /\ Receiving(c)
       /\ \/ toServer[c] = << >> /\ toClient[c] = <<Ask>>
          \/ toServer[c] = <<IR(c)>> /\ toClient[c] = << >>
  /\ handlerPc[c] \in {"generate", "write", "cache", "file", "read", "set", "ready"} =>
       Receiving(c) /\ toServer[c] = << >> /\ toClient[c] = << >>
  /\ handlerPc[c] = "binary" =>
       /\ toServer[c] = << >>
       /\ \/ toClient[c] = <<Ready(c)>> /\ Receiving(c)
          \/ toClient[c] = << >> /\ threadPc[c] = "binary"

(* What a handler works with: a message of its own, and what it has read   *)
(* of the file, whatever that is.                                          *)
HandlerData(c) ==
  /\ isCacheEnabled => NamesDiffer
  /\ handlerPc[c] \in {"write", "cache", "file", "read", "set", "ready", "binary"} =>
       message[c] = c
  /\ handlerPc[c] \in {"read", "set", "ready", "binary"} => binaryCodeSize[c] \in Content
  /\ handlerPc[c] \in {"set", "ready", "binary"} => buffer[c] \in Content
  /\ handlerPc[c] \in {"ready", "binary"} => binarysize[c] = binaryCodeSize[c]

(* What it shares with others, it shares with nobody if names differ.      *)
OwnData(c) ==
  LET n == ParentName[c] IN
  /\ cacheList[n] \in {None, c}
  /\ isCacheEnabled /\ cacheList[n] = c => clFile[n] = Program[c]
  /\ isCacheEnabled /\ handlerPc[c] \in {"waitIR", "generate", "write", "cache"} =>
       cacheList[n] = None
  /\ handlerPc[c] = "write" => clFile[n] = Empty
  /\ handlerPc[c] \in {"cache", "file", "read", "set", "ready", "binary"} =>
       clFile[n] = Program[c]
  /\ binaryCodeSize[c] \in {None, Program[c]} /\ buffer[c] \in {None, Program[c]}

Conversation(c) ==
  /\ Alive(c) => ClientView(c)
  /\ Alive(c) /\ server = "up" => HandlerView(c)
  /\ HandlerData(c)
  /\ NamesDiffer => OwnData(c)
  /\ server = "down" => handlerPc[c] = "none"

ProtocolInv == ProtocolTypeOK /\ \A c \in Clients : Conversation(c)

(* Sequences of up to two messages *)

LEMMA ShortQueues ==
  ASSUME NEW x, NEW y
  PROVE  /\ Append(<< >>, x) = <<x>> /\ Append(<<x>>, y) = <<x, y>>
         /\ Head(<<x>>) = x /\ Tail(<<x>>) = << >>
         /\ Head(<<x, y>>) = x /\ Tail(<<x, y>>) = <<y>>
         /\ <<x>> # << >> /\ <<x, y>> # << >>
<1> DEFINE S == {x, y}
<1>1. /\ << >> \in Seq(S) /\ <<x>> \in Seq(S) /\ <<y>> \in Seq(S) /\ <<x, y>> \in Seq(S)
      /\ Len(<< >>) = 0 /\ Len(<<x>>) = 1 /\ Len(<<x, y>>) = 2
  OBVIOUS
<1>2. Append(<< >>, x) = <<x>>
  OBVIOUS
<1>3. Append(<<x>>, y) = <<x, y>>
  <2>1. /\ Append(<<x>>, y) \in Seq(S) /\ Len(Append(<<x>>, y)) = 2
        /\ Append(<<x>>, y)[1] = x /\ Append(<<x>>, y)[2] = y
    BY <1>1
  <2>2. \A i \in 1 .. 2 : Append(<<x>>, y)[i] = <<x, y>>[i]
    <3>1. \A i \in 1 .. 2 : i = 1 \/ i = 2
      OBVIOUS
    <3> QED
      BY <2>1, <3>1
  <2> HIDE DEF S
  <2> QED
    BY <1>1, <2>1, <2>2, SeqEqual
<1>4. Head(<<x>>) = x /\ Head(<<x, y>>) = x
  OBVIOUS
<1>5. Tail(<<x>>) = << >>
  OBVIOUS
<1>6. Tail(<<x, y>>) = <<y>>
  OBVIOUS
<1> QED
  BY <1>1, <1>2, <1>3, <1>4, <1>5, <1>6

(* What arrives of a short queue is one of its beginnings. *)
LEMMA ShortCuts ==
  ASSUME NEW x, NEW y
  PROVE  /\ Cut(<< >>) = {<< >>}
         /\ Cut(<<x>>) \subseteq {<< >>, <<x>>}
         /\ Cut(<<x, y>>) \subseteq {<< >>, <<x>>, <<x, y>>}
<1> DEFINE S == {x, y}
<1>1. /\ << >> \in Seq(S) /\ <<x>> \in Seq(S) /\ <<x, y>> \in Seq(S)
      /\ Len(<< >>) = 0 /\ Len(<<x>>) = 1 /\ Len(<<x, y>>) = 2
  OBVIOUS
<1>2. /\ SubSeq(<< >>, 1, 0) = << >> /\ SubSeq(<<x>>, 1, 0) = << >>
      /\ SubSeq(<<x, y>>, 1, 0) = << >>
  BY <1>1, SubSeqEmpty
<1>3. SubSeq(<<x>>, 1, 1) = <<x>> /\ SubSeq(<<x, y>>, 1, 2) = <<x, y>>
  BY <1>1, SubSeqFull
<1>4. SubSeq(<<x, y>>, 1, 1) = <<x>>
  <2>1. /\ SubSeq(<<x, y>>, 1, 1) \in Seq(S) /\ Len(SubSeq(<<x, y>>, 1, 1)) = 1
        /\ SubSeq(<<x, y>>, 1, 1)[1] = x
    OBVIOUS
  <2>2. \A i \in 1 .. 1 : SubSeq(<<x, y>>, 1, 1)[i] = <<x>>[i]
    <3>1. \A i \in 1 .. 1 : i = 1
      OBVIOUS
    <3> QED
      BY <2>1, <3>1
  <2> HIDE DEF S
  <2> QED
    BY <1>1, <2>1, <2>2, SeqEqual
<1>5. Cut(<< >>) = {<< >>}
  <2>1. \A n \in 0 .. 0 : n = 0
    OBVIOUS
  <2>2. 0 \in 0 .. Len(<< >>)
    BY <1>1
  <2> QED
    BY <1>1, <1>2, <2>1, <2>2, Zenon DEF Cut
<1>6. Cut(<<x>>) \subseteq {<< >>, <<x>>}
  <2>1. \A n \in 0 .. 1 : n = 0 \/ n = 1
    OBVIOUS
  <2> QED
    BY <1>1, <1>2, <1>3, <2>1 DEF Cut
<1>7. Cut(<<x, y>>) \subseteq {<< >>, <<x>>, <<x, y>>}
  <2>1. \A n \in 0 .. 2 : n = 0 \/ n = 1 \/ n = 2
    OBVIOUS
  <2> QED
    BY <1>1, <1>2, <1>3, <1>4, <2>1 DEF Cut
<1> QED
  BY <1>5, <1>6, <1>7

LEMMA CutsAreQueues ==
  ASSUME NEW S, NEW q \in Seq(S), NEW r \in Cut(q)
  PROVE  r \in Seq(S)
<1>1. PICK n \in 0 .. Len(q) : r = SubSeq(q, 1, n)
  BY DEF Cut
<1>2. \A i \in 1 .. n : q[i] \in S
  OBVIOUS
<1> QED
  BY <1>1, <1>2

(* The messages are told apart by their types. *)
LEMMA MessageTypes ==
  ASSUME NEW c
  PROVE  /\ Code(c).type = "REQ_CODE_GEN" /\ Ask.type = "REQ_LLVM_IR"
         /\ IR(c).type = "RSP_LLVM_IR" /\ Ready(c).type = "RSP_CODE_GEN_COMPLETE"
         /\ Ready(c).payload = Own(c)
         /\ Binary(c).type = "BINARY_STREAM" /\ Binary(c).payload.code = buffer[c]
         /\ Binary(c).payload.size = binaryCodeSize[c]
BY DEF Code, Ask, IR, Ready, Binary, Msg

LEMMA MessagesTyped ==
  ASSUME NEW c \in Clients
  PROVE  /\ {Code(c), Ask, IR(c)} \subseteq Messages
         /\ binaryCodeSize[c] \in Content => Ready(c) \in Messages
         /\ binaryCodeSize[c] \in Content /\ buffer[c] \in Content =>
              Binary(c) \in Messages
<1>1. Program[c] \in Codes
  BY DEF Codes
<1> QED
  BY <1>1 DEF Messages, Msg, Code, Ask, IR, Own, Ready, Binary

(* A step that leaves all that belongs to a client alone. *)
Untouched(e) ==
  /\ UNCHANGED <<server, isCacheEnabled>>
  /\ UNCHANGED <<mainPc[e], threadPc[e], processed[e], announced[e], kernels[e],
                 toServer[e], toClient[e], handlerPc[e]>>
  /\ UNCHANGED <<message[e], binaryCodeSize[e], buffer[e], binarysize[e]>>
  /\ NamesDiffer => UNCHANGED <<cacheList[ParentName[e]], clFile[ParentName[e]]>>

LEMMA OthersUntouched ==
  ASSUME NEW e \in Clients, Conversation(e), Untouched(e)
  PROVE  Conversation(e)'
<1>1. Alive(e)' = Alive(e)
  BY DEF Alive, Untouched
<1>2. ClientView(e) => ClientView(e)'
  BY DEF ClientView, Linked, Untouched, Own, Ask, Ready, Binary, Msg
<1>3. HandlerView(e) => HandlerView(e)'
  BY DEF HandlerView, Receiving, Untouched, Ask, Ready, Binary, Code, IR, Own, Msg
<1>4. HandlerData(e) => HandlerData(e)'
  BY DEF HandlerData, Untouched
<1>5. NamesDiffer => (OwnData(e) => OwnData(e)')
  BY DEF OwnData, Untouched
<1> QED
  BY <1>1, <1>2, <1>3, <1>4, <1>5 DEF Conversation, Untouched

(* The handlers end with the server: nothing is left to agree with. *)
LEMMA ServerEndsKeeps ==
  ASSUME ProtocolInv, ServerEnds,
         UNCHANGED <<mainPc, run, threadPc, binaryVars, handlerVars, sharedVars>>,
         toServer' \in [Clients -> Seq(Messages)]
  PROVE  ProtocolInv'
<1>1. ASSUME NEW e \in Clients PROVE toClient'[e] \in Cut(toClient[e])
  BY DEF ServerEnds
<1>2. toClient' \in [Clients -> Seq(Messages)]
  <2>1. toClient' \in [Clients -> UNION {Cut(toClient[c]) : c \in Clients}]
    BY DEF ServerEnds
  <2>2. \A e \in Clients : toClient'[e] \in Seq(Messages)
    BY <1>1, CutsAreQueues DEF ProtocolInv, ProtocolTypeOK
  <2> QED
    BY <2>1, <2>2
<1>3. ProtocolTypeOK'
  BY <1>2 DEF ProtocolInv, ProtocolTypeOK, ServerEnds, All, binaryVars, handlerVars,
     sharedVars
<1>4. ASSUME NEW e \in Clients PROVE Conversation(e)'
  <2>1. Conversation(e)
    BY DEF ProtocolInv
  <2>2. Alive(e)' => ClientView(e)'
    <3> SUFFICES ASSUME Alive(e)' PROVE ClientView(e)'
      OBVIOUS
    <3>1. ClientView(e)
      BY <2>1 DEF Conversation, Alive
    <3>2. toClient[e] = << >> => toClient'[e] = << >>
      BY <1>1, ShortCuts
    <3>3. toClient[e] = <<Ask>> => toClient'[e] \in {<< >>, <<Ask>>}
      BY <1>1, ShortCuts
    <3>4. toClient[e] = <<Ready(e)>> => toClient'[e] \in {<< >>, <<Ready(e)>>}
      BY <1>1, ShortCuts
    <3>5. toClient[e] = <<Binary(e)>> => toClient'[e] \in {<< >>, <<Binary(e)>>}
      BY <1>1, ShortCuts
    <3>6. toClient[e] = <<Ready(e), Binary(e)>> =>
            toClient'[e] \in {<< >>, <<Ready(e)>>, <<Ready(e), Binary(e)>>}
      BY <1>1, ShortCuts
    <3>7. /\ Ask' = Ask /\ Ready(e)' = Ready(e) /\ Binary(e)' = Binary(e)
          /\ Linked(e)' = Linked(e) /\ Own(e)' = Own(e)
      BY DEF Ask, Ready, Binary, Own, Linked, Msg, binaryVars, handlerVars
    <3> QED
      BY <3>1, <3>2, <3>3, <3>4, <3>5, <3>6, <3>7 DEF ClientView, ServerEnds, binaryVars
  <2>3. HandlerData(e)' /\ (NamesDiffer => OwnData(e)')
    BY <2>1 DEF Conversation, HandlerData, OwnData, ServerEnds, All, handlerVars,
       sharedVars
  <2> QED
    BY <2>2, <2>3 DEF Conversation, ServerEnds, All
<1> QED
  BY <1>3, <1>4 DEF ProtocolInv

(* One action at a time.  A step of a client or of its handler leaves the   *)
(* conversations of the others alone.                                       *)

LEMMA OneConversation ==
  ASSUME ProtocolInv, NEW c \in Clients, ProtocolTypeOK', Conversation(c)',
         \A e \in Clients \ {c} : Untouched(e)
  PROVE  ProtocolInv'
<1>1. ASSUME NEW e \in Clients PROVE Conversation(e)'
  <2>1. CASE e = c
    BY <2>1
  <2>2. CASE e # c
    BY <2>2, OthersUntouched DEF ProtocolInv
  <2> QED
    BY <2>1, <2>2
<1> QED
  BY <1>1 DEF ProtocolInv

(* The messages and the descriptions do not change. *)
LEMMA MessagesFixed ==
  ASSUME NEW c
  PROVE  /\ Code(c)' = Code(c) /\ Ask' = Ask /\ IR(c)' = IR(c)
         /\ UNCHANGED <<binaryCodeSize, buffer>> =>
              Ready(c)' = Ready(c) /\ Binary(c)' = Binary(c) /\ Own(c)' = Own(c)
BY DEF Code, Ask, IR, Ready, Binary, Own, Msg

LEMMA ClientEndsKeeps ==
  ASSUME ProtocolInv, NEW c \in Clients, ClientEnds(c),
         UNCHANGED <<run, binaryVars, server, handlerPc, handlerVars, sharedVars>>
  PROVE  ProtocolInv'
<1>1. ProtocolTypeOK'
  <2>1. \A queue \in Cut(toServer[c]) : queue \in Seq(Messages)
    BY CutsAreQueues DEF ProtocolInv, ProtocolTypeOK
  <2>2. toServer' \in [Clients -> Seq(Messages)]
    BY <2>1 DEF ClientEnds, ProtocolInv, ProtocolTypeOK
  <2> QED
    BY <2>2 DEF ProtocolInv, ProtocolTypeOK, ClientEnds, binaryVars, handlerVars,
       sharedVars
<1>2. Conversation(c)'
  <2>1. ~Alive(c)'
    BY DEF ClientEnds, Alive, ProtocolInv, ProtocolTypeOK
  <2> QED
    BY <2>1 DEF ProtocolInv, Conversation, HandlerData, OwnData, binaryVars,
       handlerVars, sharedVars
<1>3. \A e \in Clients \ {c} : Untouched(e)
  BY DEF ClientEnds, Untouched, ProtocolInv, ProtocolTypeOK, binaryVars, handlerVars,
     sharedVars
<1> QED
  BY <1>1, <1>2, <1>3, OneConversation

LEMMA ConnectKeeps ==
  ASSUME ProtocolInv, NEW c \in Clients, connectToHTROPServer(c)
  PROVE  ProtocolInv'
<1>1. Conversation(c)
  BY DEF ProtocolInv
<1>2. ProtocolTypeOK'
  BY DEF ProtocolInv, ProtocolTypeOK, connectToHTROPServer, binaryVars, handlerVars,
     sharedVars
<1>3. Conversation(c)'
  <2>1. Alive(c)' => ClientView(c)'
    BY <1>1, MessagesFixed DEF Conversation, ClientView, Receiving, Alive, Linked, Own,
       ProtocolInv, ProtocolTypeOK, connectToHTROPServer, binaryVars, handlerVars,
       sharedVars
  <2>2. Alive(c)' /\ server' = "up" => HandlerView(c)'
    BY <1>1, MessagesFixed DEF Conversation, ClientView, HandlerView, Receiving, Alive,
       ProtocolInv, ProtocolTypeOK, connectToHTROPServer, binaryVars, handlerVars,
       sharedVars
  <2>3. HandlerData(c)' /\ (NamesDiffer => OwnData(c)')
        /\ (server' = "down" => handlerPc'[c] = "none")
    BY <1>1, MessagesFixed DEF Conversation, HandlerData, OwnData, ProtocolInv,
       ProtocolTypeOK, connectToHTROPServer, binaryVars, handlerVars, sharedVars
  <2> QED
    BY <2>1, <2>2, <2>3 DEF Conversation
<1>4. \A e \in Clients \ {c} : Untouched(e)
  BY DEF Untouched, ProtocolInv, ProtocolTypeOK, connectToHTROPServer, binaryVars,
     handlerVars, sharedVars
<1> QED
  BY <1>2, <1>3, <1>4, OneConversation

LEMMA FinishedKeeps ==
  ASSUME ProtocolInv, NEW c \in Clients, finished(c)
  PROVE  ProtocolInv'
<1>1. Conversation(c)
  BY DEF ProtocolInv
<1>2. ProtocolTypeOK'
  BY DEF ProtocolInv, ProtocolTypeOK, finished, binaryVars, handlerVars, sharedVars
<1>3. Conversation(c)'
  <2>1. Alive(c)' => ClientView(c)'
    BY <1>1, MessagesFixed DEF Conversation, ClientView, Receiving, Alive, Linked, Own,
       ProtocolInv, ProtocolTypeOK, finished, binaryVars, handlerVars, sharedVars
  <2>2. Alive(c)' /\ server' = "up" => HandlerView(c)'
    BY <1>1, MessagesFixed DEF Conversation, ClientView, HandlerView, Receiving, Alive,
       ProtocolInv, ProtocolTypeOK, finished, binaryVars, handlerVars, sharedVars
  <2>3. HandlerData(c)' /\ (NamesDiffer => OwnData(c)')
        /\ (server' = "down" => handlerPc'[c] = "none")
    BY <1>1, MessagesFixed DEF Conversation, HandlerData, OwnData, ProtocolInv,
       ProtocolTypeOK, finished, binaryVars, handlerVars, sharedVars
  <2> QED
    BY <2>1, <2>2, <2>3 DEF Conversation
<1>4. \A e \in Clients \ {c} : Untouched(e)
  BY DEF Untouched, ProtocolInv, ProtocolTypeOK, finished, binaryVars, handlerVars,
     sharedVars
<1> QED
  BY <1>2, <1>3, <1>4, OneConversation

LEMMA SetProcessedKeeps ==
  ASSUME ProtocolInv, NEW c \in Clients, SetProcessed(c)
  PROVE  ProtocolInv'
<1>1. Conversation(c)
  BY DEF ProtocolInv
<1>2. ProtocolTypeOK'
  BY DEF ProtocolInv, ProtocolTypeOK, SetProcessed, Thread, binaryVars, handlerVars,
     sharedVars
<1>3. Conversation(c)'
  <2>1. Alive(c)' => ClientView(c)'
    BY <1>1, MessagesFixed DEF Conversation, ClientView, Receiving, Alive, Linked, Own,
       ProtocolInv, ProtocolTypeOK, SetProcessed, Thread, binaryVars, handlerVars,
       sharedVars
  <2>2. Alive(c)' /\ server' = "up" => HandlerView(c)'
    BY <1>1, MessagesFixed DEF Conversation, ClientView, HandlerView, Receiving, Alive,
       ProtocolInv, ProtocolTypeOK, SetProcessed, Thread, binaryVars, handlerVars,
       sharedVars
  <2>3. HandlerData(c)' /\ (NamesDiffer => OwnData(c)')
        /\ (server' = "down" => handlerPc'[c] = "none")
    BY <1>1, MessagesFixed DEF Conversation, HandlerData, OwnData, ProtocolInv,
       ProtocolTypeOK, SetProcessed, Thread, binaryVars, handlerVars, sharedVars
  <2> QED
    BY <2>1, <2>2, <2>3 DEF Conversation
<1>4. \A e \in Clients \ {c} : Untouched(e)
  BY DEF Untouched, ProtocolInv, ProtocolTypeOK, SetProcessed, Thread, binaryVars,
     handlerVars, sharedVars
<1> QED
  BY <1>2, <1>3, <1>4, OneConversation

LEMMA FindInCacheKeeps ==
  ASSUME ProtocolInv, NEW c \in Clients, FindInCache(c)
  PROVE  ProtocolInv'
<1>1. Conversation(c)
  BY DEF ProtocolInv
<1>2. toServer[c] = <<Code(c)>> \/ ~Alive(c)
  BY <1>1, MessageTypes, ShortQueues DEF Conversation, HandlerView, ClientView,
     Receiving, FindInCache, Handler, Take, AtServer, ProtocolInv, ProtocolTypeOK, Alive
<1>3. /\ Tail(<<Code(c)>>) = << >>
      /\ Tail(toServer[c]) \in Seq(Messages)
  BY ShortQueues, HeadTailProperties DEF FindInCache, Take, AtServer, ProtocolInv,
     ProtocolTypeOK
<1>4. ProtocolTypeOK'
  BY <1>1, <1>3 DEF ProtocolInv, ProtocolTypeOK, FindInCache, Handler, Take, AtServer,
     isCodeCached, Names, binaryVars, handlerVars, sharedVars
<1>5. Conversation(c)'
  <2>1. Alive(c)' => ClientView(c)'
    BY <1>1, <1>2, <1>3, MessagesFixed DEF Conversation, ClientView, Receiving, Alive,
       Linked, Own, ProtocolInv, ProtocolTypeOK, FindInCache, Handler, Take, AtServer,
       isCodeCached, Names, binaryVars, handlerVars, sharedVars
  <2>2. Alive(c)' /\ server' = "up" => HandlerView(c)'
    BY <1>1, <1>2, <1>3, MessagesFixed DEF Conversation, ClientView, HandlerView,
       Receiving, Alive, ProtocolInv, ProtocolTypeOK, FindInCache, Handler, Take,
       AtServer, isCodeCached, Names, binaryVars, handlerVars, sharedVars
  <2>3. HandlerData(c)' /\ (NamesDiffer => OwnData(c)')
        /\ (server' = "down" => handlerPc'[c] = "none")
    BY <1>1, <1>2, <1>3, MessagesFixed DEF Conversation, HandlerData, OwnData,
       ProtocolInv, ProtocolTypeOK, FindInCache, Handler, Take, AtServer, isCodeCached,
       Names, binaryVars, handlerVars, sharedVars
  <2> QED
    BY <2>1, <2>2, <2>3 DEF Conversation
<1>6. \A e \in Clients \ {c} : Untouched(e)
  BY DEF Untouched, ProtocolInv, ProtocolTypeOK, FindInCache, Handler, Take, AtServer,
     isCodeCached, Names, binaryVars, handlerVars, sharedVars
<1> QED
  BY <1>4, <1>5, <1>6, OneConversation

LEMMA OpenKeeps ==
  ASSUME ProtocolInv, NEW c \in Clients, OpenClFile(c)
  PROVE  ProtocolInv'
<1>1. Conversation(c)
  BY DEF ProtocolInv
<1>2. ProtocolTypeOK'
  BY DEF ProtocolInv, ProtocolTypeOK, OpenClFile, Handler, Names, Content, binaryVars,
     handlerVars, sharedVars
<1>3. Conversation(c)'
  <2>1. Alive(c)' => ClientView(c)'
    BY <1>1, ProtocolAssumption, MessagesFixed DEF Conversation, ClientView, Receiving,
       Alive, Linked, Own, ProtocolInv, ProtocolTypeOK, OpenClFile, Handler, Names,
       Content, binaryVars, handlerVars, sharedVars
  <2>2. Alive(c)' /\ server' = "up" => HandlerView(c)'
    BY <1>1, ProtocolAssumption, MessagesFixed DEF Conversation, ClientView,
       HandlerView, Receiving, Alive, ProtocolInv, ProtocolTypeOK, OpenClFile, Handler,
       Names, Content, binaryVars, handlerVars, sharedVars
  <2>3. HandlerData(c)' /\ (NamesDiffer => OwnData(c)')
        /\ (server' = "down" => handlerPc'[c] = "none")
    BY <1>1, ProtocolAssumption, MessagesFixed DEF Conversation, HandlerData, OwnData,
       ProtocolInv, ProtocolTypeOK, OpenClFile, Handler, Names, Content, binaryVars,
       handlerVars, sharedVars
  <2> QED
    BY <2>1, <2>2, <2>3 DEF Conversation
<1>4. \A e \in Clients \ {c} : Untouched(e)
  BY DEF Untouched, ProtocolInv, ProtocolTypeOK, OpenClFile, Handler, Names, Content,
     binaryVars, handlerVars, sharedVars, NamesDiffer, Names
<1> QED
  BY <1>2, <1>3, <1>4, OneConversation

LEMMA WriteKeeps ==
  ASSUME ProtocolInv, NEW c \in Clients, WriteClFile(c)
  PROVE  ProtocolInv'
<1>1. Conversation(c)
  BY DEF ProtocolInv
<1>2. clFile' \in [Names -> Content]
  <2>1. Program[c] \in Content /\ Mixed \in Content
    BY DEF Content, Codes
  <2>2. PICK content \in {Program[c], Mixed} :
          clFile' = [clFile EXCEPT ![ParentName[c]] = content]
    BY DEF WriteClFile
  <2> QED
    BY <2>1, <2>2 DEF ProtocolInv, ProtocolTypeOK
<1>3. ProtocolTypeOK'
  BY <1>2 DEF ProtocolInv, ProtocolTypeOK, WriteClFile, Handler, Names, binaryVars,
     handlerVars, sharedVars
<1>4. Conversation(c)'
  <2>1. Alive(c)' => ClientView(c)'
    BY <1>1, MessagesFixed DEF Conversation, ClientView, Receiving, Alive, Linked, Own,
       ProtocolInv, ProtocolTypeOK, WriteClFile, Handler, Names, binaryVars,
       handlerVars, sharedVars
  <2>2. Alive(c)' /\ server' = "up" => HandlerView(c)'
    BY <1>1, MessagesFixed DEF Conversation, ClientView, HandlerView, Receiving, Alive,
       ProtocolInv, ProtocolTypeOK, WriteClFile, Handler, Names, binaryVars,
       handlerVars, sharedVars
  <2>3. HandlerData(c)' /\ (NamesDiffer => OwnData(c)')
        /\ (server' = "down" => handlerPc'[c] = "none")
    BY <1>1, MessagesFixed DEF Conversation, HandlerData, OwnData, ProtocolInv,
       ProtocolTypeOK, WriteClFile, Handler, Names, binaryVars, handlerVars, sharedVars
  <2> QED
    BY <2>1, <2>2, <2>3 DEF Conversation
<1>5. \A e \in Clients \ {c} : Untouched(e)
  BY DEF Untouched, ProtocolInv, ProtocolTypeOK, WriteClFile, Handler, Names,
     binaryVars, handlerVars, sharedVars, NamesDiffer, Names
<1> QED
  BY <1>3, <1>4, <1>5, OneConversation

LEMMA AddToCacheKeeps ==
  ASSUME ProtocolInv, NEW c \in Clients, addToCache(c)
  PROVE  ProtocolInv'
<1>1. Conversation(c)
  BY DEF ProtocolInv
<1>2. ProtocolTypeOK'
  BY DEF ProtocolInv, ProtocolTypeOK, addToCache, Handler, Names, binaryVars,
     handlerVars, sharedVars
<1>3. Conversation(c)'
  <2>1. Alive(c)' => ClientView(c)'
    BY <1>1, MessagesFixed DEF Conversation, ClientView, Receiving, Alive, Linked, Own,
       ProtocolInv, ProtocolTypeOK, addToCache, Handler, Names, binaryVars, handlerVars,
       sharedVars
  <2>2. Alive(c)' /\ server' = "up" => HandlerView(c)'
    BY <1>1, MessagesFixed DEF Conversation, ClientView, HandlerView, Receiving, Alive,
       ProtocolInv, ProtocolTypeOK, addToCache, Handler, Names, binaryVars, handlerVars,
       sharedVars
  <2>3. HandlerData(c)' /\ (NamesDiffer => OwnData(c)')
        /\ (server' = "down" => handlerPc'[c] = "none")
    BY <1>1, MessagesFixed DEF Conversation, HandlerData, OwnData, ProtocolInv,
       ProtocolTypeOK, addToCache, Handler, Names, binaryVars, handlerVars, sharedVars
  <2> QED
    BY <2>1, <2>2, <2>3 DEF Conversation
<1>4. \A e \in Clients \ {c} : Untouched(e)
  BY DEF Untouched, ProtocolInv, ProtocolTypeOK, addToCache, Handler, Names, binaryVars,
     handlerVars, sharedVars, NamesDiffer, Names
<1> QED
  BY <1>2, <1>3, <1>4, OneConversation

LEMMA MeasureKeeps ==
  ASSUME ProtocolInv, NEW c \in Clients, MeasureFile(c)
  PROVE  ProtocolInv'
<1>1. Conversation(c)
  BY DEF ProtocolInv
<1>2. message[c] = c
  BY <1>1 DEF Conversation, HandlerData, MeasureFile, Handler
<1>3. File(c) = clFile[ParentName[c]] /\ File(c) \in Content
  BY <1>2 DEF File, Names, ProtocolInv, ProtocolTypeOK
<1>4. ProtocolTypeOK'
  BY <1>1, <1>2, <1>3 DEF ProtocolInv, ProtocolTypeOK, MeasureFile, Handler, binaryVars,
     handlerVars, sharedVars
<1>5. Conversation(c)'
  <2>1. Alive(c)' => ClientView(c)'
    BY <1>1, <1>2, <1>3, MessagesFixed DEF Conversation, ClientView, HandlerView,
       Receiving, Alive, Linked, ProtocolInv, ProtocolTypeOK, MeasureFile, Handler,
       binaryVars, handlerVars, sharedVars
  <2>2. Alive(c)' /\ server' = "up" => HandlerView(c)'
    BY <1>1, <1>2, <1>3, MessagesFixed DEF Conversation, ClientView, HandlerView,
       Receiving, Alive, ProtocolInv, ProtocolTypeOK, MeasureFile, Handler, binaryVars,
       handlerVars, sharedVars
  <2>3. HandlerData(c)' /\ (NamesDiffer => OwnData(c)')
        /\ (server' = "down" => handlerPc'[c] = "none")
    BY <1>1, <1>2, <1>3 DEF Conversation, HandlerData, OwnData, ProtocolInv,
       ProtocolTypeOK, MeasureFile, Handler, binaryVars, handlerVars, sharedVars
  <2> QED
    BY <2>1, <2>2, <2>3 DEF Conversation
<1>6. \A e \in Clients \ {c} : Untouched(e)
  BY <1>1, <1>2, <1>3 DEF Untouched, ProtocolInv, ProtocolTypeOK, MeasureFile, Handler,
     binaryVars, handlerVars, sharedVars
<1> QED
  BY <1>4, <1>5, <1>6, OneConversation

LEMMA ReadKeeps ==
  ASSUME ProtocolInv, NEW c \in Clients, ReadFile(c)
  PROVE  ProtocolInv'
<1>1. Conversation(c)
  BY DEF ProtocolInv
<1>2. message[c] = c
  BY <1>1 DEF Conversation, HandlerData, ReadFile, Handler
<1>3. PICK content \in ReadInto(binaryCodeSize[c], File(c)) :
        buffer' = [buffer EXCEPT ![c] = content]
  BY DEF ReadFile
<1>4. content \in Content
  <2>1. File(c) \in Content
    BY <1>2 DEF File, Names, ProtocolInv, ProtocolTypeOK
  <2> QED
    BY <1>3, <2>1 DEF ReadInto, Content
<1>5. NamesDiffer => content = Program[c]
  <2>1. NamesDiffer => binaryCodeSize[c] = Program[c] /\ File(c) = Program[c]
    <3>1. binaryCodeSize[c] # None
      BY <1>1, ProtocolAssumption DEF Conversation, HandlerData, ReadFile, Handler,
         Content
    <3> QED
      BY <1>1, <1>2, <3>1 DEF Conversation, OwnData, ReadFile, Handler, File
  <2> QED
    BY <1>3, <2>1 DEF ReadInto
<1>6. ProtocolTypeOK'
  BY <1>1, <1>2, <1>3, <1>4, <1>5 DEF ProtocolInv, ProtocolTypeOK, ReadFile, Handler,
     binaryVars, handlerVars, sharedVars
<1>7. Conversation(c)'
  <2>1. Alive(c)' => ClientView(c)'
    BY <1>1, <1>2, <1>3, <1>4, <1>5, MessagesFixed DEF Conversation, ClientView,
       HandlerView, Receiving, Alive, Linked, ProtocolInv, ProtocolTypeOK, ReadFile,
       Handler, binaryVars, handlerVars, sharedVars
  <2>2. Alive(c)' /\ server' = "up" => HandlerView(c)'
    BY <1>1, <1>2, <1>3, <1>4, <1>5, MessagesFixed DEF Conversation, ClientView,
       HandlerView, Receiving, Alive, ProtocolInv, ProtocolTypeOK, ReadFile, Handler,
       binaryVars, handlerVars, sharedVars
  <2>3. HandlerData(c)' /\ (NamesDiffer => OwnData(c)')
        /\ (server' = "down" => handlerPc'[c] = "none")
    BY <1>1, <1>2, <1>3, <1>4, <1>5 DEF Conversation, HandlerData, OwnData, ProtocolInv,
       ProtocolTypeOK, ReadFile, Handler, binaryVars, handlerVars, sharedVars
  <2> QED
    BY <2>1, <2>2, <2>3 DEF Conversation
<1>8. \A e \in Clients \ {c} : Untouched(e)
  BY <1>1, <1>2, <1>3, <1>4, <1>5 DEF Untouched, ProtocolInv, ProtocolTypeOK, ReadFile,
     Handler, binaryVars, handlerVars, sharedVars
<1> QED
  BY <1>6, <1>7, <1>8, OneConversation

LEMMA SizeSet ==
  ASSUME ProtocolInv, NEW c \in Clients, set_binarysize(c)
  PROVE  ProtocolInv'
<1>1. Conversation(c)
  BY DEF ProtocolInv
<1>2. message[c] = c
  BY <1>1 DEF Conversation, HandlerData, set_binarysize, Handler
<1>3. ProtocolTypeOK'
  BY <1>1, <1>2 DEF ProtocolInv, ProtocolTypeOK, set_binarysize, Handler, binaryVars,
     handlerVars, sharedVars
<1>4. Conversation(c)'
  <2>1. Alive(c)' => ClientView(c)'
    BY <1>1, <1>2, MessagesFixed DEF Conversation, ClientView, HandlerView, Receiving,
       Alive, Linked, ProtocolInv, ProtocolTypeOK, set_binarysize, Handler, binaryVars,
       handlerVars, sharedVars
  <2>2. Alive(c)' /\ server' = "up" => HandlerView(c)'
    BY <1>1, <1>2, MessagesFixed DEF Conversation, ClientView, HandlerView, Receiving,
       Alive, ProtocolInv, ProtocolTypeOK, set_binarysize, Handler, binaryVars,
       handlerVars, sharedVars
  <2>3. HandlerData(c)' /\ (NamesDiffer => OwnData(c)')
        /\ (server' = "down" => handlerPc'[c] = "none")
    BY <1>1, <1>2 DEF Conversation, HandlerData, OwnData, ProtocolInv, ProtocolTypeOK,
       set_binarysize, Handler, binaryVars, handlerVars, sharedVars
  <2> QED
    BY <2>1, <2>2, <2>3 DEF Conversation
<1>5. \A e \in Clients \ {c} : Untouched(e)
  BY <1>1, <1>2 DEF Untouched, ProtocolInv, ProtocolTypeOK, set_binarysize, Handler,
     binaryVars, handlerVars, sharedVars
<1> QED
  BY <1>3, <1>4, <1>5, OneConversation

LEMMA ClientDisconnectedKeeps ==
  ASSUME ProtocolInv, NEW c \in Clients, ClientDisconnected(c)
  PROVE  ProtocolInv'
<1>1. Conversation(c)
  BY DEF ProtocolInv
<1>2. ProtocolTypeOK'
  BY DEF ProtocolInv, ProtocolTypeOK, ClientDisconnected, Handler, ClientHasGone,
     binaryVars, handlerVars, sharedVars
<1>3. Conversation(c)'
  <2>1. Alive(c)' => ClientView(c)'
    BY <1>1, MessagesFixed DEF Conversation, ClientView, Receiving, Alive, Linked, Own,
       ProtocolInv, ProtocolTypeOK, ClientDisconnected, Handler, ClientHasGone,
       binaryVars, handlerVars, sharedVars
  <2>2. Alive(c)' /\ server' = "up" => HandlerView(c)'
    BY <1>1, MessagesFixed DEF Conversation, ClientView, HandlerView, Receiving, Alive,
       ProtocolInv, ProtocolTypeOK, ClientDisconnected, Handler, ClientHasGone,
       binaryVars, handlerVars, sharedVars
  <2>3. HandlerData(c)' /\ (NamesDiffer => OwnData(c)')
        /\ (server' = "down" => handlerPc'[c] = "none")
    BY <1>1, MessagesFixed DEF Conversation, HandlerData, OwnData, ProtocolInv,
       ProtocolTypeOK, ClientDisconnected, Handler, ClientHasGone, binaryVars,
       handlerVars, sharedVars
  <2> QED
    BY <2>1, <2>2, <2>3 DEF Conversation
<1>4. \A e \in Clients \ {c} : Untouched(e)
  BY DEF Untouched, ProtocolInv, ProtocolTypeOK, ClientDisconnected, Handler,
     ClientHasGone, binaryVars, handlerVars, sharedVars
<1> QED
  BY <1>2, <1>3, <1>4, OneConversation

LEMMA BinaryAnnounced ==
  ASSUME ProtocolInv, NEW c \in Clients, handleCompiledBinary(c)
  PROVE  ProtocolInv'
<1>1. Conversation(c)
  BY DEF ProtocolInv
<1>2. toClient[c] \in {<<Ready(c)>>, <<Ready(c), Binary(c)>>} /\ ~processed[c]
  BY <1>1, MessageTypes, ShortQueues DEF Conversation, ClientView, handleCompiledBinary,
     Thread, Receive, AtClient, ProtocolInv, ProtocolTypeOK
<1>3. /\ Head(toClient[c]).payload = Own(c)
      /\ \/ toClient[c] = <<Ready(c)>> /\ Tail(toClient[c]) = << >>
         \/ toClient[c] = <<Ready(c), Binary(c)>> /\ Tail(toClient[c]) = <<Binary(c)>>
  <2>1. CASE toClient[c] = <<Ready(c)>>
    BY <2>1, MessageTypes, ShortQueues
  <2>2. CASE toClient[c] = <<Ready(c), Binary(c)>>
    BY <2>2, MessageTypes, ShortQueues
  <2> QED
    BY <1>2, <2>1, <2>2
<1>4. Own(c) \in [info : Codes, size : Content] /\ Tail(toClient[c]) \in Seq(Messages)
  <2>1. toClient[c] \in Seq(Messages) /\ toClient[c] # << >>
    BY DEF handleCompiledBinary, Receive, AtClient, ProtocolInv, ProtocolTypeOK
  <2>2. Head(toClient[c]) \in Messages /\ Tail(toClient[c]) \in Seq(Messages)
    BY <2>1, HeadTailProperties
  <2>3. Head(toClient[c]).type = "RSP_CODE_GEN_COMPLETE"
    BY DEF handleCompiledBinary, Receive, AtClient
  <2> QED
    BY <1>3, <2>2, <2>3 DEF Messages, Msg
<1>5. server = "up" =>
        /\ toServer[c] = << >>
        /\ \/ handlerPc[c] = "recv" /\ Tail(toClient[c]) = <<Binary(c)>>
           \/ handlerPc[c] = "binary" /\ Tail(toClient[c]) = << >>
  <2> SUFFICES ASSUME server = "up" PROVE
        /\ toServer[c] = << >>
        /\ \/ handlerPc[c] = "recv" /\ Tail(toClient[c]) = <<Binary(c)>>
           \/ handlerPc[c] = "binary" /\ Tail(toClient[c]) = << >>
    OBVIOUS
  <2>1. /\ HandlerView(c) /\ Alive(c) /\ mainPc[c] # "start" /\ threadPc[c] = "recv"
        /\ toClient[c] # << >> /\ Head(toClient[c]) = Ready(c)
    BY <1>1, <1>2, ShortQueues DEF Conversation, ClientView, handleCompiledBinary,
       Thread, Receive, AtClient
  <2>2. toClient[c] # <<Ask>>
    BY <2>1, ShortQueues, MessageTypes
  <2>3. handlerPc[c] \in {"recv", "binary"} /\ toServer[c] = << >>
    BY <2>1, <2>2 DEF HandlerView, ProtocolInv, ProtocolTypeOK
  <2>4. CASE handlerPc[c] = "recv"
    <3>1. toClient[c] = <<Ready(c), Binary(c)>>
      BY <2>1, <2>3, <2>4 DEF HandlerView
    <3> QED
      BY <2>3, <2>4, <3>1, ShortQueues
  <2>5. CASE handlerPc[c] = "binary"
    <3>1. toClient[c] = <<Ready(c)>>
      BY <2>1, <2>3, <2>5 DEF HandlerView
    <3> QED
      BY <2>3, <2>5, <3>1, ShortQueues
  <2> QED
    BY <2>3, <2>4, <2>5
<1>6. ProtocolTypeOK'
  BY <1>3, <1>4 DEF ProtocolInv, ProtocolTypeOK, handleCompiledBinary, Thread, Receive,
     AtClient, binaryVars, handlerVars, sharedVars
<1>7. Conversation(c)'
  <2>1. Alive(c)' => ClientView(c)'
    BY <1>1, <1>2, <1>3, <1>5, MessagesFixed DEF Conversation, ClientView, Receiving,
       Alive, Linked, Own, ProtocolInv, ProtocolTypeOK, handleCompiledBinary, Thread,
       Receive, AtClient, binaryVars, handlerVars, sharedVars
  <2>2. Alive(c)' /\ server' = "up" => HandlerView(c)'
    BY <1>1, <1>2, <1>3, <1>5, MessagesFixed DEF Conversation, ClientView, HandlerView,
       Receiving, Alive, ProtocolInv, ProtocolTypeOK, handleCompiledBinary, Thread,
       Receive, AtClient, binaryVars, handlerVars, sharedVars
  <2>3. HandlerData(c)' /\ (NamesDiffer => OwnData(c)')
        /\ (server' = "down" => handlerPc'[c] = "none")
    BY <1>1, <1>2, <1>3, <1>5, MessagesFixed DEF Conversation, HandlerData, OwnData,
       ProtocolInv, ProtocolTypeOK, handleCompiledBinary, Thread, Receive, AtClient,
       binaryVars, handlerVars, sharedVars
  <2> QED
    BY <2>1, <2>2, <2>3 DEF Conversation
<1>8. \A e \in Clients \ {c} : Untouched(e)
  BY DEF Untouched, ProtocolInv, ProtocolTypeOK, handleCompiledBinary, Thread, Receive,
     AtClient, binaryVars, handlerVars, sharedVars
<1> QED
  BY <1>6, <1>7, <1>8, OneConversation

LEMMA BinaryLinked ==
  ASSUME ProtocolInv, NEW c \in Clients, handleOclBinary(c)
  PROVE  ProtocolInv'
<1>1. Conversation(c)
  BY DEF ProtocolInv
<1>2. toClient[c] = <<Binary(c)>> /\ announced[c] = Own(c)
  BY <1>1 DEF Conversation, ClientView, handleOclBinary, Thread, Receive, AtClient
<1>3. Head(toClient[c]).payload.code = buffer[c] /\ Tail(toClient[c]) = << >>
  BY <1>2, MessageTypes, ShortQueues
<1>4. /\ Own(c).info = Program[c] /\ Program[c] \in Codes
      /\ buffer[c] \in Content /\ (NamesDiffer => buffer[c] = Program[c])
  <2>1. toClient[c] \in Seq(Messages) /\ toClient[c] # << >>
    BY DEF handleOclBinary, Receive, AtClient, ProtocolInv, ProtocolTypeOK
  <2>2. Head(toClient[c]) \in Messages /\ Head(toClient[c]).type = "BINARY_STREAM"
    BY <2>1, HeadTailProperties DEF handleOclBinary, Receive, AtClient
  <2>3. buffer[c] \in Content
    BY <1>3, <2>2 DEF Messages, Msg
  <2>4. None \notin Content
    BY ProtocolAssumption DEF Content
  <2> QED
    BY <1>1, <2>3, <2>4 DEF Own, Codes, Conversation, OwnData
<1>5. ProtocolTypeOK'
  BY <1>2, <1>3, <1>4 DEF ProtocolInv, ProtocolTypeOK, handleOclBinary, Thread, Receive,
     AtClient, binaryVars, handlerVars, sharedVars
<1>6. Conversation(c)'
  <2>1. Alive(c)' => ClientView(c)'
    BY <1>1, <1>2, <1>3, <1>4, MessagesFixed, ShortQueues DEF Conversation, ClientView,
       Receiving, Alive, Linked, Own, ProtocolInv, ProtocolTypeOK, handleOclBinary,
       Thread, Receive, AtClient, binaryVars, handlerVars, sharedVars
  <2>2. Alive(c)' /\ server' = "up" => HandlerView(c)'
    BY <1>1, <1>2, <1>3, <1>4, MessagesFixed, ShortQueues DEF Conversation, ClientView,
       HandlerView, Receiving, Alive, ProtocolInv, ProtocolTypeOK, handleOclBinary,
       Thread, Receive, AtClient, binaryVars, handlerVars, sharedVars
  <2>3. HandlerData(c)' /\ (NamesDiffer => OwnData(c)')
        /\ (server' = "down" => handlerPc'[c] = "none")
    BY <1>1, <1>2, <1>3, <1>4, MessagesFixed, ShortQueues DEF Conversation, HandlerData,
       OwnData, ProtocolInv, ProtocolTypeOK, handleOclBinary, Thread, Receive, AtClient,
       binaryVars, handlerVars, sharedVars
  <2> QED
    BY <2>1, <2>2, <2>3 DEF Conversation
<1>7. \A e \in Clients \ {c} : Untouched(e)
  BY DEF Untouched, ProtocolInv, ProtocolTypeOK, handleOclBinary, Thread, Receive,
     AtClient, binaryVars, handlerVars, sharedVars
<1> QED
  BY <1>5, <1>6, <1>7, OneConversation

LEMMA NextRunKeeps ==
  ASSUME ProtocolInv, NEW c \in Clients, NextRun(c)
  PROVE  ProtocolInv'
<1>1. Conversation(c)
  BY DEF ProtocolInv
<1>2. [run EXCEPT ![c] = @ + 1] \in [Clients -> 1 .. ProgramRuns]
  BY ProtocolAssumption DEF NextRun, ProtocolInv, ProtocolTypeOK
<1>3. ProtocolTypeOK'
  BY <1>2 DEF ProtocolInv, ProtocolTypeOK, NextRun, NewClient, binaryVars, handlerVars,
     sharedVars
<1>4. Conversation(c)'
  <2>1. Alive(c)' => ClientView(c)'
    BY <1>1, MessagesFixed DEF Conversation, ClientView, Receiving, Alive, Linked, Own,
       ProtocolInv, ProtocolTypeOK, NextRun, NewClient, binaryVars, handlerVars,
       sharedVars
  <2>2. Alive(c)' /\ server' = "up" => HandlerView(c)'
    BY <1>1, MessagesFixed DEF Conversation, ClientView, HandlerView, Receiving, Alive,
       ProtocolInv, ProtocolTypeOK, NextRun, NewClient, binaryVars, handlerVars,
       sharedVars
  <2>3. HandlerData(c)' /\ (NamesDiffer => OwnData(c)')
        /\ (server' = "down" => handlerPc'[c] = "none")
    BY <1>1, MessagesFixed DEF Conversation, HandlerData, OwnData, ProtocolInv,
       ProtocolTypeOK, NextRun, NewClient, binaryVars, handlerVars, sharedVars
  <2> QED
    BY <2>1, <2>2, <2>3 DEF Conversation
<1>5. \A e \in Clients \ {c} : Untouched(e)
  BY DEF Untouched, ProtocolInv, ProtocolTypeOK, NextRun, NewClient, binaryVars,
     handlerVars, sharedVars
<1> QED
  BY <1>3, <1>4, <1>5, OneConversation

LEMMA RequestSent ==
  ASSUME ProtocolInv, NEW c \in Clients, mainPc[c] = "connected",
         mainPc' = [mainPc EXCEPT ![c] = "wait"],
         threadPc' = [threadPc EXCEPT ![c] = "recv"],
         ClientSends(c, Code(c)),
         UNCHANGED <<toClient, run, binaryVars, server, handlerPc, handlerVars,
                     sharedVars>>
  PROVE  ProtocolInv'
<1>1. Conversation(c)
  BY DEF ProtocolInv
<1>2. toServer[c] \in Seq(Messages) /\ Append(toServer[c], Code(c)) \in Seq(Messages)
  BY MessagesTyped DEF ProtocolInv, ProtocolTypeOK
<1>3. server = "up" => toServer[c] = << >> /\ handlerPc[c] = "recv"
  BY <1>1 DEF Conversation, ClientView, HandlerView, Alive, ProtocolInv, ProtocolTypeOK
<1>4. Append(<< >>, Code(c)) = <<Code(c)>>
  BY ShortQueues
<1>5. ProtocolTypeOK'
  BY <1>2 DEF ProtocolInv, ProtocolTypeOK, ClientSends, binaryVars, handlerVars,
     sharedVars
<1>6. Conversation(c)'
  <2>1. Alive(c)' => ClientView(c)'
    BY <1>1, <1>3, <1>4, MessagesFixed DEF Conversation, ClientView, Receiving, Alive,
       Linked, Own, ProtocolInv, ProtocolTypeOK, ClientSends, binaryVars, handlerVars,
       sharedVars
  <2>2. Alive(c)' /\ server' = "up" => HandlerView(c)'
    BY <1>1, <1>3, <1>4, MessagesFixed DEF Conversation, ClientView, HandlerView,
       Receiving, Alive, ProtocolInv, ProtocolTypeOK, ClientSends, binaryVars,
       handlerVars, sharedVars
  <2>3. HandlerData(c)' /\ (NamesDiffer => OwnData(c)')
        /\ (server' = "down" => handlerPc'[c] = "none")
    BY <1>1, <1>3, <1>4, MessagesFixed DEF Conversation, HandlerData, OwnData,
       ProtocolInv, ProtocolTypeOK, ClientSends, binaryVars, handlerVars, sharedVars
  <2> QED
    BY <2>1, <2>2, <2>3 DEF Conversation
<1>7. \A e \in Clients \ {c} : Untouched(e)
  BY DEF Untouched, ProtocolInv, ProtocolTypeOK, ClientSends, binaryVars, handlerVars,
     sharedVars
<1> QED
  BY <1>5, <1>6, <1>7, OneConversation

LEMMA CodeAnswered ==
  ASSUME ProtocolInv, NEW c \in Clients, threadPc[c] = "recv", Receive(c, "REQ_LLVM_IR"),
         ClientSends(c, IR(c)),
         UNCHANGED <<mainPc, threadPc, run, binaryVars, server, handlerPc, handlerVars,
                     sharedVars>>
  PROVE  ProtocolInv'
<1>1. Conversation(c)
  BY DEF ProtocolInv
<1>2. toClient[c] = <<Ask>> /\ ~processed[c]
  <2>1. /\ ClientView(c) /\ toClient[c] # << >>
        /\ Head(toClient[c]).type = "REQ_LLVM_IR"
    BY <1>1 DEF Conversation, Receive, AtClient
  <2>2. toClient[c] \notin {<<Ready(c)>>, <<Ready(c), Binary(c)>>}
    BY <2>1, MessageTypes, ShortQueues
  <2> QED
    BY <2>1, <2>2 DEF ClientView
<1>3. Tail(toClient[c]) = << >>
  BY <1>2, ShortQueues
<1>4. server = "up" => toServer[c] = << >> /\ handlerPc[c] = "waitIR"
  <2>1. <<Ask>> # <<Ready(c)>> /\ <<Ask>> # <<Ready(c), Binary(c)>> /\ <<Ask>> # << >>
    BY MessageTypes, ShortQueues
  <2>2. server = "up" => HandlerView(c) /\ mainPc[c] # "start"
    BY <1>1 DEF Conversation, ClientView, Receive, AtClient
  <2> QED
    BY <1>2, <2>1, <2>2 DEF HandlerView, ProtocolInv, ProtocolTypeOK
<1>5. Append(<< >>, IR(c)) = <<IR(c)>>
  BY ShortQueues
<1>6. /\ toServer[c] \in Seq(Messages) /\ Append(toServer[c], IR(c)) \in Seq(Messages)
      /\ << >> \in Seq(Messages)
  BY MessagesTyped DEF ProtocolInv, ProtocolTypeOK
<1>7. ProtocolTypeOK'
  BY <1>3, <1>6 DEF ProtocolInv, ProtocolTypeOK, ClientSends, Receive, AtClient,
     binaryVars, handlerVars, sharedVars
<1>8. Conversation(c)'
  <2>1. Alive(c)' => ClientView(c)'
    BY <1>1, <1>2, <1>3, <1>4, <1>5, MessagesFixed DEF Conversation, ClientView,
       Receiving, Alive, Linked, Own, ProtocolInv, ProtocolTypeOK, ClientSends, Receive,
       AtClient, binaryVars, handlerVars, sharedVars
  <2>2. Alive(c)' /\ server' = "up" => HandlerView(c)'
    BY <1>1, <1>2, <1>3, <1>4, <1>5, MessagesFixed DEF Conversation, ClientView,
       HandlerView, Receiving, Alive, ProtocolInv, ProtocolTypeOK, ClientSends, Receive,
       AtClient, binaryVars, handlerVars, sharedVars
  <2>3. HandlerData(c)' /\ (NamesDiffer => OwnData(c)')
        /\ (server' = "down" => handlerPc'[c] = "none")
    BY <1>1, <1>2, <1>3, <1>4, <1>5, MessagesFixed DEF Conversation, HandlerData,
       OwnData, ProtocolInv, ProtocolTypeOK, ClientSends, Receive, AtClient, binaryVars,
       handlerVars, sharedVars
  <2> QED
    BY <2>1, <2>2, <2>3 DEF Conversation
<1>9. \A e \in Clients \ {c} : Untouched(e)
  BY DEF Untouched, ProtocolInv, ProtocolTypeOK, ClientSends, Receive, AtClient,
     binaryVars, handlerVars, sharedVars
<1> QED
  BY <1>7, <1>8, <1>9, OneConversation

LEMMA ThreadEnded ==
  ASSUME ProtocolInv, NEW c \in Clients, Thread(c, "recv", "ended"), ServerHasGone(c),
         UNCHANGED <<mainPc, toServer, toClient, run, binaryVars, server, handlerPc,
                     handlerVars, sharedVars>>
  PROVE  ProtocolInv'
<1>1. Conversation(c)
  BY DEF ProtocolInv
<1>2. ProtocolTypeOK'
  BY DEF ProtocolInv, ProtocolTypeOK, Thread, ServerHasGone, binaryVars, handlerVars,
     sharedVars
<1>3. Conversation(c)'
  <2>1. Alive(c)' => ClientView(c)'
    BY <1>1, MessagesFixed DEF Conversation, ClientView, Receiving, Alive, Linked, Own,
       ProtocolInv, ProtocolTypeOK, Thread, ServerHasGone, binaryVars, handlerVars,
       sharedVars
  <2>2. Alive(c)' /\ server' = "up" => HandlerView(c)'
    BY <1>1, MessagesFixed DEF Conversation, ClientView, HandlerView, Receiving, Alive,
       ProtocolInv, ProtocolTypeOK, Thread, ServerHasGone, binaryVars, handlerVars,
       sharedVars
  <2>3. HandlerData(c)' /\ (NamesDiffer => OwnData(c)')
        /\ (server' = "down" => handlerPc'[c] = "none")
    BY <1>1, MessagesFixed DEF Conversation, HandlerData, OwnData, ProtocolInv,
       ProtocolTypeOK, Thread, ServerHasGone, binaryVars, handlerVars, sharedVars
  <2> QED
    BY <2>1, <2>2, <2>3 DEF Conversation
<1>4. \A e \in Clients \ {c} : Untouched(e)
  BY DEF Untouched, ProtocolInv, ProtocolTypeOK, Thread, ServerHasGone, binaryVars,
     handlerVars, sharedVars
<1> QED
  BY <1>2, <1>3, <1>4, OneConversation

LEMMA CodeReceived ==
  ASSUME ProtocolInv, NEW c \in Clients, ReceiveLLVMIR(c)
  PROVE  ProtocolInv'
<1>1. Conversation(c)
  BY DEF ProtocolInv
<1>2. Alive(c) => toServer[c] = <<IR(c)>> /\ toClient[c] = << >> /\ Receiving(c)
  BY <1>1, ShortQueues DEF Conversation, HandlerView, ReceiveLLVMIR, Handler, Take,
     AtServer, ProtocolInv, ProtocolTypeOK
<1>3. Tail(<<IR(c)>>) = << >> /\ Tail(toServer[c]) \in Seq(Messages)
  BY ShortQueues, HeadTailProperties DEF ReceiveLLVMIR, Take, AtServer, ProtocolInv,
     ProtocolTypeOK
<1>4. ProtocolTypeOK'
  BY <1>1, <1>3 DEF ProtocolInv, ProtocolTypeOK, ReceiveLLVMIR, Handler, Take, AtServer,
     binaryVars, handlerVars, sharedVars
<1>5. Conversation(c)'
  <2>1. Alive(c)' => ClientView(c)'
    BY <1>1, <1>2, <1>3, MessagesFixed DEF Conversation, ClientView, Receiving, Alive,
       Linked, Own, ProtocolInv, ProtocolTypeOK, ReceiveLLVMIR, Handler, Take, AtServer,
       binaryVars, handlerVars, sharedVars
  <2>2. Alive(c)' /\ server' = "up" => HandlerView(c)'
    BY <1>1, <1>2, <1>3, MessagesFixed DEF Conversation, ClientView, HandlerView,
       Receiving, Alive, ProtocolInv, ProtocolTypeOK, ReceiveLLVMIR, Handler, Take,
       AtServer, binaryVars, handlerVars, sharedVars
  <2>3. HandlerData(c)' /\ (NamesDiffer => OwnData(c)')
        /\ (server' = "down" => handlerPc'[c] = "none")
    BY <1>1, <1>2, <1>3, MessagesFixed DEF Conversation, HandlerData, OwnData,
       ProtocolInv, ProtocolTypeOK, ReceiveLLVMIR, Handler, Take, AtServer, binaryVars,
       handlerVars, sharedVars
  <2> QED
    BY <2>1, <2>2, <2>3 DEF Conversation
<1>6. \A e \in Clients \ {c} : Untouched(e)
  BY DEF Untouched, ProtocolInv, ProtocolTypeOK, ReceiveLLVMIR, Handler, Take, AtServer,
     binaryVars, handlerVars, sharedVars
<1> QED
  BY <1>4, <1>5, <1>6, OneConversation

(* A handler that sends goes on, or ends with the server. *)
GoesOn(c, m, from, to) ==
  /\ Handler(c, from, to)
  /\ toClient' = IF Alive(c) THEN [toClient EXCEPT ![c] = Append(@, m)] ELSE toClient
  /\ UNCHANGED server

LEMMA CodeAsked ==
  ASSUME ProtocolInv, NEW c \in Clients, GoesOn(c, Ask, "recv", "waitIR"),
         Take(c, "REQ_CODE_GEN"),
         ~(isCacheEnabled /\ isCodeCached(c) # None),
         UNCHANGED <<mainPc, run, threadPc, binaryVars, handlerVars, sharedVars>>
  PROVE  ProtocolInv'
<1>1. Conversation(c)
  BY DEF ProtocolInv
<1>2. Alive(c) => toServer[c] = <<Code(c)>> /\ toClient[c] = << >> /\ Receiving(c)
  BY <1>1, ShortQueues DEF Conversation, ClientView, HandlerView, GoesOn, Handler, Take,
     AtServer, ProtocolInv, ProtocolTypeOK
<1>3. Tail(<<Code(c)>>) = << >> /\ Tail(toServer[c]) \in Seq(Messages)
  BY ShortQueues, HeadTailProperties DEF Take, AtServer, ProtocolInv, ProtocolTypeOK
<1>4. /\ Append(<< >>, Ask) = <<Ask>>
      /\ toClient[c] \in Seq(Messages) /\ Append(toClient[c], Ask) \in Seq(Messages)
  BY ShortQueues, MessagesTyped DEF ProtocolInv, ProtocolTypeOK
<1>5. ProtocolTypeOK'
  BY <1>1, <1>3, <1>4 DEF ProtocolInv, ProtocolTypeOK, GoesOn, Handler, Take, AtServer,
     isCodeCached, binaryVars, handlerVars, sharedVars
<1>6. Conversation(c)'
  <2>1. Alive(c)' => ClientView(c)'
    BY <1>1, <1>2, <1>3, <1>4, MessagesFixed DEF Conversation, ClientView, Receiving,
       Alive, Linked, Own, ProtocolInv, ProtocolTypeOK, GoesOn, Handler, Take, AtServer,
       isCodeCached, binaryVars, handlerVars, sharedVars
  <2>2. Alive(c)' /\ server' = "up" => HandlerView(c)'
    BY <1>1, <1>2, <1>3, <1>4, MessagesFixed DEF Conversation, ClientView, HandlerView,
       Receiving, Alive, ProtocolInv, ProtocolTypeOK, GoesOn, Handler, Take, AtServer,
       isCodeCached, binaryVars, handlerVars, sharedVars
  <2>3. HandlerData(c)' /\ (NamesDiffer => OwnData(c)')
        /\ (server' = "down" => handlerPc'[c] = "none")
    BY <1>1, <1>2, <1>3, <1>4, MessagesFixed DEF Conversation, HandlerData, OwnData,
       ProtocolInv, ProtocolTypeOK, GoesOn, Handler, Take, AtServer, isCodeCached,
       binaryVars, handlerVars, sharedVars
  <2> QED
    BY <2>1, <2>2, <2>3 DEF Conversation
<1>7. \A e \in Clients \ {c} : Untouched(e)
  BY DEF Untouched, ProtocolInv, ProtocolTypeOK, GoesOn, Handler, Take, AtServer,
     isCodeCached, binaryVars, handlerVars, sharedVars
<1> QED
  BY <1>5, <1>6, <1>7, OneConversation

LEMMA ReadySent ==
  ASSUME ProtocolInv, NEW c \in Clients, GoesOn(c, Ready(c), "ready", "binary"),
         UNCHANGED <<mainPc, run, threadPc, binaryVars, toServer, handlerVars,
                     sharedVars>>
  PROVE  ProtocolInv'
<1>1. Conversation(c)
  BY DEF ProtocolInv
<1>2. Alive(c) => toServer[c] = << >> /\ toClient[c] = << >> /\ Receiving(c)
  BY <1>1 DEF Conversation, HandlerView, GoesOn, Handler, ProtocolInv, ProtocolTypeOK
<1>3. /\ Append(<< >>, Ready(c)) = <<Ready(c)>>
      /\ toClient[c] \in Seq(Messages) /\ Append(toClient[c], Ready(c)) \in Seq(Messages)
  <2>1. Ready(c) \in Messages
    BY <1>1, MessagesTyped DEF Conversation, HandlerData, GoesOn, Handler
  <2> QED
    BY <2>1, ShortQueues DEF ProtocolInv, ProtocolTypeOK
<1>4. ProtocolTypeOK'
  BY <1>1, <1>3 DEF ProtocolInv, ProtocolTypeOK, GoesOn, Handler, binaryVars,
     handlerVars, sharedVars
<1>5. Conversation(c)'
  <2>1. Alive(c)' => ClientView(c)'
    BY <1>1, <1>2, <1>3, MessagesFixed DEF Conversation, ClientView, Receiving, Alive,
       Linked, Own, ProtocolInv, ProtocolTypeOK, GoesOn, Handler, binaryVars,
       handlerVars, sharedVars
  <2>2. Alive(c)' /\ server' = "up" => HandlerView(c)'
    BY <1>1, <1>2, <1>3, MessagesFixed DEF Conversation, ClientView, HandlerView,
       Receiving, Alive, ProtocolInv, ProtocolTypeOK, GoesOn, Handler, binaryVars,
       handlerVars, sharedVars
  <2>3. HandlerData(c)' /\ (NamesDiffer => OwnData(c)')
        /\ (server' = "down" => handlerPc'[c] = "none")
    BY <1>1, <1>2, <1>3, MessagesFixed DEF Conversation, HandlerData, OwnData,
       ProtocolInv, ProtocolTypeOK, GoesOn, Handler, binaryVars, handlerVars, sharedVars
  <2> QED
    BY <2>1, <2>2, <2>3 DEF Conversation
<1>6. \A e \in Clients \ {c} : Untouched(e)
  BY DEF Untouched, ProtocolInv, ProtocolTypeOK, GoesOn, Handler, binaryVars,
     handlerVars, sharedVars
<1> QED
  BY <1>4, <1>5, <1>6, OneConversation

LEMMA BinarySent ==
  ASSUME ProtocolInv, NEW c \in Clients, GoesOn(c, Binary(c), "binary", "recv"),
         UNCHANGED <<mainPc, run, threadPc, binaryVars, toServer, handlerVars,
                     sharedVars>>
  PROVE  ProtocolInv'
<1>1. Conversation(c)
  BY DEF ProtocolInv
<1>2. Alive(c) =>
        /\ toServer[c] = << >> /\ mainPc[c] # "start"
        /\ \/ toClient[c] = <<Ready(c)>> /\ Receiving(c)
           \/ toClient[c] = << >> /\ threadPc[c] = "binary"
  BY <1>1 DEF Conversation, HandlerView, GoesOn, Handler, ProtocolInv, ProtocolTypeOK
<1>3. /\ Append(<< >>, Binary(c)) = <<Binary(c)>>
      /\ Append(<<Ready(c)>>, Binary(c)) = <<Ready(c), Binary(c)>>
  BY ShortQueues
<1>4. toClient[c] \in Seq(Messages) /\ Append(toClient[c], Binary(c)) \in Seq(Messages)
  <2>1. Binary(c) \in Messages
    BY <1>1, MessagesTyped DEF Conversation, HandlerData, GoesOn, Handler
  <2> QED
    BY <2>1 DEF ProtocolInv, ProtocolTypeOK
<1>5. ProtocolTypeOK'
  BY <1>1, <1>4 DEF ProtocolInv, ProtocolTypeOK, GoesOn, Handler, binaryVars,
     handlerVars, sharedVars
<1>6. Conversation(c)'
  <2>1. Alive(c)' => ClientView(c)'
    BY <1>1, <1>2, <1>3, MessagesFixed DEF Conversation, ClientView, Receiving, Alive,
       Linked, Own, ProtocolInv, ProtocolTypeOK, GoesOn, Handler, binaryVars,
       handlerVars, sharedVars
  <2>2. Alive(c)' /\ server' = "up" => HandlerView(c)'
    BY <1>1, <1>2, <1>3, MessagesFixed DEF Conversation, ClientView, HandlerView,
       Receiving, Alive, ProtocolInv, ProtocolTypeOK, GoesOn, Handler, binaryVars,
       handlerVars, sharedVars
  <2>3. HandlerData(c)' /\ (NamesDiffer => OwnData(c)')
        /\ (server' = "down" => handlerPc'[c] = "none")
    BY <1>1, <1>2, <1>3, MessagesFixed DEF Conversation, HandlerData, OwnData,
       ProtocolInv, ProtocolTypeOK, GoesOn, Handler, binaryVars, handlerVars, sharedVars
  <2> QED
    BY <2>1, <2>2, <2>3 DEF Conversation
<1>7. \A e \in Clients \ {c} : Untouched(e)
  BY DEF Untouched, ProtocolInv, ProtocolTypeOK, GoesOn, Handler, binaryVars,
     handlerVars, sharedVars
<1> QED
  BY <1>5, <1>6, <1>7, OneConversation

LEMMA ClientStepKeeps ==
  ASSUME ProtocolInv, NEW c \in Clients, ClientStep(c) \/ Leave(c)
  PROVE  ProtocolInv'
<1>1. CASE sendCodeGenReq(c)
  <2>1. CASE ClientEnds(c)
    BY <1>1, <2>1, ClientEndsKeeps DEF sendCodeGenReq
  <2>2. CASE ~ClientEnds(c)
    BY <1>1, <2>2, RequestSent DEF sendCodeGenReq, Code
  <2> QED
    BY <2>1, <2>2
<1>2. CASE handleLLVMIRReq(c)
  <2>1. CASE ClientEnds(c)
    BY <1>2, <2>1, ClientEndsKeeps DEF handleLLVMIRReq
  <2>2. CASE ~ClientEnds(c)
    BY <1>2, <2>2, CodeAnswered DEF handleLLVMIRReq, IR
  <2> QED
    BY <2>1, <2>2
<1>3. CASE ServerDisconnected(c)
  <2>1. CASE ClientEnds(c)
    BY <1>3, <2>1, ClientEndsKeeps DEF ServerDisconnected
  <2>2. CASE ~ClientEnds(c)
    BY <1>3, <2>2, ThreadEnded DEF ServerDisconnected
  <2> QED
    BY <2>1, <2>2
<1>4. CASE Leave(c)
  BY <1>4, ClientEndsKeeps DEF Leave
<1> QED
  BY <1>1, <1>2, <1>3, <1>4, ConnectKeeps, FinishedKeeps, NextRunKeeps, BinaryAnnounced,
     BinaryLinked, SetProcessedKeeps DEF ClientStep

LEMMA HandlerStepKeeps ==
  ASSUME ProtocolInv, NEW c \in Clients, HandlerStep(c)
  PROVE  ProtocolInv'
<1>1. HandlerData(c) /\ toServer \in [Clients -> Seq(Messages)]
  BY DEF ProtocolInv, Conversation, ProtocolTypeOK
<1>2. CASE RequestLLVMIR(c)
  <2>1. CASE ServerEnds
    <3>1. Tail(toServer[c]) \in Seq(Messages)
      BY <1>1, <1>2, HeadTailProperties DEF RequestLLVMIR, Take, AtServer
    <3> QED
      BY <1>1, <1>2, <2>1, <3>1, ServerEndsKeeps DEF RequestLLVMIR, Take
  <2>2. CASE ~ServerEnds
    <3>1. GoesOn(c, Ask, "recv", "waitIR")
      BY <1>2, <2>2 DEF RequestLLVMIR, HandlerSends, GoesOn, Ask
    <3> QED
      BY <1>2, <3>1, CodeAsked DEF RequestLLVMIR
  <2> QED
    BY <2>1, <2>2
<1>3. CASE AbortWithoutLLVMIR(c)
  BY <1>1, <1>3, ServerEndsKeeps DEF AbortWithoutLLVMIR
<1>4. CASE SendCodeGenReady(c)
  <2>1. CASE ServerEnds
    BY <1>1, <1>4, <2>1, ServerEndsKeeps DEF SendCodeGenReady
  <2>2. CASE ~ServerEnds
    <3>1. handlerPc[c] = "ready"
      BY <1>4 DEF SendCodeGenReady, HandlerSends, Handler
    <3>2. message[c] = c /\ binarysize[c] = binaryCodeSize[c]
      BY <1>1, <3>1 DEF HandlerData
    <3>3. GoesOn(c, Ready(c), "ready", "binary")
      BY <1>4, <2>2, <3>2 DEF SendCodeGenReady, HandlerSends, GoesOn, Ready, Own
    <3> QED
      BY <1>4, <3>3, ReadySent DEF SendCodeGenReady
  <2> QED
    BY <2>1, <2>2
<1>5. CASE SendBinary(c)
  <2>1. CASE ServerEnds
    BY <1>1, <1>5, <2>1, ServerEndsKeeps DEF SendBinary
  <2>2. CASE ~ServerEnds
    <3>1. GoesOn(c, Binary(c), "binary", "recv")
      BY <1>5, <2>2 DEF SendBinary, HandlerSends, GoesOn, Binary
    <3> QED
      BY <1>5, <3>1, BinarySent DEF SendBinary
  <2> QED
    BY <2>1, <2>2
<1> QED
  BY <1>2, <1>3, <1>4, <1>5, FindInCacheKeeps, CodeReceived, OpenKeeps, WriteKeeps,
     AddToCacheKeeps, MeasureKeeps, ReadKeeps, SizeSet, ClientDisconnectedKeeps
     DEF HandlerStep

LEMMA ProtocolInitInv ==
  ASSUME MessagesApart, Init
  PROVE  ProtocolInv
<1>1. ProtocolTypeOK
  <2>1. 1 \in 1 .. ProgramRuns /\ << >> \in Seq(Messages)
    BY ProtocolAssumption
  <2> QED
    BY <2>1 DEF Init, All, ProtocolTypeOK, Content
<1>2. ASSUME NEW c \in Clients PROVE Conversation(c)
  <2>1. None # c /\ ParentName[c] \in Names
    BY ProtocolAssumption DEF Names
  <2>2. isCacheEnabled => NamesDiffer
    BY DEF Init, MessagesApart
  <2> QED
    BY <2>1, <2>2 DEF Init, All, Conversation, ClientView, HandlerView, HandlerData,
       OwnData, Alive
<1> QED
  BY <1>1, <1>2 DEF ProtocolInv

LEMMA ProtocolStepInv ==
  ASSUME ProtocolInv, [Next]_vars
  PROVE  ProtocolInv'
<1>1. CASE StopServer
  BY <1>1, ServerEndsKeeps DEF StopServer, ProtocolInv, ProtocolTypeOK
<1>2. CASE UNCHANGED vars
  <2>1. ProtocolTypeOK'
    BY <1>2 DEF ProtocolInv, ProtocolTypeOK, vars, binaryVars, handlerVars, sharedVars
  <2>2. ASSUME NEW e \in Clients PROVE Untouched(e)
    BY <1>2 DEF Untouched, vars, binaryVars, handlerVars, sharedVars
  <2> QED
    BY <2>1, <2>2, OthersUntouched DEF ProtocolInv
<1> QED
  BY <1>1, <1>2, ClientStepKeeps, HandlerStepKeeps DEF Next

(* An application only ever runs with the kernels made from its own SCoPs, *)
(* whatever the other clients do, if no two of them share a name.          *)
THEOREM KernelsAreOwn == ASSUME NamesDiffer PROVE Spec => []OwnKernels
<1>1. MessagesApart
  BY DEF MessagesApart
<1>2. ProtocolInv => OwnKernels
  BY DEF ProtocolInv, Conversation, ClientView, Linked, Alive, OwnKernels
<1> QED
  BY ProtocolInitInv, ProtocolStepInv, <1>1, <1>2, PTL DEF Spec

(* What follows an announcement is as long as was announced, whatever the  *)
(* handlers do to the .cl files they share: without the cache for clients  *)
(* of any names, with it for clients of different ones.                    *)
THEOREM DeliveryAsAnnounced == ASSUME MessagesApart PROVE Spec => []AnnouncedIsDelivered
<1>1. ProtocolInv => AnnouncedIsDelivered
  <2> SUFFICES ASSUME ProtocolInv, NEW c \in Clients, Alive(c), threadPc[c] = "binary",
                      toClient[c] # << >>
               PROVE  /\ Head(toClient[c]).type = "BINARY_STREAM"
                      /\ Head(toClient[c]).payload.size = announced[c].size
    BY DEF AnnouncedIsDelivered
  <2>1. announced[c] = Own(c) /\ toClient[c] = <<Binary(c)>>
    BY DEF ProtocolInv, Conversation, ClientView
  <2>2. Head(toClient[c]) = Binary(c)
    BY <2>1, ShortQueues
  <2> QED
    BY <2>1, <2>2, MessageTypes DEF Own
<1> QED
  BY ProtocolInitInv, ProtocolStepInv, <1>1, PTL DEF Spec

(* Thread and handler of a client never wait for each other, so a client   *)
(* that spins while the server lives is one whose exchange can go on.      *)
THEOREM ExchangesGoOn == ASSUME MessagesApart PROVE Spec => []NobodyWaitsInVain
<1>1. ASSUME ProtocolInv, NEW c \in Clients, server = "up", mainPc[c] = "wait",
~processed[c]
      PROVE  ExchangeGoesOn(c)
  <2>1. Alive(c) /\ ClientView(c) /\ HandlerView(c)
    BY <1>1 DEF ProtocolInv, Conversation, Alive
  <2>2. handlerPc[c] # "none" /\ threadPc[c] \notin {"none", "ended"}
    BY <1>1, <2>1 DEF ClientView, HandlerView
  <2>3. /\ toServer[c] = <<Code(c)>> => AtServer(c, "REQ_CODE_GEN")
        /\ toServer[c] = <<IR(c)>> => AtServer(c, "RSP_LLVM_IR")
    BY ShortQueues, MessageTypes DEF AtServer
  <2>4. /\ toClient[c] = <<Ask>> => AtClient(c, "REQ_LLVM_IR")
        /\ toClient[c] \in {<<Ready(c)>>, <<Ready(c), Binary(c)>>} =>
             AtClient(c, "RSP_CODE_GEN_COMPLETE")
        /\ toClient[c] = <<Binary(c)>> => AtClient(c, "BINARY_STREAM")
    <3>1. CASE toClient[c] = <<Ask>>
      BY <2>1, <3>1, ShortQueues, MessageTypes DEF AtClient
    <3>2. CASE toClient[c] = <<Ready(c)>> \/ toClient[c] = <<Ready(c), Binary(c)>>
      <4>1. Head(toClient[c]) = Ready(c) /\ toClient[c] # << >>
        BY <3>2, ShortQueues
      <4>2. AtClient(c, "RSP_CODE_GEN_COMPLETE")
        BY <2>1, <4>1, MessageTypes DEF AtClient
      <4> QED
        BY <3>2, <4>1, <4>2, MessageTypes, ShortQueues
    <3>3. CASE toClient[c] = <<Binary(c)>>
      BY <2>1, <3>3, ShortQueues, MessageTypes DEF AtClient
    <3> QED
      BY <3>1, <3>2, <3>3
  <2>5. CASE handlerPc[c] = "recv"
    BY <1>1, <2>1, <2>2, <2>3, <2>4, <2>5 DEF HandlerView, Receiving, ExchangeGoesOn
  <2>6. CASE handlerPc[c] = "waitIR"
    BY <2>1, <2>3, <2>4, <2>6 DEF HandlerView, Receiving, ExchangeGoesOn
  <2>7. CASE handlerPc[c] \in AtWork
    BY <2>7 DEF ExchangeGoesOn
  <2>8. handlerPc[c] \in {"none", "recv", "waitIR"} \cup AtWork
    BY <1>1 DEF ProtocolInv, ProtocolTypeOK, AtWork
  <2> QED
    BY <2>2, <2>5, <2>6, <2>7, <2>8
<1>2. ProtocolInv => NobodyWaitsInVain
  BY <1>1 DEF NobodyWaitsInVain
<1> QED
  BY ProtocolInitInv, ProtocolStepInv, <1>2, PTL DEF Spec

(* The types of the protocol.                                              *)
THEOREM ProtocolTypeCorrect == ASSUME MessagesApart PROVE Spec => []ProtocolTypeOK
<1>1. ProtocolInv => ProtocolTypeOK
  BY DEF ProtocolInv
<1> QED
  BY ProtocolInitInv, ProtocolStepInv, <1>1, PTL DEF Spec
-----------------------------------------------------------------------------
(* The refinement: the steps of the protocol, seen by the clients alone.   *)
States == [e \in Clients |-> StateOf(e)]
InUse  == [e \in Clients |-> KernelsInUse(e)]

(* A step in which no client gets to its application or leaves it is none  *)
(* of the service.                                                         *)
LEMMA NothingSeen ==
  ASSUME run' = run,
         \A e \in Clients : /\ StateOf(e)' = StateOf(e)
                            /\ KernelsInUse(e)' = KernelsInUse(e)
  PROVE  UNCHANGED Service!vars
BY DEF Service!vars

LEMMA ClientsUntouched ==
  ASSUME UNCHANGED <<mainPc, run, kernels>>
  PROVE  UNCHANGED Service!vars
<1>1. \A e : StateOf(e)' = StateOf(e) /\ KernelsInUse(e)' = KernelsInUse(e)
  BY DEF StateOf, KernelsInUse
<1> QED
  BY <1>1, NothingSeen

MainPcs == {"start", "connected", "wait", "app", "left"}

(* A step of one client. *)
LEMMA OneClientSeen ==
  ASSUME NEW c \in Clients, NEW pc, mainPc \in [Clients -> MainPcs],
         mainPc' = [mainPc EXCEPT ![c] = pc],
         \A e \in Clients \ {c} : kernels'[e] = kernels[e]
  PROVE  /\ States' = [States EXCEPT ![c] = StateOf(c)']
         /\ InUse' = [InUse EXCEPT ![c] = KernelsInUse(c)']
         /\ mainPc'[c] = pc
<1>1. mainPc'[c] = pc /\ \A e \in Clients \ {c} : mainPc'[e] = mainPc[e]
  OBVIOUS
<1>2. \A e \in Clients \ {c} : /\ StateOf(e)' = StateOf(e)
                               /\ KernelsInUse(e)' = KernelsInUse(e)
  BY <1>1 DEF StateOf, KernelsInUse
<1> QED
  BY <1>1, <1>2 DEF States, InUse

LEMMA MainSteps ==
  ASSUME ProtocolInv
  PROVE  mainPc \in [Clients -> MainPcs]
BY DEF ProtocolInv, ProtocolTypeOK, MainPcs

LEMMA ClientEndIsSeen ==
  ASSUME ProtocolInv, NEW c \in Clients, Alive(c), ClientEnds(c), UNCHANGED <<run,
  kernels>>
  PROVE  Service!End(c)
<1>1. /\ States' = [States EXCEPT ![c] = StateOf(c)']
      /\ InUse' = [InUse EXCEPT ![c] = KernelsInUse(c)']
      /\ mainPc'[c] = "left"
  BY MainSteps, OneClientSeen DEF ClientEnds
<1>2. StateOf(c)' = "ended" /\ KernelsInUse(c)' = None
  BY <1>1 DEF StateOf, KernelsInUse
<1>3. States[c] # "ended"
  BY DEF States, StateOf, Alive
<1> QED
  BY <1>1, <1>2, <1>3 DEF Service!End, States, InUse

LEMMA FinishedServes ==
  ASSUME NamesDiffer, ProtocolInv, NEW c \in Clients, finished(c)
  PROVE  Service!Serve(c)
<1>1. /\ States' = [States EXCEPT ![c] = StateOf(c)']
      /\ InUse' = [InUse EXCEPT ![c] = KernelsInUse(c)']
      /\ mainPc'[c] = "app"
  BY MainSteps, OneClientSeen DEF finished, binaryVars
<1>2. Linked(c)
  BY DEF ProtocolInv, Conversation, ClientView, finished, Alive
<1>3. /\ StateOf(c)' = "running"
      /\ KernelsInUse(c)' = [info |-> Program[c], code |-> Program[c]]
  BY <1>1, <1>2 DEF StateOf, KernelsInUse, finished, binaryVars, Linked
<1>4. States[c] = "waiting"
  BY DEF States, StateOf, finished
<1> QED
  BY <1>1, <1>3, <1>4 DEF Service!Serve, States, InUse, finished

LEMMA NextRunIsSeen ==
  ASSUME ProtocolInv, NEW c \in Clients, NextRun(c)
  PROVE  Service!RunAgain(c)
<1>1. \A e \in Clients \ {c} : kernels'[e] = kernels[e]
  BY DEF NextRun, NewClient, ProtocolInv, ProtocolTypeOK
<1>2. /\ States' = [States EXCEPT ![c] = StateOf(c)']
      /\ InUse' = [InUse EXCEPT ![c] = KernelsInUse(c)']
      /\ mainPc'[c] = "start"
  BY <1>1, MainSteps, OneClientSeen DEF NextRun, NewClient
<1>3. StateOf(c)' = "waiting" /\ KernelsInUse(c)' = None
  BY <1>2 DEF StateOf, KernelsInUse
<1>4. States[c] = "running"
  BY DEF States, StateOf, NextRun
<1> QED
  BY <1>2, <1>3, <1>4 DEF Service!RunAgain, States, InUse, NextRun, NewClient

(* The main thread goes on to its wait. *)
LEMMA WaitingIsNotSeen ==
  ASSUME ProtocolInv, NEW c \in Clients, NEW pc \in {"connected", "wait"},
         StateOf(c) = "waiting", mainPc' = [mainPc EXCEPT ![c] = pc],
         UNCHANGED <<run, kernels>>
  PROVE  UNCHANGED Service!vars
<1>1. /\ mainPc'[c] = pc
      /\ \A e \in Clients \ {c} : mainPc'[e] = mainPc[e]
  BY MainSteps
<1>2. StateOf(c)' = "waiting" /\ mainPc[c] # "app"
  BY <1>1 DEF StateOf
<1> QED
  BY <1>1, <1>2, NothingSeen DEF StateOf, KernelsInUse

(* Kernels are linked in while nobody uses them. *)
LEMMA LinkingIsNotSeen ==
  ASSUME ProtocolInv, NEW c \in Clients, handleOclBinary(c)
  PROVE  UNCHANGED Service!vars
<1>1. UNCHANGED <<mainPc, run>>
  BY DEF handleOclBinary
<1>2. mainPc[c] # "app"
  BY DEF handleOclBinary, Thread, ProtocolInv, Conversation, ClientView
<1>3. \A e \in Clients \ {c} : kernels'[e] = kernels[e]
  BY DEF handleOclBinary, ProtocolInv, ProtocolTypeOK
<1> QED
  BY <1>1, <1>2, <1>3, NothingSeen DEF StateOf, KernelsInUse

LEMMA ClientStepIsSeen ==
  ASSUME NamesDiffer, ProtocolInv, NEW c \in Clients, ClientStep(c) \/ Leave(c)
  PROVE  [Service!Next]_(Service!vars)
<1>1. CASE connectToHTROPServer(c)
  <2>1. StateOf(c) = "waiting"
    BY <1>1 DEF connectToHTROPServer, StateOf
  <2> QED
    BY <1>1, <2>1, WaitingIsNotSeen DEF connectToHTROPServer, binaryVars
<1>2. CASE sendCodeGenReq(c)
  <2>1. StateOf(c) = "waiting" /\ Alive(c) /\ UNCHANGED <<run, kernels>>
    BY <1>2 DEF sendCodeGenReq, StateOf, Alive, binaryVars
  <2>2. CASE mainPc' = [mainPc EXCEPT ![c] = "wait"]
    BY <2>1, <2>2, WaitingIsNotSeen
  <2>3. CASE ClientEnds(c)
    BY <2>1, <2>3, ClientEndIsSeen DEF Service!Next
  <2> QED
    BY <1>2, <2>2, <2>3 DEF sendCodeGenReq
<1>3. CASE finished(c)
  BY <1>3, FinishedServes DEF Service!Next
<1>4. CASE NextRun(c)
  BY <1>4, NextRunIsSeen DEF Service!Next
<1>5. CASE handleLLVMIRReq(c)
  <2>1. UNCHANGED <<run, kernels>> /\ Alive(c)
    BY <1>5 DEF handleLLVMIRReq, AtClient, binaryVars
  <2>2. CASE UNCHANGED mainPc
    BY <2>1, <2>2, ClientsUntouched
  <2>3. CASE ClientEnds(c)
    BY <2>1, <2>3, ClientEndIsSeen DEF Service!Next
  <2> QED
    BY <1>5, <2>2, <2>3 DEF handleLLVMIRReq
<1>6. CASE handleCompiledBinary(c) \/ SetProcessed(c)
  BY <1>6, ClientsUntouched DEF handleCompiledBinary, SetProcessed
<1>7. CASE handleOclBinary(c)
  BY <1>7, LinkingIsNotSeen
<1>8. CASE ServerDisconnected(c)
  <2>1. UNCHANGED <<run, kernels>> /\ Alive(c)
    BY <1>8 DEF ServerDisconnected, binaryVars
  <2>2. CASE UNCHANGED mainPc
    BY <2>1, <2>2, ClientsUntouched
  <2>3. CASE ClientEnds(c)
    BY <2>1, <2>3, ClientEndIsSeen DEF Service!Next
  <2> QED
    BY <1>8, <2>2, <2>3 DEF ServerDisconnected
<1>9. CASE Leave(c)
  <2>1. UNCHANGED <<run, kernels>> /\ Alive(c) /\ ClientEnds(c)
    BY <1>9 DEF Leave, binaryVars
  <2> QED
    BY <2>1, ClientEndIsSeen DEF Service!Next
<1> QED
  BY <1>1, <1>2, <1>3, <1>4, <1>5, <1>6, <1>7, <1>8, <1>9 DEF ClientStep

LEMMA HandlerStepIsNotSeen ==
  ASSUME NEW c \in Clients, HandlerStep(c)
  PROVE  UNCHANGED Service!vars
<1>1. UNCHANGED <<mainPc, run, kernels>>
  BY DEF HandlerStep, FindInCache, RequestLLVMIR, ReceiveLLVMIR, AbortWithoutLLVMIR,
     OpenClFile, WriteClFile, addToCache, MeasureFile, ReadFile, set_binarysize,
     SendCodeGenReady, SendBinary, ClientDisconnected, binaryVars
<1> QED
  BY <1>1, ClientsUntouched

LEMMA ProtocolInitServes == Init => Service!Init
<1> SUFFICES ASSUME Init PROVE Service!Init
  OBVIOUS
<1>1. ASSUME NEW c \in Clients
      PROVE  StateOf(c) = "waiting" /\ KernelsInUse(c) = None
  BY DEF Init, All, StateOf, KernelsInUse
<1>2. run = [c \in Clients |-> 1]
  BY DEF Init, All
<1> QED
  BY <1>1, <1>2 DEF Service!Init

(* For any number of clients whose SCoP parents have different names, the  *)
(* protocol implements the service: the clients share a server, its cache  *)
(* and its files, and each is served as if it were alone                   *)
(* (htropserver.cpp:174-409, main.cpp:258-275).                            *)
THEOREM ProtocolIsService == ASSUME NamesDiffer PROVE Spec => ServesEachAlone
<1>1. ASSUME ProtocolInv, [Next]_vars PROVE [Service!Next]_(Service!vars)
  <2>1. CASE UNCHANGED vars
    BY <2>1, ClientsUntouched DEF vars, binaryVars
  <2>2. CASE StopServer
    <3>1. UNCHANGED <<mainPc, run, kernels>>
      BY <2>2 DEF StopServer, binaryVars
    <3> QED
      BY <3>1, ClientsUntouched
  <2> QED
    BY <1>1, <2>1, <2>2, ClientStepIsSeen, HandlerStepIsNotSeen DEF Next
<1>2. MessagesApart
  BY DEF MessagesApart
<1> QED
  BY ProtocolInitInv, ProtocolStepInv, ProtocolInitServes, <1>1, <1>2, PTL
     DEF Spec, ServesEachAlone, Service!Spec
=============================================================================
