--------------------------- MODULE MessageFraming ---------------------------
(***************************************************************************)
(* Message::send and Message::recv: messages over a stream of bytes.  send *)
(* writes a header, which has the type and the size, and then the payload; *)
(* recv reads the header and then as many bytes as it says.  The system's  *)
(* send and recv may handle fewer bytes than they are asked to.            *)
(*                                                                         *)
(* A byte is its position in the stream, so that a payload that is read    *)
(* from a wrong place differs from the one that was sent.                  *)
(***************************************************************************)
EXTENDS Integers, Sequences

CONSTANTS
  Types, Sizes,   (* of messages                                           *)
  HeaderSize,     (* bytes of a header                                     *)
  HeadersWhole,   (* whether a header always arrives in one piece          *)
  MaxMessages     (* bound on the messages sent                            *)

Headers == [type : Types, size : Sizes]
Messages == [header : Headers, from : Nat, to : Nat]

ASSUME FramingAssumption ==
  /\ Sizes \subseteq Nat /\ HeaderSize \in Nat \ {0}
  /\ HeadersWhole \in BOOLEAN /\ MaxMessages \in Nat

VARIABLES
  sent,        (* the messages passed to send: header, and where the       *)
               (* payload begins and ends                                 *)
  written,     (* bytes in the stream                                      *)
  total,       (* in send: bytes of the payload written                    *)
  sender,      (* "idle", "body" within the loop of send, or "down"        *)
  read,        (* bytes read                                               *)
  header,      (* type and size of the Message that recv fills             *)
  recv_size,   (* in recv: bytes of the payload read                       *)
  receiver,    (* "header", "body" within the loop of recv, or "failed",   *)
               (* when recv has set type to -1                             *)
  delivered    (* the messages recv has returned                           *)

senderVars == <<sent, written, total, sender>>
receiverVars == <<read, header, recv_size, receiver, delivered>>
vars == <<senderVars, receiverVars>>

Message(h, from, to) == [header |-> h, from |-> from, to |-> to]
Last(s) == s[Len(s)]

FramingInit ==
  /\ sent = << >> /\ written = 0 /\ total = 0 /\ sender = "idle"
  /\ read = 0 /\ recv_size = 0 /\ receiver = "header" /\ delivered = << >>
  /\ header \in Headers

(* Message::send: the header, ...                                          *)
SendHeader(h) ==
  /\ sender = "idle" /\ Len(sent) < MaxMessages
  /\ written' = written + HeaderSize
  /\ sent' = Append(sent, Message(h, written', written' + h.size))
  /\ total' = 0
  /\ sender' = IF h.size = 0 THEN "idle" ELSE "body"
  /\ UNCHANGED receiverVars

(* Mutant: no loop, what one call writes is enough. *)
SendBodyOnce ==
  LET size == Last(sent).header.size IN
  /\ sender = "body" /\ sender' = "idle"
  /\ \E n \in 1 .. size : written' = written + n /\ total' = n
  /\ UNCHANGED <<sent, receiverVars>>

(* ... and as much of the rest as the system takes at a time.              *)
SendBody ==
  LET size == Last(sent).header.size IN
  /\ sender = "body"
  /\ \E n \in 1 .. size - total :
       /\ written' = written + n /\ total' = total + n
       /\ sender' = IF total' = size THEN "idle" ELSE "body"
  /\ UNCHANGED <<sent, receiverVars>>

(* The process ends; what has not been read may get lost. *)
SenderEnds ==
  /\ sender # "down" /\ sender' = "down"
  /\ written' \in read .. written
  /\ UNCHANGED <<sent, total, receiverVars>>

(* Mutant: the loop asks for the whole size each time. *)
BodyPartsOfAny == {n \in 1 .. header.size : n <= written - read}

(* The lengths of what may be read of a header; those of a payload. *)
HeaderParts ==
  {n \in 1 .. HeaderSize : n <= written - read /\ (HeadersWhole => n = HeaderSize)}
BodyParts == {n \in 1 .. header.size - recv_size : n <= written - read}

(* The type and the size that are found in n bytes: those of a message if  *)
(* they are all of its header; otherwise any, since other bytes and        *)
(* uninitialised memory take their place.                                  *)
Found(n) ==
  LET at == {i \in DOMAIN sent : sent[i].from = read + HeaderSize} IN
  IF n = HeaderSize /\ at # {} THEN {sent[i].header : i \in at} ELSE Headers

(* What recv returns ends where it has stopped to read. *)
Return(h, from) == delivered' = Append(delivered, Message(h, from, read'))

(* Mutant: a message without payload is not returned. *)
RecvHeaderAlways ==
  /\ receiver = "header" /\ receiver' = "body"
  /\ \E n \in HeaderParts :
       /\ read' = read + n
       /\ header' \in Found(n)
  /\ recv_size' = 0
  /\ UNCHANGED <<senderVars, delivered>>

(* Message::recv: the header, with one call, ...                           *)
RecvHeader ==
  /\ receiver = "header"
  /\ \E n \in HeaderParts :
       /\ read' = read + n
       /\ header' \in Found(n)
  /\ recv_size' = 0
  /\ IF header'.size = 0 THEN Return(header', read') /\ UNCHANGED receiver
                         ELSE receiver' = "body" /\ UNCHANGED delivered
  /\ UNCHANGED senderVars

(* Mutant: no loop, what one call reads is the payload. *)
RecvBodyOnce ==
  /\ receiver = "body" /\ receiver' = "header"
  /\ \E n \in BodyParts : read' = read + n /\ recv_size' = n
  /\ Return(header, read' - recv_size')
  /\ UNCHANGED <<senderVars, header>>

(* ... and the payload, in a loop.                                         *)
RecvBody ==
  /\ receiver = "body"
  /\ \E n \in BodyParts : read' = read + n /\ recv_size' = recv_size + n
  /\ IF recv_size' = header.size
     THEN receiver' = "header" /\ Return(header, read' - recv_size')
     ELSE UNCHANGED <<receiver, delivered>>
  /\ UNCHANGED <<senderVars, header>>

(* The system's recv returns 0 when the sender has ended and nothing is    *)
(* left.  The caller's loop ends.                                          *)
RecvEnd ==
  /\ sender = "down"
  /\ \/ receiver = "header" /\ HeaderParts = {}
     \/ receiver = "body" /\ BodyParts = {}
  /\ receiver' = "failed"
  /\ UNCHANGED <<senderVars, read, header, recv_size, delivered>>

SenderStep == (\E h \in Headers : SendHeader(h)) \/ SendBody
ReceiverStep == RecvHeader \/ RecvBody \/ RecvEnd

FramingNext == SenderStep \/ SenderEnds \/ ReceiverStep

FramingSpec == FramingInit /\ [][FramingNext]_vars

(* Both loops go on: send and recv are called by running threads. *)
FairFraming == FramingSpec /\ WF_vars(SendBody) /\ WF_vars(ReceiverStep)
-----------------------------------------------------------------------------
FramingTypeOK ==
  /\ sent \in Seq(Messages)
  /\ written \in Nat /\ total \in Nat /\ Len(sent) <= MaxMessages
  /\ sender \in {"idle", "body", "down"}
  /\ read \in 0 .. written
  /\ header \in Headers /\ recv_size \in 0 .. header.size
  /\ receiver \in {"header", "body", "failed"}
  /\ delivered \in Seq(Messages)

(* A message has the structure the comment describes: what recv returns is *)
(* a type, a size, and as many bytes as the size says, which some send has *)
(* written as one message (messageHelper.h:27-33, messageHelper.cpp:145).  *)
ReceivedAsSent ==
  \A i \in DOMAIN delivered : i \in DOMAIN sent /\ delivered[i] = sent[i]

(* Seen from outside, bytes do not exist: a message is on the way from the *)
(* call of send until recv returns it, and one of which a part was lost is *)
(* lost (messageHelper.cpp:102-186).                                       *)
Arrives(i) == sender = "down" => sent[i].to <= written

Arriving == CHOOSE n \in 0 .. Len(sent) : \A i \in 1 .. Len(sent) : Arrives(i) <=> i <= n

Queue == INSTANCE MessageQueue
           WITH queue <- SubSeq(sent, Len(delivered) + 1, Arriving),
                sender <- IF sender = "down" THEN "down" ELSE "up",
                receiver <- IF receiver = "failed" THEN "down" ELSE "up"

FramesAreMessages == Queue!Spec

(* A message that has been passed to send is returned by recv, however few *)
(* bytes the system handles at a time, if the sender lives                 *)
(* (messageHelper.cpp:121, :169).                                          *)
SentIsDelivered ==
  \A i \in 1 .. MaxMessages :
    Len(sent) >= i ~> Len(delivered) >= i \/ sender = "down"
=============================================================================
