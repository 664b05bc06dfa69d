------------------------ MODULE MessageFraming_proofs ------------------------
(***************************************************************************)
(* Messages over a stream of bytes, for any sizes and numbers of messages: *)
(* what recv returns are the messages passed to send, in order, if headers *)
(* arrive in one piece.                                                    *)
(***************************************************************************)
EXTENDS MessageFraming, SequenceTheorems, WellFoundedInduction, TLAPS

(* Where message k ends; there is nothing before the first. *)
EndOf(k) == IF k = 0 THEN 0 ELSE sent[k].to

(* Each message begins where the one before it ends. *)
Layout ==
  /\ \A i \in 1 .. Len(sent) : /\ sent[i].from = EndOf(i - 1) + HeaderSize
                               /\ sent[i].to = sent[i].from + sent[i].header.size
  /\ \A i, j \in 0 .. Len(sent) : i <= j => EndOf(i) <= EndOf(j)

(* How far send is. *)
Writer ==
  /\ sender = "idle" => written = EndOf(Len(sent))
  /\ sender = "body" => /\ total < Last(sent).header.size
                        /\ written = Last(sent).from + total
  /\ sender = "down" => written <= EndOf(Len(sent))

(* How far recv is: in the message after those it has returned. *)
Reader ==
  LET next == Len(delivered) + 1 IN
  /\ Len(delivered) <= Len(sent) /\ EndOf(Len(delivered)) <= read
  /\ receiver = "header" => read = EndOf(Len(delivered))
  /\ receiver = "body" => /\ next <= Len(sent) /\ header = sent[next].header
                          /\ recv_size < header.size
                          /\ read = sent[next].from + recv_size
  /\ receiver = "failed" => sender = "down"

TypeInv ==
  /\ FramingTypeOK
  /\ recv_size <= read
  /\ sender = "body" => sent # << >>

FramingInv == TypeInv /\ Layout /\ Writer /\ Reader /\ ReceivedAsSent
-----------------------------------------------------------------------------
LEMMA HeadersAreSized ==
  \A h \in Headers : h.size \in Nat
BY FramingAssumption DEF Headers

LEMMA MessageIsMessage ==
  ASSUME NEW h \in Headers, NEW from \in Nat, NEW to \in Nat
  PROVE  Message(h, from, to) \in Messages
BY DEF Message, Messages

LEMMA SentHeader ==
  ASSUME sent \in Seq(Messages), NEW i \in 1 .. Len(sent)
  PROVE  /\ sent[i].header \in Headers /\ sent[i].header.size \in Nat
         /\ sent[i].from \in Nat /\ sent[i].to \in Nat
<1>1. sent[i] \in Messages
  BY ElementOfSeq
<1> QED
  BY <1>1, HeadersAreSized DEF Messages

LEMMA FoundIsHeader ==
  ASSUME sent \in Seq(Messages), NEW n
  PROVE  Found(n) \subseteq Headers
<1>1. \A i \in DOMAIN sent : sent[i].header \in Headers
  BY SentHeader
<1> QED
  BY <1>1 DEF Found

LEMMA ReturnIsMessage ==
  ASSUME delivered \in Seq(Messages), NEW h \in Headers, NEW from \in Nat, read' \in Nat,
         Return(h, from)
  PROVE  delivered' \in Seq(Messages)
BY MessageIsMessage, AppendProperties DEF Return

(* Types, whatever becomes of headers *)

LEMMA FramingInitTypes == FramingInit => TypeInv
BY EmptySeq, HeadersAreSized, FramingAssumption DEF FramingInit, TypeInv, FramingTypeOK

LEMMA SendHeaderTypes ==
  ASSUME TypeInv, NEW h \in Headers, SendHeader(h)
  PROVE  TypeInv'
<1> USE FramingAssumption
<1>1. h.size \in Nat
  BY HeadersAreSized
<1>2. /\ written' \in Nat /\ written <= written' /\ written' + h.size \in Nat
  BY <1>1 DEF SendHeader, TypeInv, FramingTypeOK
<1>3. Message(h, written', written' + h.size) \in Messages
  BY <1>1, <1>2, MessageIsMessage
<1>4. sent' \in Seq(Messages) /\ sent' # << >> /\ Len(sent') = Len(sent) + 1
  BY <1>3, AppendProperties DEF SendHeader, TypeInv, FramingTypeOK
<1>5. Len(sent') <= MaxMessages
  BY <1>4, LenProperties DEF SendHeader, TypeInv, FramingTypeOK
<1> QED
  BY <1>1, <1>2, <1>4, <1>5 DEF SendHeader, TypeInv, FramingTypeOK, receiverVars

LEMMA LastIsSent ==
  ASSUME sent \in Seq(Messages), sent # << >>
  PROVE  /\ Len(sent) \in 1 .. Len(sent) /\ Last(sent) = sent[Len(sent)]
         /\ Last(sent).header.size \in Nat
<1>1. Len(sent) \in Nat /\ Len(sent) # 0
  BY EmptySeq, LenProperties
<1>2. Len(sent) \in 1 .. Len(sent)
  BY <1>1
<1> QED
  BY <1>2, SentHeader DEF Last

LEMMA SendBodyTypes ==
  ASSUME TypeInv, SendBody
  PROVE  TypeInv'
<1>1. Last(sent).header.size \in Nat
  BY LastIsSent DEF SendBody, TypeInv, FramingTypeOK
<1>2. written' \in Nat /\ total' \in Nat /\ written <= written'
  BY <1>1 DEF SendBody, TypeInv, FramingTypeOK
<1> QED
  BY <1>2 DEF SendBody, TypeInv, FramingTypeOK, receiverVars

LEMMA SenderEndsTypes ==
  ASSUME TypeInv, SenderEnds
  PROVE  TypeInv'
BY DEF SenderEnds, TypeInv, FramingTypeOK, receiverVars

LEMMA RecvHeaderTypes ==
  ASSUME TypeInv, RecvHeader
  PROVE  TypeInv'
<1> USE FramingAssumption
<1>1. PICK n \in HeaderParts : read' = read + n /\ header' \in Found(n)
  BY DEF RecvHeader
<1>2. header' \in Headers /\ header'.size \in Nat
  BY <1>1, FoundIsHeader, HeadersAreSized DEF TypeInv, FramingTypeOK
<1>3. read' \in 0 .. written /\ read' \in Nat
  BY <1>1 DEF HeaderParts, TypeInv, FramingTypeOK
<1>4. delivered' \in Seq(Messages)
  BY <1>2, <1>3, ReturnIsMessage DEF RecvHeader, TypeInv, FramingTypeOK
<1> QED
  BY <1>2, <1>3, <1>4 DEF RecvHeader, TypeInv, FramingTypeOK, senderVars

LEMMA RecvBodyTypes ==
  ASSUME TypeInv, RecvBody
  PROVE  TypeInv'
<1>0. header \in Headers /\ header.size \in Nat
  BY HeadersAreSized DEF TypeInv, FramingTypeOK
<1>1. PICK n \in BodyParts : read' = read + n /\ recv_size' = recv_size + n
  BY DEF RecvBody
<1>2. /\ read' \in 0 .. written /\ read' \in Nat
      /\ recv_size' \in 0 .. header.size /\ recv_size' \in Nat
      /\ recv_size' <= read'
  BY <1>0, <1>1 DEF BodyParts, TypeInv, FramingTypeOK
<1>3. read' - recv_size' \in Nat
  <2>1. \A a, b \in Nat : b <= a => a - b \in Nat
    OBVIOUS
  <2> QED
    BY <1>2, <2>1
<1>4. delivered' \in Seq(Messages)
  BY <1>0, <1>2, <1>3, ReturnIsMessage DEF RecvBody, TypeInv, FramingTypeOK
<1> QED
  BY <1>2, <1>4 DEF RecvBody, TypeInv, FramingTypeOK, senderVars

LEMMA FramingStepTypes ==
  ASSUME TypeInv, [FramingNext]_vars
  PROVE  TypeInv'
<1>1. CASE UNCHANGED vars
  BY <1>1 DEF vars, senderVars, receiverVars, TypeInv, FramingTypeOK
<1>2. CASE RecvEnd
  BY <1>2 DEF RecvEnd, senderVars, TypeInv, FramingTypeOK
<1> QED
  BY <1>1, <1>2, SendHeaderTypes, SendBodyTypes, SenderEndsTypes, RecvHeaderTypes,
     RecvBodyTypes DEF FramingNext, SenderStep, ReceiverStep

(* For any sizes and numbers of messages, and whatever the system's calls  *)
(* return: what recv fills in are a type and a size, it never asks for     *)
(* more than the size says, and reads only what has been written           *)
(* (messageHelper.cpp:143-186).                                            *)
THEOREM FramingTypesCorrect == FramingSpec => []FramingTypeOK
<1>1. TypeInv => FramingTypeOK
  BY DEF TypeInv
<1> QED
  BY FramingInitTypes, FramingStepTypes, <1>1, PTL DEF FramingSpec
-----------------------------------------------------------------------------
LEMMA EndOfIsNat ==
  ASSUME sent \in Seq(Messages), NEW k \in 0 .. Len(sent)
  PROVE  EndOf(k) \in Nat
BY SentHeader DEF EndOf

(* One more message: the others stay where they are. *)
LEMMA SentGrows ==
  ASSUME sent \in Seq(Messages), NEW m \in Messages, sent' = Append(sent, m)
  PROVE  /\ Len(sent) \in Nat /\ Len(sent') = Len(sent) + 1
         /\ \A i \in 1 .. Len(sent) : sent'[i] = sent[i]
         /\ sent'[Len(sent) + 1] = m
         /\ \A k \in 0 .. Len(sent) : EndOf(k)' = EndOf(k)
         /\ \A k : k = Len(sent) + 1 => EndOf(k)' = m.to
<1>1. /\ Len(sent) \in Nat /\ Len(sent') = Len(sent) + 1
      /\ \A i \in 1 .. Len(sent) : sent'[i] = sent[i]
      /\ sent'[Len(sent) + 1] = m
  BY AppendProperties, LenProperties
<1> QED
  BY <1>1 DEF EndOf

LEMMA EndOfUnchanged ==
  ASSUME UNCHANGED sent, NEW k
  PROVE  EndOf(k)' = EndOf(k)
BY DEF EndOf

LEMMA WrittenIsSent ==
  ASSUME TypeInv, Layout, Writer
  PROVE  written <= EndOf(Len(sent))
<1>1. CASE sender = "body"
  <2>1. /\ Len(sent) \in 1 .. Len(sent) /\ Last(sent) = sent[Len(sent)]
        /\ Last(sent).header.size \in Nat /\ Last(sent).from \in Nat
    BY <1>1, LastIsSent, SentHeader DEF TypeInv, FramingTypeOK
  <2>2. EndOf(Len(sent)) = Last(sent).from + Last(sent).header.size
    BY <2>1 DEF Layout, EndOf
  <2> QED
    BY <1>1, <2>1, <2>2 DEF Writer, TypeInv, FramingTypeOK
<1>2. CASE sender = "idle"
  <2>1. EndOf(Len(sent)) \in Nat
    BY EndOfIsNat, LenProperties DEF TypeInv, FramingTypeOK
  <2> QED
    BY <1>2, <2>1 DEF Writer
<1> QED
  BY <1>1, <1>2 DEF Writer, TypeInv, FramingTypeOK

LEMMA SendHeaderLayout ==
  ASSUME TypeInv, Layout, Writer, NEW h \in Headers, SendHeader(h)
  PROVE  Layout' /\ Writer'
<1> DEFINE n == Len(sent)
           m == Message(h, written', written' + h.size)
<1>1. h.size \in Nat /\ HeaderSize \in Nat \ {0}
  BY HeadersAreSized, FramingAssumption
<1>2. /\ sender = "idle" /\ sent \in Seq(Messages) /\ written \in Nat
      /\ written' = written + HeaderSize /\ sent' = Append(sent, m) /\ total' = 0
      /\ sender' = IF h.size = 0 THEN "idle" ELSE "body"
  BY DEF SendHeader, TypeInv, FramingTypeOK
<1>3. m \in Messages
  BY <1>1, <1>2, MessageIsMessage
<1>4. m.header = h /\ m.from = written' /\ m.to = written' + h.size
  BY DEF Message
<1> HIDE DEF m
<1>5. /\ n \in Nat /\ Len(sent') = n + 1 /\ sent'[n + 1] = m
      /\ \A i \in 1 .. n : sent'[i] = sent[i]
      /\ \A k \in 0 .. n : EndOf(k)' = EndOf(k)
      /\ \A k : k = n + 1 => EndOf(k)' = m.to
  BY <1>2, <1>3, SentGrows
<1>6. EndOf(n) = written
  BY <1>2 DEF Writer
<1>7. \A k \in 0 .. n : EndOf(k) \in Nat /\ EndOf(k) <= written
  BY <1>2, <1>5, <1>6, EndOfIsNat DEF Layout
<1> HIDE DEF n
<1>8. ASSUME NEW i \in 1 .. n + 1
      PROVE  /\ sent'[i].from = EndOf(i - 1)' + HeaderSize
             /\ sent'[i].to = sent'[i].from + sent'[i].header.size
  <2>1. CASE i = n + 1
    BY <1>1, <1>2, <1>4, <1>5, <1>6, <2>1
  <2>2. CASE i \in 1 .. n
    BY <1>5, <2>2 DEF Layout, n
  <2> QED
    BY <1>5, <2>1, <2>2
<1>9. ASSUME NEW i \in 0 .. n + 1, NEW j \in 0 .. n + 1, i <= j
      PROVE  EndOf(i)' <= EndOf(j)'
  <2>1. m.to \in Nat /\ written <= m.to
    BY <1>1, <1>2, <1>4
  <2>2. CASE j = n + 1
    <3>1. EndOf(j)' = m.to
      BY <1>5, <2>2
    <3>2. CASE i = n + 1
      BY <2>1, <2>2, <3>1, <3>2
    <3>3. CASE i \in 0 .. n
      BY <1>2, <1>5, <1>7, <2>1, <3>1, <3>3
    <3> QED
      BY <1>5, <3>2, <3>3
  <2>3. CASE j \in 0 .. n
    BY <1>5, <1>9, <2>3 DEF Layout, n
  <2> QED
    BY <1>5, <2>2, <2>3
<1>10. Layout'
  BY <1>5, <1>8, <1>9 DEF Layout
<1>11. Last(sent') = m
  BY <1>5 DEF Last
<1> QED
  <2>1. CASE h.size = 0
    <3>1. sender' = "idle" /\ written' = m.to /\ EndOf(Len(sent))' = m.to
      BY <1>1, <1>2, <1>4, <1>5, <2>1 DEF EndOf
    <3> QED
      BY <1>10, <3>1 DEF Writer
  <2>2. CASE h.size # 0
    <3>1. sender' = "body" /\ written' = m.from + 0 /\ 0 < m.header.size
      BY <1>1, <1>2, <1>4, <2>2
    <3> QED
      BY <1>2, <1>10, <1>11, <3>1 DEF Writer
  <2> QED
    BY <2>1, <2>2

LEMMA SendHeaderReader ==
  ASSUME TypeInv, Reader, ReceivedAsSent, NEW h \in Headers, SendHeader(h)
  PROVE  Reader' /\ ReceivedAsSent'
<1>1. /\ h.size \in Nat /\ written' \in Nat
  BY HeadersAreSized, FramingAssumption DEF SendHeader, TypeInv, FramingTypeOK
<1>2. /\ Len(sent) \in Nat /\ Len(sent') = Len(sent) + 1
      /\ \A i \in 1 .. Len(sent) : sent'[i] = sent[i]
      /\ \A k \in 0 .. Len(sent) : EndOf(k)' = EndOf(k)
  <2>1. Message(h, written', written' + h.size) \in Messages
    BY <1>1, MessageIsMessage
  <2> QED
    BY <2>1, SentGrows DEF SendHeader, TypeInv, FramingTypeOK
<1>3. /\ UNCHANGED <<read, header, recv_size, receiver, delivered>>
      /\ receiver # "failed"
  BY DEF SendHeader, receiverVars, Reader
<1>4. /\ Len(delivered) \in Nat /\ DOMAIN delivered = 1 .. Len(delivered)
      /\ DOMAIN sent = 1 .. Len(sent) /\ DOMAIN sent' = 1 .. Len(sent')
  BY LenProperties, AppendProperties, <1>1, MessageIsMessage
     DEF SendHeader, TypeInv, FramingTypeOK
<1>5. Reader'
  BY <1>2, <1>3, <1>4 DEF Reader
<1> QED
  BY <1>2, <1>3, <1>4, <1>5 DEF ReceivedAsSent

LEMMA SendBodyInv ==
  ASSUME FramingInv, SendBody
  PROVE  FramingInv'
<1>1. TypeInv'
  BY SendBodyTypes DEF FramingInv
<1>2. /\ sender = "body" /\ UNCHANGED <<sent, read, header, recv_size, receiver, delivered>>
  BY DEF SendBody, receiverVars
<1>3. /\ Len(sent) \in 1 .. Len(sent) /\ Last(sent) = sent[Len(sent)]
      /\ Last(sent).header.size \in Nat /\ Last(sent).from \in Nat
  BY <1>2, LastIsSent, SentHeader DEF FramingInv, TypeInv, FramingTypeOK
<1>4. EndOf(Len(sent)) = Last(sent).from + Last(sent).header.size
  BY <1>3 DEF FramingInv, Layout, EndOf
<1>5. Layout' /\ ReceivedAsSent'
  BY <1>2, EndOfUnchanged DEF FramingInv, Layout, ReceivedAsSent
<1>6. Writer'
  <2>1. PICK n \in 1 .. Last(sent).header.size - total :
          /\ written' = written + n /\ total' = total + n
          /\ sender' = IF total' = Last(sent).header.size THEN "idle" ELSE "body"
    BY DEF SendBody
  <2>2. /\ total' <= Last(sent).header.size /\ written' = Last(sent).from + total'
        /\ total \in Nat
    <3>1. total \in Nat /\ written = Last(sent).from + total
      BY <1>2 DEF FramingInv, Writer, TypeInv, FramingTypeOK
    <3> DEFINE from == Last(sent).from
               size == Last(sent).header.size
    <3>2. from \in Nat /\ size \in Nat /\ written = from + total
      BY <1>3, <3>1
    <3>3. /\ n \in 1 .. size - total /\ total' = total + n
          /\ written' = (from + total) + n
      BY <2>1, <3>2
    <3> HIDE DEF from, size
    <3>4. total' <= size /\ written' = from + total'
      BY <3>1, <3>2, <3>3
    <3> QED
      BY <3>1, <3>4 DEF from, size
  <2>3. Last(sent)' = Last(sent) /\ EndOf(Len(sent))' = EndOf(Len(sent))
    BY <1>2 DEF Last, EndOf
  <2> QED
    BY <1>3, <1>4, <2>1, <2>2, <2>3, <1>2 DEF Writer
<1>7. Reader'
  BY <1>2, EndOfUnchanged DEF FramingInv, Reader, SendBody
<1> QED
  BY <1>1, <1>5, <1>6, <1>7 DEF FramingInv

LEMMA SenderEndsInv ==
  ASSUME FramingInv, SenderEnds
  PROVE  FramingInv'
<1>1. TypeInv'
  BY SenderEndsTypes DEF FramingInv
<1>2. /\ sender' = "down" /\ UNCHANGED <<sent, read, header, recv_size, receiver, delivered>>
      /\ written' \in read .. written
  BY DEF SenderEnds, receiverVars
<1>3. Layout' /\ Reader' /\ ReceivedAsSent'
  BY <1>2, EndOfUnchanged DEF FramingInv, Layout, Reader, ReceivedAsSent
<1>4. EndOf(Len(sent)) \in Nat /\ written <= EndOf(Len(sent))
  BY WrittenIsSent, EndOfIsNat, LenProperties DEF FramingInv, TypeInv, FramingTypeOK
<1>5. Writer'
  BY <1>2, <1>4, EndOfUnchanged DEF Writer, FramingInv, TypeInv, FramingTypeOK
<1> QED
  BY <1>1, <1>3, <1>5 DEF FramingInv

(* The message recv is in: its header is where recv stands. *)
LEMMA NextMessage ==
  ASSUME FramingInv, Len(delivered) < Len(sent)
  PROVE  LET next == Len(delivered) + 1 IN
         /\ next \in 1 .. Len(sent)
         /\ sent[next].from = EndOf(Len(delivered)) + HeaderSize
         /\ sent[next].to = sent[next].from + sent[next].header.size
         /\ EndOf(next) = sent[next].to
         /\ sent[next] = Message(sent[next].header, sent[next].from, sent[next].to)
<1> DEFINE next == Len(delivered) + 1
<1>1. Len(delivered) \in Nat /\ Len(sent) \in Nat
  BY LenProperties DEF FramingInv, TypeInv, FramingTypeOK
<1>2. next \in 1 .. Len(sent) /\ next # 0 /\ next - 1 = Len(delivered)
  BY <1>1
<1>3. sent[next] \in Messages
  BY <1>2, ElementOfSeq DEF FramingInv, TypeInv, FramingTypeOK
<1>4. sent[next] = Message(sent[next].header, sent[next].from, sent[next].to)
  BY <1>3 DEF Message, Messages
<1> QED
  BY <1>2, <1>4 DEF FramingInv, Layout, EndOf

(* No two messages begin at the same place. *)
LEMMA PlacesDiffer ==
  ASSUME FramingInv, NEW i \in 1 .. Len(sent), NEW j \in 1 .. Len(sent),
         sent[i].from = sent[j].from
  PROVE  i = j
<1>1. ASSUME NEW k \in 1 .. Len(sent), NEW l \in 1 .. Len(sent), k < l
      PROVE  sent[k].from < sent[l].from
  <2>1. /\ HeaderSize \in Nat \ {0}
        /\ sent[k].header.size \in Nat /\ sent[k].from \in Nat /\ sent[l].from \in Nat
    BY SentHeader, FramingAssumption DEF FramingInv, TypeInv, FramingTypeOK
  <2>2. EndOf(k) <= EndOf(l - 1)
    BY <1>1 DEF FramingInv, Layout
  <2>3. EndOf(k) = sent[k].from + sent[k].header.size
    BY DEF FramingInv, Layout, EndOf
  <2>4. sent[l].from = EndOf(l - 1) + HeaderSize
    BY DEF FramingInv, Layout
  <2>5. EndOf(l - 1) \in Nat
    BY EndOfIsNat DEF FramingInv, TypeInv, FramingTypeOK
  <2>6. sent[k].from <= EndOf(k) /\ EndOf(k) \in Nat
    <3> DEFINE from == sent[k].from
               size == sent[k].header.size
    <3>1. from \in Nat /\ size \in Nat
      BY <2>1
    <3>2. EndOf(k) = from + size
      BY <2>3
    <3> HIDE DEF from, size
    <3>3. from <= from + size /\ from + size \in Nat
      BY <3>1
    <3> QED
      BY <3>2, <3>3 DEF from
  <2> DEFINE ofK == sent[k].from
             ofL == sent[l].from
             endK == EndOf(k)
             before == EndOf(l - 1)
  <2>7. /\ ofK \in Nat /\ ofL \in Nat /\ endK \in Nat /\ before \in Nat
        /\ ofK <= endK /\ endK <= before /\ ofL = before + HeaderSize
    BY <2>1, <2>2, <2>4, <2>5, <2>6
  <2> HIDE DEF ofK, ofL, endK, before
  <2>8. ofK < ofL
    BY <2>1, <2>7
  <2> QED
    BY <2>8 DEF ofK, ofL
<1> QED
  BY <1>1, SentHeader DEF FramingInv, TypeInv, FramingTypeOK

(* A whole header that can be read is that of the next message. *)
LEMMA NextHeader ==
  ASSUME FramingInv, HeadersWhole, RecvHeader
  PROVE  LET next == Len(delivered) + 1 IN
         /\ Len(delivered) < Len(sent)
         /\ read' = sent[next].from /\ read' <= written
         /\ header' = sent[next].header
<1> DEFINE next == Len(delivered) + 1
<1>1. PICK n \in HeaderParts : read' = read + n /\ header' \in Found(n)
  BY DEF RecvHeader
<1>2. n = HeaderSize /\ n <= written - read /\ n \in Nat \ {0}
  BY <1>1, FramingAssumption DEF HeaderParts
<1>3. /\ read = EndOf(Len(delivered)) /\ read \in Nat /\ written \in Nat
      /\ Len(delivered) \in Nat /\ Len(sent) \in Nat /\ Len(delivered) <= Len(sent)
  BY LenProperties DEF RecvHeader, FramingInv, Reader, TypeInv, FramingTypeOK
<1>4. read' \in Nat /\ read' <= written /\ read < read'
  BY <1>1, <1>2, <1>3
<1>5. written <= EndOf(Len(sent)) /\ EndOf(Len(sent)) \in Nat
  BY <1>3, WrittenIsSent, EndOfIsNat DEF FramingInv, TypeInv, FramingTypeOK
<1>6. Len(delivered) < Len(sent)
  <2>1. Len(delivered) # Len(sent)
    BY <1>3, <1>4, <1>5
  <2> QED
    BY <1>3, <2>1
<1>7. next \in 1 .. Len(sent) /\ sent[next].from = read + HeaderSize
  BY <1>3, <1>6, NextMessage
<1>8. DOMAIN sent = 1 .. Len(sent)
  BY LenProperties DEF FramingInv, TypeInv, FramingTypeOK
<1>9. {i \in DOMAIN sent : sent[i].from = read + HeaderSize} = {next}
  BY <1>7, <1>8, PlacesDiffer
<1>10. Found(n) = {sent[next].header}
  BY <1>2, <1>9 DEF Found
<1> QED
  BY <1>1, <1>2, <1>4, <1>6, <1>7, <1>10

(* recv returns the next message. *)
LEMMA DeliveredGrows ==
  ASSUME TypeInv, ReceivedAsSent, UNCHANGED sent, Len(delivered) < Len(sent),
         delivered' = Append(delivered, sent[Len(delivered) + 1])
  PROVE  /\ ReceivedAsSent'
         /\ Len(delivered) \in Nat /\ Len(delivered') = Len(delivered) + 1
<1>1. /\ Len(delivered) \in Nat /\ DOMAIN delivered = 1 .. Len(delivered)
      /\ Len(sent) \in Nat /\ DOMAIN sent = 1 .. Len(sent)
      /\ delivered \in Seq(Messages)
  BY LenProperties DEF TypeInv, FramingTypeOK
<1>2. sent[Len(delivered) + 1] \in Messages
  BY <1>1, ElementOfSeq DEF TypeInv, FramingTypeOK
<1>3. /\ Len(delivered') = Len(delivered) + 1
      /\ DOMAIN delivered' = 1 .. Len(delivered')
      /\ \A i \in 1 .. Len(delivered) : delivered'[i] = delivered[i]
      /\ delivered'[Len(delivered) + 1] = sent[Len(delivered) + 1]
  BY <1>1, <1>2, AppendProperties, LenProperties
<1> QED
  BY <1>1, <1>3 DEF ReceivedAsSent

LEMMA ReaderStepInv ==
  ASSUME FramingInv, TypeInv', Reader', ReceivedAsSent', UNCHANGED senderVars
  PROVE  FramingInv'
<1>1. UNCHANGED <<sent, written, total, sender>>
  BY DEF senderVars
<1>2. Layout' /\ Writer'
  BY <1>1, EndOfUnchanged DEF FramingInv, Layout, Writer, Last
<1> QED
  BY <1>2 DEF FramingInv

(* A header without payload is a message, any other begins one. *)
LEMMA RecvHeaderReturns ==
  ASSUME FramingInv, HeadersWhole, RecvHeader
  PROVE  LET next == Len(delivered) + 1 IN
         /\ next \in 1 .. Len(sent) /\ UNCHANGED senderVars
         /\ \/ /\ header'.size = 0 /\ receiver' = "header" /\ read' = sent[next].to
               /\ delivered' = Append(delivered, sent[next])
            \/ /\ header'.size # 0 /\ receiver' = "body"
               /\ UNCHANGED delivered
<1> DEFINE next == Len(delivered) + 1
<1>1. /\ Len(delivered) < Len(sent) /\ read' = sent[next].from
      /\ header' = sent[next].header
  BY NextHeader
<1>2. /\ next \in 1 .. Len(sent)
      /\ sent[next].to = sent[next].from + sent[next].header.size
      /\ sent[next] = Message(sent[next].header, sent[next].from, sent[next].to)
  BY <1>1, NextMessage
<1>3. CASE header'.size = 0
  <2>1. sent[next].to = read'
    BY <1>1, <1>2, <1>3, SentHeader DEF FramingInv, TypeInv, FramingTypeOK
  <2>2. Return(header', read') /\ receiver' = "header" /\ UNCHANGED senderVars
    BY <1>3 DEF RecvHeader
  <2>3. delivered' = Append(delivered, sent[next])
    BY <1>1, <1>2, <2>1, <2>2 DEF Return
  <2> QED
    BY <1>2, <1>3, <2>1, <2>2, <2>3
<1>4. CASE header'.size # 0
  BY <1>2, <1>4 DEF RecvHeader
<1> QED
  BY <1>3, <1>4

LEMMA RecvHeaderInv ==
  ASSUME FramingInv, HeadersWhole, RecvHeader
  PROVE  FramingInv'
<1> DEFINE next == Len(delivered) + 1
<1>1. TypeInv' /\ recv_size' = 0
  BY RecvHeaderTypes DEF FramingInv, RecvHeader
<1>2. /\ Len(delivered) < Len(sent) /\ read' = sent[next].from
      /\ header' = sent[next].header /\ header'.size \in Nat
  BY NextHeader, <1>1, HeadersAreSized DEF TypeInv, FramingTypeOK
<1>3. /\ next \in 1 .. Len(sent) /\ EndOf(next) = sent[next].to
      /\ sent[next].from = EndOf(Len(delivered)) + HeaderSize
      /\ Len(delivered) \in Nat /\ EndOf(Len(delivered)) \in Nat
  BY <1>2, NextMessage, EndOfIsNat, LenProperties DEF FramingInv, TypeInv, FramingTypeOK
<1>4. UNCHANGED senderVars /\ UNCHANGED sent
  BY DEF RecvHeader, senderVars
<1>5. \A k : EndOf(k)' = EndOf(k)
  BY <1>4, EndOfUnchanged
<1>6. CASE header'.size = 0
  <2>1. /\ receiver' = "header" /\ read' = sent[next].to
        /\ delivered' = Append(delivered, sent[next])
    BY <1>6, RecvHeaderReturns
  <2>2. ReceivedAsSent' /\ Len(delivered') = next
    BY <1>2, <1>4, <2>1, DeliveredGrows DEF FramingInv
  <2>3. EndOf(Len(delivered))' = read'
    BY <1>3, <1>4, <2>1, <2>2 DEF EndOf
  <2>4. Len(delivered') <= Len(sent')
    BY <1>3, <1>4, <2>2
  <2>5. Reader'
    BY <1>1, <2>1, <2>3, <2>4 DEF Reader, TypeInv, FramingTypeOK
  <2> QED
    BY <1>1, <1>4, <2>2, <2>5, ReaderStepInv
<1>7. CASE header'.size # 0
  <2>1. receiver' = "body" /\ UNCHANGED delivered
    BY <1>7, RecvHeaderReturns
  <2>2. ReceivedAsSent'
    BY <1>4, <2>1 DEF FramingInv, ReceivedAsSent
  <2>3. EndOf(Len(delivered))' <= read'
    <3>1. EndOf(Len(delivered))' = EndOf(Len(delivered))
      BY <1>4, <2>1 DEF EndOf
    <3> QED
      BY <1>2, <1>3, <3>1, FramingAssumption
  <2>4. /\ Len(delivered') + 1 <= Len(sent') /\ Len(delivered') <= Len(sent')
        /\ header' = sent'[Len(delivered') + 1]. header
        /\ read' = sent'[Len(delivered') + 1].from + 0
    BY <1>1, <1>2, <1>3, <1>4, <2>1, SentHeader DEF FramingInv, TypeInv, FramingTypeOK
  <2>5. 0 < header'.size
    BY <1>2, <1>7
  <2>6. Reader'
    BY <1>1, <2>1, <2>3, <2>4, <2>5 DEF Reader
  <2> QED
    BY <1>1, <1>4, <2>2, <2>6, ReaderStepInv
<1> QED
  BY <1>6, <1>7

(* The last part of a payload completes a message. *)
LEMMA RecvBodyReturns ==
  ASSUME FramingInv, RecvBody
  PROVE  LET next == Len(delivered) + 1 IN
         /\ next \in 1 .. Len(sent) /\ UNCHANGED <<senderVars, header>>
         /\ header = sent[next].header /\ read' = sent[next].from + recv_size'
         /\ recv_size' <= header.size /\ read' <= written
         /\ \/ /\ recv_size' = header.size /\ receiver' = "header" /\ read' = sent[next].to
               /\ delivered' = Append(delivered, sent[next])
            \/ /\ recv_size' # header.size /\ receiver' = "body"
               /\ UNCHANGED delivered
<1> DEFINE next == Len(delivered) + 1
<1>1. PICK n \in BodyParts : read' = read + n /\ recv_size' = recv_size + n
  BY DEF RecvBody
<1>2. /\ next <= Len(sent) /\ header = sent[next].header
      /\ read = sent[next].from + recv_size /\ Len(delivered) < Len(sent)
  BY LenProperties DEF RecvBody, FramingInv, Reader, TypeInv, FramingTypeOK
<1>3. /\ next \in 1 .. Len(sent)
      /\ sent[next].to = sent[next].from + sent[next].header.size
      /\ sent[next] = Message(sent[next].header, sent[next].from, sent[next].to)
  BY <1>2, NextMessage
<1>4. /\ sent[next].from \in Nat /\ header.size \in Nat /\ recv_size \in Nat
      /\ read \in Nat /\ written \in Nat
  BY <1>2, <1>3, SentHeader DEF FramingInv, TypeInv, FramingTypeOK
<1>5. /\ n \in Nat /\ recv_size' <= header.size /\ read' <= written
      /\ read' = sent[next].from + recv_size' /\ read' - recv_size' = sent[next].from
  <2> HIDE DEF next
  <2>1. n \in Nat /\ n <= header.size - recv_size /\ n <= written - read
    BY <1>1, <1>4 DEF BodyParts
  <2>2. recv_size' <= header.size /\ read' <= written
    BY <1>1, <1>4, <2>1
  <2>3. read' = sent[next].from + recv_size' /\ recv_size' \in Nat
    <3>1. recv_size' \in Nat
      BY <1>1, <1>4, <2>1
    <3>2. /\ read' = read + n /\ read = sent[next].from + recv_size
          /\ recv_size' = recv_size + n
      BY <1>1, <1>2
    <3> DEFINE from == sent[next].from
    <3>3. from \in Nat /\ read = from + recv_size
      BY <1>4, <3>2
    <3> HIDE DEF from
    <3>4. read' = from + recv_size'
      BY <1>4, <2>1, <3>2, <3>3
    <3> QED
      BY <3>1, <3>4 DEF from
  <2>4. read' - recv_size' = sent[next].from
    BY <1>4, <2>3
  <2> QED
    BY <2>1, <2>2, <2>3, <2>4
<1>6. UNCHANGED <<senderVars, header>>
  BY DEF RecvBody
<1>7. CASE recv_size' = header.size
  <2>1. receiver' = "header" /\ Return(header, read' - recv_size')
    BY <1>7 DEF RecvBody
  <2>2. read' = sent[next].to
    BY <1>2, <1>3, <1>5, <1>7
  <2>3. delivered' = Append(delivered, sent[next])
    BY <1>2, <1>3, <1>5, <2>1, <2>2 DEF Return
  <2> QED
    BY <1>2, <1>3, <1>5, <1>6, <1>7, <2>1, <2>2, <2>3
<1>8. CASE recv_size' # header.size
  <2>1. receiver' = "body" /\ UNCHANGED delivered
    BY <1>8 DEF RecvBody
  <2> QED
    BY <1>2, <1>3, <1>5, <1>6, <1>8, <2>1
<1> QED
  BY <1>7, <1>8

LEMMA RecvBodyInv ==
  ASSUME FramingInv, RecvBody
  PROVE  FramingInv'
<1> DEFINE next == Len(delivered) + 1
<1>1. /\ next \in 1 .. Len(sent) /\ UNCHANGED <<senderVars, header>> /\ UNCHANGED sent
      /\ header = sent[next].header /\ read' = sent[next].from + recv_size'
      /\ recv_size' <= header.size
  BY RecvBodyReturns DEF senderVars
<1>2. TypeInv'
  BY RecvBodyTypes DEF FramingInv
<1>3. /\ Len(delivered) \in Nat /\ Len(sent) \in Nat /\ Len(delivered) < Len(sent)
      /\ recv_size' \in Nat /\ header.size \in Nat
  BY <1>1, <1>2, LenProperties, HeadersAreSized DEF FramingInv, TypeInv, FramingTypeOK
<1>4. /\ EndOf(next) = sent[next].to /\ sent[next].from \in Nat
      /\ sent[next].from = EndOf(Len(delivered)) + HeaderSize
      /\ EndOf(Len(delivered)) \in Nat
  BY <1>1, <1>3, NextMessage, EndOfIsNat, SentHeader DEF FramingInv, TypeInv, FramingTypeOK
<1>5. CASE receiver' = "header"
  <2>1. read' = sent[next].to /\ delivered' = Append(delivered, sent[next])
    BY <1>5, RecvBodyReturns
  <2>2. ReceivedAsSent' /\ Len(delivered') = next
    BY <1>1, <1>3, <2>1, DeliveredGrows DEF FramingInv
  <2>3. EndOf(Len(delivered))' = read'
    BY <1>1, <1>3, <2>1, <2>2 DEF EndOf
  <2>4. Len(delivered') <= Len(sent')
    BY <1>1, <2>2
  <2>5. Reader'
    BY <1>2, <1>5, <2>3, <2>4 DEF Reader, TypeInv, FramingTypeOK
  <2> QED
    BY <1>1, <1>2, <2>2, <2>5, ReaderStepInv
<1>6. CASE receiver' = "body"
  <2>1. recv_size' # header.size /\ UNCHANGED delivered
    BY <1>6, RecvBodyReturns
  <2>2. ReceivedAsSent'
    BY <1>1, <2>1 DEF FramingInv, ReceivedAsSent
  <2>3. EndOf(Len(delivered))' <= read'
    <3>1. EndOf(Len(delivered))' = EndOf(Len(delivered))
      BY <1>1, <2>1 DEF EndOf
    <3> QED
      BY <1>1, <1>3, <1>4, <3>1, FramingAssumption
  <2>4. /\ Len(delivered') + 1 <= Len(sent') /\ Len(delivered') <= Len(sent')
        /\ header' = sent'[Len(delivered') + 1].header
        /\ read' = sent'[Len(delivered') + 1].from + recv_size'
        /\ recv_size' < header'.size
    BY <1>1, <1>3, <2>1
  <2>5. Reader'
    BY <1>6, <2>3, <2>4 DEF Reader
  <2> QED
    BY <1>1, <1>2, <2>2, <2>5, ReaderStepInv
<1> QED
  BY <1>5, <1>6, RecvBodyReturns

LEMMA FramingInitInv == FramingInit => FramingInv
<1> SUFFICES ASSUME FramingInit PROVE FramingInv
  OBVIOUS
<1>1. TypeInv
  BY FramingInitTypes
<1>2. sent = << >> /\ delivered = << >> /\ Len(sent) = 0 /\ Len(delivered) = 0
  BY EmptySeq DEF FramingInit
<1> QED
  BY <1>1, <1>2 DEF FramingInit, FramingInv, Layout, Writer, Reader, ReceivedAsSent, EndOf

LEMMA FramingStepInv ==
  ASSUME HeadersWhole, FramingInv, [FramingNext]_vars
  PROVE  FramingInv'
<1>1. CASE UNCHANGED vars
  <2>1. UNCHANGED <<sent, written, total, sender, read, header, recv_size, receiver, delivered>>
    BY <1>1 DEF vars, senderVars, receiverVars
  <2>2. TypeInv'
    BY <1>1, FramingStepTypes DEF FramingInv
  <2>3. Reader' /\ ReceivedAsSent'
    BY <2>1, EndOfUnchanged DEF FramingInv, Reader, ReceivedAsSent
  <2> QED
    BY <2>1, <2>2, <2>3, ReaderStepInv DEF senderVars
<1>2. CASE RecvEnd
  <2>1. /\ UNCHANGED <<senderVars, sent, read, header, recv_size, delivered>>
        /\ receiver' = "failed" /\ sender' = "down"
    BY <1>2 DEF RecvEnd, senderVars
  <2>2. TypeInv'
    BY <1>2, FramingStepTypes DEF FramingInv, FramingNext, ReceiverStep
  <2>3. Reader' /\ ReceivedAsSent'
    BY <2>1, EndOfUnchanged DEF FramingInv, Reader, ReceivedAsSent
  <2> QED
    BY <2>1, <2>2, <2>3, ReaderStepInv
<1>3. CASE \E h \in Headers : SendHeader(h)
  <2>1. PICK h \in Headers : SendHeader(h)
    BY <1>3
  <2> QED
    BY <2>1, SendHeaderTypes, SendHeaderLayout, SendHeaderReader DEF FramingInv
<1> QED
  BY <1>1, <1>2, <1>3, SendBodyInv, SenderEndsInv, RecvHeaderInv, RecvBodyInv
     DEF FramingNext, SenderStep, ReceiverStep

(* For any sizes and numbers of messages, wherever the system's calls cut  *)
(* payloads, and whatever is lost with the sender: if headers arrive in    *)
(* one piece, recv returns the messages as they were sent                  *)
(* (messageHelper.cpp:143-186).                                            *)
THEOREM ReceivedIsSent == ASSUME HeadersWhole PROVE FramingSpec => []ReceivedAsSent
<1>1. FramingInv => ReceivedAsSent
  BY DEF FramingInv
<1> QED
  BY FramingInitInv, FramingStepInv, <1>1, PTL DEF FramingSpec
-----------------------------------------------------------------------------
(* The bytes as messages: Arriving is the last message that will arrive.   *)
ArrivingIsLast ==
  /\ Arriving \in 0 .. Len(sent) /\ Len(delivered) <= Arriving
  /\ \A i \in 1 .. Len(sent) : Arrives(i) <=> i <= Arriving

(* If a message arrives, so do those before it. *)
LEMMA ArrivesInOrder ==
  ASSUME FramingInv, NEW i \in 1 .. Len(sent), NEW j \in 1 .. Len(sent), i <= j, Arrives(j)
  PROVE  Arrives(i)
<1>1. EndOf(i) <= EndOf(j) /\ EndOf(i) = sent[i].to /\ EndOf(j) = sent[j].to
  BY DEF FramingInv, Layout, EndOf
<1>2. sent[i].to \in Nat /\ sent[j].to \in Nat /\ written \in Nat
  BY SentHeader DEF FramingInv, TypeInv, FramingTypeOK
<1> QED
  BY <1>1, <1>2 DEF Arrives

LEMMA LastArrivingExists ==
  ASSUME FramingInv
  PROVE  \E n \in 0 .. Len(sent) : \A i \in 1 .. Len(sent) : Arrives(i) <=> i <= n
<1>1. Len(sent) \in Nat
  BY LenProperties DEF FramingInv, TypeInv, FramingTypeOK
<1> DEFINE Lost == {i \in 1 .. Len(sent) : ~Arrives(i)}
<1>2. CASE Lost = {}
  <2>1. \A i \in 1 .. Len(sent) : Arrives(i) <=> i <= Len(sent)
    BY <1>2
  <2>2. Len(sent) \in 0 .. Len(sent)
    BY <1>1
  <2> QED
    BY <2>1, <2>2
<1>3. CASE Lost # {}
  <2> DEFINE Less == OpToRel(<, Nat)
  <2>1. Lost \subseteq Nat
    BY <1>1
  <2>0. IsWellFoundedOn(Less, Nat)
    BY NatLessThanWellFounded
  <2>2. PICK first \in Lost : \A i \in Lost : ~ (<<i, first>> \in Less)
    <3> HIDE DEF Less, Lost
    <3> QED
      BY <1>3, <2>0, <2>1, WFMin
  <2>3. \A i \in Lost : ~ (i < first)
    BY <2>1, <2>2 DEF OpToRel
  <2>4. \A i \in 1 .. Len(sent) : Arrives(i) <=> i <= first - 1
    BY <1>1, <2>3, ArrivesInOrder
  <2>5. first - 1 \in 0 .. Len(sent)
    BY <1>1
  <2> QED
    BY <2>4, <2>5
<1> QED
  BY <1>2, <1>3

(* What recv has read whole has arrived. *)
LEMMA DeliveredArrives ==
  ASSUME FramingInv, NEW i \in 1 .. Len(delivered)
  PROVE  i \in 1 .. Len(sent) /\ Arrives(i)
<1> DEFINE d == Len(delivered)
<1>1. d \in Nat /\ Len(sent) \in Nat /\ d <= Len(sent)
  BY LenProperties DEF FramingInv, Reader, TypeInv, FramingTypeOK
<1>2. d \in 1 .. Len(sent) /\ i \in 1 .. Len(sent) /\ i <= d
  BY <1>1
<1>3. EndOf(d) = sent[d].to /\ EndOf(d) <= read
  BY <1>2 DEF FramingInv, Reader, EndOf
<1>4. sent[d].to \in Nat /\ read \in 0 .. written /\ written \in Nat
  BY <1>2, SentHeader DEF FramingInv, TypeInv, FramingTypeOK
<1>5. Arrives(d)
  BY <1>3, <1>4 DEF Arrives
<1> QED
  BY <1>2, <1>5, ArrivesInOrder

LEMMA LastArriving == FramingInv => ArrivingIsLast
<1> SUFFICES ASSUME FramingInv PROVE ArrivingIsLast
  OBVIOUS
<1>1. Arriving \in 0 .. Len(sent) /\ \A i \in 1 .. Len(sent) : Arrives(i) <=> i <= Arriving
  BY LastArrivingExists DEF Arriving
<1>2. Len(delivered) \in Nat /\ Len(sent) \in Nat
  BY LenProperties DEF FramingInv, TypeInv, FramingTypeOK
<1>3. Len(delivered) # 0 => Len(delivered) <= Arriving
  <2>1. Len(delivered) # 0 => Len(delivered) \in 1 .. Len(delivered)
    BY <1>2
  <2> QED
    BY <1>1, <2>1, DeliveredArrives
<1> QED
  BY <1>1, <1>2, <1>3 DEF ArrivingIsLast

OnTheWay == SubSeq(sent, Len(delivered) + 1, Arriving)

OnTheWayIsRest ==
  /\ OnTheWay \in Seq(Messages)
  /\ Len(OnTheWay) = Arriving - Len(delivered)
  /\ \A i \in 1 .. Arriving - Len(delivered) : OnTheWay[i] = sent[Len(delivered) + i]

LEMMA RestIsOnTheWay == FramingInv => OnTheWayIsRest
<1> SUFFICES ASSUME FramingInv PROVE OnTheWayIsRest
  OBVIOUS
<1>1. /\ Arriving \in 0 .. Len(sent) /\ Len(delivered) <= Arriving
      /\ Len(delivered) \in Nat /\ Len(sent) \in Nat
  BY LastArriving, LenProperties DEF ArrivingIsLast, FramingInv, TypeInv, FramingTypeOK
<1>2. \A i \in Len(delivered) + 1 .. Arriving : sent[i] \in Messages
  BY <1>1, ElementOfSeq DEF FramingInv, TypeInv, FramingTypeOK
<1>3. Len(delivered) + 1 \in Int /\ Arriving \in Int
  BY <1>1
<1> HIDE DEF Arriving
<1>4. /\ OnTheWay \in Seq(Messages)
      /\ Len(OnTheWay) = IF Len(delivered) + 1 <= Arriving
                         THEN Arriving - (Len(delivered) + 1) + 1 ELSE 0
      /\ \A i \in 1 .. Arriving - (Len(delivered) + 1) + 1 :
           OnTheWay[i] = sent[(Len(delivered) + 1) + i - 1]
  BY <1>2, <1>3, SubSeqProperties DEF OnTheWay
<1>5. Len(delivered) + 1 <= Arriving <=> Arriving # Len(delivered)
  BY <1>1
<1>6. Arriving - (Len(delivered) + 1) + 1 = Arriving - Len(delivered)
  BY <1>1
<1>7. \A i \in 1 .. Arriving - Len(delivered) :
        (Len(delivered) + 1) + i - 1 = Len(delivered) + i
  BY <1>1
<1>8. Len(OnTheWay) = Arriving - Len(delivered)
  BY <1>1, <1>4, <1>5, <1>6
<1>9. ASSUME NEW i \in 1 .. Arriving - Len(delivered)
      PROVE  OnTheWay[i] = sent[Len(delivered) + i]
  <2>1. i \in 1 .. Arriving - (Len(delivered) + 1) + 1
    BY <1>6
  <2>2. OnTheWay[i] = sent[(Len(delivered) + 1) + i - 1]
    BY <1>4, <2>1
  <2> QED
    BY <1>7, <2>2
<1> QED
  BY <1>4, <1>8, <1>9 DEF OnTheWayIsRest

QueueFacts ==
  /\ ArrivingIsLast /\ OnTheWayIsRest
  /\ Len(delivered) \in Nat /\ Len(sent) \in Nat /\ sent \in Seq(Messages)

LEMMA QueueKnown == FramingInv => QueueFacts
BY LastArriving, RestIsOnTheWay, LenProperties
   DEF QueueFacts, FramingInv, TypeInv, FramingTypeOK

LEMMA QueueKnownNext == FramingInv' => QueueFacts'
BY QueueKnown, PTL

(* While the sender lives, everything arrives. *)
LEMMA AllArrive ==
  ASSUME FramingInv, sender # "down"
  PROVE  Arriving = Len(sent)
<1>1. \A i \in 1 .. Len(sent) : Arrives(i)
  BY DEF Arrives
<1> QED
  BY <1>1, QueueKnown DEF QueueFacts, ArrivingIsLast

LEMMA AllArriveNext ==
  ASSUME FramingInv', sender' # "down"
  PROVE  Arriving' = Len(sent')
<1>1. \A i \in 1 .. Len(sent') : Arrives(i)'
  BY DEF Arrives
<1> QED
  BY <1>1, QueueKnownNext DEF QueueFacts, ArrivingIsLast

LEMMA SameArriving ==
  ASSUME FramingInv, FramingInv', UNCHANGED sent,
         \A i \in 1 .. Len(sent) : Arrives(i)' <=> Arrives(i)
  PROVE  Arriving' = Arriving
<1>1. /\ Len(sent) \in Nat /\ Arriving \in 0 .. Len(sent) /\ Arriving' \in 0 .. Len(sent)
      /\ \A i \in 1 .. Len(sent) : i <= Arriving' <=> i <= Arriving
  BY QueueKnown, QueueKnownNext DEF QueueFacts, ArrivingIsLast
<1> QED
  BY <1>1

(* A step between messages. *)
LEMMA BytesAreNotSeen ==
  ASSUME FramingInv, FramingInv', UNCHANGED <<sent, delivered>>,
         \A i \in 1 .. Len(sent) : Arrives(i)' <=> Arrives(i),
         sender' = "down" <=> sender = "down",
         receiver' = "failed" <=> receiver = "failed"
  PROVE  UNCHANGED Queue!vars
<1>1. Arriving' = Arriving
  BY SameArriving
<1> HIDE DEF Arriving
<1> QED
  BY <1>1 DEF Queue!vars

LEMMA SendIsSeen ==
  ASSUME FramingInv, FramingInv', NEW h \in Headers, SendHeader(h)
  PROVE  Queue!Send
<1>1. /\ sender # "down" /\ sender' # "down"
      /\ UNCHANGED <<receiver, delivered>>
  BY DEF SendHeader, receiverVars
<1>2. /\ Len(sent') = Len(sent) + 1
      /\ \A i \in 1 .. Len(sent) : sent'[i] = sent[i]
  <2>1. Message(h, written', written' + h.size) \in Messages
    BY MessageIsMessage, HeadersAreSized, FramingAssumption
       DEF SendHeader, FramingInv, TypeInv, FramingTypeOK
  <2> QED
    BY <2>1, SentGrows DEF SendHeader, FramingInv, TypeInv, FramingTypeOK
<1>3. Arriving = Len(sent) /\ Arriving' = Len(sent) + 1
  BY <1>1, <1>2, AllArrive, AllArriveNext
<1>4. /\ Len(sent) \in Nat /\ Len(delivered) \in Nat /\ Len(delivered) <= Len(sent)
  BY <1>3, QueueKnown DEF QueueFacts, ArrivingIsLast
<1> DEFINE n == Len(sent) - Len(delivered)
<1>5. /\ OnTheWay \in Seq(Messages) /\ Len(OnTheWay) = n
      /\ \A i \in 1 .. n : OnTheWay[i] = sent[Len(delivered) + i]
  BY <1>3, QueueKnown DEF QueueFacts, OnTheWayIsRest
<1>6. /\ OnTheWay' \in Seq(Messages) /\ Len(OnTheWay') = n + 1 /\ n \in Nat
      /\ \A i \in 1 .. n : OnTheWay'[i] = OnTheWay[i]
  <2>1. /\ OnTheWay' \in Seq(Messages) /\ Len(OnTheWay') = Len(sent) + 1 - Len(delivered)
        /\ \A i \in 1 .. Len(sent) + 1 - Len(delivered) :
             OnTheWay'[i] = sent'[Len(delivered) + i]
    BY <1>1, <1>3, QueueKnownNext DEF QueueFacts, OnTheWayIsRest
  <2>2. \A i \in 1 .. n : /\ i \in 1 .. Len(sent) + 1 - Len(delivered)
                          /\ Len(delivered) + i \in 1 .. Len(sent)
    BY <1>4
  <2>3. Len(sent) + 1 - Len(delivered) = n + 1 /\ n \in Nat
    BY <1>4
  <2> QED
    BY <1>2, <1>5, <2>1, <2>2, <2>3
<1> HIDE DEF n
<1>7. OnTheWay' # << >> /\ OnTheWay'[n + 1] \in Messages
  <2>1. n + 1 \in 1 .. Len(OnTheWay')
    BY <1>6
  <2> QED
    BY <1>6, <2>1, ElementOfSeq, EmptySeq
<1>8. OnTheWay = SubSeq(OnTheWay', 1, n)
  <2>1. \A i \in 1 .. n : OnTheWay'[i] \in Messages
    BY <1>5, <1>6, ElementOfSeq
  <2>2. /\ SubSeq(OnTheWay', 1, n) \in Seq(Messages)
        /\ Len(SubSeq(OnTheWay', 1, n)) = IF 1 <= n THEN n - 1 + 1 ELSE 0
        /\ \A i \in 1 .. n - 1 + 1 : SubSeq(OnTheWay', 1, n)[i] = OnTheWay'[1 + i - 1]
    BY <1>6, <2>1, SubSeqProperties
  <2>3. /\ Len(SubSeq(OnTheWay', 1, n)) = n
        /\ \A i \in 1 .. n : SubSeq(OnTheWay', 1, n)[i] = OnTheWay'[i]
    BY <1>6, <2>2
  <2> QED
    BY <1>5, <1>6, <2>2, <2>3, SeqEqual
<1>9. Len(OnTheWay') - 1 = n
  BY <1>6
<1> HIDE DEF Arriving
<1> QED
  BY <1>1, <1>6, <1>7, <1>8, <1>9 DEF Queue!Send, OnTheWay

LEMMA EndIsSeen ==
  ASSUME FramingInv, FramingInv', SenderEnds
  PROVE  Queue!SenderEnds
<1>1. /\ sender # "down" /\ sender' = "down"
      /\ UNCHANGED <<sent, receiver, delivered>>
  BY DEF SenderEnds, receiverVars
<1>2. /\ Arriving = Len(sent) /\ Len(sent) \in Nat /\ Len(delivered) \in Nat
      /\ Arriving' \in 0 .. Len(sent) /\ Len(delivered) <= Arriving'
  BY <1>1, AllArrive, QueueKnown, QueueKnownNext DEF QueueFacts, ArrivingIsLast
<1> DEFINE n == Arriving' - Len(delivered)
<1>3. /\ OnTheWay \in Seq(Messages) /\ Len(OnTheWay) = Len(sent) - Len(delivered)
      /\ \A i \in 1 .. Len(sent) - Len(delivered) : OnTheWay[i] = sent[Len(delivered) + i]
  BY <1>2, QueueKnown DEF QueueFacts, OnTheWayIsRest
<1>4. /\ OnTheWay' \in Seq(Messages) /\ Len(OnTheWay') = n
      /\ \A i \in 1 .. n : OnTheWay'[i] = sent[Len(delivered) + i]
  BY <1>1, QueueKnownNext DEF QueueFacts, OnTheWayIsRest
<1>5. n \in 0 .. Len(OnTheWay) /\ n \in Nat
  BY <1>2, <1>3
<1>6. \A i \in 1 .. n : /\ OnTheWay'[i] = OnTheWay[i]
                        /\ OnTheWay[i] \in Messages
  <2>1. \A i \in 1 .. n : i \in 1 .. Len(sent) - Len(delivered)
    BY <1>2
  <2> HIDE DEF n
  <2> QED
    BY <1>3, <1>4, <2>1, ElementOfSeq
<1> HIDE DEF n
<1>7. OnTheWay' = SubSeq(OnTheWay, 1, n)
  <2>1. /\ SubSeq(OnTheWay, 1, n) \in Seq(Messages)
        /\ Len(SubSeq(OnTheWay, 1, n)) = IF 1 <= n THEN n - 1 + 1 ELSE 0
        /\ \A i \in 1 .. n - 1 + 1 : SubSeq(OnTheWay, 1, n)[i] = OnTheWay[1 + i - 1]
    BY <1>5, <1>6, SubSeqProperties
  <2>2. /\ Len(SubSeq(OnTheWay, 1, n)) = n
        /\ \A i \in 1 .. n : SubSeq(OnTheWay, 1, n)[i] = OnTheWay[i]
    BY <1>5, <2>1
  <2> QED
    BY <1>4, <1>5, <1>6, <2>1, <2>2, SeqEqual
<1> HIDE DEF Arriving
<1> QED
  BY <1>1, <1>5, <1>7 DEF Queue!SenderEnds, OnTheWay

LEMMA ReturnIsSeen ==
  ASSUME FramingInv, FramingInv', UNCHANGED <<sent, written, sender>>,
         receiver # "failed", receiver' # "failed",
         delivered' = Append(delivered, sent[Len(delivered) + 1]),
         Len(delivered) < Len(sent)
  PROVE  Queue!Receive
<1> DEFINE next == Len(delivered) + 1
<1>1. Len(delivered') = next
  BY DeliveredGrows DEF FramingInv
<1>2. Arriving' = Arriving
  BY SameArriving DEF Arrives
<1>3. /\ Len(sent) \in Nat /\ Len(delivered) \in Nat /\ sent \in Seq(Messages)
      /\ Arriving \in 0 .. Len(sent) /\ next <= Arriving
  BY <1>1, <1>2, QueueKnown, QueueKnownNext DEF QueueFacts, ArrivingIsLast
<1>4. next \in 1 .. Len(sent) /\ Arriving \in next .. Len(sent)
  BY <1>3
<1> HIDE DEF next
<1>5. /\ Head(SubSeq(sent, next, Arriving)) = sent[next]
      /\ Tail(SubSeq(sent, next, Arriving)) = SubSeq(sent, next + 1, Arriving)
  BY <1>3, <1>4, HeadTailOfSubSeq
<1>6. OnTheWay # << >>
  <2>1. Len(OnTheWay) # 0
    BY <1>3, QueueKnown DEF QueueFacts, OnTheWayIsRest, next
  <2> QED
    BY <2>1
<1>7. OnTheWay = SubSeq(sent, next, Arriving) /\ OnTheWay' = SubSeq(sent, next + 1, Arriving)
  BY <1>1, <1>2 DEF OnTheWay, next
<1> HIDE DEF Arriving
<1> QED
  BY <1>5, <1>6, <1>7 DEF Queue!Receive, OnTheWay, next

(* Only a sender that has ended, and whose messages have all been read. *)
LEMMA RecvEndIsSeen ==
  ASSUME FramingInv, FramingInv', HeadersWhole, RecvEnd
  PROVE  Queue!ReportEnd
<1>1. /\ sender = "down" /\ receiver' = "failed" /\ receiver # "failed"
      /\ UNCHANGED <<sent, written, sender, delivered>>
  BY DEF RecvEnd, senderVars
<1>2. Arriving' = Arriving
  BY <1>1, SameArriving DEF Arrives
<1>3. /\ Len(sent) \in Nat /\ Len(delivered) \in Nat /\ Arriving \in 0 .. Len(sent)
      /\ Len(delivered) <= Arriving
  BY QueueKnown DEF QueueFacts, ArrivingIsLast
<1>4. Arriving = Len(delivered)
  <2> SUFFICES ASSUME Arriving # Len(delivered) PROVE FALSE
    OBVIOUS
  <2> DEFINE next == Len(delivered) + 1
  <2>1. next \in 1 .. Len(sent) /\ next <= Arriving /\ Len(delivered) < Len(sent)
    BY <1>3
  <2>2. sent[next].to <= written
    BY <1>1, <2>1, QueueKnown DEF QueueFacts, ArrivingIsLast, Arrives
  <2>3. /\ sent[next].from = EndOf(Len(delivered)) + HeaderSize
        /\ sent[next].to = sent[next].from + sent[next].header.size
    BY <2>1, NextMessage
  <2> HIDE DEF next
  <2>4. /\ sent[next].from \in Nat /\ sent[next].header.size \in Nat
        /\ read \in Nat /\ written \in Nat /\ HeaderSize \in Nat \ {0}
        /\ recv_size \in Nat /\ EndOf(Len(delivered)) \in Nat
    <3>1. /\ sent \in Seq(Messages) /\ read \in 0 .. written /\ written \in Nat
          /\ header \in Headers /\ recv_size \in 0 .. header.size
      BY DEF FramingInv, TypeInv, FramingTypeOK
    <3>2. read \in Nat /\ recv_size \in Nat
      BY <3>1, HeadersAreSized
    <3>3. Len(delivered) \in 0 .. Len(sent)
      BY <1>3
    <3> QED
      BY <2>1, <3>1, <3>2, <3>3, SentHeader, EndOfIsNat, FramingAssumption
  <2>5. CASE receiver = "header" /\ HeaderParts = {}
    <3>1. read = EndOf(Len(delivered))
      BY <2>5 DEF FramingInv, Reader
    <3>2. HeaderSize <= written - read
      <4>1. sent[next].from <= written
        BY <2>2, <2>3, <2>4
      <4>2. sent[next].from = read + HeaderSize
        BY <2>3, <3>1
      <4> QED
        BY <2>4, <4>1, <4>2
    <3>3. HeaderSize \in HeaderParts
      BY <2>4, <3>2 DEF HeaderParts
    <3> QED
      BY <2>5, <3>3
  <2>6. CASE receiver = "body" /\ BodyParts = {}
    <3>1. /\ header = sent[next].header /\ recv_size < header.size
          /\ read = sent[next].from + recv_size
      BY <2>6 DEF FramingInv, Reader, next
    <3>2. recv_size + 1 <= header.size /\ header.size \in Nat
      BY <2>4, <3>1
    <3>3. sent[next].from + header.size <= written
      BY <2>2, <2>3, <3>1
    <3>4. 1 <= written - read
      <4> DEFINE from == sent[next].from
                 size == header.size
      <4>1. /\ from \in Nat /\ size \in Nat /\ recv_size \in Nat
            /\ read = from + recv_size /\ recv_size + 1 <= size
        BY <2>4, <3>1, <3>2
      <4>2. from + size <= written
        BY <3>3
      <4> HIDE DEF from, size
      <4>3. read + 1 <= from + size
        BY <4>1
      <4> QED
        BY <2>4, <4>1, <4>2, <4>3
    <3>5. 1 \in 1 .. header.size - recv_size
      BY <2>4, <3>2
    <3>6. 1 \in BodyParts
      BY <3>4, <3>5 DEF BodyParts
    <3> QED
      BY <2>6, <3>6
  <2> QED
    BY <2>5, <2>6 DEF RecvEnd
<1>5. OnTheWay = << >>
  <2>1. OnTheWay \in Seq(Messages) /\ Len(OnTheWay) = 0
    BY <1>3, <1>4, QueueKnown DEF QueueFacts, OnTheWayIsRest
  <2> QED
    BY <2>1
<1> HIDE DEF Arriving
<1> QED
  BY <1>1, <1>2, <1>5 DEF Queue!ReportEnd, OnTheWay

LEMMA FramingInitIsSeen == FramingInit => Queue!Init
<1> SUFFICES ASSUME FramingInit PROVE Queue!Init
  OBVIOUS
<1>1. FramingInv
  BY FramingInitInv
<1>2. /\ sent = << >> /\ delivered = << >> /\ Len(sent) = 0 /\ Len(delivered) = 0
      /\ sender = "idle" /\ receiver = "header"
  BY EmptySeq DEF FramingInit
<1>3. Arriving = 0
  BY <1>1, <1>2, QueueKnown DEF QueueFacts, ArrivingIsLast
<1>4. OnTheWay = << >>
  <2>1. OnTheWay \in Seq(Messages) /\ Len(OnTheWay) = 0
    BY <1>1, <1>2, <1>3, QueueKnown DEF QueueFacts, OnTheWayIsRest
  <2> QED
    BY <2>1
<1> HIDE DEF Arriving
<1> QED
  BY <1>2, <1>4 DEF Queue!Init, OnTheWay

LEMMA FramingStepIsSeen ==
  ASSUME HeadersWhole, FramingInv, FramingInv', [FramingNext]_vars
  PROVE  [Queue!Next]_(Queue!vars)
<1>1. CASE UNCHANGED vars
  BY <1>1, BytesAreNotSeen DEF vars, senderVars, receiverVars, Arrives
<1>2. CASE \E h \in Headers : SendHeader(h)
  BY <1>2, SendIsSeen DEF Queue!Next
<1>3. CASE SendBody
  <2>1. /\ UNCHANGED <<sent, receiver, delivered>> /\ sender # "down" /\ sender' # "down"
    BY <1>3 DEF SendBody, receiverVars
  <2> QED
    BY <2>1, BytesAreNotSeen DEF Arrives
<1>4. CASE SenderEnds
  BY <1>4, EndIsSeen DEF Queue!Next
<1>5. CASE RecvHeader
  <2>1. UNCHANGED <<sent, written, sender>> /\ receiver = "header"
    BY <1>5 DEF RecvHeader, senderVars
  <2>2. Len(delivered) < Len(sent)
    BY <1>5, NextHeader
  <2>3. CASE receiver' = "header"
    <3>1. delivered' = Append(delivered, sent[Len(delivered) + 1])
      BY <1>5, <2>3, RecvHeaderReturns
    <3> QED
      BY <2>1, <2>2, <2>3, <3>1, ReturnIsSeen DEF Queue!Next
  <2>4. CASE receiver' = "body"
    <3>1. UNCHANGED delivered
      BY <1>5, <2>4, RecvHeaderReturns
    <3> QED
      BY <2>1, <2>4, <3>1, BytesAreNotSeen DEF Arrives
  <2> QED
    BY <1>5, <2>3, <2>4, RecvHeaderReturns
<1>6. CASE RecvBody
  <2>1. UNCHANGED <<sent, written, sender>> /\ receiver = "body"
    BY <1>6 DEF RecvBody, senderVars
  <2>2. Len(delivered) < Len(sent)
    BY <1>6, QueueKnown DEF QueueFacts, RecvBody, FramingInv, Reader
  <2>3. CASE receiver' = "header"
    <3>1. delivered' = Append(delivered, sent[Len(delivered) + 1])
      BY <1>6, <2>3, RecvBodyReturns
    <3> QED
      BY <2>1, <2>2, <2>3, <3>1, ReturnIsSeen DEF Queue!Next
  <2>4. CASE receiver' = "body"
    <3>1. UNCHANGED delivered
      BY <1>6, <2>4, RecvBodyReturns
    <3> QED
      BY <2>1, <2>4, <3>1, BytesAreNotSeen DEF Arrives
  <2> QED
    BY <1>6, <2>3, <2>4, RecvBodyReturns
<1>7. CASE RecvEnd
  BY <1>7, RecvEndIsSeen DEF Queue!Next
<1> QED
  BY <1>1, <1>2, <1>3, <1>4, <1>5, <1>6, <1>7 DEF FramingNext, SenderStep, ReceiverStep

(* What CodeGenProtocol takes a connection for: if headers arrive in one   *)
(* piece, send and recv over a stream of bytes implement a queue of whole  *)
(* messages, from which only the end of the sender takes messages away,    *)
(* and those at the end of the queue (messageHelper.cpp:105-186).          *)
THEOREM FramingIsQueue == ASSUME HeadersWhole PROVE FramingSpec => FramesAreMessages
<1>1. FramingInv /\ [FramingNext]_vars => FramingInv'
  BY FramingStepInv
<1>2. FramingInv /\ FramingInv' /\ [FramingNext]_vars => [Queue!Next]_(Queue!vars)
  BY FramingStepIsSeen
<1> QED
  BY FramingInitInv, FramingInitIsSeen, <1>1, <1>2, PTL
     DEF FramingSpec, FramesAreMessages, Queue!Spec
=============================================================================
