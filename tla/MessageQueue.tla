---------------------------- MODULE MessageQueue ----------------------------
(***************************************************************************)
(* One direction of a connection as both programs use it: whole messages   *)
(* in order.  When the sender ends, some of the last ones may be lost.     *)
(***************************************************************************)
EXTENDS Naturals, Sequences

CONSTANT Messages

VARIABLES
  queue,        (* on the way                                              *)
  delivered,    (* what recv has returned                                  *)
  sender,       (* "up" or "down"                                          *)
  receiver      (* "up", or "down" when recv has reported the end          *)

vars == <<queue, delivered, sender, receiver>>

Init ==
  /\ queue = << >> /\ delivered = << >>
  /\ sender = "up" /\ receiver = "up"

(* A message is added at the end. *)
Send ==
  /\ sender = "up"
  /\ queue' # << >> /\ queue'[Len(queue')] \in Messages
  /\ queue = SubSeq(queue', 1, Len(queue') - 1)
  /\ UNCHANGED <<delivered, sender, receiver>>

Receive ==
  /\ receiver = "up" /\ queue # << >>
  /\ delivered' = Append(delivered, Head(queue))
  /\ queue' = Tail(queue)
  /\ UNCHANGED <<sender, receiver>>

SenderEnds ==
  /\ sender = "up" /\ sender' = "down"
  /\ \E n \in 0 .. Len(queue) : queue' = SubSeq(queue, 1, n)
  /\ UNCHANGED <<delivered, receiver>>

(* Only when nothing more can come. *)
ReportEnd ==
  /\ sender = "down" /\ queue = << >>
  /\ receiver = "up" /\ receiver' = "down"
  /\ UNCHANGED <<queue, delivered, sender>>

Next == Send \/ Receive \/ SenderEnds \/ ReportEnd

Spec == Init /\ [][Next]_vars
=============================================================================
