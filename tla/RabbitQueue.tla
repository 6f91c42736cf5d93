----------------------------- MODULE RabbitQueue -----------------------------
(***************************************************************************)
(* The broker's chainhook_queue, as the publisher and the portal use it:   *)
(* not durable, one consumer, messages taken with get and acknowledged by  *)
(* hand.  A message is the position in the log of the event it carries.    *)
(*                                                                         *)
(* A message that is taken and not acknowledged goes back to the place it  *)
(* had when its channel closes, whichever side closes it.                  *)
(*                                                                         *)
(* An operator named X_Op is a faulty variant of Op, kept beside it.       *)
(***************************************************************************)
EXTENDS Naturals, Sequences

VARIABLES
  queue,     \* the messages ready to be taken, oldest first
  unacked,   \* the message taken over the open channel, 0 if there is none
  lost       \* the messages that were in the broker when it restarted

QueueInit == queue = <<>> /\ unacked = 0 /\ lost = {}

InBroker == {queue[i] : i \in 1 .. Len(queue)} \cup ({unacked} \ {0})

Publish(m) == queue' = Append(queue, m) /\ UNCHANGED <<unacked, lost>>

Get ==
  /\ queue # <<>>
  /\ unacked' = Head(queue)
  /\ queue' = Tail(queue)
  /\ UNCHANGED lost

Ack == unacked' = 0 /\ UNCHANGED <<queue, lost>>

Dropped_Requeue == unacked' = 0 /\ UNCHANGED <<queue, lost>>

Back_Requeue ==
  /\ queue' = IF unacked = 0 THEN queue ELSE Append(queue, unacked)
  /\ unacked' = 0
  /\ UNCHANGED lost

Requeue ==
  /\ queue' = IF unacked = 0 THEN queue ELSE <<unacked>> \o queue
  /\ unacked' = 0
  /\ UNCHANGED lost

(* A queue that is not durable does not survive the broker. *)
LoseAll ==
  /\ lost' = lost \cup InBroker
  /\ queue' = <<>>
  /\ unacked' = 0
=============================================================================
