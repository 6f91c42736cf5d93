-------------------------- MODULE ChainhookPublisher --------------------------
(***************************************************************************)
(* app.controller.ts of the chainhook service: a delivery of the chainhook *)
(* node carries the blocks of some transactions, and their events are      *)
(* published one after the other, each once the broker has confirmed the   *)
(* one before.                                                             *)
(*                                                                         *)
(* An operator named X_Op is a faulty variant of Op, kept beside it.       *)
(*                                                                         *)
(* The node delivers what follows the last delivery that was answered      *)
(* without an error; a delivery that fails midway is repeated, the events  *)
(* already published included.                                             *)
(***************************************************************************)
EXTENDS MarketplaceEvents, RabbitQueue

VARIABLES
  answered,   \* the last position of the last delivery answered
  upTo,       \* the last position of the delivery in hand, 0 if there is none
  next        \* the position to publish next

publisherVars == <<answered, upTo, next>>

PublisherInit == answered = 0 /\ upTo = 0 /\ next = 1

(* The node posts a delivery: chainhook is called. *)
Deliver ==
  /\ upTo = 0
  /\ upTo' \in answered + 1 .. Len(log)
  /\ next' = answered + 1
  /\ UNCHANGED answered

Beyond_PublishEvent ==
  /\ upTo # 0 /\ next <= upTo + 1
  /\ Publish(next)
  /\ next' = next + 1
  /\ UNCHANGED <<answered, upTo>>

(* One turn of the loop over printEvents. *)
PublishEvent ==
  /\ upTo # 0 /\ next <= upTo
  /\ Publish(next)
  /\ next' = next + 1
  /\ UNCHANGED <<answered, upTo>>

Early_Answer ==
  /\ upTo # 0
  /\ answered' = upTo
  /\ upTo' = 0 /\ next' = answered' + 1

(* The loop is over and chainhook returns. *)
Answer ==
  /\ upTo # 0 /\ next > upTo
  /\ answered' = upTo
  /\ upTo' = 0 /\ next' = answered' + 1

(* publishMessage throws, or the service stops, before the answer. *)
DeliveryFails ==
  /\ upTo # 0
  /\ upTo' = 0 /\ next' = answered + 1
  /\ UNCHANGED answered

(* The events that were handed to the broker and need not come again. *)
Published == 1 .. IF upTo = 0 THEN answered ELSE next - 1
=============================================================================
