------------------------- MODULE EventPipelineSafety -------------------------
(***************************************************************************)
(* What EventPipeline is checked for: no event is lost or counted twice on *)
(* its way, whatever fails, and what stops does stop.                      *)
(***************************************************************************)
EXTENDS EventPipeline

-----------------------------------------------------------------------------
(* At least once *)

(* The message in hand is acknowledged over the channel it came by: the    *)
(* tag of a delivery means nothing on any other channel.                   *)
AckIsOfThisChannel ==
  (channel /\ loop \in {"handling", "handled", "failed"}) => unacked = held

(* An event that was published and that the broker did not lose is in the  *)
(* broker, be it in the queue or not acknowledged, or it has taken effect: *)
(* no crash, failure or closing channel comes between the two.             *)
NothingVanishes ==
  \A i \in Published : i \in lost \cup InBroker \/ Visible(log[i])

(* The highest bid shown is the highest of the bids that are stored,       *)
(* although placeBid does not compare them and deliveries are repeated; a  *)
(* bid the broker lost may come late.                                      *)
HighestBidIsShown ==
  lost = {} =>
    \A a \in Auctions : \A i \in DOMAIN rows[a].bids :
      rows[a].bids[i].amount <= rows[a].highestBid

-----------------------------------------------------------------------------
(* At most once, and in order *)

(* The handlers make at-least-once delivery an exactly-once feed. *)
Feed == INSTANCE AuctionFeed WITH
  table    <- rows,
  versions <- [a \in Auctions |-> Len(history[a])],
  applied  <- {i \in Positions : log[i].action # "end-auction" /\ Visible(log[i])}

ImplementsFeed == Feed!FeedSpec

-----------------------------------------------------------------------------
(* Progress *)

Serving ==
  channel /\ stop = "no" /\ loop \in {"polling", "handling", "handled"}

OnItsWay(i) == i \in Positions /\ ~ (i \in lost \/ Visible(log[i]))

(* While the loop keeps its channel, every event printed reaches the       *)
(* tables or is lost with the broker.                                      *)
EventsArrive ==
  <>[]Serving => \A i \in 1 .. MaxEvents : OnItsWay(i) ~> ~ OnItsWay(i)

(* The process ends after it was asked to, even with the loop stalled on a *)
(* promise that never settles.                                             *)
StopEnds == stop # "no" ~> loop = "off"

(* processMessage reconnects after a failure "to re-establish the channel  *)
(* connection" and requeues the message: it is to be processed again while *)
(* the process runs.                                                       *)
FailedMessageIsRetried == loop = "failed" ~> loop \in {"handling", "off"}
=============================================================================
