-------------------------- MODULE MarketplaceEvents --------------------------
(***************************************************************************)
(* The events nft-marketplace.clar prints about auctions, in the order of  *)
(* the chain.  Every event is printed by a committed call, so the log only *)
(* holds sequences of calls the contract accepts: an auction starts once,  *)
(* every bid is above the highest one, and nothing follows its end.        *)
(*                                                                         *)
(* The events the portal only logs (the return of a bid, the whitelisting  *)
(* of a collection, the end of an auction) are represented by the last.    *)
(***************************************************************************)
EXTENDS Naturals, Sequences

CONSTANTS
  Auctions,    \* identifiers of auctions
  Bidders,     \* wallets that bid
  NoBidder,    \* the highest-bidder that is none
  Bids,        \* the amounts that are bid
  MaxEvents    \* bound: how many events are ever printed

ASSUME EventsAssumption ==
  /\ NoBidder \notin Bidders
  /\ Bids \subseteq Nat \ {0}
  /\ MaxEvents \in Nat

VARIABLE log   \* the events printed so far

Event ==
  [action : {"start-auction", "cancel-auction", "end-auction"}, auction : Auctions]
    \cup [action : {"place-bid"}, auction : Auctions, bidder : Bidders, bid : Bids]

Positions == 1 .. Len(log)

Printed(action, a) ==
  \E i \in Positions : log[i].action = action /\ log[i].auction = a

(* The auction is in the contract's map of running auctions. *)
Running(a) ==
  /\ Printed("start-auction", a)
  /\ ~ Printed("cancel-auction", a) /\ ~ Printed("end-auction", a)

IsBidOn(a, e) == e.action = "place-bid" /\ e.auction = a

CanBidOn(a, bid) ==
  /\ Running(a)
  /\ \A i \in Positions : IsBidOn(a, log[i]) => log[i].bid < bid

Emit(e) == log' = Append(log, e)

(* A committed start-auction, place-bid, cancel-auction or end-auction. An *)
(* auction is not ended before it has a bid.                               *)
PrintEvent ==
  /\ Len(log) < MaxEvents
  /\ \E a \in Auctions :
       \/ /\ ~ Printed("start-auction", a)
          /\ Emit([action |-> "start-auction", auction |-> a])
       \/ \E b \in Bidders, amount \in Bids :
            /\ CanBidOn(a, amount)
            /\ Emit([action |-> "place-bid", auction |-> a,
                     bidder |-> b, bid |-> amount])
       \/ /\ Running(a)
          /\ Emit([action |-> "cancel-auction", auction |-> a])
       \/ /\ Running(a) /\ Printed("place-bid", a)
          /\ Emit([action |-> "end-auction", auction |-> a])
=============================================================================
