-------------------------- MODULE AuctionProjection --------------------------
(***************************************************************************)
(* The portal's copy of the auctions: the rows that the handlers of the    *)
(* services in auctionhistory/ write for every event they are handed.      *)
(*                                                                         *)
(* A handler is a method under @Transactional over repositories that join  *)
(* the transaction, so what it writes is committed as a whole: an operator *)
(* gives the row of the auction after the commit.  Several deliveries of   *)
(* an event must have the effect of one: a handler looks for its own       *)
(* effect first.                                                           *)
(*                                                                         *)
(* An operator named X_Op is a faulty variant of Op, kept beside it.       *)
(***************************************************************************)
EXTENDS MarketplaceEvents

CONSTANT MaxAmount   \* the largest amount the column of a bid can hold

ASSUME ProjectionAssumption == MaxAmount \in Nat

VARIABLES
  rows,      \* auction -> its row with the bids related to it, or NoRow
  history    \* auction -> the rows of its history, oldest first

(* What a row of the history repeats of the auction's row. *)
Snapshot(row) == [status        |-> row.status,
                  highestBid    |-> row.highestBid,
                  highestBidder |-> row.highestBidder]

NoRow == [status |-> "none", highestBid |-> 0, highestBidder |-> NoBidder,
          bids |-> <<>>]

Row == [status : {"OPEN", "CANCELLED"}, highestBid : Bids \cup {0},
        highestBidder : Bidders \cup {NoBidder},
        bids : Seq([bidder : Bidders, amount : Bids])]

Exists(a) == rows[a] # NoRow

ProjectionInit ==
  /\ rows = [a \in Auctions |-> NoRow]
  /\ history = [a \in Auctions |-> <<>>]

(* insertIntoHistory: saved with the row, in the same transaction. *)
Save(a, row) ==
  /\ rows' = [rows EXCEPT ![a] = row]
  /\ history' = [history EXCEPT ![a] = Append(@, Snapshot(row))]

Unchanged == UNCHANGED <<rows, history>>

(* startAuction: an auction that exists is left alone. *)
NewRow == [NoRow EXCEPT !.status = "OPEN"]

StartAuction(e) == IF Exists(e.auction) THEN Unchanged
                                        ELSE Save(e.auction, NewRow)

(* placeBid: the same bid of the same bidder is known by its amount. *)
BidOf(e) == [bidder |-> e.bidder, amount |-> e.bid]

HasBid(row, e) == \E i \in 1 .. Len(row.bids) : row.bids[i] = BidOf(e)

Latest_SameBid(row, e) ==
  row.highestBidder = e.bidder /\ row.highestBid = e.bid

SameBid(row, e) == HasBid(row, e)

RowWithBid(row, e) ==
  [row EXCEPT !.bids = Append(@, BidOf(e)),
              !.highestBid = e.bid,
              !.highestBidder = e.bidder]

PlaceBid(e) ==
  LET row == rows[e.auction]
  IN IF SameBid(row, e) THEN Unchanged ELSE Save(e.auction, RowWithBid(row, e))

(* cancelAuction *)
CancelAuction(e) ==
  LET row == rows[e.auction]
  IN IF row.status = "CANCELLED"
       THEN Unchanged
       ELSE Save(e.auction, [row EXCEPT !.status = "CANCELLED"])

(* findOneOrFail throws for an auction that was never started here, and    *)
(* the database refuses an amount with too many digits for its column.     *)
Throws(e) ==
  \/ e.action \in {"place-bid", "cancel-auction"} /\ ~ Exists(e.auction)
  \/ e.action = "place-bid" /\ e.bid > MaxAmount

(* The dispatch of processMessageAsync; the other events are logged only. *)
Handle(e) ==
  /\ ~ Throws(e)
  /\ CASE e.action = "start-auction"  -> StartAuction(e)
       [] e.action = "place-bid"      -> PlaceBid(e)
       [] e.action = "cancel-auction" -> CancelAuction(e)
       [] OTHER                       -> Unchanged

(* The effect of the event can be read from the rows. *)
Visible(e) ==
  CASE e.action = "start-auction"  -> Exists(e.auction)
    [] e.action = "place-bid"      -> HasBid(rows[e.auction], e)
    [] e.action = "cancel-auction" -> rows[e.auction].status = "CANCELLED"
    [] OTHER                       -> TRUE
=============================================================================
