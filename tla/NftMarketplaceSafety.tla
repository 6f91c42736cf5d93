------------------------ MODULE NftMarketplaceSafety ------------------------
(***************************************************************************)
(* What NftMarketplace is checked for: the contract holds what its open    *)
(* sales say it holds, bidders get back what they do not spend, and a sale *)
(* keeps to its lifecycle.                                                 *)
(***************************************************************************)
EXTENDS NftMarketplace, FiniteSets, Functions

-----------------------------------------------------------------------------
(* The tokens in the contract *)

(* Of an item, which is a token of one collection. *)
OpenListingsOf(item) ==
  {id \in DOMAIN listings :
     <<listings[id].collection, listings[id].tokenId>> = item}
OpenAuctionsOf(item) ==
  {id \in DOMAIN auctions :
     <<auctions[id].collection, auctions[id].tokenId>> = item}

SalesOf(item) ==
  Cardinality(OpenListingsOf(item)) + Cardinality(OpenAuctionsOf(item))

Held(item) == IF owners[item] = Market THEN 1 ELSE 0

(* How many of its open sales the contract could not deliver. *)
Shortage(item) == SalesOf(item) - Held(item)

ClosesSaleOf(item) ==
  \/ \E id \in OpenListingsOf(item) : id \notin DOMAIN listings'
  \/ \E id \in OpenAuctionsOf(item) : id \notin DOMAIN auctions'

(* The token of an open sale leaves the contract with that sale, and a new *)
(* sale brings its token in: there are more sales of a token than the      *)
(* contract holds only after a call that settled the sale of the same      *)
(* identifier of another collection with it, and that sale's own token is  *)
(* what stays in its place.                                                *)
EscrowKeepsEachToken ==
  [][ \A item \in Items :
        Shortage(item)' > Shortage(item) =>
          \E other \in Items :
            /\ other # item /\ other[2] = item[2]
            /\ ClosesSaleOf(other)
            /\ Shortage(other)' < Shortage(other) ]_vars

-----------------------------------------------------------------------------
(* The bids *)

RecordIn(id, open, completed, cancelled) ==
  IF id \in DOMAIN open THEN open[id]
  ELSE IF id \in DOMAIN completed THEN completed[id]
  ELSE cancelled[id]

AuctionOf(id) == RecordIn(id, auctions, completedAuctions, cancelledAuctions)
ListingOf(id) == RecordIn(id, listings, completedListings, cancelledListings)

(* place-bid takes from a bidder what the bid recorded for it does not     *)
(* cover.  The bid recorded is the highest one, which the contract holds,  *)
(* and every bid given back was lower: what a bidder is credited was never *)
(* paid out.                                                               *)
RecordedBidIsHeld ==
  /\ \A key \in DOMAIN bids :
       LET auction == AuctionOf(key[1])
       IN auction.highestBidder = key[2] /\ auction.highestBid = bids[key]
  /\ \A key \in DOMAIN withdrawnBids :
       withdrawnBids[key] < AuctionOf(key[1]).highestBid

HighestBids(open) == [id \in DOMAIN open |-> open[id].highestBid]

LeadBy(open, w) == {id \in DOMAIN open : open[id].highestBidder = w}

(* What a wallet owns, its bids that stand included. *)
Standing(open, w) == SumFunctionOnSet(HighestBids(open), LeadBy(open, w))
NetWorth(w) == stx[w] + Standing(auctions, w)

(* A sale of this step makes the price pass from a wallet to the maker. *)
Traded(w, maker, price) ==
  IF w = maker THEN NetWorth(w)' = NetWorth(w) + price
               ELSE NetWorth(w)' + price = NetWorth(w)

TradesIn(w) ==
  \/ \E id \in DOMAIN listings :
       /\ id \in DOMAIN completedListings'
       /\ Traded(w, listings[id].maker, listings[id].price)
  \/ \E id \in DOMAIN auctions :
       /\ id \in DOMAIN completedAuctions'
       /\ w \in {auctions[id].maker, auctions[id].highestBidder}
       /\ Traded(w, auctions[id].maker, auctions[id].highestBid)

(* A bidder that raises its own bid pays the difference, and is given the  *)
(* bid back as well.                                                       *)
RaisesOwnBid(w) ==
  \E id \in DOMAIN auctions, bid \in Prices :
    auctions[id].highestBidder = w /\ PlaceBid(w, id, bid)

(* Bidding costs nothing but the price of what is won: through any series  *)
(* of bids, outbids, cancellations and endings, in any number of auctions, *)
(* what a wallet owns and has in standing bids changes only by a completed *)
(* sale it takes part in, by exactly the price.                            *)
BiddersStayWhole ==
  [][ \A w \in Wallets :
        NetWorth(w)' # NetWorth(w) => TradesIn(w) \/ RaisesOwnBid(w) ]_vars

-----------------------------------------------------------------------------
(* The life of a sale *)

(* A sale found in two maps is "torn", a stage SaleLifecycle does not have. *)
StageIn(id, open, completed, cancelled) ==
  LET isOpen == id \in DOMAIN open
      isSold == id \in DOMAIN completed
      isReturned == id \in DOMAIN cancelled
  IN CASE isOpen /\ ~isSold /\ ~isReturned  -> "open"
       [] isSold /\ ~isOpen /\ ~isReturned  -> "sold"
       [] isReturned /\ ~isOpen /\ ~isSold  -> "returned"
       [] ~isOpen /\ ~isSold /\ ~isReturned -> "none"
       [] OTHER -> "torn"

ListingSales == {"listing"} \X (0..(MaxListings - 1))
AuctionSales == {"auction"} \X (0..(MaxAuctions - 1))

AllSales == ListingSales \cup AuctionSales

StageOf(sale) ==
  IF sale[1] = "listing"
  THEN StageIn(sale[2], listings, completedListings, cancelledListings)
  ELSE StageIn(sale[2], auctions, completedAuctions, cancelledAuctions)

PriceOf(sale) ==
  IF StageOf(sale) = "none" THEN 0
  ELSE IF sale[1] = "auction" THEN AuctionOf(sale[2]).highestBid
  ELSE ListingOf(sale[2]).price

Lifecycle ==
  INSTANCE SaleLifecycle WITH
    Sales <- AllSales,
    Offers <- Prices \cup {0},
    stage <- [sale \in AllSales |-> StageOf(sale)],
    price <- [sale \in AllSales |-> PriceOf(sale)]

(* Three maps for listings and three for auctions, each entry moved with a *)
(* write and a delete, amount to sales that open once, close once and only *)
(* rise in between.                                                        *)
ImplementsSale == Lifecycle!SaleSpec

-----------------------------------------------------------------------------
(* Ending an auction *)

IsEndable(id, w) ==
  /\ blockHeight > auctions[id].endBlock
  /\ auctions[id].highestBidder # None
  /\ stx[Market] >= auctions[id].highestBid
  /\ MayTrade(w)

(* An auction that is over, has a bid, and whose bid the contract holds,   *)
(* can be ended by anyone who may call: neither of end-auction's transfers *)
(* stands in the way, whether the reserve was met or not.                  *)
OverAuctionCanEnd ==
  \A id \in DOMAIN auctions, w \in Wallets :
    IsEndable(id, w) => \E c \in Collections : ENABLED EndAuction(w, id, c)

-----------------------------------------------------------------------------
(* What comments of the repository say, and the code does not do *)

(* ";; Transfer the NFT to the buyer" (purchase-fixed-price-listing), and  *)
(* "err-nft-asset-mismatch", declared for calls that name another contract *)
(* than the one listed and never returned: the token of a sale stays in    *)
(* the contract until that sale closes, and no token is in two of them.    *)
EscrowHoldsEachToken == \A item \in Items : SalesOf(item) <= Held(item)

(* "Transfer the bid difference from the bidder to the contract"           *)
(* (place-bid): after it the contract holds the highest bid of every open  *)
(* auction.                                                                *)
EscrowCoversBids == SumFunction(HighestBids(auctions)) <= stx[Market]
=============================================================================
