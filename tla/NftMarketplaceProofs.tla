------------------------ MODULE NftMarketplaceProofs ------------------------
(***************************************************************************)
(* Theorems about NftMarketplace, for every set of wallets, tokens, prices *)
(* and auction terms: MarketInv is an invariant, of which the properties   *)
(* of NftMarketplaceSafety are parts or consequences.                      *)
(***************************************************************************)
EXTENDS NftMarketplaceSafety, SumTheorems, FiniteSetTheorems, TLAPS

-----------------------------------------------------------------------------
(* The three maps of one kind of sale *)

(* Every identifier given out is in exactly one of the maps. *)
Sorted(open, completed, cancelled, ids) ==
  /\ DOMAIN open \cup DOMAIN completed \cup DOMAIN cancelled = ids
  /\ DOMAIN open \cap DOMAIN completed = {}
  /\ DOMAIN open \cap DOMAIN cancelled = {}
  /\ DOMAIN completed \cap DOMAIN cancelled = {}

(* The maps after a step have the sales of the maps before it. *)
SameSales(ids, open, completed, cancelled, open2, completed2, cancelled2) ==
  \A id \in ids : RecordIn(id, open2, completed2, cancelled2)
                    = RecordIn(id, open, completed, cancelled)

(* A sale written under a new identifier is open, and the others stay. *)
LEMMA Opening ==
  ASSUME NEW open, NEW completed, NEW cancelled, NEW ids, NEW new, NEW sale,
         Sorted(open, completed, cancelled, ids), new \notin ids,
         NEW opened, opened = MapSet(open, new, sale)
  PROVE  /\ Sorted(opened, completed, cancelled, ids \cup {new})
         /\ RecordIn(new, opened, completed, cancelled) = sale
         /\ SameSales(ids, open, completed, cancelled, opened, completed, cancelled)
<1>1. /\ DOMAIN opened = DOMAIN open \cup {new} /\ opened[new] = sale
      /\ \A k \in DOMAIN open : k # new => opened[k] = open[k]
  BY DEF MapSet
<1>2. Sorted(opened, completed, cancelled, ids \cup {new})
  BY <1>1 DEF Sorted
<1>3. RecordIn(new, opened, completed, cancelled) = sale
  BY <1>1 DEF RecordIn
<1>4. ASSUME NEW id \in ids
      PROVE  RecordIn(id, opened, completed, cancelled)
               = RecordIn(id, open, completed, cancelled)
  <2>1. id \in DOMAIN opened <=> id \in DOMAIN open
    BY <1>1
  <2>2. id \in DOMAIN open => opened[id] = open[id]
    BY <1>1
  <2> QED
    BY <2>1, <2>2 DEF RecordIn
<1> QED
  BY <1>2, <1>3, <1>4 DEF SameSales

(* Writing an open sale again changes that sale alone. *)
LEMMA Rewriting ==
  ASSUME NEW open, NEW completed, NEW cancelled, NEW ids, NEW sale,
         Sorted(open, completed, cancelled, ids), NEW id \in DOMAIN open,
         NEW written, written = MapSet(open, id, sale)
  PROVE  /\ Sorted(written, completed, cancelled, ids)
         /\ RecordIn(id, written, completed, cancelled) = sale
         /\ SameSales(ids \ {id}, open, completed, cancelled,
                      written, completed, cancelled)
<1>1. /\ DOMAIN written = DOMAIN open /\ written[id] = sale
      /\ \A k \in DOMAIN open : k # id => written[k] = open[k]
  BY DEF MapSet
<1>2. Sorted(written, completed, cancelled, ids)
  BY <1>1 DEF Sorted
<1>3. RecordIn(id, written, completed, cancelled) = sale
  BY <1>1 DEF RecordIn
<1>4. ASSUME NEW j, j # id
      PROVE  RecordIn(j, written, completed, cancelled)
               = RecordIn(j, open, completed, cancelled)
  <2>1. j \in DOMAIN open => written[j] = open[j]
    BY <1>1, <1>4
  <2> QED
    BY <1>1, <2>1 DEF RecordIn
<1> QED
  BY <1>2, <1>3, <1>4 DEF SameSales

(* Moving an open sale to another map changes no sale. *)
LEMMA Closing ==
  ASSUME NEW open, NEW completed, NEW cancelled, NEW ids,
         Sorted(open, completed, cancelled, ids), NEW id \in DOMAIN open,
         NEW kept, kept = MapDelete(open, id), NEW sold, NEW returned,
         \/ /\ sold = MapSet(completed, id, open[id])
            /\ returned = cancelled
         \/ /\ returned = MapSet(cancelled, id, open[id])
            /\ sold = completed
  PROVE  /\ Sorted(kept, sold, returned, ids)
         /\ SameSales(ids, open, completed, cancelled, kept, sold, returned)
<1>1. /\ DOMAIN kept = DOMAIN open \ {id}
      /\ \A k \in DOMAIN open : k # id => kept[k] = open[k]
  BY DEF MapDelete
<1>2. \/ /\ DOMAIN sold = DOMAIN completed \cup {id} /\ sold[id] = open[id]
         /\ \A k \in DOMAIN completed : k # id => sold[k] = completed[k]
         /\ returned = cancelled
      \/ /\ DOMAIN returned = DOMAIN cancelled \cup {id} /\ returned[id] = open[id]
         /\ \A k \in DOMAIN cancelled : k # id => returned[k] = cancelled[k]
         /\ sold = completed
  BY DEF MapSet
<1>3. id \notin DOMAIN completed /\ id \notin DOMAIN cancelled
  BY DEF Sorted
<1>4. Sorted(kept, sold, returned, ids)
  <2>1. DOMAIN kept \cup DOMAIN sold \cup DOMAIN returned = ids
    BY <1>1, <1>2 DEF Sorted
  <2> QED
    BY <1>1, <1>2, <1>3, <2>1 DEF Sorted
<1>5. ASSUME NEW j \in ids
      PROVE  RecordIn(j, kept, sold, returned)
               = RecordIn(j, open, completed, cancelled)
  <2>1. CASE j = id
    <3>1. RecordIn(id, kept, sold, returned) = open[id]
      BY <1>1, <1>2, <1>3 DEF RecordIn
    <3>2. RecordIn(id, open, completed, cancelled) = open[id]
      BY DEF RecordIn
    <3> QED
      BY <2>1, <3>1, <3>2
  <2>2. CASE j # id
    <3>1. /\ j \in DOMAIN kept <=> j \in DOMAIN open
          /\ j \in DOMAIN open => kept[j] = open[j]
      BY <1>1, <2>2
    <3>2. /\ j \in DOMAIN sold <=> j \in DOMAIN completed
          /\ j \in DOMAIN completed => sold[j] = completed[j]
          /\ j \in DOMAIN cancelled => returned[j] = cancelled[j]
      BY <1>2, <2>2
    <3>3. j \in DOMAIN open \/ j \in DOMAIN completed \/ j \in DOMAIN cancelled
      BY DEF Sorted
    <3> QED
      BY <3>1, <3>2, <3>3 DEF RecordIn
  <2> QED
    BY <2>1, <2>2
<1> QED
  BY <1>4, <1>5 DEF SameSales

(* The maps are typed when every sale is. *)
LEMMA SalesTyped ==
  ASSUME NEW open, NEW completed, NEW cancelled, NEW ids, NEW Values,
         Sorted(open, completed, cancelled, ids)
  PROVE  /\ IsMap(open, ids, Values)
         /\ IsMap(completed, ids, Values)
         /\ IsMap(cancelled, ids, Values)
         <=> \A id \in ids :
               RecordIn(id, open, completed, cancelled) \in Values
BY DEF Sorted, IsMap, RecordIn

-----------------------------------------------------------------------------
(* The invariant *)

ListingsInv ==
  /\ fixedPriceNonce \in Nat /\ fixedPriceNonce <= MaxListings
  /\ Sorted(listings, completedListings, cancelledListings, ListingIds)
  /\ \A id \in ListingIds :
       ListingOf(id) \in Listing /\ ListingOf(id).price \in Prices

AuctionsInv ==
  /\ auctionNonce \in Nat /\ auctionNonce <= MaxAuctions
  /\ Sorted(auctions, completedAuctions, cancelledAuctions, AuctionIds)
  /\ \A id \in AuctionIds :
       /\ AuctionOf(id) \in Auction
       /\ AuctionOf(id).highestBid \in Prices \cup {0}
       /\ AuctionOf(id).highestBidder = None <=> AuctionOf(id).highestBid = 0

BidsInv ==
  /\ IsMap(bids, AuctionIds \X Wallets, Nat \ {0})
  /\ IsMap(withdrawnBids, AuctionIds \X Wallets, Nat \ {0})
  /\ RecordedBidIsHeld

SettingsType ==
  /\ whitelist \subseteq Collections /\ blacklist \subseteq Wallets
  /\ paused \in BOOLEAN
  /\ contractOwner \in Wallets
  /\ blockHeight \in Nat

(* What an open sale is, its fields one by one. *)
LEMMA OpenListing ==
  ASSUME ListingsInv, NEW id \in DOMAIN listings
  PROVE  /\ id \in ListingIds /\ ListingOf(id) = listings[id]
         /\ listings[id] \in Listing
         /\ listings[id].maker \in Wallets /\ listings[id].collection \in Collections
         /\ listings[id].tokenId \in TokenIds
         /\ listings[id].price \in Nat /\ listings[id].price \in Prices
<1>1. id \in ListingIds /\ ListingOf(id) = listings[id]
  BY DEF ListingsInv, Sorted, ListingIds, ListingOf, RecordIn
<1> QED
  BY <1>1 DEF ListingsInv, Listing

LEMMA OpenAuction ==
  ASSUME AuctionsInv, NEW id \in DOMAIN auctions
  PROVE  /\ id \in AuctionIds /\ AuctionOf(id) = auctions[id]
         /\ auctions[id] \in Auction
         /\ auctions[id].maker \in Wallets /\ auctions[id].collection \in Collections
         /\ auctions[id].tokenId \in TokenIds
         /\ auctions[id].highestBid \in Nat
         /\ auctions[id].highestBid \in Prices \cup {0}
         /\ auctions[id].highestBidder \in Wallets \cup {None}
         /\ auctions[id].highestBidder = None <=> auctions[id].highestBid = 0
<1>1. id \in AuctionIds /\ AuctionOf(id) = auctions[id]
  BY DEF AuctionsInv, Sorted, AuctionIds, AuctionOf, RecordIn
<1> QED
  BY <1>1 DEF AuctionsInv, Auction

-----------------------------------------------------------------------------
(* How a step changes the maps of the listings *)

ListingOpens(sale) ==
  /\ sale \in Listing /\ sale.price \in Prices
  /\ fixedPriceNonce < MaxListings
  /\ listings' = MapSet(listings, fixedPriceNonce, sale)
  /\ fixedPriceNonce' = fixedPriceNonce + 1
  /\ UNCHANGED <<completedListings, cancelledListings>>

ListingCloses(id) ==
  /\ id \in DOMAIN listings
  /\ listings' = MapDelete(listings, id)
  /\ \/ /\ completedListings' = MapSet(completedListings, id, listings[id])
        /\ UNCHANGED cancelledListings
     \/ /\ cancelledListings' = MapSet(cancelledListings, id, listings[id])
        /\ UNCHANGED completedListings
  /\ UNCHANGED fixedPriceNonce

LEMMA ListingOpened ==
  ASSUME ListingsInv, NEW sale, ListingOpens(sale)
  PROVE  /\ ListingsInv'
         /\ ListingIds' = ListingIds \cup {fixedPriceNonce}
         /\ fixedPriceNonce \notin ListingIds
         /\ \A id \in ListingIds' :
              ListingOf(id)' = IF id = fixedPriceNonce THEN sale ELSE ListingOf(id)
<1>1. fixedPriceNonce \in Nat /\ fixedPriceNonce' = fixedPriceNonce + 1
  BY DEF ListingsInv, ListingOpens
<1>2. ListingIds' = ListingIds \cup {fixedPriceNonce}
      /\ fixedPriceNonce \notin ListingIds
  BY <1>1 DEF ListingIds
<1>3. Sorted(listings, completedListings, cancelledListings, ListingIds)
  BY DEF ListingsInv
<1>4. /\ listings' = MapSet(listings, fixedPriceNonce, sale)
      /\ completedListings' = completedListings
      /\ cancelledListings' = cancelledListings
  BY DEF ListingOpens
<1>5. /\ Sorted(listings', completedListings, cancelledListings,
                ListingIds \cup {fixedPriceNonce})
      /\ RecordIn(fixedPriceNonce, listings', completedListings,
                  cancelledListings) = sale
      /\ SameSales(ListingIds, listings, completedListings, cancelledListings,
                   listings', completedListings, cancelledListings)
  BY <1>2, <1>3, <1>4, Opening
<1>6. /\ Sorted(listings, completedListings, cancelledListings, ListingIds)'
      /\ \A id \in ListingIds' :
           ListingOf(id)' = IF id = fixedPriceNonce THEN sale ELSE ListingOf(id)
  BY <1>2, <1>4, <1>5 DEF ListingOf, SameSales
<1>7. fixedPriceNonce' \in Nat /\ fixedPriceNonce' <= MaxListings
  BY <1>1, MarketAssumption DEF ListingOpens
<1>8. \A id \in ListingIds' :
        ListingOf(id)' \in Listing /\ ListingOf(id)'.price \in Prices
  BY <1>2, <1>6 DEF ListingsInv, ListingOpens
<1> QED
  BY <1>2, <1>6, <1>7, <1>8 DEF ListingsInv

LEMMA ListingClosed ==
  ASSUME ListingsInv, NEW sale, ListingCloses(sale)
  PROVE  /\ ListingsInv' /\ ListingIds' = ListingIds
         /\ \A id \in ListingIds : ListingOf(id)' = ListingOf(id)
<1>1. Sorted(listings, completedListings, cancelledListings, ListingIds)
  BY DEF ListingsInv
<1>2. /\ sale \in DOMAIN listings
      /\ listings' = MapDelete(listings, sale)
      /\ \/ /\ completedListings' = MapSet(completedListings, sale, listings[sale])
            /\ cancelledListings' = cancelledListings
         \/ /\ cancelledListings' = MapSet(cancelledListings, sale, listings[sale])
            /\ completedListings' = completedListings
      /\ fixedPriceNonce' = fixedPriceNonce
  BY DEF ListingCloses
<1>3. /\ Sorted(listings', completedListings', cancelledListings', ListingIds)
      /\ SameSales(ListingIds, listings, completedListings, cancelledListings,
                   listings', completedListings', cancelledListings')
  BY <1>1, <1>2, Closing
<1>4. ListingIds' = ListingIds
  BY <1>2 DEF ListingIds
<1>5. /\ Sorted(listings, completedListings, cancelledListings, ListingIds)'
      /\ \A id \in ListingIds : ListingOf(id)' = ListingOf(id)
  BY <1>3, <1>4 DEF ListingOf, SameSales
<1>6. fixedPriceNonce' \in Nat /\ fixedPriceNonce' <= MaxListings
  BY <1>2 DEF ListingsInv
<1>7. \A id \in ListingIds' :
        ListingOf(id)' \in Listing /\ ListingOf(id)'.price \in Prices
  BY <1>4, <1>5 DEF ListingsInv
<1> QED
  BY <1>4, <1>5, <1>6, <1>7 DEF ListingsInv

LEMMA ListingsUnchanged ==
  ASSUME ListingsInv, UNCHANGED listingMaps
  PROVE  /\ ListingsInv' /\ ListingIds' = ListingIds
         /\ \A id \in ListingIds : ListingOf(id)' = ListingOf(id)
<1>1. ListingIds' = ListingIds /\ \A id : ListingOf(id)' = ListingOf(id)
  BY DEF listingMaps, ListingIds, ListingOf, RecordIn
<1>2. Sorted(listings, completedListings, cancelledListings, ListingIds)'
  BY <1>1 DEF listingMaps, ListingsInv, Sorted
<1> QED
  BY <1>1, <1>2 DEF ListingsInv, listingMaps

-----------------------------------------------------------------------------
(* How a step changes the maps of the auctions *)

BidMaps == <<bids, withdrawnBids>>

AuctionOpens(auction) ==
  /\ auction \in Auction
  /\ auction.highestBid = 0 /\ auction.highestBidder = None
  /\ auctionNonce < MaxAuctions
  /\ auctions' = MapSet(auctions, auctionNonce, auction)
  /\ auctionNonce' = auctionNonce + 1
  /\ UNCHANGED <<completedAuctions, cancelledAuctions, bids, withdrawnBids>>

AuctionRises(id, w, bid) ==
  /\ id \in DOMAIN auctions /\ w \in Wallets
  /\ bid \in Prices /\ bid > auctions[id].highestBid
  /\ auctions' = MapSet(auctions, id,
       [auctions[id] EXCEPT !.highestBid = bid, !.highestBidder = w])
  /\ bids' = BidsAfter(id, auctions[id], w, bid)
  /\ withdrawnBids' = WithdrawnAfter(id, auctions[id])
  /\ UNCHANGED <<completedAuctions, cancelledAuctions, auctionNonce>>

AuctionCloses(id) ==
  /\ id \in DOMAIN auctions
  /\ auctions' = MapDelete(auctions, id)
  /\ \/ /\ completedAuctions' = MapSet(completedAuctions, id, auctions[id])
        /\ UNCHANGED cancelledAuctions
     \/ /\ cancelledAuctions' = MapSet(cancelledAuctions, id, auctions[id])
        /\ UNCHANGED completedAuctions
  /\ UNCHANGED <<auctionNonce, bids, withdrawnBids>>

LEMMA AuctionOpened ==
  ASSUME AuctionsInv, NEW sale, AuctionOpens(sale)
  PROVE  /\ AuctionsInv'
         /\ AuctionIds' = AuctionIds \cup {auctionNonce}
         /\ auctionNonce \notin AuctionIds
         /\ \A id \in AuctionIds' :
              AuctionOf(id)' = IF id = auctionNonce THEN sale ELSE AuctionOf(id)
<1>1. auctionNonce \in Nat /\ auctionNonce' = auctionNonce + 1
  BY DEF AuctionsInv, AuctionOpens
<1>2. AuctionIds' = AuctionIds \cup {auctionNonce}
      /\ auctionNonce \notin AuctionIds
  BY <1>1 DEF AuctionIds
<1>3. Sorted(auctions, completedAuctions, cancelledAuctions, AuctionIds)
  BY DEF AuctionsInv
<1>4. /\ auctions' = MapSet(auctions, auctionNonce, sale)
      /\ completedAuctions' = completedAuctions
      /\ cancelledAuctions' = cancelledAuctions
  BY DEF AuctionOpens
<1>5. /\ Sorted(auctions', completedAuctions, cancelledAuctions,
                AuctionIds \cup {auctionNonce})
      /\ RecordIn(auctionNonce, auctions', completedAuctions,
                  cancelledAuctions) = sale
      /\ SameSales(AuctionIds, auctions, completedAuctions, cancelledAuctions,
                   auctions', completedAuctions, cancelledAuctions)
  BY <1>2, <1>3, <1>4, Opening
<1>6. /\ Sorted(auctions, completedAuctions, cancelledAuctions, AuctionIds)'
      /\ \A id \in AuctionIds' :
           AuctionOf(id)' = IF id = auctionNonce THEN sale ELSE AuctionOf(id)
  BY <1>2, <1>4, <1>5 DEF AuctionOf, SameSales
<1>7. auctionNonce' \in Nat /\ auctionNonce' <= MaxAuctions
  BY <1>1, MarketAssumption DEF AuctionOpens
<1>8. \A id \in AuctionIds' :
        /\ AuctionOf(id)' \in Auction
        /\ AuctionOf(id)'.highestBid \in Prices \cup {0}
        /\ AuctionOf(id)'.highestBidder = None <=> AuctionOf(id)'.highestBid = 0
  BY <1>2, <1>6 DEF AuctionsInv, AuctionOpens
<1> QED
  BY <1>2, <1>6, <1>7, <1>8 DEF AuctionsInv

LEMMA AuctionRaised ==
  ASSUME AuctionsInv, NEW id, NEW w, NEW bid, AuctionRises(id, w, bid)
  PROVE  /\ AuctionsInv' /\ AuctionIds' = AuctionIds
         /\ AuctionOf(id)' = [AuctionOf(id) EXCEPT !.highestBid = bid,
                                                   !.highestBidder = w]
         /\ \A j \in AuctionIds : j # id => AuctionOf(j)' = AuctionOf(j)
<1>1. Sorted(auctions, completedAuctions, cancelledAuctions, AuctionIds)
  BY DEF AuctionsInv
<1>2. id \in DOMAIN auctions
  BY DEF AuctionRises
<1>3. PICK raised : raised = [auctions[id] EXCEPT !.highestBid = bid,
                                                  !.highestBidder = w]
  OBVIOUS
<1>4. /\ auctions' = MapSet(auctions, id, raised)
      /\ completedAuctions' = completedAuctions
      /\ cancelledAuctions' = cancelledAuctions
      /\ auctionNonce' = auctionNonce
  BY <1>3 DEF AuctionRises
<1>5. /\ Sorted(auctions', completedAuctions, cancelledAuctions, AuctionIds)
      /\ RecordIn(id, auctions', completedAuctions, cancelledAuctions) = raised
      /\ SameSales(AuctionIds \ {id},
                   auctions, completedAuctions, cancelledAuctions,
                   auctions', completedAuctions, cancelledAuctions)
  BY <1>1, <1>2, <1>4, Rewriting
<1>6. AuctionIds' = AuctionIds
  BY <1>4 DEF AuctionIds
<1>7. /\ Sorted(auctions, completedAuctions, cancelledAuctions, AuctionIds)'
      /\ AuctionOf(id)' = raised
      /\ \A j \in AuctionIds : j # id => AuctionOf(j)' = AuctionOf(j)
  BY <1>4, <1>5, <1>6 DEF AuctionOf, SameSales
<1>8. /\ raised \in Auction /\ raised.highestBid = bid
      /\ raised.highestBidder = w
  <2>1. auctions[id] \in Auction /\ bid \in Nat /\ w \in Wallets
    BY <1>2, OpenAuction, MarketAssumption DEF AuctionRises
  <2> QED
    BY <1>3, <2>1 DEF Auction
<1>9. bid \in Prices /\ bid # 0 /\ w # None
  BY <1>2, OpenAuction, MarketAssumption DEF AuctionRises, Accounts
<1>10. auctionNonce' \in Nat /\ auctionNonce' <= MaxAuctions
  BY <1>4 DEF AuctionsInv
<1>11. \A j \in AuctionIds' :
        /\ AuctionOf(j)' \in Auction
        /\ AuctionOf(j)'.highestBid \in Prices \cup {0}
        /\ AuctionOf(j)'.highestBidder = None <=> AuctionOf(j)'.highestBid = 0
  BY <1>6, <1>7, <1>8, <1>9 DEF AuctionsInv
<1>12. AuctionOf(id) = auctions[id]
  BY <1>2, OpenAuction
<1> QED
  BY <1>3, <1>6, <1>7, <1>10, <1>11, <1>12 DEF AuctionsInv

LEMMA AuctionClosed ==
  ASSUME AuctionsInv, NEW sale, AuctionCloses(sale)
  PROVE  /\ AuctionsInv' /\ AuctionIds' = AuctionIds
         /\ \A id \in AuctionIds : AuctionOf(id)' = AuctionOf(id)
<1>1. Sorted(auctions, completedAuctions, cancelledAuctions, AuctionIds)
  BY DEF AuctionsInv
<1>2. /\ sale \in DOMAIN auctions
      /\ auctions' = MapDelete(auctions, sale)
      /\ \/ /\ completedAuctions' = MapSet(completedAuctions, sale, auctions[sale])
            /\ cancelledAuctions' = cancelledAuctions
         \/ /\ cancelledAuctions' = MapSet(cancelledAuctions, sale, auctions[sale])
            /\ completedAuctions' = completedAuctions
      /\ auctionNonce' = auctionNonce
  BY DEF AuctionCloses
<1>3. /\ Sorted(auctions', completedAuctions', cancelledAuctions', AuctionIds)
      /\ SameSales(AuctionIds, auctions, completedAuctions, cancelledAuctions,
                   auctions', completedAuctions', cancelledAuctions')
  BY <1>1, <1>2, Closing
<1>4. AuctionIds' = AuctionIds
  BY <1>2 DEF AuctionIds
<1>5. /\ Sorted(auctions, completedAuctions, cancelledAuctions, AuctionIds)'
      /\ \A id \in AuctionIds : AuctionOf(id)' = AuctionOf(id)
  BY <1>3, <1>4 DEF AuctionOf, SameSales
<1>6. auctionNonce' \in Nat /\ auctionNonce' <= MaxAuctions
  BY <1>2 DEF AuctionsInv
<1> QED
  BY <1>4, <1>5, <1>6 DEF AuctionsInv

LEMMA AuctionsUnchanged ==
  ASSUME AuctionsInv, UNCHANGED auctionMaps
  PROVE  /\ AuctionsInv' /\ AuctionIds' = AuctionIds
         /\ \A id \in AuctionIds : AuctionOf(id)' = AuctionOf(id)
<1>1. AuctionIds' = AuctionIds /\ \A id : AuctionOf(id)' = AuctionOf(id)
  BY DEF auctionMaps, AuctionIds, AuctionOf, RecordIn
<1>2. Sorted(auctions, completedAuctions, cancelledAuctions, AuctionIds)'
  BY <1>1 DEF auctionMaps, AuctionsInv, Sorted
<1> QED
  BY <1>1, <1>2 DEF AuctionsInv, auctionMaps

-----------------------------------------------------------------------------
(* The bids *)

(* A step that changes no auction that has bids, and no bid, leaves the    *)
(* bids as they should be.                                                 *)
LEMMA BidsKept ==
  ASSUME BidsInv, UNCHANGED BidMaps, AuctionIds \subseteq AuctionIds',
         \A id \in AuctionIds : AuctionOf(id)' = AuctionOf(id)
  PROVE  BidsInv'
<1>1. bids' = bids /\ withdrawnBids' = withdrawnBids
  BY DEF BidMaps
<1>2. \A key \in DOMAIN bids \cup DOMAIN withdrawnBids : key[1] \in AuctionIds
  BY DEF BidsInv, IsMap
<1>3. /\ IsMap(bids, AuctionIds \X Wallets, Nat \ {0})'
      /\ IsMap(withdrawnBids, AuctionIds \X Wallets, Nat \ {0})'
  BY <1>1 DEF BidsInv, IsMap
<1>4. RecordedBidIsHeld'
  BY <1>1, <1>2 DEF BidsInv, RecordedBidIsHeld
<1> QED
  BY <1>3, <1>4 DEF BidsInv

(* Whoever bids is the only one whose bid is recorded, and the bid given   *)
(* back was lower.                                                         *)
LEMMA BidsRaised ==
  ASSUME AuctionsInv, BidsInv, NEW id, NEW w, NEW bid, AuctionRises(id, w, bid)
  PROVE  BidsInv'
<1>1. /\ AuctionIds' = AuctionIds
      /\ AuctionOf(id)' = [AuctionOf(id) EXCEPT !.highestBid = bid,
                                                !.highestBidder = w]
      /\ \A j \in AuctionIds : j # id => AuctionOf(j)' = AuctionOf(j)
  BY AuctionRaised
<1>2. id \in DOMAIN auctions /\ w \in Wallets /\ bid \in Prices
      /\ bid > auctions[id].highestBid
  BY DEF AuctionRises
<1>3. PICK old : old = auctions[id]
  OBVIOUS
<1>4. /\ id \in AuctionIds /\ AuctionOf(id) = old
      /\ old \in Auction /\ old.highestBid \in Nat
      /\ old.highestBidder \in Wallets \cup {None}
      /\ old.highestBidder = None <=> old.highestBid = 0
  BY <1>2, <1>3, OpenAuction
<1>5. AuctionOf(id)'.highestBid = bid /\ AuctionOf(id)'.highestBidder = w
  BY <1>1, <1>4 DEF Auction
<1>6. bid \in Nat \ {0} /\ bid > old.highestBid
  BY <1>2, <1>3, <1>4, MarketAssumption
<1>7. \A key \in DOMAIN bids \cup DOMAIN withdrawnBids :
        /\ key \in AuctionIds \X Wallets /\ key[1] \in AuctionIds
        /\ key[2] \in Wallets /\ key = <<key[1], key[2]>>
  BY DEF BidsInv, IsMap
<1>8. ASSUME NEW key \in DOMAIN bids'
      PROVE  \/ key = <<id, w>> /\ bids'[key] = bid
             \/ key \in DOMAIN bids /\ bids'[key] = bids[key] /\ key[1] # id
  <2>1. \A k \in DOMAIN bids : k[1] = id => k = <<id, old.highestBidder>>
                                            /\ old.highestBidder # None
    <3>1. None \notin Wallets
      BY MarketAssumption DEF Accounts
    <3> QED
      BY <1>4, <1>7, <3>1 DEF BidsInv, RecordedBidIsHeld
  <2>2. CASE old.highestBidder = None
    <3>1. bids' = MapSet(bids, <<id, w>>, bid)
      BY <1>3, <2>2 DEF AuctionRises, BidsAfter
    <3> QED
      BY <2>1, <2>2, <3>1 DEF MapSet
  <2>3. CASE old.highestBidder # None
    <3>1. bids' = MapDelete(MapSet(bids, <<id, w>>, bid), <<id, old.highestBidder>>)
      BY <1>3, <2>3 DEF AuctionRises, BidsAfter
    <3> QED
      BY <2>1, <2>3, <3>1 DEF MapSet, MapDelete
  <2> QED
    BY <2>2, <2>3
<1>9. ASSUME NEW key \in DOMAIN withdrawnBids'
      PROVE  \/ /\ key = <<id, old.highestBidder>> /\ old.highestBidder # None
                /\ withdrawnBids'[key] = old.highestBid
             \/ key \in DOMAIN withdrawnBids /\ withdrawnBids'[key] = withdrawnBids[key]
  <2>1. CASE old.highestBidder = None
    BY <1>3, <2>1 DEF AuctionRises, WithdrawnAfter
  <2>2. CASE old.highestBidder # None
    BY <1>3, <2>2 DEF AuctionRises, WithdrawnAfter, MapSet
  <2> QED
    BY <2>1, <2>2
<1>10. IsMap(bids, AuctionIds \X Wallets, Nat \ {0})'
  BY <1>1, <1>2, <1>4, <1>6, <1>8 DEF BidsInv, IsMap
<1>11. IsMap(withdrawnBids, AuctionIds \X Wallets, Nat \ {0})'
  BY <1>1, <1>4, <1>9 DEF BidsInv, IsMap
<1>12. ASSUME NEW key \in DOMAIN bids'
       PROVE  /\ AuctionOf(key[1])'.highestBidder = key[2]
              /\ AuctionOf(key[1])'.highestBid = bids'[key]
  <2>1. CASE key = <<id, w>> /\ bids'[key] = bid
    <3>1. key[1] = id /\ key[2] = w
      BY <2>1
    <3> QED
      BY <1>5, <2>1, <3>1
  <2>2. CASE key \in DOMAIN bids /\ bids'[key] = bids[key] /\ key[1] # id
    <3>1. AuctionOf(key[1])' = AuctionOf(key[1])
      BY <1>1, <1>7, <2>2
    <3> QED
      BY <2>2, <3>1 DEF BidsInv, RecordedBidIsHeld
  <2> QED
    BY <1>8, <2>1, <2>2
<1>13. ASSUME NEW key \in DOMAIN withdrawnBids'
       PROVE  withdrawnBids'[key] < AuctionOf(key[1])'.highestBid
  <2>1. CASE key[1] = id
    <3>1. withdrawnBids'[key] <= old.highestBid /\ withdrawnBids'[key] \in Nat
      BY <1>4, <1>7, <1>9, <1>11, <2>1 DEF BidsInv, RecordedBidIsHeld, IsMap
    <3> QED
      BY <1>4, <1>5, <1>6, <2>1, <3>1
  <2>2. CASE key[1] # id
    BY <1>1, <1>7, <1>9, <2>2 DEF BidsInv, RecordedBidIsHeld
  <2> QED
    BY <2>1, <2>2
<1>14. RecordedBidIsHeld'
  BY <1>12, <1>13 DEF RecordedBidIsHeld
<1> QED
  BY <1>10, <1>11, <1>14 DEF BidsInv

-----------------------------------------------------------------------------
(* The tokens in the contract *)

ListedAs(t) == {id \in DOMAIN listings : listings[id].tokenId = t}
AuctionedAs(t) == {id \in DOMAIN auctions : auctions[id].tokenId = t}
HeldAs(t) == {c \in Collections : owners[<<c, t>>] = Market}

Covers(listed, auctioned, held) ==
  /\ IsFiniteSet(listed) /\ IsFiniteSet(auctioned) /\ IsFiniteSet(held)
  /\ Cardinality(listed) + Cardinality(auctioned) <= Cardinality(held)

EscrowInv ==
  \A t \in TokenIds : Covers(ListedAs(t), AuctionedAs(t), HeldAs(t))

(* A token comes in with every sale that opens. *)
LEMMA OneMoreSale ==
  ASSUME NEW L, NEW A, NEW H, NEW sale, NEW c, c \notin H, Covers(L, A, H)
  PROVE  Covers(L \cup {sale}, A, H \cup {c}) /\ Covers(L, A \cup {sale}, H \cup {c})
<1>1. /\ IsFiniteSet(L) /\ IsFiniteSet(A) /\ IsFiniteSet(H)
      /\ Cardinality(L) + Cardinality(A) <= Cardinality(H)
  BY DEF Covers
<1>2. PICK l, a, h \in Nat :
        l = Cardinality(L) /\ a = Cardinality(A) /\ h = Cardinality(H)
  BY <1>1, FS_CardinalityType
<1>3. /\ IsFiniteSet(L \cup {sale}) /\ Cardinality(L \cup {sale}) \in {l, l + 1}
      /\ IsFiniteSet(A \cup {sale}) /\ Cardinality(A \cup {sale}) \in {a, a + 1}
      /\ IsFiniteSet(H \cup {c}) /\ Cardinality(H \cup {c}) = h + 1
  BY <1>1, <1>2, FS_AddElement
<1> QED
  BY <1>1, <1>2, <1>3 DEF Covers

(* A token goes out with every sale that closes. *)
LEMMA OneSaleLess ==
  ASSUME NEW L, NEW A, NEW H, NEW sale, NEW c \in H, Covers(L, A, H)
  PROVE  /\ sale \in L => Covers(L \ {sale}, A, H \ {c})
         /\ sale \in A => Covers(L, A \ {sale}, H \ {c})
<1>1. /\ IsFiniteSet(L) /\ IsFiniteSet(A) /\ IsFiniteSet(H)
      /\ Cardinality(L) + Cardinality(A) <= Cardinality(H)
  BY DEF Covers
<1>2. PICK l, a, h \in Nat :
        l = Cardinality(L) /\ a = Cardinality(A) /\ h = Cardinality(H)
  BY <1>1, FS_CardinalityType
<1>3. /\ IsFiniteSet(L \ {sale}) /\ IsFiniteSet(A \ {sale})
      /\ sale \in L => Cardinality(L \ {sale}) = l - 1
      /\ sale \in A => Cardinality(A \ {sale}) = a - 1
      /\ IsFiniteSet(H \ {c}) /\ Cardinality(H \ {c}) = h - 1
  BY <1>1, <1>2, FS_RemoveElement
<1> QED
  BY <1>1, <1>2, <1>3 DEF Covers

(* A token sent to the contract outside any sale does no harm. *)
LEMMA OneMoreToken ==
  ASSUME NEW L, NEW A, NEW H, NEW c, Covers(L, A, H)
  PROVE  Covers(L, A, H \cup {c})
<1>1. /\ IsFiniteSet(L) /\ IsFiniteSet(A) /\ IsFiniteSet(H)
      /\ Cardinality(L) + Cardinality(A) <= Cardinality(H)
  BY DEF Covers
<1>2. PICK l, a, h \in Nat :
        l = Cardinality(L) /\ a = Cardinality(A) /\ h = Cardinality(H)
  BY <1>1, FS_CardinalityType
<1>3. IsFiniteSet(H \cup {c}) /\ Cardinality(H \cup {c}) \in {h, h + 1}
  BY <1>1, <1>2, FS_AddElement
<1> QED
  BY <1>1, <1>2, <1>3 DEF Covers

TokenComesIn(c, t) ==
  /\ c \in Collections /\ t \in TokenIds
  /\ owners[<<c, t>>] # Market
  /\ owners' = [owners EXCEPT ![<<c, t>>] = Market]

TokenGoesOut(c, t) ==
  /\ c \in Collections /\ t \in TokenIds
  /\ owners[<<c, t>>] = Market
  /\ \E to \in Accounts \ {Market} : owners' = [owners EXCEPT ![<<c, t>>] = to]

LEMMA HeldAfter ==
  ASSUME NftTypeOK, NEW c, NEW t
  PROVE  /\ TokenComesIn(c, t) =>
              /\ NftTypeOK' /\ t \in TokenIds
              /\ c \notin HeldAs(t) /\ HeldAs(t)' = HeldAs(t) \cup {c}
              /\ \A u \in TokenIds : u # t => HeldAs(u)' = HeldAs(u)
         /\ TokenGoesOut(c, t) =>
              /\ NftTypeOK' /\ t \in TokenIds
              /\ c \in HeldAs(t) /\ HeldAs(t)' = HeldAs(t) \ {c}
              /\ \A u \in TokenIds : u # t => HeldAs(u)' = HeldAs(u)
<1>1. owners \in [Collections \X TokenIds -> Accounts]
  BY DEF NftTypeOK, Items
<1>2. Market \in Accounts
  BY MarketAssumption DEF Accounts
<1>3. ASSUME NEW to \in Accounts, c \in Collections, t \in TokenIds,
             owners' = [owners EXCEPT ![<<c, t>>] = to]
      PROVE  /\ NftTypeOK'
             /\ \A d \in Collections, u \in TokenIds :
                  owners'[<<d, u>>] = IF d = c /\ u = t THEN to
                                      ELSE owners[<<d, u>>]
  BY <1>1, <1>3 DEF NftTypeOK, Items
<1>4. CASE TokenComesIn(c, t)
  <2>1. /\ NftTypeOK' /\ c \in Collections /\ t \in TokenIds
        /\ owners[<<c, t>>] # Market
        /\ \A d \in Collections, u \in TokenIds :
             owners'[<<d, u>>] = IF d = c /\ u = t THEN Market
                                 ELSE owners[<<d, u>>]
    BY <1>2, <1>3, <1>4 DEF TokenComesIn
  <2> QED
    BY <1>4, <2>1 DEF HeldAs, TokenGoesOut, TokenComesIn
<1>5. CASE TokenGoesOut(c, t)
  <2>1. PICK to \in Accounts \ {Market} :
          owners' = [owners EXCEPT ![<<c, t>>] = to]
    BY <1>5 DEF TokenGoesOut
  <2>2. /\ NftTypeOK' /\ c \in Collections /\ t \in TokenIds
        /\ owners[<<c, t>>] = Market /\ to # Market
        /\ \A d \in Collections, u \in TokenIds :
             owners'[<<d, u>>] = IF d = c /\ u = t THEN to
                                 ELSE owners[<<d, u>>]
    BY <1>3, <1>5, <2>1 DEF TokenGoesOut
  <2> QED
    BY <1>5, <2>2 DEF HeldAs, TokenGoesOut, TokenComesIn
<1> QED
  BY <1>4, <1>5

LEMMA ListedAfter ==
  ASSUME ListingsInv, NEW sale, NEW t
  PROVE  /\ ListingOpens(sale) =>
              /\ sale.tokenId = t =>
                   ListedAs(t)' = ListedAs(t) \cup {fixedPriceNonce}
              /\ sale.tokenId # t => ListedAs(t)' = ListedAs(t)
         /\ ListingCloses(sale) =>
              /\ listings[sale].tokenId = t =>
                   sale \in ListedAs(t) /\ ListedAs(t)' = ListedAs(t) \ {sale}
              /\ listings[sale].tokenId # t => ListedAs(t)' = ListedAs(t)
<1>1. fixedPriceNonce \notin DOMAIN listings
  <2>1. fixedPriceNonce \in Nat /\ fixedPriceNonce \notin ListingIds
    BY DEF ListingsInv, ListingIds
  <2> QED
    BY <2>1 DEF ListingsInv, Sorted
<1>2. ASSUME ListingOpens(sale)
      PROVE  /\ sale.tokenId = t =>
                  ListedAs(t)' = ListedAs(t) \cup {fixedPriceNonce}
             /\ sale.tokenId # t => ListedAs(t)' = ListedAs(t)
  BY <1>1, <1>2 DEF ListingOpens, ListedAs, MapSet
<1>3. ASSUME ListingCloses(sale)
      PROVE  /\ listings[sale].tokenId = t =>
                  sale \in ListedAs(t) /\ ListedAs(t)' = ListedAs(t) \ {sale}
             /\ listings[sale].tokenId # t => ListedAs(t)' = ListedAs(t)
  <2>1. sale \in DOMAIN listings /\ listings' = MapDelete(listings, sale)
    BY <1>3 DEF ListingCloses
  <2> QED
    BY <2>1 DEF ListedAs, MapDelete
<1> QED
  BY <1>2, <1>3

LEMMA AuctionedAfter ==
  ASSUME AuctionsInv, NEW sale, NEW t
  PROVE  /\ AuctionOpens(sale) =>
              /\ sale.tokenId = t =>
                   AuctionedAs(t)' = AuctionedAs(t) \cup {auctionNonce}
              /\ sale.tokenId # t => AuctionedAs(t)' = AuctionedAs(t)
         /\ AuctionCloses(sale) =>
              /\ auctions[sale].tokenId = t =>
                   sale \in AuctionedAs(t)
                   /\ AuctionedAs(t)' = AuctionedAs(t) \ {sale}
              /\ auctions[sale].tokenId # t => AuctionedAs(t)' = AuctionedAs(t)
         /\ \A w, bid : AuctionRises(sale, w, bid) =>
              AuctionedAs(t)' = AuctionedAs(t)
<1>1. auctionNonce \notin DOMAIN auctions
  <2>1. auctionNonce \in Nat /\ auctionNonce \notin AuctionIds
    BY DEF AuctionsInv, AuctionIds
  <2> QED
    BY <2>1 DEF AuctionsInv, Sorted
<1>2. ASSUME AuctionOpens(sale)
      PROVE  /\ sale.tokenId = t =>
                  AuctionedAs(t)' = AuctionedAs(t) \cup {auctionNonce}
             /\ sale.tokenId # t => AuctionedAs(t)' = AuctionedAs(t)
  BY <1>1, <1>2 DEF AuctionOpens, AuctionedAs, MapSet
<1>3. ASSUME AuctionCloses(sale)
      PROVE  /\ auctions[sale].tokenId = t =>
                  sale \in AuctionedAs(t)
                  /\ AuctionedAs(t)' = AuctionedAs(t) \ {sale}
             /\ auctions[sale].tokenId # t => AuctionedAs(t)' = AuctionedAs(t)
  <2>1. sale \in DOMAIN auctions /\ auctions' = MapDelete(auctions, sale)
    BY <1>3 DEF AuctionCloses
  <2> QED
    BY <2>1 DEF AuctionedAs, MapDelete
<1>4. ASSUME NEW w, NEW bid, AuctionRises(sale, w, bid)
      PROVE  AuctionedAs(t)' = AuctionedAs(t)
  <2>1. /\ sale \in DOMAIN auctions
        /\ DOMAIN auctions' = DOMAIN auctions
        /\ auctions'[sale] = [auctions[sale] EXCEPT !.highestBid = bid,
                                                    !.highestBidder = w]
        /\ \A id \in DOMAIN auctions : id # sale => auctions'[id] = auctions[id]
    BY <1>4 DEF AuctionRises, MapSet
  <2>2. auctions[sale] \in Auction
    BY <2>1, OpenAuction
  <2>3. auctions'[sale].tokenId = auctions[sale].tokenId
    BY <2>1, <2>2 DEF Auction
  <2> QED
    BY <2>1, <2>3 DEF AuctionedAs
<1> QED
  BY <1>2, <1>3, <1>4

-----------------------------------------------------------------------------
(* The steps *)

MarketInv ==
  /\ NftTypeOK
  /\ stx \in [Accounts -> Nat]
  /\ SettingsType
  /\ ListingsInv /\ AuctionsInv /\ BidsInv
  /\ EscrowInv

(* A transfer the chain accepts leaves every account a natural. *)
LEMMA PaidType ==
  ASSUME NEW bal \in [Accounts -> Nat], NEW amount \in Nat,
         NEW from \in Accounts, NEW to \in Accounts,
         CanPay(bal, amount, from, to)
  PROVE  Paid(bal, amount, from, to) \in [Accounts -> Nat]
BY DEF CanPay, Paid

LEMMA AuctionsOfUnchanged ==
  ASSUME UNCHANGED auctionMaps
  PROVE  /\ UNCHANGED BidMaps
         /\ \A t : AuctionedAs(t)' = AuctionedAs(t)
BY DEF auctionMaps, BidMaps, AuctionedAs

LEMMA ListingsOfUnchanged ==
  ASSUME UNCHANGED listingMaps
  PROVE  \A t : ListedAs(t)' = ListedAs(t)
BY DEF listingMaps, ListedAs

(* A listing opens or closes, and its token comes in or goes out. *)
LEMMA ListingStepInv ==
  ASSUME MarketInv, NEW sale, NEW c, UNCHANGED auctionMaps,
         stx' \in [Accounts -> Nat], SettingsType',
         \/ ListingOpens(sale) /\ TokenComesIn(c, sale.tokenId)
         \/ ListingCloses(sale) /\ TokenGoesOut(c, listings[sale].tokenId)
  PROVE  MarketInv'
<1>1. NftTypeOK /\ ListingsInv /\ AuctionsInv /\ BidsInv /\ EscrowInv
  BY DEF MarketInv
<1>2. AuctionsInv' /\ BidsInv'
  BY <1>1, AuctionsUnchanged, AuctionsOfUnchanged, BidsKept
<1>3. \A t : AuctionedAs(t)' = AuctionedAs(t)
  BY AuctionsOfUnchanged
<1>4. CASE ListingOpens(sale) /\ TokenComesIn(c, sale.tokenId)
  <2>1. ListingsInv'
    BY <1>1, <1>4, ListingOpened
  <2>2. PICK t : t = sale.tokenId
    OBVIOUS
  <2>3. /\ NftTypeOK' /\ t \in TokenIds
        /\ c \notin HeldAs(t) /\ HeldAs(t)' = HeldAs(t) \cup {c}
        /\ \A u \in TokenIds : u # t => HeldAs(u)' = HeldAs(u)
    BY <1>1, <1>4, <2>2, HeldAfter
  <2>4. /\ ListedAs(t)' = ListedAs(t) \cup {fixedPriceNonce}
        /\ \A u \in TokenIds : u # t => ListedAs(u)' = ListedAs(u)
    BY <1>1, <1>4, <2>2, ListedAfter
  <2>5. Covers(ListedAs(t), AuctionedAs(t), HeldAs(t))
    BY <1>1, <2>3 DEF EscrowInv
  <2>6. Covers(ListedAs(t) \cup {fixedPriceNonce}, AuctionedAs(t),
               HeldAs(t) \cup {c})
    BY <2>3, <2>5, OneMoreSale
  <2>7. EscrowInv'
    BY <1>1, <1>3, <2>3, <2>4, <2>6 DEF EscrowInv
  <2> QED
    BY <1>2, <2>1, <2>3, <2>7 DEF MarketInv
<1>5. CASE ListingCloses(sale) /\ TokenGoesOut(c, listings[sale].tokenId)
  <2>1. ListingsInv'
    BY <1>1, <1>5, ListingClosed
  <2>2. PICK t : t = listings[sale].tokenId
    OBVIOUS
  <2>3. /\ NftTypeOK' /\ t \in TokenIds
        /\ c \in HeldAs(t) /\ HeldAs(t)' = HeldAs(t) \ {c}
        /\ \A u \in TokenIds : u # t => HeldAs(u)' = HeldAs(u)
    BY <1>1, <1>5, <2>2, HeldAfter
  <2>4. /\ sale \in ListedAs(t) /\ ListedAs(t)' = ListedAs(t) \ {sale}
        /\ \A u \in TokenIds : u # t => ListedAs(u)' = ListedAs(u)
    BY <1>1, <1>5, <2>2, ListedAfter
  <2>5. Covers(ListedAs(t), AuctionedAs(t), HeldAs(t))
    BY <1>1, <2>3 DEF EscrowInv
  <2>6. Covers(ListedAs(t) \ {sale}, AuctionedAs(t), HeldAs(t) \ {c})
    BY <2>3, <2>4, <2>5, OneSaleLess
  <2>7. EscrowInv'
    BY <1>1, <1>3, <2>3, <2>4, <2>6 DEF EscrowInv
  <2> QED
    BY <1>2, <2>1, <2>3, <2>7 DEF MarketInv
<1> QED
  BY <1>4, <1>5

(* An auction opens or closes, and its token comes in or goes out. *)
LEMMA AuctionStepInv ==
  ASSUME MarketInv, NEW sale, NEW c, UNCHANGED listingMaps,
         stx' \in [Accounts -> Nat], SettingsType',
         \/ AuctionOpens(sale) /\ TokenComesIn(c, sale.tokenId)
         \/ AuctionCloses(sale) /\ TokenGoesOut(c, auctions[sale].tokenId)
  PROVE  MarketInv'
<1>1. NftTypeOK /\ ListingsInv /\ AuctionsInv /\ BidsInv /\ EscrowInv
  BY DEF MarketInv
<1>2. ListingsInv'
  BY <1>1, ListingsUnchanged
<1>3. \A t : ListedAs(t)' = ListedAs(t)
  BY ListingsOfUnchanged
<1>4. CASE AuctionOpens(sale) /\ TokenComesIn(c, sale.tokenId)
  <2>1. AuctionsInv' /\ BidsInv'
    <3>1. /\ AuctionsInv' /\ AuctionIds \subseteq AuctionIds'
          /\ \A id \in AuctionIds : AuctionOf(id)' = AuctionOf(id)
      BY <1>1, <1>4, AuctionOpened
    <3>2. UNCHANGED BidMaps
      BY <1>4 DEF AuctionOpens, BidMaps
    <3> QED
      BY <1>1, <3>1, <3>2, BidsKept
  <2>2. PICK t : t = sale.tokenId
    OBVIOUS
  <2>3. /\ NftTypeOK' /\ t \in TokenIds
        /\ c \notin HeldAs(t) /\ HeldAs(t)' = HeldAs(t) \cup {c}
        /\ \A u \in TokenIds : u # t => HeldAs(u)' = HeldAs(u)
    BY <1>1, <1>4, <2>2, HeldAfter
  <2>4. /\ AuctionedAs(t)' = AuctionedAs(t) \cup {auctionNonce}
        /\ \A u \in TokenIds : u # t => AuctionedAs(u)' = AuctionedAs(u)
    BY <1>1, <1>4, <2>2, AuctionedAfter
  <2>5. Covers(ListedAs(t), AuctionedAs(t), HeldAs(t))
    BY <1>1, <2>3 DEF EscrowInv
  <2>6. Covers(ListedAs(t), AuctionedAs(t) \cup {auctionNonce},
               HeldAs(t) \cup {c})
    BY <2>3, <2>5, OneMoreSale
  <2>7. EscrowInv'
    BY <1>1, <1>3, <2>3, <2>4, <2>6 DEF EscrowInv
  <2> QED
    BY <1>2, <2>1, <2>3, <2>7 DEF MarketInv
<1>5. CASE AuctionCloses(sale) /\ TokenGoesOut(c, auctions[sale].tokenId)
  <2>1. AuctionsInv' /\ BidsInv'
    <3>1. /\ AuctionsInv' /\ AuctionIds \subseteq AuctionIds'
          /\ \A id \in AuctionIds : AuctionOf(id)' = AuctionOf(id)
      BY <1>1, <1>5, AuctionClosed
    <3>2. UNCHANGED BidMaps
      BY <1>5 DEF AuctionCloses, BidMaps
    <3> QED
      BY <1>1, <3>1, <3>2, BidsKept
  <2>2. PICK t : t = auctions[sale].tokenId
    OBVIOUS
  <2>3. /\ NftTypeOK' /\ t \in TokenIds
        /\ c \in HeldAs(t) /\ HeldAs(t)' = HeldAs(t) \ {c}
        /\ \A u \in TokenIds : u # t => HeldAs(u)' = HeldAs(u)
    BY <1>1, <1>5, <2>2, HeldAfter
  <2>4. /\ sale \in AuctionedAs(t) /\ AuctionedAs(t)' = AuctionedAs(t) \ {sale}
        /\ \A u \in TokenIds : u # t => AuctionedAs(u)' = AuctionedAs(u)
    BY <1>1, <1>5, <2>2, AuctionedAfter
  <2>5. Covers(ListedAs(t), AuctionedAs(t), HeldAs(t))
    BY <1>1, <2>3 DEF EscrowInv
  <2>6. Covers(ListedAs(t), AuctionedAs(t) \ {sale}, HeldAs(t) \ {c})
    BY <2>3, <2>4, <2>5, OneSaleLess
  <2>7. EscrowInv'
    BY <1>1, <1>3, <2>3, <2>4, <2>6 DEF EscrowInv
  <2> QED
    BY <1>2, <2>1, <2>3, <2>7 DEF MarketInv
<1> QED
  BY <1>4, <1>5

(* No sale changes. *)
LEMMA SettingStepInv ==
  ASSUME MarketInv, UNCHANGED <<listingMaps, auctionMaps, stx, owners>>,
         SettingsType'
  PROVE  MarketInv'
<1>1. UNCHANGED listingMaps /\ UNCHANGED auctionMaps
      /\ stx' = stx /\ owners' = owners
  OBVIOUS
<1>2. ListingsInv' /\ AuctionsInv' /\ BidsInv'
  BY <1>1, ListingsUnchanged, AuctionsUnchanged, AuctionsOfUnchanged, BidsKept
     DEF MarketInv
<1>3. EscrowInv'
  <2>1. \A t : HeldAs(t)' = HeldAs(t)
    BY <1>1 DEF HeldAs
  <2> QED
    BY <1>1, <2>1, AuctionsOfUnchanged, ListingsOfUnchanged DEF MarketInv, EscrowInv
<1> QED
  BY <1>1, <1>2, <1>3 DEF MarketInv, NftTypeOK

(* A bid is raised, and no token moves. *)
LEMMA BidStepInv ==
  ASSUME MarketInv, NEW id, NEW w, NEW bid, AuctionRises(id, w, bid),
         UNCHANGED listingMaps, owners' = owners,
         stx' \in [Accounts -> Nat], SettingsType'
  PROVE  MarketInv'
<1>1. ListingsInv' /\ AuctionsInv' /\ BidsInv'
  BY ListingsUnchanged, AuctionRaised, BidsRaised DEF MarketInv
<1>2. EscrowInv'
  <2>1. \A t : HeldAs(t)' = HeldAs(t)
    BY DEF HeldAs
  <2>2. \A t : AuctionedAs(t)' = AuctionedAs(t)
    BY AuctionedAfter DEF MarketInv
  <2> QED
    BY <2>1, <2>2, ListingsOfUnchanged DEF MarketInv, EscrowInv
<1> QED
  BY <1>1, <1>2 DEF MarketInv, NftTypeOK

(* A wallet gives a token away, to the contract or to anyone. *)
LEMMA TransferStepInv ==
  ASSUME MarketInv, NEW w \in Wallets, NEW item \in Items, NEW to \in Recipients,
         TransferNft(w, item, to), UNCHANGED <<listingMaps, auctionMaps>>,
         stx' = stx, SettingsType'
  PROVE  MarketInv'
<1>1. PICK c \in Collections, t \in TokenIds : item = <<c, t>>
  BY DEF Items
<1>2. /\ owners \in [Collections \X TokenIds -> Accounts]
      /\ to \in Accounts /\ w # Market
  BY MarketAssumption, PrincipalsAssumption DEF MarketInv, NftTypeOK, Items
<1>3. owners[<<c, t>>] # Market /\ owners' = [owners EXCEPT ![<<c, t>>] = to]
  BY <1>1, <1>2 DEF TransferNft, CanMoveNft, MovedNft
<1>4. NftTypeOK'
  BY <1>2, <1>3 DEF NftTypeOK, Items
<1>5. ASSUME NEW u \in TokenIds
      PROVE  HeldAs(u)' = HeldAs(u) \/ HeldAs(u)' = HeldAs(u) \cup {c}
  <2>1. \A d \in Collections :
          owners'[<<d, u>>] = IF d = c /\ u = t THEN to ELSE owners[<<d, u>>]
    BY <1>2, <1>3
  <2>2. CASE to = Market /\ u = t
    BY <2>1, <2>2 DEF HeldAs
  <2>3. CASE to # Market \/ u # t
    BY <1>3, <2>1, <2>3 DEF HeldAs
  <2> QED
    BY <2>2, <2>3
<1>6. EscrowInv'
  <2>1. UNCHANGED auctionMaps /\ UNCHANGED listingMaps
    OBVIOUS
  <2>2. \A u : AuctionedAs(u)' = AuctionedAs(u) /\ ListedAs(u)' = ListedAs(u)
    BY <2>1, AuctionsOfUnchanged, ListingsOfUnchanged
  <2>3. \A u \in TokenIds : Covers(ListedAs(u), AuctionedAs(u), HeldAs(u))
    BY DEF MarketInv, EscrowInv
  <2>4. \A u \in TokenIds :
          Covers(ListedAs(u), AuctionedAs(u), HeldAs(u) \cup {c})
    BY <2>3, OneMoreToken
  <2> QED
    BY <1>5, <2>2, <2>3, <2>4 DEF EscrowInv
<1>7. ListingsInv' /\ AuctionsInv' /\ BidsInv'
  <2>1. UNCHANGED auctionMaps /\ UNCHANGED listingMaps
    OBVIOUS
  <2> QED
    BY <2>1, ListingsUnchanged, AuctionsUnchanged, AuctionsOfUnchanged, BidsKept
       DEF MarketInv
<1> QED
  BY <1>4, <1>6, <1>7 DEF MarketInv

-----------------------------------------------------------------------------
(* What each call does, in these terms *)

ListingStep ==
  /\ UNCHANGED auctionMaps
  /\ \E sale, c :
       \/ ListingOpens(sale) /\ sale.collection = c
          /\ TokenComesIn(c, sale.tokenId)
       \/ ListingCloses(sale) /\ TokenGoesOut(c, listings[sale].tokenId)

AuctionStep ==
  /\ UNCHANGED listingMaps
  /\ \E sale, c :
       \/ AuctionOpens(sale) /\ sale.collection = c
          /\ TokenComesIn(c, sale.tokenId)
       \/ AuctionCloses(sale) /\ TokenGoesOut(c, auctions[sale].tokenId)

BidStep ==
  /\ UNCHANGED listingMaps /\ owners' = owners
  /\ \E id, w, bid : AuctionRises(id, w, bid)

ValuesType == stx' \in [Accounts -> Nat] /\ SettingsType'

LEMMA WalletsAreAccounts ==
  /\ Wallets \subseteq Accounts /\ Market \in Accounts
  /\ Market \notin Wallets /\ None \notin Wallets
BY MarketAssumption, PrincipalsAssumption DEF Accounts

LEMMA SettingsUnchanged ==
  ASSUME SettingsType, UNCHANGED settings, blockHeight' = blockHeight
  PROVE  SettingsType'
BY DEF SettingsType, settings

LEMMA ListFixedPriceIs ==
  ASSUME MarketInv, NEW w \in Wallets, NEW item \in Items, NEW p \in Prices,
         ListFixedPrice(w, item, p)
  PROVE  ListingStep /\ ValuesType
<1>1. PICK c \in Collections, t \in TokenIds : item = <<c, t>>
  BY DEF Items
<1>2. PICK sale : sale = [maker |-> w, collection |-> c, tokenId |-> t, price |-> p]
  OBVIOUS
<1>3. /\ sale \in Listing /\ sale.price = p
      /\ sale.collection = c /\ sale.tokenId = t
  BY <1>2, MarketAssumption DEF Listing
<1>4. ListingOpens(sale)
  BY <1>1, <1>2, <1>3 DEF ListFixedPrice, Incremented, ListingOpens
<1>5. TokenComesIn(c, sale.tokenId)
  BY <1>1, <1>3, WalletsAreAccounts
     DEF ListFixedPrice, CanMoveNft, MovedNft, TokenComesIn
<1>6. /\ UNCHANGED auctionMaps /\ UNCHANGED settings
      /\ stx' = stx /\ blockHeight' = blockHeight
  BY DEF ListFixedPrice
<1> QED
  BY <1>3, <1>4, <1>5, <1>6, SettingsUnchanged DEF ListingStep, ValuesType, MarketInv

LEMMA PurchaseIs ==
  ASSUME MarketInv, NEW w \in Wallets, NEW id \in DOMAIN listings,
         NEW to \in Recipients, NEW c \in Collections,
         PurchaseFixedPriceListing(w, id, to, c)
  PROVE  ListingStep /\ ValuesType
<1>1. /\ listings[id].maker \in Accounts /\ listings[id].tokenId \in TokenIds
      /\ listings[id].price \in Nat
  BY OpenListing, WalletsAreAccounts DEF MarketInv
<1>2. /\ CanPay(stx, listings[id].price, w, listings[id].maker)
      /\ CanMoveNft(<<c, listings[id].tokenId>>, Market, Market, to)
      /\ stx' = Paid(stx, listings[id].price, w, listings[id].maker)
      /\ owners' = MovedNft(<<c, listings[id].tokenId>>, to)
      /\ completedListings' = MapSet(completedListings, id, listings[id])
      /\ listings' = MapDelete(listings, id)
      /\ cancelledListings' = cancelledListings
      /\ fixedPriceNonce' = fixedPriceNonce
      /\ UNCHANGED auctionMaps /\ UNCHANGED settings
      /\ blockHeight' = blockHeight
  BY DEF PurchaseFixedPriceListing
<1>3. ListingCloses(id)
  BY <1>2 DEF ListingCloses
<1>4. TokenGoesOut(c, listings[id].tokenId)
  BY <1>1, <1>2, MarketAssumption DEF TokenGoesOut, CanMoveNft, MovedNft
<1>5. stx' \in [Accounts -> Nat]
  BY <1>1, <1>2, WalletsAreAccounts, PaidType DEF MarketInv
<1> QED
  BY <1>2, <1>3, <1>4, <1>5, SettingsUnchanged DEF ListingStep, ValuesType, MarketInv

LEMMA CancelListingIs ==
  ASSUME MarketInv, NEW w \in Wallets, NEW id \in DOMAIN listings,
         NEW c \in Collections, CancelFixedPriceListing(w, id, c)
  PROVE  ListingStep /\ ValuesType
<1>1. listings[id].maker \in Accounts /\ listings[id].tokenId \in TokenIds
  BY OpenListing, WalletsAreAccounts DEF MarketInv
<1>2. /\ CanMoveNft(<<c, listings[id].tokenId>>, Market, Market, listings[id].maker)
      /\ owners' = MovedNft(<<c, listings[id].tokenId>>, listings[id].maker)
      /\ cancelledListings' = MapSet(cancelledListings, id, listings[id])
      /\ listings' = MapDelete(listings, id)
      /\ completedListings' = completedListings
      /\ fixedPriceNonce' = fixedPriceNonce
      /\ UNCHANGED auctionMaps /\ UNCHANGED settings
      /\ stx' = stx /\ blockHeight' = blockHeight
  BY DEF CancelFixedPriceListing
<1>3. ListingCloses(id)
  BY <1>2 DEF ListingCloses
<1>4. TokenGoesOut(c, listings[id].tokenId)
  BY <1>1, <1>2 DEF TokenGoesOut, CanMoveNft, MovedNft
<1> QED
  BY <1>2, <1>3, <1>4, SettingsUnchanged DEF ListingStep, ValuesType, MarketInv

LEMMA StartAuctionIs ==
  ASSUME MarketInv, NEW w \in Wallets, NEW item \in Items,
         NEW terms \in AuctionTerms, StartAuction(w, item, terms)
  PROVE  AuctionStep /\ ValuesType
<1>1. PICK c \in Collections, t \in TokenIds : item = <<c, t>>
  BY DEF Items
<1>2. PICK sale :
        sale = [maker |-> w, collection |-> c, tokenId |-> t,
                startBlock |-> terms[1], endBlock |-> terms[2],
                startBid |-> terms[3], reservePrice |-> terms[4],
                highestBid |-> 0, highestBidder |-> None]
  OBVIOUS
<1>3. terms \in Nat \X Nat \X Nat \X Nat
  BY MarketAssumption
<1>4. /\ sale \in Auction /\ sale.collection = c /\ sale.tokenId = t
      /\ sale.highestBid = 0 /\ sale.highestBidder = None
  BY <1>2, <1>3 DEF Auction
<1>5. AuctionOpens(sale)
  BY <1>1, <1>2, <1>4 DEF StartAuction, Incremented, AuctionOpens
<1>6. TokenComesIn(c, sale.tokenId)
  BY <1>1, <1>4, WalletsAreAccounts
     DEF StartAuction, CanMoveNft, MovedNft, TokenComesIn
<1>7. /\ UNCHANGED listingMaps /\ UNCHANGED settings
      /\ stx' = stx /\ blockHeight' = blockHeight
  BY DEF StartAuction
<1> QED
  BY <1>4, <1>5, <1>6, <1>7, SettingsUnchanged DEF AuctionStep, ValuesType, MarketInv

LEMMA PlaceBidIs ==
  ASSUME MarketInv, NEW w \in Wallets, NEW id \in DOMAIN auctions,
         NEW bid \in Prices, PlaceBid(w, id, bid)
  PROVE  /\ BidStep /\ ValuesType
         /\ AuctionRises(id, w, bid)
<1>1. PICK auction, due : auction = auctions[id] /\ due = bid - PreviousBid(id, w)
  OBVIOUS
<1>2. /\ CanBid(auction, bid)
      /\ CanPay(stx, due, w, Market)
      /\ auction.highestBidder # None =>
           CanPay(Paid(stx, due, w, Market), auction.highestBid, Market,
                  auction.highestBidder)
      /\ stx' = StxAfterBid(auction, w, due)
      /\ auctions' = MapSet(auctions, id,
           [auction EXCEPT !.highestBid = bid, !.highestBidder = w])
      /\ bids' = BidsAfter(id, auction, w, bid)
      /\ withdrawnBids' = WithdrawnAfter(id, auction)
      /\ completedAuctions' = completedAuctions
      /\ cancelledAuctions' = cancelledAuctions
      /\ auctionNonce' = auctionNonce
      /\ UNCHANGED listingMaps /\ UNCHANGED settings
      /\ owners' = owners /\ blockHeight' = blockHeight
  BY <1>1 DEF PlaceBid
<1>3. AuctionRises(id, w, bid)
  BY <1>1, <1>2 DEF AuctionRises, CanBid
<1>4. stx' \in [Accounts -> Nat]
  <2>1. /\ auction.highestBid \in Nat
        /\ auction.highestBidder \in Wallets \cup {None}
    BY <1>1, OpenAuction DEF MarketInv
  <2>2. due \in Nat
    <3>1. bid \in Nat /\ PreviousBid(id, w) \in Nat
      BY MarketAssumption DEF PreviousBid, MarketInv, BidsInv, IsMap
    <3> QED
      BY <1>1, <1>2, <3>1 DEF CanPay
  <2>3. PICK received : received = Paid(stx, due, w, Market)
    OBVIOUS
  <2>4. received \in [Accounts -> Nat]
    BY <1>2, <2>2, <2>3, WalletsAreAccounts, PaidType DEF MarketInv
  <2>5. CASE auction.highestBidder = None
    BY <1>2, <2>3, <2>4, <2>5 DEF StxAfterBid
  <2>6. CASE auction.highestBidder # None
    <3>1. stx' = Paid(received, auction.highestBid, Market, auction.highestBidder)
      BY <1>2, <2>3, <2>6 DEF StxAfterBid
    <3> QED
      BY <1>2, <2>1, <2>3, <2>4, <2>6, <3>1, WalletsAreAccounts, PaidType
  <2> QED
    BY <2>5, <2>6
<1> QED
  BY <1>2, <1>3, <1>4, SettingsUnchanged DEF BidStep, ValuesType, MarketInv

LEMMA EndAuctionIs ==
  ASSUME MarketInv, NEW w \in Wallets, NEW id \in DOMAIN auctions,
         NEW c \in Collections, EndAuction(w, id, c)
  PROVE  AuctionStep /\ ValuesType
<1>1. PICK auction : auction = auctions[id]
  OBVIOUS
<1> DEFINE sold == ReserveMet(auction)
<1>2. PICK newOwner, payee :
        /\ newOwner = IF sold THEN auction.highestBidder ELSE auction.maker
        /\ payee = IF sold THEN auction.maker ELSE auction.highestBidder
  OBVIOUS
<1>3. /\ auction.highestBidder # None
      /\ CanMoveNft(<<c, auction.tokenId>>, Market, Market, newOwner)
      /\ CanPay(stx, auction.highestBid, Market, payee)
      /\ owners' = MovedNft(<<c, auction.tokenId>>, newOwner)
      /\ stx' = Paid(stx, auction.highestBid, Market, payee)
      /\ completedAuctions' =
           IF sold THEN MapSet(completedAuctions, id, auction) ELSE completedAuctions
      /\ cancelledAuctions' =
           IF sold THEN cancelledAuctions ELSE MapSet(cancelledAuctions, id, auction)
      /\ auctions' = MapDelete(auctions, id)
      /\ bids' = bids /\ withdrawnBids' = withdrawnBids
      /\ auctionNonce' = auctionNonce
      /\ UNCHANGED listingMaps /\ UNCHANGED settings
      /\ blockHeight' = blockHeight
  BY <1>1, <1>2 DEF EndAuction, CanEndAuction
<1>4. /\ auction.maker \in Wallets /\ auction.tokenId \in TokenIds
      /\ auction.highestBid \in Nat
      /\ auction.highestBidder \in Wallets
  BY <1>1, <1>3, OpenAuction DEF MarketInv
<1>5. newOwner \in Accounts /\ payee \in Accounts
  BY <1>2, <1>4, WalletsAreAccounts
<1>6. AuctionCloses(id)
  BY <1>1, <1>3 DEF AuctionCloses
<1>7. TokenGoesOut(c, auctions[id].tokenId)
  BY <1>1, <1>3, <1>4, <1>5 DEF TokenGoesOut, CanMoveNft, MovedNft
<1>8. stx' \in [Accounts -> Nat]
  BY <1>3, <1>4, <1>5, WalletsAreAccounts, PaidType DEF MarketInv
<1> QED
  BY <1>3, <1>6, <1>7, <1>8, SettingsUnchanged DEF AuctionStep, ValuesType, MarketInv

LEMMA CancelAuctionIs ==
  ASSUME MarketInv, NEW w \in Wallets, NEW id \in DOMAIN auctions,
         NEW c \in Collections, CancelAuction(w, id, c)
  PROVE  AuctionStep /\ ValuesType
<1>1. PICK auction : auction = auctions[id]
  OBVIOUS
<1>2. /\ CanMoveNft(<<c, auction.tokenId>>, Market, Market, auction.maker)
      /\ owners' = MovedNft(<<c, auction.tokenId>>, auction.maker)
      /\ IF auction.highestBidder = None
         THEN stx' = stx
         ELSE /\ CanPay(stx, auction.highestBid, Market, auction.highestBidder)
              /\ stx' = Paid(stx, auction.highestBid, Market,
                             auction.highestBidder)
      /\ cancelledAuctions' = MapSet(cancelledAuctions, id, auction)
      /\ auctions' = MapDelete(auctions, id)
      /\ completedAuctions' = completedAuctions
      /\ bids' = bids /\ withdrawnBids' = withdrawnBids
      /\ auctionNonce' = auctionNonce
      /\ UNCHANGED listingMaps /\ UNCHANGED settings
      /\ blockHeight' = blockHeight
  BY <1>1 DEF CancelAuction
<1>3. /\ auction.maker \in Accounts /\ auction.tokenId \in TokenIds
      /\ auction.highestBid \in Nat
      /\ auction.highestBidder \in Wallets \cup {None}
  BY <1>1, OpenAuction, WalletsAreAccounts DEF MarketInv
<1>4. AuctionCloses(id)
  BY <1>1, <1>2 DEF AuctionCloses
<1>5. TokenGoesOut(c, auctions[id].tokenId)
  BY <1>1, <1>2, <1>3 DEF TokenGoesOut, CanMoveNft, MovedNft
<1>6. stx' \in [Accounts -> Nat]
  <2>1. CASE auction.highestBidder = None
    BY <1>2, <2>1 DEF MarketInv
  <2>2. CASE auction.highestBidder # None
    BY <1>2, <1>3, <2>2, WalletsAreAccounts, PaidType DEF MarketInv
  <2> QED
    BY <2>1, <2>2
<1> QED
  BY <1>2, <1>4, <1>5, <1>6, SettingsUnchanged DEF AuctionStep, ValuesType, MarketInv

LEMMA OwnerStepIs ==
  ASSUME MarketInv, OwnerNext \/ MineBlocks
  PROVE  UNCHANGED <<listingMaps, auctionMaps, stx, owners>> /\ SettingsType'
<1>1. CASE OwnerNext
  <2>1. UNCHANGED <<listingMaps, auctionMaps, stx, owners>>
    BY <1>1 DEF OwnerNext, SetWhitelisted, UpdateBlacklisted, PauseContract,
       ResumeContract, SetOwner
  <2>2. SettingsType'
    BY <1>1, MarketAssumption DEF MarketInv, SettingsType, OwnerNext,
       SetWhitelisted, UpdateBlacklisted, PauseContract, ResumeContract, SetOwner
  <2> QED
    BY <2>1, <2>2
<1>2. CASE MineBlocks
  BY <1>2, MarketAssumption DEF MarketInv, SettingsType, MineBlocks, settings
<1> QED
  BY <1>1, <1>2

(* No sale changes in any other step. *)
QuietStep == UNCHANGED <<listingMaps, auctionMaps>>

(* Every step is one of these. *)
LEMMA StepIs ==
  ASSUME MarketInv, [Next]_vars
  PROVE  ListingStep \/ AuctionStep \/ BidStep \/ QuietStep
<1>1. CASE SaleNext
  BY <1>1, ListFixedPriceIs, PurchaseIs, CancelListingIs, StartAuctionIs,
     PlaceBidIs, EndAuctionIs, CancelAuctionIs DEF SaleNext
<1>2. CASE OwnerNext \/ MineBlocks
  BY <1>2, OwnerStepIs DEF QuietStep
<1>3. CASE \E w \in Wallets, item \in Items, to \in Recipients :
             TransferNft(w, item, to)
             /\ UNCHANGED <<listingMaps, auctionMaps, settings, stx, blockHeight>>
  BY <1>3 DEF QuietStep
<1>4. CASE UNCHANGED vars
  BY <1>4 DEF QuietStep, vars
<1> QED
  BY <1>1, <1>2, <1>3, <1>4 DEF Next, EnvironmentNext

-----------------------------------------------------------------------------
(* The invariant holds *)

LEMMA InitInv == Init => MarketInv
<1> SUFFICES ASSUME Init PROVE MarketInv
  OBVIOUS
<1>1. DOMAIN <<>> = {} /\ 0..(0 - 1) = {}
  OBVIOUS
<1>2. /\ ListingIds = {} /\ AuctionIds = {}
      /\ DOMAIN listings = {} /\ DOMAIN completedListings = {}
      /\ DOMAIN cancelledListings = {}
      /\ DOMAIN auctions = {} /\ DOMAIN completedAuctions = {}
      /\ DOMAIN cancelledAuctions = {}
      /\ DOMAIN bids = {} /\ DOMAIN withdrawnBids = {}
  BY <1>1 DEF Init, ListingIds, AuctionIds
<1>3. NftTypeOK /\ stx \in [Accounts -> Nat] /\ SettingsType
  BY NftAssumption, MarketAssumption
     DEF Init, NftInit, NftTypeOK, SettingsType, Accounts
<1>4. ListingsInv /\ AuctionsInv
  BY <1>2, MarketAssumption DEF Init, ListingsInv, AuctionsInv, Sorted
<1>5. BidsInv
  BY <1>2 DEF BidsInv, IsMap, RecordedBidIsHeld
<1>6. ASSUME NEW t \in TokenIds
      PROVE  Covers(ListedAs(t), AuctionedAs(t), HeldAs(t))
  <2>1. ListedAs(t) = {} /\ AuctionedAs(t) = {}
    BY <1>2 DEF ListedAs, AuctionedAs
  <2>2. HeldAs(t) = {}
    BY NftAssumption, WalletsAreAccounts DEF Init, NftInit, HeldAs, Items
  <2>3. Covers({}, {}, {})
    BY FS_EmptySet DEF Covers
  <2> QED
    BY <2>1, <2>2, <2>3
<1> QED
  BY <1>3, <1>4, <1>5, <1>6 DEF MarketInv, EscrowInv

LEMMA NextInv == MarketInv /\ [Next]_vars => MarketInv'
<1> SUFFICES ASSUME MarketInv, [Next]_vars PROVE MarketInv'
  OBVIOUS
<1>1. ASSUME ListingStep, ValuesType PROVE MarketInv'
  BY <1>1, ListingStepInv DEF ListingStep, ValuesType
<1>2. ASSUME AuctionStep, ValuesType PROVE MarketInv'
  BY <1>2, AuctionStepInv DEF AuctionStep, ValuesType
<1>3. ASSUME BidStep, ValuesType PROVE MarketInv'
  BY <1>3, BidStepInv DEF BidStep, ValuesType
<1>4. CASE SaleNext
  BY <1>1, <1>2, <1>3, <1>4, ListFixedPriceIs, PurchaseIs, CancelListingIs,
     StartAuctionIs, PlaceBidIs, EndAuctionIs, CancelAuctionIs DEF SaleNext
<1>5. CASE OwnerNext \/ MineBlocks
  BY <1>5, OwnerStepIs, SettingStepInv
<1>6. ASSUME NEW w \in Wallets, NEW item \in Items, NEW to \in Recipients,
             TransferNft(w, item, to),
             UNCHANGED <<listingMaps, auctionMaps, settings, stx, blockHeight>>
      PROVE  MarketInv'
  <2>1. UNCHANGED settings /\ blockHeight' = blockHeight /\ stx' = stx
        /\ UNCHANGED <<listingMaps, auctionMaps>>
    BY <1>6
  <2>2. SettingsType'
    BY <2>1, SettingsUnchanged DEF MarketInv
  <2> QED
    BY <1>6, <2>1, <2>2, TransferStepInv
<1>7. CASE UNCHANGED vars
  <2>1. /\ UNCHANGED settings /\ blockHeight' = blockHeight
        /\ UNCHANGED <<listingMaps, auctionMaps, stx, owners>>
    BY <1>7 DEF vars
  <2>2. SettingsType'
    BY <2>1, SettingsUnchanged DEF MarketInv
  <2> QED
    BY <2>1, <2>2, SettingStepInv
<1> QED
  BY <1>4, <1>5, <1>6, <1>7 DEF Next, EnvironmentNext

(* The inductive invariant: every sale is in exactly one map, an auction   *)
(* has a bidder just when it has a bid, the recorded bid is the one held,  *)
(* and of every identifier the contract holds as many tokens, whatever     *)
(* their collections, as it has open sales.  A call settles a sale with    *)
(* the collection it names, so that no more than the number is kept; and   *)
(* even that rests on every collection named transferring as sip009-nft.   *)
THEOREM MarketInvariant == Spec => []MarketInv
BY InitInv, NextInv, PTL DEF Spec

(* The storage stays well typed: no account is overdrawn, whatever is paid *)
(* for purchases, bids and refunds.                                        *)
THEOREM MarketTypes == Spec => []TypeOK
<1>1. MarketInv => TypeOK
  <2> SUFFICES ASSUME MarketInv PROVE TypeOK
    OBVIOUS
  <2>1. /\ IsMap(listings, ListingIds, Listing)
        /\ IsMap(completedListings, ListingIds, Listing)
        /\ IsMap(cancelledListings, ListingIds, Listing)
    BY SalesTyped DEF MarketInv, ListingsInv, ListingOf
  <2>2. /\ IsMap(auctions, AuctionIds, Auction)
        /\ IsMap(completedAuctions, AuctionIds, Auction)
        /\ IsMap(cancelledAuctions, AuctionIds, Auction)
    BY SalesTyped DEF MarketInv, AuctionsInv, AuctionOf
  <2> QED
    BY <2>1, <2>2 DEF TypeOK, MarketInv, SettingsType, BidsInv, ListingsInv,
       AuctionsInv
<1> QED
  BY <1>1, MarketInvariant, PTL

(* A bidder is credited by place-bid only with the bid the contract holds, *)
(* and every bid given back was lower than the highest.                    *)
THEOREM RecordedBidAlwaysHeld == Spec => []RecordedBidIsHeld
<1>1. MarketInv => RecordedBidIsHeld
  BY DEF MarketInv, BidsInv
<1> QED
  BY <1>1, MarketInvariant, PTL

-----------------------------------------------------------------------------
(* The token of each sale *)

EachTokenKept ==
  \A item \in Items :
    Shortage(item)' > Shortage(item) =>
      \E other \in Items :
        /\ other # item /\ other[2] = item[2]
        /\ ClosesSaleOf(other)
        /\ Shortage(other)' < Shortage(other)

(* The sales of an item, counted. *)
LEMMA SalesCounted ==
  ASSUME MarketInv, NEW item \in Items
  PROVE  /\ IsFiniteSet(OpenListingsOf(item)) /\ IsFiniteSet(OpenAuctionsOf(item))
         /\ Cardinality(OpenListingsOf(item)) \in Nat
         /\ Cardinality(OpenAuctionsOf(item)) \in Nat
<1>1. PICK c \in Collections, t \in TokenIds : item = <<c, t>>
  BY DEF Items
<1>2. Covers(ListedAs(t), AuctionedAs(t), HeldAs(t))
  BY DEF MarketInv, EscrowInv
<1>3. /\ OpenListingsOf(item) \subseteq ListedAs(t)
      /\ OpenAuctionsOf(item) \subseteq AuctionedAs(t)
  BY <1>1 DEF OpenListingsOf, OpenAuctionsOf, ListedAs, AuctionedAs
<1>4. IsFiniteSet(OpenListingsOf(item)) /\ IsFiniteSet(OpenAuctionsOf(item))
  BY <1>2, <1>3, FS_Subset DEF Covers
<1> QED
  BY <1>4, FS_CardinalityType

(* A step opens, or closes, one sale of r, and no sale of another item. *)
OpensSaleOf(r) ==
  \A item \in Items :
    SalesOf(item)' = SalesOf(item) + (IF item = r THEN 1 ELSE 0)

ClosesOnlySaleOf(r) ==
  /\ ClosesSaleOf(r)
  /\ \A item \in Items :
       SalesOf(item)' = SalesOf(item) - (IF item = r THEN 1 ELSE 0)

LEMMA OpenListingsAfter ==
  ASSUME ListingsInv, NEW sale, NEW item
  PROVE  /\ ListingOpens(sale) =>
              /\ <<sale.collection, sale.tokenId>> = item =>
                   /\ fixedPriceNonce \notin OpenListingsOf(item)
                   /\ OpenListingsOf(item)'
                        = OpenListingsOf(item) \cup {fixedPriceNonce}
              /\ <<sale.collection, sale.tokenId>> # item =>
                   OpenListingsOf(item)' = OpenListingsOf(item)
         /\ ListingCloses(sale) =>
              /\ <<listings[sale].collection, listings[sale].tokenId>> = item =>
                   /\ sale \in OpenListingsOf(item)
                   /\ OpenListingsOf(item)' = OpenListingsOf(item) \ {sale}
              /\ <<listings[sale].collection, listings[sale].tokenId>> # item =>
                   OpenListingsOf(item)' = OpenListingsOf(item)
<1>1. fixedPriceNonce \notin DOMAIN listings
  <2>1. fixedPriceNonce \in Nat /\ fixedPriceNonce \notin ListingIds
    BY DEF ListingsInv, ListingIds
  <2> QED
    BY <2>1 DEF ListingsInv, Sorted
<1>2. ASSUME ListingOpens(sale)
      PROVE  /\ <<sale.collection, sale.tokenId>> = item =>
                  /\ fixedPriceNonce \notin OpenListingsOf(item)
                  /\ OpenListingsOf(item)'
                       = OpenListingsOf(item) \cup {fixedPriceNonce}
             /\ <<sale.collection, sale.tokenId>> # item =>
                  OpenListingsOf(item)' = OpenListingsOf(item)
  BY <1>1, <1>2 DEF ListingOpens, OpenListingsOf, MapSet
<1>3. ASSUME ListingCloses(sale)
      PROVE  /\ <<listings[sale].collection, listings[sale].tokenId>> = item =>
                  /\ sale \in OpenListingsOf(item)
                  /\ OpenListingsOf(item)' = OpenListingsOf(item) \ {sale}
             /\ <<listings[sale].collection, listings[sale].tokenId>> # item =>
                  OpenListingsOf(item)' = OpenListingsOf(item)
  <2>1. sale \in DOMAIN listings /\ listings' = MapDelete(listings, sale)
    BY <1>3 DEF ListingCloses
  <2> QED
    BY <2>1 DEF OpenListingsOf, MapDelete
<1> QED
  BY <1>2, <1>3

LEMMA OpenAuctionsAfter ==
  ASSUME AuctionsInv, NEW sale, NEW item
  PROVE  /\ AuctionOpens(sale) =>
              /\ <<sale.collection, sale.tokenId>> = item =>
                   /\ auctionNonce \notin OpenAuctionsOf(item)
                   /\ OpenAuctionsOf(item)'
                        = OpenAuctionsOf(item) \cup {auctionNonce}
              /\ <<sale.collection, sale.tokenId>> # item =>
                   OpenAuctionsOf(item)' = OpenAuctionsOf(item)
         /\ AuctionCloses(sale) =>
              /\ <<auctions[sale].collection, auctions[sale].tokenId>> = item =>
                   /\ sale \in OpenAuctionsOf(item)
                   /\ OpenAuctionsOf(item)' = OpenAuctionsOf(item) \ {sale}
              /\ <<auctions[sale].collection, auctions[sale].tokenId>> # item =>
                   OpenAuctionsOf(item)' = OpenAuctionsOf(item)
         /\ \A w, bid : AuctionRises(sale, w, bid) =>
              OpenAuctionsOf(item)' = OpenAuctionsOf(item)
<1>1. auctionNonce \notin DOMAIN auctions
  <2>1. auctionNonce \in Nat /\ auctionNonce \notin AuctionIds
    BY DEF AuctionsInv, AuctionIds
  <2> QED
    BY <2>1 DEF AuctionsInv, Sorted
<1>2. ASSUME AuctionOpens(sale)
      PROVE  /\ <<sale.collection, sale.tokenId>> = item =>
                  /\ auctionNonce \notin OpenAuctionsOf(item)
                  /\ OpenAuctionsOf(item)'
                       = OpenAuctionsOf(item) \cup {auctionNonce}
             /\ <<sale.collection, sale.tokenId>> # item =>
                  OpenAuctionsOf(item)' = OpenAuctionsOf(item)
  BY <1>1, <1>2 DEF AuctionOpens, OpenAuctionsOf, MapSet
<1>3. ASSUME AuctionCloses(sale)
      PROVE  /\ <<auctions[sale].collection, auctions[sale].tokenId>> = item =>
                  /\ sale \in OpenAuctionsOf(item)
                  /\ OpenAuctionsOf(item)' = OpenAuctionsOf(item) \ {sale}
             /\ <<auctions[sale].collection, auctions[sale].tokenId>> # item =>
                  OpenAuctionsOf(item)' = OpenAuctionsOf(item)
  <2>1. sale \in DOMAIN auctions /\ auctions' = MapDelete(auctions, sale)
    BY <1>3 DEF AuctionCloses
  <2> QED
    BY <2>1 DEF OpenAuctionsOf, MapDelete
<1>4. ASSUME NEW w, NEW bid, AuctionRises(sale, w, bid)
      PROVE  OpenAuctionsOf(item)' = OpenAuctionsOf(item)
  <2>1. /\ sale \in DOMAIN auctions
        /\ DOMAIN auctions' = DOMAIN auctions
        /\ auctions'[sale] = [auctions[sale] EXCEPT !.highestBid = bid,
                                                    !.highestBidder = w]
        /\ \A id \in DOMAIN auctions : id # sale => auctions'[id] = auctions[id]
    BY <1>4 DEF AuctionRises, MapSet
  <2>2. auctions[sale] \in Auction
    BY <2>1, OpenAuction
  <2>3. /\ auctions'[sale].tokenId = auctions[sale].tokenId
        /\ auctions'[sale].collection = auctions[sale].collection
    BY <2>1, <2>2 DEF Auction
  <2> QED
    BY <2>1, <2>3 DEF OpenAuctionsOf
<1> QED
  BY <1>2, <1>3, <1>4

LEMMA ListingsOfItem ==
  ASSUME UNCHANGED listingMaps
  PROVE  \A item : OpenListingsOf(item)' = OpenListingsOf(item)
BY DEF listingMaps, OpenListingsOf

LEMMA AuctionsOfItem ==
  ASSUME UNCHANGED auctionMaps
  PROVE  \A item : OpenAuctionsOf(item)' = OpenAuctionsOf(item)
BY DEF auctionMaps, OpenAuctionsOf

(* Opening or closing a listing changes one count. *)
LEMMA ListingCounts ==
  ASSUME MarketInv, UNCHANGED auctionMaps, NEW sale
  PROVE  /\ ListingOpens(sale) =>
              OpensSaleOf(<<sale.collection, sale.tokenId>>)
         /\ ListingCloses(sale) =>
              ClosesOnlySaleOf(<<listings[sale].collection, listings[sale].tokenId>>)
<1>1. ListingsInv
  BY DEF MarketInv
<1>2. ASSUME NEW item \in Items, ListingOpens(sale)
      PROVE  SalesOf(item)' = SalesOf(item)
               + (IF item = <<sale.collection, sale.tokenId>> THEN 1 ELSE 0)
  <2>1. CASE item = <<sale.collection, sale.tokenId>>
    <3>1. /\ fixedPriceNonce \notin OpenListingsOf(item)
          /\ OpenListingsOf(item)' = OpenListingsOf(item) \cup {fixedPriceNonce}
      BY <1>1, <1>2, <2>1, OpenListingsAfter
    <3>2. IsFiniteSet(OpenListingsOf(item))
      BY SalesCounted
    <3>3. Cardinality(OpenListingsOf(item)') = Cardinality(OpenListingsOf(item)) + 1
      BY <3>1, <3>2, FS_AddElement
    <3> QED
      BY <2>1, <3>3, AuctionsOfItem, SalesCounted DEF SalesOf
  <2>2. CASE item # <<sale.collection, sale.tokenId>>
    <3>1. OpenListingsOf(item)' = OpenListingsOf(item)
      BY <1>1, <1>2, <2>2, OpenListingsAfter
    <3> QED
      BY <2>2, <3>1, AuctionsOfItem, SalesCounted DEF SalesOf
  <2> QED
    BY <2>1, <2>2
<1>3. ASSUME NEW item \in Items, ListingCloses(sale)
      PROVE  SalesOf(item)' = SalesOf(item)
               - (IF item = <<listings[sale].collection, listings[sale].tokenId>>
                  THEN 1 ELSE 0)
  <2>1. CASE item = <<listings[sale].collection, listings[sale].tokenId>>
    <3>1. /\ sale \in OpenListingsOf(item)
          /\ OpenListingsOf(item)' = OpenListingsOf(item) \ {sale}
      BY <1>1, <1>3, <2>1, OpenListingsAfter
    <3>2. IsFiniteSet(OpenListingsOf(item))
      BY SalesCounted
    <3>3. Cardinality(OpenListingsOf(item)') = Cardinality(OpenListingsOf(item)) - 1
      BY <3>1, <3>2, FS_RemoveElement
    <3> QED
      BY <2>1, <3>3, AuctionsOfItem, SalesCounted DEF SalesOf
  <2>2. CASE item # <<listings[sale].collection, listings[sale].tokenId>>
    <3>1. OpenListingsOf(item)' = OpenListingsOf(item)
      BY <1>1, <1>3, <2>2, OpenListingsAfter
    <3> QED
      BY <2>2, <3>1, AuctionsOfItem, SalesCounted DEF SalesOf
  <2> QED
    BY <2>1, <2>2
<1>4. ASSUME ListingCloses(sale)
      PROVE  ClosesSaleOf(<<listings[sale].collection, listings[sale].tokenId>>)
  <2>1. sale \in DOMAIN listings /\ sale \notin DOMAIN listings'
    BY <1>4 DEF ListingCloses, MapDelete
  <2> QED
    BY <2>1 DEF ClosesSaleOf, OpenListingsOf
<1> QED
  BY <1>2, <1>3, <1>4 DEF OpensSaleOf, ClosesOnlySaleOf

LEMMA AuctionCounts ==
  ASSUME MarketInv, UNCHANGED listingMaps, NEW sale
  PROVE  /\ AuctionOpens(sale) =>
              OpensSaleOf(<<sale.collection, sale.tokenId>>)
         /\ AuctionCloses(sale) =>
              ClosesOnlySaleOf(<<auctions[sale].collection, auctions[sale].tokenId>>)
<1>1. AuctionsInv
  BY DEF MarketInv
<1>2. ASSUME NEW item \in Items, AuctionOpens(sale)
      PROVE  SalesOf(item)' = SalesOf(item)
               + (IF item = <<sale.collection, sale.tokenId>> THEN 1 ELSE 0)
  <2>1. CASE item = <<sale.collection, sale.tokenId>>
    <3>1. /\ auctionNonce \notin OpenAuctionsOf(item)
          /\ OpenAuctionsOf(item)' = OpenAuctionsOf(item) \cup {auctionNonce}
      BY <1>1, <1>2, <2>1, OpenAuctionsAfter
    <3>2. IsFiniteSet(OpenAuctionsOf(item))
      BY SalesCounted
    <3>3. Cardinality(OpenAuctionsOf(item)') = Cardinality(OpenAuctionsOf(item)) + 1
      BY <3>1, <3>2, FS_AddElement
    <3> QED
      BY <2>1, <3>3, ListingsOfItem, SalesCounted DEF SalesOf
  <2>2. CASE item # <<sale.collection, sale.tokenId>>
    <3>1. OpenAuctionsOf(item)' = OpenAuctionsOf(item)
      BY <1>1, <1>2, <2>2, OpenAuctionsAfter
    <3> QED
      BY <2>2, <3>1, ListingsOfItem, SalesCounted DEF SalesOf
  <2> QED
    BY <2>1, <2>2
<1>3. ASSUME NEW item \in Items, AuctionCloses(sale)
      PROVE  SalesOf(item)' = SalesOf(item)
               - (IF item = <<auctions[sale].collection, auctions[sale].tokenId>>
                  THEN 1 ELSE 0)
  <2>1. CASE item = <<auctions[sale].collection, auctions[sale].tokenId>>
    <3>1. /\ sale \in OpenAuctionsOf(item)
          /\ OpenAuctionsOf(item)' = OpenAuctionsOf(item) \ {sale}
      BY <1>1, <1>3, <2>1, OpenAuctionsAfter
    <3>2. IsFiniteSet(OpenAuctionsOf(item))
      BY SalesCounted
    <3>3. Cardinality(OpenAuctionsOf(item)') = Cardinality(OpenAuctionsOf(item)) - 1
      BY <3>1, <3>2, FS_RemoveElement
    <3> QED
      BY <2>1, <3>3, ListingsOfItem, SalesCounted DEF SalesOf
  <2>2. CASE item # <<auctions[sale].collection, auctions[sale].tokenId>>
    <3>1. OpenAuctionsOf(item)' = OpenAuctionsOf(item)
      BY <1>1, <1>3, <2>2, OpenAuctionsAfter
    <3> QED
      BY <2>2, <3>1, ListingsOfItem, SalesCounted DEF SalesOf
  <2> QED
    BY <2>1, <2>2
<1>4. ASSUME AuctionCloses(sale)
      PROVE  ClosesSaleOf(<<auctions[sale].collection, auctions[sale].tokenId>>)
  <2>1. sale \in DOMAIN auctions /\ sale \notin DOMAIN auctions'
    BY <1>4 DEF AuctionCloses, MapDelete
  <2> QED
    BY <2>1 DEF ClosesSaleOf, OpenAuctionsOf
<1> QED
  BY <1>2, <1>3, <1>4 DEF OpensSaleOf, ClosesOnlySaleOf

(* What the contract holds changes by the one token that moves. *)
LEMMA HeldItem ==
  ASSUME NftTypeOK, NEW c, NEW t, NEW item \in Items
  PROVE  /\ TokenComesIn(c, t) =>
              Held(item)' = Held(item) + (IF item = <<c, t>> THEN 1 ELSE 0)
         /\ TokenGoesOut(c, t) =>
              Held(item)' = Held(item) - (IF item = <<c, t>> THEN 1 ELSE 0)
<1>1. owners \in [Items -> Accounts]
  BY DEF NftTypeOK
<1>2. ASSUME TokenComesIn(c, t)
      PROVE  Held(item)' = Held(item) + (IF item = <<c, t>> THEN 1 ELSE 0)
  BY <1>1, <1>2 DEF TokenComesIn, Held
<1>3. ASSUME TokenGoesOut(c, t)
      PROVE  Held(item)' = Held(item) - (IF item = <<c, t>> THEN 1 ELSE 0)
  <2>1. PICK to \in Accounts \ {Market} :
          owners' = [owners EXCEPT ![<<c, t>>] = to]
    BY <1>3 DEF TokenGoesOut
  <2> QED
    BY <1>1, <1>3, <2>1 DEF TokenGoesOut, Held
<1> QED
  BY <1>2, <1>3

(* A token that comes in with its sale leaves every shortage as it is; one *)
(* that goes out with a sale of another item leaves the item it is of      *)
(* short, and the sale's own one less so.                                  *)
LEMMA TokenFollowsSale ==
  ASSUME MarketInv, NEW c, NEW t, NEW r \in Items,
         \/ OpensSaleOf(r) /\ r = <<c, t>> /\ TokenComesIn(c, t)
         \/ ClosesOnlySaleOf(r) /\ r[2] = t /\ TokenGoesOut(c, t)
  PROVE  EachTokenKept
<1>1. \A item \in Items : SalesOf(item) \in Nat /\ Held(item) \in Nat
  BY SalesCounted DEF SalesOf, Held
<1>2. CASE OpensSaleOf(r) /\ r = <<c, t>> /\ TokenComesIn(c, t)
  <2>1. \A item \in Items : Shortage(item)' = Shortage(item)
    BY <1>1, <1>2, HeldItem DEF MarketInv, OpensSaleOf, Shortage
  <2>2. \A item \in Items : Shortage(item) \in Int
    BY <1>1 DEF Shortage
  <2> QED
    BY <2>1, <2>2 DEF EachTokenKept
<1>3. CASE ClosesOnlySaleOf(r) /\ r[2] = t /\ TokenGoesOut(c, t)
  <2>1. PICK n \in Items : n = <<c, t>>
    BY <1>3 DEF TokenGoesOut, Items
  <2>2. ASSUME NEW item \in Items
        PROVE  /\ Shortage(item) \in Int
               /\ Shortage(item)' = Shortage(item)
                                      + (IF item = n THEN 1 ELSE 0)
                                      - (IF item = r THEN 1 ELSE 0)
    <3>1. SalesOf(item)' = SalesOf(item) - (IF item = r THEN 1 ELSE 0)
      BY <1>3 DEF ClosesOnlySaleOf
    <3>2. Held(item)' = Held(item) - (IF item = n THEN 1 ELSE 0)
      BY <1>3, <2>1, HeldItem DEF MarketInv
    <3> QED
      BY <1>1, <3>1, <3>2 DEF Shortage
  <2>3. ASSUME NEW item \in Items, Shortage(item)' > Shortage(item)
        PROVE  /\ r # item /\ r[2] = item[2]
               /\ ClosesSaleOf(r) /\ Shortage(r)' < Shortage(r)
    <3>1. item = n /\ item # r
      BY <2>2, <2>3
    <3>2. Shortage(r)' < Shortage(r)
      BY <2>2, <3>1
    <3> QED
      BY <1>3, <2>1, <3>1, <3>2 DEF ClosesOnlySaleOf
  <2> QED
    BY <2>3 DEF EachTokenKept
<1> QED
  BY <1>2, <1>3

(* No sale opens or closes, and no token leaves the contract. *)
LEMMA TokensStay ==
  ASSUME MarketInv,
         \A item \in Items : /\ OpenListingsOf(item)' = OpenListingsOf(item)
                             /\ OpenAuctionsOf(item)' = OpenAuctionsOf(item)
                             /\ owners[item] = Market => owners'[item] = Market
  PROVE  EachTokenKept
<1>1. \A item \in Items : SalesOf(item) \in Nat /\ SalesOf(item)' = SalesOf(item)
  BY SalesCounted DEF SalesOf
<1>2. \A item \in Items : /\ Held(item) \in Nat /\ Held(item)' \in Nat
                          /\ Held(item)' >= Held(item)
  BY DEF Held
<1>3. \A item \in Items : ~(Shortage(item)' > Shortage(item))
  BY <1>1, <1>2 DEF Shortage
<1> QED
  BY <1>3 DEF EachTokenKept

LEMMA StepKeepsTokens ==
  ASSUME MarketInv, [Next]_vars
  PROVE  EachTokenKept
<1>1. CASE ListingStep
  <2>1. UNCHANGED auctionMaps
    BY <1>1 DEF ListingStep
  <2>2. PICK sale, c :
          \/ ListingOpens(sale) /\ sale.collection = c
             /\ TokenComesIn(c, sale.tokenId)
          \/ ListingCloses(sale) /\ TokenGoesOut(c, listings[sale].tokenId)
    BY <1>1 DEF ListingStep
  <2>3. CASE ListingOpens(sale) /\ sale.collection = c
             /\ TokenComesIn(c, sale.tokenId)
    <3>1. PICK r \in Items : r = <<sale.collection, sale.tokenId>>
      BY <2>3 DEF TokenComesIn, Items
    <3>2. OpensSaleOf(r)
      BY <2>1, <2>3, <3>1, ListingCounts
    <3> QED
      BY <2>3, <3>1, <3>2, TokenFollowsSale
  <2>4. CASE ListingCloses(sale) /\ TokenGoesOut(c, listings[sale].tokenId)
    <3>1. listings[sale].collection \in Collections
      BY <2>4, OpenListing DEF ListingCloses, MarketInv
    <3>2. PICK r \in Items :
            r = <<listings[sale].collection, listings[sale].tokenId>>
      BY <2>4, <3>1 DEF TokenGoesOut, Items
    <3>3. ClosesOnlySaleOf(r)
      BY <2>1, <2>4, <3>2, ListingCounts
    <3> QED
      BY <2>4, <3>2, <3>3, TokenFollowsSale
  <2> QED
    BY <2>2, <2>3, <2>4
<1>2. CASE AuctionStep
  <2>1. UNCHANGED listingMaps
    BY <1>2 DEF AuctionStep
  <2>2. PICK sale, c :
          \/ AuctionOpens(sale) /\ sale.collection = c
             /\ TokenComesIn(c, sale.tokenId)
          \/ AuctionCloses(sale) /\ TokenGoesOut(c, auctions[sale].tokenId)
    BY <1>2 DEF AuctionStep
  <2>3. CASE AuctionOpens(sale) /\ sale.collection = c
             /\ TokenComesIn(c, sale.tokenId)
    <3>1. PICK r \in Items : r = <<sale.collection, sale.tokenId>>
      BY <2>3 DEF TokenComesIn, Items
    <3>2. OpensSaleOf(r)
      BY <2>1, <2>3, <3>1, AuctionCounts
    <3> QED
      BY <2>3, <3>1, <3>2, TokenFollowsSale
  <2>4. CASE AuctionCloses(sale) /\ TokenGoesOut(c, auctions[sale].tokenId)
    <3>1. auctions[sale].collection \in Collections
      BY <2>4, OpenAuction DEF AuctionCloses, MarketInv
    <3>2. PICK r \in Items :
            r = <<auctions[sale].collection, auctions[sale].tokenId>>
      BY <2>4, <3>1 DEF TokenGoesOut, Items
    <3>3. ClosesOnlySaleOf(r)
      BY <2>1, <2>4, <3>2, AuctionCounts
    <3> QED
      BY <2>4, <3>2, <3>3, TokenFollowsSale
  <2> QED
    BY <2>2, <2>3, <2>4
<1>3. CASE BidStep
  <2>1. UNCHANGED listingMaps /\ owners' = owners
    BY <1>3 DEF BidStep
  <2>2. \A item \in Items : OpenAuctionsOf(item)' = OpenAuctionsOf(item)
    BY <1>3, OpenAuctionsAfter DEF BidStep, MarketInv
  <2> QED
    BY <2>1, <2>2, ListingsOfItem, TokensStay
<1>4. CASE QuietStep /\ owners' = owners
  <2>1. UNCHANGED listingMaps /\ UNCHANGED auctionMaps
    BY <1>4 DEF QuietStep
  <2> QED
    BY <1>4, <2>1, ListingsOfItem, AuctionsOfItem, TokensStay
<1>5. ASSUME NEW w \in Wallets, NEW item \in Items, NEW to \in Recipients,
             TransferNft(w, item, to),
             UNCHANGED <<listingMaps, auctionMaps>>
      PROVE  EachTokenKept
  <2>1. UNCHANGED listingMaps /\ UNCHANGED auctionMaps
    BY <1>5
  <2>2. owners[item] # Market /\ owners' = [owners EXCEPT ![item] = to]
    BY <1>5, WalletsAreAccounts DEF TransferNft, CanMoveNft, MovedNft
  <2>3. \A i \in Items : owners[i] = Market => owners'[i] = Market
    BY <2>2 DEF MarketInv, NftTypeOK
  <2> QED
    BY <2>1, <2>3, ListingsOfItem, AuctionsOfItem, TokensStay
<1>6. CASE SaleNext
  BY <1>1, <1>2, <1>3, <1>6, ListFixedPriceIs, PurchaseIs, CancelListingIs,
     StartAuctionIs, PlaceBidIs, EndAuctionIs, CancelAuctionIs DEF SaleNext
<1>7. CASE OwnerNext \/ MineBlocks
  BY <1>4, <1>7, OwnerStepIs DEF QuietStep
<1>8. CASE UNCHANGED vars
  BY <1>4, <1>8 DEF QuietStep, vars
<1> QED
  BY <1>5, <1>6, <1>7, <1>8 DEF Next, EnvironmentNext

(* Whichever collections the callers name, of those that transfer as       *)
(* sip009-nft does, a token comes in with its sale and leaves with it: it  *)
(* leaves an open sale behind only by settling the sale of the same        *)
(* identifier of another collection, whose own token then stays.           *)
THEOREM EscrowAlwaysKeepsEachToken == Spec => EscrowKeepsEachToken
<1>1. MarketInv /\ [Next]_vars =>
        [ \A item \in Items :
            Shortage(item)' > Shortage(item) =>
              \E other \in Items :
                /\ other # item /\ other[2] = item[2]
                /\ ClosesSaleOf(other)
                /\ Shortage(other)' < Shortage(other) ]_vars
  BY StepKeepsTokens DEF EachTokenKept
<1> QED
  BY <1>1, MarketInvariant, PTL DEF Spec, EscrowKeepsEachToken

-----------------------------------------------------------------------------
(* Ending an auction *)

(* The contract holds a token for an auction that is open. *)
LEMMA TokenIsHeld ==
  ASSUME MarketInv, NEW id \in DOMAIN auctions
  PROVE  \E c \in Collections : owners[<<c, auctions[id].tokenId>>] = Market
<1>1. auctions[id].tokenId \in TokenIds
  BY OpenAuction DEF MarketInv
<1>2. PICK t \in TokenIds : t = auctions[id].tokenId
  BY <1>1
<1>3. Covers(ListedAs(t), AuctionedAs(t), HeldAs(t))
  BY DEF MarketInv, EscrowInv
<1>4. id \in AuctionedAs(t)
  BY <1>2 DEF AuctionedAs
<1>5. PICK l, a, h \in Nat :
        /\ l = Cardinality(ListedAs(t)) /\ a = Cardinality(AuctionedAs(t))
        /\ h = Cardinality(HeldAs(t)) /\ l + a <= h
  BY <1>3, FS_CardinalityType DEF Covers
<1>6. a # 0
  BY <1>3, <1>4, <1>5, FS_EmptySet DEF Covers
<1>7. h # 0
  BY <1>5, <1>6
<1>8. HeldAs(t) # {}
  BY <1>5, <1>7, FS_EmptySet
<1> QED
  BY <1>2, <1>8 DEF HeldAs

(* Whether the reserve was met or not, an auction can be ended exactly when *)
(* it is over, has a bid that the contract holds, and the caller may call:  *)
(* there is always a token of the contract to hand over.                    *)
THEOREM EndsExactlyTheOver ==
  Spec => [](\A id \in DOMAIN auctions, w \in Wallets :
               IsEndable(id, w) <=> \E c \in Collections : CanEndAuction(w, id, c))
<1> DEFINE Exactly ==
      \A id \in DOMAIN auctions, w \in Wallets :
        IsEndable(id, w) <=> \E c \in Collections : CanEndAuction(w, id, c)
<1>1. MarketInv => Exactly
  <2> SUFFICES ASSUME MarketInv, NEW id \in DOMAIN auctions, NEW w \in Wallets
               PROVE  IsEndable(id, w)
                        <=> \E c \in Collections : CanEndAuction(w, id, c)
    OBVIOUS
  <2> DEFINE auction == auctions[id]
             sold == ReserveMet(auction)
             newOwner == IF sold THEN auction.highestBidder ELSE auction.maker
             payee == IF sold THEN auction.maker ELSE auction.highestBidder
  <2>1. /\ auction.highestBid \in Nat /\ auction.maker \in Wallets
        /\ auction.highestBidder \in Wallets \cup {None}
        /\ auction.highestBidder = None <=> auction.highestBid = 0
    BY OpenAuction DEF MarketInv
  <2>2. stx \in [Accounts -> Nat] /\ Market \in Accounts /\ Market \notin Wallets
    BY MarketAssumption, PrincipalsAssumption DEF MarketInv, Accounts
  <2>3. stx[Market] \in Nat
    BY <2>2
  <2>4. \A c : CanEndAuction(w, id, c) <=>
          /\ MayTrade(w) /\ blockHeight > auction.endBlock
          /\ auction.highestBidder # None
          /\ CanMoveNft(<<c, auction.tokenId>>, Market, Market, newOwner)
          /\ CanPay(stx, auction.highestBid, Market, payee)
    BY Zenon DEF CanEndAuction, IsOver
  <2>5. IsEndable(id, w) <=>
          /\ blockHeight > auction.endBlock /\ auction.highestBidder # None
          /\ stx[Market] >= auction.highestBid /\ MayTrade(w)
    BY DEF IsEndable
  <2>6. ASSUME auction.highestBidder # None
        PROVE  newOwner # Market /\ payee # Market /\ auction.highestBid > 0
    BY <2>1, <2>2, <2>6
  <2>7. PICK held \in Collections : owners[<<held, auction.tokenId>>] = Market
    BY TokenIsHeld
  <2>8. auction.highestBidder # None =>
          CanMoveNft(<<held, auction.tokenId>>, Market, Market, newOwner)
    BY <2>6, <2>7 DEF CanMoveNft
  <2>9. auction.highestBidder # None =>
          (CanPay(stx, auction.highestBid, Market, payee)
             <=> stx[Market] >= auction.highestBid)
    BY <2>1, <2>3, <2>6 DEF CanPay
  <2> HIDE DEF auction, newOwner, payee
  <2> QED
    BY <2>4, <2>5, <2>7, <2>8, <2>9
<1> QED
  BY <1>1, MarketInvariant, PTL

-----------------------------------------------------------------------------
(* The maps implement the life of a sale *)

LEMMA StageIs ==
  ASSUME NEW open, NEW completed, NEW cancelled, NEW ids, NEW id,
         Sorted(open, completed, cancelled, ids)
  PROVE  StageIn(id, open, completed, cancelled)
           = IF id \in DOMAIN open THEN "open"
             ELSE IF id \in DOMAIN completed THEN "sold"
             ELSE IF id \in DOMAIN cancelled THEN "returned" ELSE "none"
<1>1. /\ id \in DOMAIN open =>
           id \notin DOMAIN completed /\ id \notin DOMAIN cancelled
      /\ id \in DOMAIN completed => id \notin DOMAIN cancelled
  BY DEF Sorted
<1>2. CASE id \in DOMAIN open
  BY <1>1, <1>2 DEF StageIn
<1>3. CASE id \in DOMAIN completed
  BY <1>1, <1>3 DEF StageIn
<1>4. CASE id \in DOMAIN cancelled
  BY <1>1, <1>4 DEF StageIn
<1>5. CASE /\ id \notin DOMAIN open /\ id \notin DOMAIN completed
           /\ id \notin DOMAIN cancelled
  BY <1>5 DEF StageIn
<1> QED
  BY <1>2, <1>3, <1>4, <1>5

ListingStage(id) == StageIn(id, listings, completedListings, cancelledListings)
AuctionStage(id) == StageIn(id, auctions, completedAuctions, cancelledAuctions)

LEMMA ListingStageIs ==
  ASSUME ListingsInv, NEW id
  PROVE  ListingStage(id) = IF id \in DOMAIN listings THEN "open"
                            ELSE IF id \in DOMAIN completedListings THEN "sold"
                            ELSE IF id \in DOMAIN cancelledListings
                            THEN "returned" ELSE "none"
<1>1. Sorted(listings, completedListings, cancelledListings, ListingIds)
  BY DEF ListingsInv
<1> QED
  BY <1>1, StageIs DEF ListingStage

LEMMA AuctionStageIs ==
  ASSUME AuctionsInv, NEW id
  PROVE  AuctionStage(id) = IF id \in DOMAIN auctions THEN "open"
                            ELSE IF id \in DOMAIN completedAuctions THEN "sold"
                            ELSE IF id \in DOMAIN cancelledAuctions
                            THEN "returned" ELSE "none"
<1>1. Sorted(auctions, completedAuctions, cancelledAuctions, AuctionIds)
  BY DEF AuctionsInv
<1> QED
  BY <1>1, StageIs DEF AuctionStage

LEMMA ListingStageNext ==
  ASSUME ListingsInv', NEW id
  PROVE  ListingStage(id)' = IF id \in DOMAIN listings' THEN "open"
                             ELSE IF id \in DOMAIN completedListings' THEN "sold"
                             ELSE IF id \in DOMAIN cancelledListings'
                             THEN "returned" ELSE "none"
<1>1. Sorted(listings', completedListings', cancelledListings', ListingIds')
  BY DEF ListingsInv
<1> QED
  BY <1>1, StageIs DEF ListingStage

LEMMA AuctionStageNext ==
  ASSUME AuctionsInv', NEW id
  PROVE  AuctionStage(id)' = IF id \in DOMAIN auctions' THEN "open"
                             ELSE IF id \in DOMAIN completedAuctions' THEN "sold"
                             ELSE IF id \in DOMAIN cancelledAuctions'
                             THEN "returned" ELSE "none"
<1>1. Sorted(auctions', completedAuctions', cancelledAuctions', AuctionIds')
  BY DEF AuctionsInv
<1> QED
  BY <1>1, StageIs DEF AuctionStage

ListingPrice(id) == IF ListingStage(id) = "none" THEN 0 ELSE ListingOf(id).price
AuctionPrice(id) == IF AuctionStage(id) = "none" THEN 0 ELSE AuctionOf(id).highestBid

LEMMA SalesAre ==
  ASSUME NEW sale \in AllSales
  PROVE  \/ /\ sale[2] \in 0..(MaxListings - 1) /\ sale = <<"listing", sale[2]>>
            /\ StageOf(sale) = ListingStage(sale[2])
            /\ PriceOf(sale) = ListingPrice(sale[2])
            /\ StageOf(sale)' = ListingStage(sale[2])'
            /\ PriceOf(sale)' = ListingPrice(sale[2])'
         \/ /\ sale[2] \in 0..(MaxAuctions - 1) /\ sale = <<"auction", sale[2]>>
            /\ StageOf(sale) = AuctionStage(sale[2])
            /\ PriceOf(sale) = AuctionPrice(sale[2])
            /\ StageOf(sale)' = AuctionStage(sale[2])'
            /\ PriceOf(sale)' = AuctionPrice(sale[2])'
<1>1. CASE sale \in ListingSales
  <2>1. /\ sale[2] \in 0..(MaxListings - 1) /\ sale = <<"listing", sale[2]>>
        /\ sale[1] = "listing"
    BY <1>1 DEF ListingSales
  <2>2. StageOf(sale) = ListingStage(sale[2]) /\ StageOf(sale)' = ListingStage(sale[2])'
    BY <2>1 DEF StageOf, ListingStage
  <2> QED
    BY <2>1, <2>2 DEF PriceOf, ListingPrice
<1>2. CASE sale \in AuctionSales
  <2>1. /\ sale[2] \in 0..(MaxAuctions - 1) /\ sale = <<"auction", sale[2]>>
        /\ sale[1] = "auction"
    BY <1>2 DEF AuctionSales
  <2>2. StageOf(sale) = AuctionStage(sale[2]) /\ StageOf(sale)' = AuctionStage(sale[2])'
    BY <2>1 DEF StageOf, AuctionStage
  <2> QED
    BY <2>1, <2>2 DEF PriceOf, AuctionPrice
<1> QED
  BY <1>1, <1>2 DEF AllSales

LifecycleStep ==
  [Lifecycle!SaleNext]_<<[sale \in AllSales |-> StageOf(sale)],
                         [sale \in AllSales |-> PriceOf(sale)]>>

(* How the lifecycle lets one sale move, its stage and price before and    *)
(* after.                                                                  *)
Moves(stage, price, stage2, price2) ==
  \/ stage = "none" /\ stage2 = "open" /\ price2 \in Prices \cup {0}
  \/ /\ stage = "open" /\ stage2 = "open"
     /\ price2 \in Prices \cup {0} /\ price2 > price
  \/ stage = "open" /\ stage2 \in {"sold", "returned"} /\ price2 = price

ListingStays(id) ==
  ListingStage(id)' = ListingStage(id) /\ ListingPrice(id)' = ListingPrice(id)

AuctionStays(id) ==
  AuctionStage(id)' = AuctionStage(id) /\ AuctionPrice(id)' = AuctionPrice(id)

LEMMA NoSaleMoves ==
  ASSUME \A id : ListingStays(id) /\ AuctionStays(id)
  PROVE  LifecycleStep
<1>1. \A sale \in AllSales :
        StageOf(sale)' = StageOf(sale) /\ PriceOf(sale)' = PriceOf(sale)
  BY SalesAre DEF ListingStays, AuctionStays
<1> QED
  BY <1>1 DEF LifecycleStep

LEMMA OneSaleMoves ==
  ASSUME NEW s \in AllSales,
         \A j \in AllSales : j # s =>
           StageOf(j)' = StageOf(j) /\ PriceOf(j)' = PriceOf(j),
         Moves(StageOf(s), PriceOf(s), StageOf(s)', PriceOf(s)')
  PROVE  LifecycleStep
<1> DEFINE stages == [sale \in AllSales |-> StageOf(sale)]
           prices == [sale \in AllSales |-> PriceOf(sale)]
<1>1. stages' = [stages EXCEPT ![s] = StageOf(s)']
  OBVIOUS
<1>2. prices' = [prices EXCEPT ![s] = PriceOf(s)']
  OBVIOUS
<1>3. /\ stages[s] = StageOf(s) /\ prices[s] = PriceOf(s)
      /\ stages'[s] = StageOf(s)' /\ prices'[s] = PriceOf(s)'
  OBVIOUS
<1>4. CASE StageOf(s) = "none" /\ StageOf(s)' = "open"
           /\ PriceOf(s)' \in Prices \cup {0}
  <2>1. Lifecycle!Open(s)
    BY <1>1, <1>2, <1>3, <1>4 DEF Lifecycle!Open
  <2> QED
    BY <2>1 DEF LifecycleStep, Lifecycle!SaleNext
<1>5. CASE /\ StageOf(s) = "open" /\ StageOf(s)' = "open"
           /\ PriceOf(s)' \in Prices \cup {0} /\ PriceOf(s)' > PriceOf(s)
  <2>1. stages' = stages
    BY <1>1, <1>3, <1>5
  <2>2. Lifecycle!Raise(s)
    BY <1>2, <1>3, <1>5, <2>1 DEF Lifecycle!Raise
  <2> QED
    BY <2>2 DEF LifecycleStep, Lifecycle!SaleNext
<1>6. CASE /\ StageOf(s) = "open" /\ StageOf(s)' \in {"sold", "returned"}
           /\ PriceOf(s)' = PriceOf(s)
  <2>1. prices' = prices
    BY <1>2, <1>3, <1>6
  <2>2. Lifecycle!Close(s)
    BY <1>1, <1>3, <1>6, <2>1 DEF Lifecycle!Close
  <2> QED
    BY <2>2 DEF LifecycleStep, Lifecycle!SaleNext
<1> QED
  BY <1>4, <1>5, <1>6 DEF Moves

LEMMA OneListingMoves ==
  ASSUME NEW id \in 0..(MaxListings - 1),
         \A j : j # id => ListingStays(j), \A j : AuctionStays(j),
         Moves(ListingStage(id), ListingPrice(id),
               ListingStage(id)', ListingPrice(id)')
  PROVE  LifecycleStep
<1>1. PICK s : s = <<"listing", id>>
  OBVIOUS
<1>2. s \in AllSales /\ s[2] = id /\ s[1] = "listing"
  BY <1>1 DEF AllSales, ListingSales
<1>3. \A j \in AllSales : j # s =>
        StageOf(j)' = StageOf(j) /\ PriceOf(j)' = PriceOf(j)
  BY <1>1, SalesAre DEF ListingStays, AuctionStays
<1>4. /\ StageOf(s) = ListingStage(id) /\ PriceOf(s) = ListingPrice(id)
      /\ StageOf(s)' = ListingStage(id)' /\ PriceOf(s)' = ListingPrice(id)'
  BY <1>1, <1>2, SalesAre
<1> QED
  BY <1>2, <1>3, <1>4, OneSaleMoves

LEMMA OneAuctionMoves ==
  ASSUME NEW id \in 0..(MaxAuctions - 1),
         \A j : j # id => AuctionStays(j), \A j : ListingStays(j),
         Moves(AuctionStage(id), AuctionPrice(id),
               AuctionStage(id)', AuctionPrice(id)')
  PROVE  LifecycleStep
<1>1. PICK s : s = <<"auction", id>>
  OBVIOUS
<1>2. s \in AllSales /\ s[2] = id /\ s[1] = "auction"
  BY <1>1 DEF AllSales, AuctionSales
<1>3. \A j \in AllSales : j # s =>
        StageOf(j)' = StageOf(j) /\ PriceOf(j)' = PriceOf(j)
  BY <1>1, SalesAre DEF ListingStays, AuctionStays
<1>4. /\ StageOf(s) = AuctionStage(id) /\ PriceOf(s) = AuctionPrice(id)
      /\ StageOf(s)' = AuctionStage(id)' /\ PriceOf(s)' = AuctionPrice(id)'
  BY <1>1, <1>2, SalesAre
<1> QED
  BY <1>2, <1>3, <1>4, OneSaleMoves

LEMMA ListingsStay ==
  ASSUME UNCHANGED listingMaps
  PROVE  \A id : ListingStays(id)
BY DEF listingMaps, ListingStays, ListingStage, ListingPrice, ListingOf,
   StageIn, RecordIn

LEMMA AuctionsStay ==
  ASSUME UNCHANGED auctionMaps
  PROVE  \A id : AuctionStays(id)
BY DEF auctionMaps, AuctionStays, AuctionStage, AuctionPrice, AuctionOf,
   StageIn, RecordIn

LEMMA ListingOpensMoves ==
  ASSUME MarketInv, NEW sale, ListingOpens(sale), UNCHANGED auctionMaps
  PROVE  LifecycleStep
<1>1. /\ ListingsInv /\ ListingsInv'
      /\ fixedPriceNonce \notin ListingIds
      /\ ListingIds' = ListingIds \cup {fixedPriceNonce}
      /\ \A id \in ListingIds' :
           ListingOf(id)' = IF id = fixedPriceNonce THEN sale ELSE ListingOf(id)
  BY ListingOpened DEF MarketInv
<1>2. PICK new : new = fixedPriceNonce
  OBVIOUS
<1>3. /\ DOMAIN listings' = DOMAIN listings \cup {new}
      /\ completedListings' = completedListings
      /\ cancelledListings' = cancelledListings
  BY <1>2 DEF ListingOpens, MapSet
<1>4. \A id : id \in DOMAIN listings \/ id \in DOMAIN completedListings
              \/ id \in DOMAIN cancelledListings <=> id \in ListingIds
  BY <1>1 DEF ListingsInv, Sorted
<1>5. ASSUME NEW j, j # new PROVE ListingStays(j)
  <2>1. ListingStage(j)' = ListingStage(j)
    BY <1>1, <1>3, <1>5, ListingStageIs, ListingStageNext
  <2>2. ListingStage(j) = "none" \/ j \in ListingIds
    BY <1>1, <1>4, ListingStageIs
  <2>3. j \in ListingIds => ListingOf(j)' = ListingOf(j)
    BY <1>1, <1>2, <1>5
  <2> QED
    BY <2>1, <2>2, <2>3 DEF ListingStays, ListingPrice
<1>6. ListingStage(new) = "none"
  BY <1>1, <1>2, <1>4, ListingStageIs
<1>7. ListingStage(new)' = "open"
  BY <1>1, <1>3, ListingStageNext
<1>8. ListingPrice(new)' \in Prices
  <2>1. ListingOf(new)' = sale
    BY <1>1, <1>2
  <2> QED
    BY <1>7, <2>1 DEF ListingPrice, ListingOpens
<1>9. new \in 0..(MaxListings - 1)
  BY <1>1, <1>2, MarketAssumption DEF ListingsInv, ListingOpens
<1> QED
  BY <1>5, <1>6, <1>7, <1>8, <1>9, AuctionsStay, OneListingMoves DEF Moves

LEMMA ListingClosesMoves ==
  ASSUME MarketInv, NEW sale, ListingCloses(sale), UNCHANGED auctionMaps
  PROVE  LifecycleStep
<1>1. /\ ListingsInv /\ ListingsInv' /\ ListingIds' = ListingIds
      /\ \A id \in ListingIds : ListingOf(id)' = ListingOf(id)
  BY ListingClosed DEF MarketInv
<1>2. /\ sale \in DOMAIN listings
      /\ DOMAIN listings' = DOMAIN listings \ {sale}
      /\ \/ /\ DOMAIN completedListings' = DOMAIN completedListings \cup {sale}
            /\ cancelledListings' = cancelledListings
         \/ /\ DOMAIN cancelledListings' = DOMAIN cancelledListings \cup {sale}
            /\ completedListings' = completedListings
  BY DEF ListingCloses, MapSet, MapDelete
<1>3. \A id : id \in DOMAIN listings \/ id \in DOMAIN completedListings
              \/ id \in DOMAIN cancelledListings <=> id \in ListingIds
  BY <1>1 DEF ListingsInv, Sorted
<1>4. ASSUME NEW j, j # sale PROVE ListingStays(j)
  <2>1. ListingStage(j)' = ListingStage(j)
    BY <1>1, <1>2, <1>4, ListingStageIs, ListingStageNext
  <2>2. ListingStage(j) = "none" \/ j \in ListingIds
    BY <1>1, <1>3, ListingStageIs
  <2> QED
    BY <1>1, <2>1, <2>2 DEF ListingStays, ListingPrice
<1>5. ListingStage(sale) = "open"
  BY <1>1, <1>2, ListingStageIs
<1>6. ListingStage(sale)' \in {"sold", "returned"}
  BY <1>1, <1>2, ListingStageNext
<1>7. ListingPrice(sale)' = ListingPrice(sale)
  BY <1>1, <1>2, <1>3, <1>5, <1>6 DEF ListingPrice
<1>8. sale \in 0..(MaxListings - 1)
  BY <1>1, <1>2, <1>3, MarketAssumption DEF ListingsInv, ListingIds
<1> QED
  BY <1>4, <1>5, <1>6, <1>7, <1>8, AuctionsStay, OneListingMoves DEF Moves

LEMMA AuctionOpensMoves ==
  ASSUME MarketInv, NEW sale, AuctionOpens(sale), UNCHANGED listingMaps
  PROVE  LifecycleStep
<1>1. /\ AuctionsInv /\ AuctionsInv'
      /\ auctionNonce \notin AuctionIds
      /\ AuctionIds' = AuctionIds \cup {auctionNonce}
      /\ \A id \in AuctionIds' :
           AuctionOf(id)' = IF id = auctionNonce THEN sale ELSE AuctionOf(id)
  BY AuctionOpened DEF MarketInv
<1>2. PICK new : new = auctionNonce
  OBVIOUS
<1>3. /\ DOMAIN auctions' = DOMAIN auctions \cup {new}
      /\ completedAuctions' = completedAuctions
      /\ cancelledAuctions' = cancelledAuctions
  BY <1>2 DEF AuctionOpens, MapSet
<1>4. \A id : id \in DOMAIN auctions \/ id \in DOMAIN completedAuctions
              \/ id \in DOMAIN cancelledAuctions <=> id \in AuctionIds
  BY <1>1 DEF AuctionsInv, Sorted
<1>5. ASSUME NEW j, j # new PROVE AuctionStays(j)
  <2>1. AuctionStage(j)' = AuctionStage(j)
    BY <1>1, <1>3, <1>5, AuctionStageIs, AuctionStageNext
  <2>2. AuctionStage(j) = "none" \/ j \in AuctionIds
    BY <1>1, <1>4, AuctionStageIs
  <2>3. j \in AuctionIds => AuctionOf(j)' = AuctionOf(j)
    BY <1>1, <1>2, <1>5
  <2> QED
    BY <2>1, <2>2, <2>3 DEF AuctionStays, AuctionPrice
<1>6. AuctionStage(new) = "none"
  BY <1>1, <1>2, <1>4, AuctionStageIs
<1>7. AuctionStage(new)' = "open"
  BY <1>1, <1>3, AuctionStageNext
<1>8. AuctionPrice(new)' = 0
  <2>1. AuctionOf(new)' = sale
    BY <1>1, <1>2
  <2> QED
    BY <1>7, <2>1 DEF AuctionPrice, AuctionOpens
<1>9. new \in 0..(MaxAuctions - 1)
  BY <1>1, <1>2, MarketAssumption DEF AuctionsInv, AuctionOpens
<1> QED
  BY <1>5, <1>6, <1>7, <1>8, <1>9, ListingsStay, OneAuctionMoves DEF Moves

LEMMA AuctionClosesMoves ==
  ASSUME MarketInv, NEW sale, AuctionCloses(sale), UNCHANGED listingMaps
  PROVE  LifecycleStep
<1>1. /\ AuctionsInv /\ AuctionsInv' /\ AuctionIds' = AuctionIds
      /\ \A id \in AuctionIds : AuctionOf(id)' = AuctionOf(id)
  BY AuctionClosed DEF MarketInv
<1>2. /\ sale \in DOMAIN auctions
      /\ DOMAIN auctions' = DOMAIN auctions \ {sale}
      /\ \/ /\ DOMAIN completedAuctions' = DOMAIN completedAuctions \cup {sale}
            /\ cancelledAuctions' = cancelledAuctions
         \/ /\ DOMAIN cancelledAuctions' = DOMAIN cancelledAuctions \cup {sale}
            /\ completedAuctions' = completedAuctions
  BY DEF AuctionCloses, MapSet, MapDelete
<1>3. \A id : id \in DOMAIN auctions \/ id \in DOMAIN completedAuctions
              \/ id \in DOMAIN cancelledAuctions <=> id \in AuctionIds
  BY <1>1 DEF AuctionsInv, Sorted
<1>4. ASSUME NEW j, j # sale PROVE AuctionStays(j)
  <2>1. AuctionStage(j)' = AuctionStage(j)
    BY <1>1, <1>2, <1>4, AuctionStageIs, AuctionStageNext
  <2>2. AuctionStage(j) = "none" \/ j \in AuctionIds
    BY <1>1, <1>3, AuctionStageIs
  <2> QED
    BY <1>1, <2>1, <2>2 DEF AuctionStays, AuctionPrice
<1>5. AuctionStage(sale) = "open"
  BY <1>1, <1>2, AuctionStageIs
<1>6. AuctionStage(sale)' \in {"sold", "returned"}
  BY <1>1, <1>2, AuctionStageNext
<1>7. AuctionPrice(sale)' = AuctionPrice(sale)
  BY <1>1, <1>2, <1>3, <1>5, <1>6 DEF AuctionPrice
<1>8. sale \in 0..(MaxAuctions - 1)
  BY <1>1, <1>2, <1>3, MarketAssumption DEF AuctionsInv, AuctionIds
<1> QED
  BY <1>4, <1>5, <1>6, <1>7, <1>8, ListingsStay, OneAuctionMoves DEF Moves

LEMMA AuctionRisesMoves ==
  ASSUME MarketInv, NEW id, NEW w, NEW bid, AuctionRises(id, w, bid),
         UNCHANGED listingMaps
  PROVE  LifecycleStep
<1>1. /\ AuctionsInv /\ AuctionsInv' /\ AuctionIds' = AuctionIds
      /\ AuctionOf(id)' = [AuctionOf(id) EXCEPT !.highestBid = bid,
                                                !.highestBidder = w]
      /\ \A j \in AuctionIds : j # id => AuctionOf(j)' = AuctionOf(j)
  BY AuctionRaised DEF MarketInv
<1>2. /\ id \in DOMAIN auctions
      /\ DOMAIN auctions' = DOMAIN auctions
      /\ completedAuctions' = completedAuctions
      /\ cancelledAuctions' = cancelledAuctions
  BY DEF AuctionRises, MapSet
<1>3. \A j : j \in DOMAIN auctions \/ j \in DOMAIN completedAuctions
              \/ j \in DOMAIN cancelledAuctions <=> j \in AuctionIds
  BY <1>1 DEF AuctionsInv, Sorted
<1>4. \A j : AuctionStage(j)' = AuctionStage(j)
  BY <1>1, <1>2, AuctionStageIs, AuctionStageNext
<1>5. ASSUME NEW j, j # id PROVE AuctionStays(j)
  <2>1. AuctionStage(j) = "none" \/ j \in AuctionIds
    BY <1>1, <1>3, AuctionStageIs
  <2> QED
    BY <1>1, <1>4, <1>5, <2>1 DEF AuctionStays, AuctionPrice
<1>6. AuctionStage(id) = "open" /\ AuctionStage(id)' = "open"
  BY <1>1, <1>2, <1>4, AuctionStageIs
<1>7. /\ AuctionOf(id) \in Auction /\ AuctionOf(id).highestBid = auctions[id].highestBid
      /\ id \in AuctionIds
  BY <1>1, <1>2, OpenAuction
<1>8. AuctionPrice(id)' = bid /\ AuctionPrice(id) = auctions[id].highestBid
  BY <1>1, <1>6, <1>7 DEF AuctionPrice, Auction
<1>9. bid \in Prices /\ bid > auctions[id].highestBid
  BY DEF AuctionRises
<1>10. id \in 0..(MaxAuctions - 1)
  BY <1>1, <1>7, MarketAssumption DEF AuctionsInv, AuctionIds
<1> QED
  BY <1>5, <1>6, <1>8, <1>9, <1>10, ListingsStay, OneAuctionMoves DEF Moves

LEMMA StepRefines == MarketInv /\ [Next]_vars => LifecycleStep
<1> SUFFICES ASSUME MarketInv, [Next]_vars PROVE LifecycleStep
  OBVIOUS
<1>1. CASE ListingStep
  BY <1>1, ListingOpensMoves, ListingClosesMoves DEF ListingStep
<1>2. CASE AuctionStep
  BY <1>2, AuctionOpensMoves, AuctionClosesMoves DEF AuctionStep
<1>3. CASE BidStep
  BY <1>3, AuctionRisesMoves DEF BidStep
<1>4. CASE QuietStep
  <2>1. UNCHANGED listingMaps /\ UNCHANGED auctionMaps
    BY <1>4 DEF QuietStep
  <2> QED
    BY <2>1, ListingsStay, AuctionsStay, NoSaleMoves
<1> QED
  BY <1>1, <1>2, <1>3, <1>4, StepIs

LEMMA InitRefines == Init => Lifecycle!SaleInit
<1> SUFFICES ASSUME Init PROVE Lifecycle!SaleInit
  OBVIOUS
<1>1. DOMAIN <<>> = {}
  OBVIOUS
<1>2. MarketInv
  BY InitInv
<1>3. \A id : ListingStage(id) = "none" /\ AuctionStage(id) = "none"
  BY <1>1, <1>2, ListingStageIs, AuctionStageIs DEF MarketInv, Init
<1>4. \A sale \in AllSales :
        StageOf(sale) = "none" /\ PriceOf(sale) = 0
  BY <1>3, SalesAre DEF ListingPrice, AuctionPrice
<1> QED
  BY <1>4 DEF Lifecycle!SaleInit

(* Every sale, a listing or an auction, opens once and closes once, and    *)
(* its best offer only rises in between: the marketplace implements the    *)
(* life of a sale.                                                         *)
THEOREM MarketImplementsSale == Spec => ImplementsSale
<1>1. MarketInv /\ [Next]_vars => LifecycleStep
  BY StepRefines
<1> QED
  BY <1>1, InitRefines, MarketInvariant, PTL
     DEF Spec, ImplementsSale, Lifecycle!SaleSpec, LifecycleStep

-----------------------------------------------------------------------------
(* What wallets own: bidding never costs anything but the price of what is *)
(* won.  A wallet's standing bids are a sum over the open auctions it      *)
(* leads, which a step changes in one auction at most.                     *)

Bidding(open) ==
  /\ IsFiniteSet(DOMAIN open)
  /\ \A id \in DOMAIN open : open[id].highestBid \in Nat

(* What the auction id contributes to the standing bids of w. *)
Lead(open, id, w) ==
  IF id \in DOMAIN open /\ open[id].highestBidder = w
  THEN open[id].highestBid ELSE 0

SameElsewhere(open, open2, id) ==
  /\ DOMAIN open \ {id} = DOMAIN open2 \ {id}
  /\ \A j \in DOMAIN open \ {id} : open2[j] = open[j]

LEMMA StandingType ==
  ASSUME NEW open, Bidding(open), NEW w
  PROVE  Standing(open, w) \in Nat
<1>1. IsFiniteSet(LeadBy(open, w))
  BY FS_Subset DEF LeadBy, Bidding
<1>2. \A id \in LeadBy(open, w) : HighestBids(open)[id] \in Nat
  BY DEF LeadBy, Bidding, HighestBids
<1> QED
  BY <1>1, <1>2, SumType DEF Standing

(* Two maps of auctions that differ in one auction at most. *)
LEMMA StandingChanges ==
  ASSUME NEW open, Bidding(open), NEW open2, Bidding(open2), NEW id, NEW w,
         SameElsewhere(open, open2, id)
  PROVE  Standing(open2, w) - Lead(open2, id, w)
           = Standing(open, w) - Lead(open, id, w)
<1>1. IsFiniteSet(LeadBy(open, w)) /\ IsFiniteSet(LeadBy(open2, w))
  BY FS_Subset DEF LeadBy, Bidding
<1>2. /\ \A j \in LeadBy(open, w) : HighestBids(open)[j] \in Int
      /\ \A j \in LeadBy(open2, w) : HighestBids(open2)[j] \in Int
  BY DEF LeadBy, Bidding, HighestBids
<1>3. LeadBy(open, w) \ {id} = LeadBy(open2, w) \ {id}
  BY DEF SameElsewhere, LeadBy
<1>4. \A j \in LeadBy(open, w) \ {id} :
        HighestBids(open)[j] = HighestBids(open2)[j]
  BY DEF SameElsewhere, LeadBy, HighestBids
<1>5. Standing(open2, w) - Share(HighestBids(open2), LeadBy(open2, w), id)
        = Standing(open, w) - Share(HighestBids(open), LeadBy(open, w), id)
  BY <1>1, <1>2, <1>3, <1>4, SumChangesAt DEF Standing
<1>6. /\ Share(HighestBids(open2), LeadBy(open2, w), id) = Lead(open2, id, w)
      /\ Share(HighestBids(open), LeadBy(open, w), id) = Lead(open, id, w)
  BY DEF Share, LeadBy, HighestBids, Lead
<1> QED
  BY <1>5, <1>6

(* The open auctions, before a step and after it. *)
LEMMA OpenBidding == MarketInv => Bidding(auctions)
<1> SUFFICES ASSUME MarketInv PROVE Bidding(auctions)
  OBVIOUS
<1>1. auctionNonce \in Nat /\ DOMAIN auctions \subseteq 0..(auctionNonce - 1)
  BY OpenAuction DEF MarketInv, AuctionsInv, AuctionIds
<1>2. IsFiniteSet(0..(auctionNonce - 1))
  BY <1>1, FS_Interval
<1> QED
  BY <1>1, <1>2, FS_Subset, OpenAuction DEF Bidding, MarketInv

LEMMA OpenBiddingNext == MarketInv /\ [Next]_vars => Bidding(auctions)'
BY OpenBidding, NextInv, PTL

-----------------------------------------------------------------------------
(* Payments *)

LEMMA PaidIs ==
  ASSUME NEW bal \in [Accounts -> Nat], NEW amount \in Nat,
         NEW from \in Accounts, NEW to \in Accounts,
         CanPay(bal, amount, from, to), NEW w \in Accounts
  PROVE  /\ from # to
         /\ w = from => Paid(bal, amount, from, to)[w] = bal[w] - amount
         /\ w = to => Paid(bal, amount, from, to)[w] = bal[w] + amount
         /\ w \notin {from, to} => Paid(bal, amount, from, to)[w] = bal[w]
BY DEF CanPay, Paid

(* What a step may do to what w owns. *)
StaysWhole(w) == NetWorth(w)' # NetWorth(w) => TradesIn(w) \/ RaisesOwnBid(w)

LEMMA QuietWorth ==
  ASSUME stx' = stx, auctions' = auctions, NEW w \in Wallets
  PROVE  StaysWhole(w)
BY DEF StaysWhole, NetWorth

(* The buyer of a listing pays its maker the price. *)
LEMMA PurchaseWorth ==
  ASSUME MarketInv, NEW sender \in Wallets, NEW id \in DOMAIN listings,
         NEW to \in Recipients, NEW c \in Collections,
         PurchaseFixedPriceListing(sender, id, to, c),
         NEW w \in Wallets
  PROVE  StaysWhole(w)
<1>1. PICK maker, price : maker = listings[id].maker /\ price = listings[id].price
  OBVIOUS
<1>2. maker \in Wallets /\ price \in Nat
  BY <1>1, OpenListing DEF MarketInv
<1>3. /\ CanPay(stx, price, sender, maker)
      /\ stx' = Paid(stx, price, sender, maker)
      /\ completedListings' = MapSet(completedListings, id, listings[id])
      /\ auctions' = auctions
  BY <1>1 DEF PurchaseFixedPriceListing, auctionMaps
<1>4. /\ sender # maker
      /\ w = sender => stx'[w] = stx[w] - price
      /\ w = maker => stx'[w] = stx[w] + price
      /\ w \notin {sender, maker} => stx'[w] = stx[w]
  BY <1>2, <1>3, PaidIs, WalletsAreAccounts DEF MarketInv
<1>5. Standing(auctions, w) \in Nat /\ stx[w] \in Nat
  BY OpenBidding, StandingType, WalletsAreAccounts DEF MarketInv
<1>6. Standing(auctions, w)' = Standing(auctions, w)
  BY <1>3
<1>7. /\ w = sender => NetWorth(w)' + price = NetWorth(w)
      /\ w = maker => NetWorth(w)' = NetWorth(w) + price
      /\ w \notin {sender, maker} => NetWorth(w)' = NetWorth(w)
  BY <1>2, <1>4, <1>5, <1>6 DEF NetWorth
<1>8. CASE w \in {sender, maker}
  <2>1. Traded(w, maker, price)
    BY <1>4, <1>7, <1>8 DEF Traded
  <2>2. id \in DOMAIN completedListings'
    BY <1>3 DEF MapSet
  <2> QED
    BY <1>1, <2>1, <2>2 DEF StaysWhole, TradesIn
<1>9. CASE w \notin {sender, maker}
  BY <1>7, <1>9 DEF StaysWhole
<1> QED
  BY <1>8, <1>9

(* How the lead of one auction shows in what w owns, when the others stay. *)
LEMMA LeadShows ==
  ASSUME MarketInv, Bidding(auctions)', NEW id, NEW w \in Wallets,
         SameElsewhere(auctions, auctions', id), NEW gained \in Int,
         stx'[w] = stx[w] + gained
  PROVE  NetWorth(w)' = NetWorth(w) + gained
                          + Lead(auctions', id, w) - Lead(auctions, id, w)
<1>1. Standing(auctions', w) - Lead(auctions', id, w)
        = Standing(auctions, w) - Lead(auctions, id, w)
  BY OpenBidding, StandingChanges
<1>2. PICK before \in Nat, after \in Nat :
        before = Standing(auctions, w) /\ after = Standing(auctions', w)
  BY OpenBidding, StandingType
<1>3. PICK led \in Nat, leads \in Nat :
        led = Lead(auctions, id, w) /\ leads = Lead(auctions', id, w)
  BY OpenBidding DEF Lead, Bidding
<1>4. stx[w] \in Nat
  BY WalletsAreAccounts DEF MarketInv
<1>5. NetWorth(w) = stx[w] + before /\ NetWorth(w)' = stx'[w] + after
  BY <1>2 DEF NetWorth
<1>6. after = before + leads - led
  BY <1>1, <1>2, <1>3
<1> QED
  BY <1>2, <1>3, <1>4, <1>5, <1>6

(* An auction opens without a bid. *)
LEMMA StartWorth ==
  ASSUME MarketInv, [Next]_vars, NEW sender \in Wallets, NEW item \in Items,
         NEW terms \in AuctionTerms, StartAuction(sender, item, terms),
         NEW w \in Wallets
  PROVE  StaysWhole(w)
<1>1. PICK new : new = auctionNonce
  OBVIOUS
<1>2. PICK sale : auctions' = MapSet(auctions, new, sale)
                  /\ sale.highestBid = 0
  BY <1>1 DEF StartAuction
<1>3. new \notin DOMAIN auctions
  BY <1>1, OpenAuction DEF MarketInv, AuctionsInv, AuctionIds
<1>4. SameElsewhere(auctions, auctions', new)
  BY <1>2 DEF MapSet, SameElsewhere
<1>5. Lead(auctions, new, w) = 0 /\ Lead(auctions', new, w) = 0
  BY <1>2, <1>3 DEF Lead, MapSet
<1>6. stx'[w] = stx[w] + 0
  BY WalletsAreAccounts DEF StartAuction, MarketInv
<1>7. Bidding(auctions)'
  BY OpenBiddingNext
<1>8. NetWorth(w)' = NetWorth(w) + 0 + 0 - 0
  BY <1>4, <1>5, <1>6, <1>7, LeadShows
<1>9. NetWorth(w) \in Int
  BY OpenBidding, StandingType, WalletsAreAccounts DEF NetWorth, MarketInv
<1> QED
  BY <1>8, <1>9 DEF StaysWhole
(* The lead of an auction that closes is gone. *)
LEMMA ClosingWorth ==
  ASSUME MarketInv, Bidding(auctions)', NEW id \in DOMAIN auctions,
         auctions' = MapDelete(auctions, id), NEW w \in Wallets,
         NEW gained \in Int, stx'[w] = stx[w] + gained
  PROVE  /\ auctions[id].highestBidder = w =>
              NetWorth(w)' = NetWorth(w) + gained - auctions[id].highestBid
         /\ auctions[id].highestBidder # w => NetWorth(w)' = NetWorth(w) + gained
<1>1. SameElsewhere(auctions, auctions', id)
  BY DEF MapDelete, SameElsewhere
<1>2. Lead(auctions', id, w) = 0
  BY DEF MapDelete, Lead
<1>3. NetWorth(w)' = NetWorth(w) + gained + 0 - Lead(auctions, id, w)
  BY <1>1, <1>2, LeadShows
<1>4. PICK worth \in Int : worth = NetWorth(w)
  BY OpenBidding, StandingType, WalletsAreAccounts DEF NetWorth, MarketInv
<1>5. PICK led \in Nat : led = Lead(auctions, id, w)
  BY OpenAuction DEF Lead, MarketInv
<1>6. NetWorth(w)' = worth + gained - led
  BY <1>3, <1>4, <1>5
<1>7. /\ auctions[id].highestBidder = w => led = auctions[id].highestBid
      /\ auctions[id].highestBidder # w => led = 0
  BY <1>5 DEF Lead
<1> QED
  BY <1>4, <1>6, <1>7

(* A bidder is refunded what it loses the lead of, and nobody else is paid. *)
LEMMA RefundWorth ==
  ASSUME MarketInv, Bidding(auctions)', NEW id \in DOMAIN auctions,
         auctions' = MapDelete(auctions, id), NEW w \in Wallets,
         auctions[id].highestBidder \in Wallets,
         CanPay(stx, auctions[id].highestBid, Market, auctions[id].highestBidder),
         stx' = Paid(stx, auctions[id].highestBid, Market,
                     auctions[id].highestBidder)
  PROVE  NetWorth(w)' = NetWorth(w)
<1>1. PICK bidder \in Wallets, price \in Nat :
        bidder = auctions[id].highestBidder /\ price = auctions[id].highestBid
  BY OpenAuction DEF MarketInv
<1>2. /\ w = bidder => stx'[w] = stx[w] + price
      /\ w # bidder => stx'[w] = stx[w]
  BY <1>1, PaidIs, WalletsAreAccounts DEF MarketInv
<1>3. stx[w] \in Nat
  BY WalletsAreAccounts DEF MarketInv
<1>4. PICK worth \in Int : worth = NetWorth(w)
  BY OpenBidding, StandingType, WalletsAreAccounts DEF NetWorth, MarketInv
<1>5. CASE w = bidder
  <2>1. NetWorth(w)' = worth + price - price
    BY <1>1, <1>2, <1>4, <1>5, ClosingWorth
  <2> QED
    BY <1>4, <2>1
<1>6. CASE w # bidder
  <2>1. stx'[w] = stx[w] + 0
    BY <1>2, <1>3, <1>6
  <2>2. NetWorth(w)' = worth + 0
    BY <1>1, <1>4, <1>6, <2>1, ClosingWorth
  <2> QED
    BY <1>4, <2>2
<1> QED
  BY <1>5, <1>6

(* A canceled auction gives the bidder back its bid. *)
LEMMA CancelWorth ==
  ASSUME MarketInv, [Next]_vars, NEW sender \in Wallets,
         NEW id \in DOMAIN auctions, NEW c \in Collections,
         CancelAuction(sender, id, c), NEW w \in Wallets
  PROVE  StaysWhole(w)
<1>1. PICK auction : auction = auctions[id]
  OBVIOUS
<1>2. /\ IF auction.highestBidder = None
         THEN stx' = stx
         ELSE /\ CanPay(stx, auction.highestBid, Market, auction.highestBidder)
              /\ stx' = Paid(stx, auction.highestBid, Market,
                             auction.highestBidder)
      /\ auctions' = MapDelete(auctions, id)
  BY <1>1 DEF CancelAuction
<1>3. Bidding(auctions)'
  BY OpenBiddingNext
<1>4. CASE auction.highestBidder = None
  <2>1. auctions[id].highestBidder # w
    BY <1>1, <1>4, WalletsAreAccounts
  <2>2. stx'[w] = stx[w] + 0
    BY <1>2, <1>4, WalletsAreAccounts DEF MarketInv
  <2>3. NetWorth(w)' = NetWorth(w) + 0
    BY <1>2, <1>3, <2>1, <2>2, ClosingWorth
  <2>4. NetWorth(w) \in Int
    BY OpenBidding, StandingType, WalletsAreAccounts DEF NetWorth, MarketInv
  <2> QED
    BY <2>3, <2>4 DEF StaysWhole
<1>5. CASE auction.highestBidder # None
  <2>1. auctions[id].highestBidder \in Wallets
    BY <1>1, <1>5, OpenAuction DEF MarketInv
  <2>2. NetWorth(w)' = NetWorth(w)
    BY <1>1, <1>2, <1>3, <1>5, <2>1, RefundWorth
  <2> QED
    BY <2>2 DEF StaysWhole
<1> QED
  BY <1>4, <1>5

(* An auction that ends passes the bid from its bidder to its maker, or,   *)
(* below the reserve, back to the bidder.                                  *)
LEMMA EndWorth ==
  ASSUME MarketInv, [Next]_vars, NEW sender \in Wallets,
         NEW id \in DOMAIN auctions, NEW c \in Collections,
         EndAuction(sender, id, c), NEW w \in Wallets
  PROVE  StaysWhole(w)
<1>1. PICK auction : auction = auctions[id]
  OBVIOUS
<1> DEFINE sold == ReserveMet(auction)
<1>2. PICK payee :
        payee = IF sold THEN auction.maker ELSE auction.highestBidder
  OBVIOUS
<1>3. /\ auction.highestBidder # None
      /\ CanPay(stx, auction.highestBid, Market, payee)
      /\ stx' = Paid(stx, auction.highestBid, Market, payee)
      /\ auctions' = MapDelete(auctions, id)
      /\ completedAuctions' =
           IF sold THEN MapSet(completedAuctions, id, auction) ELSE completedAuctions
  BY <1>1, <1>2 DEF EndAuction, CanEndAuction
<1>4. Bidding(auctions)'
  BY OpenBiddingNext
<1>5. auctions[id].highestBidder \in Wallets
  BY <1>1, <1>3, OpenAuction DEF MarketInv
<1> HIDE DEF sold
<1>6. CASE ~sold
  <2>1. NetWorth(w)' = NetWorth(w)
    BY <1>1, <1>2, <1>3, <1>4, <1>5, <1>6, RefundWorth
  <2> QED
    BY <2>1 DEF StaysWhole
<1>7. CASE sold
  <2>1. PICK maker \in Wallets, bidder \in Wallets, price \in Nat :
          /\ maker = auctions[id].maker
          /\ bidder = auctions[id].highestBidder
          /\ price = auctions[id].highestBid
    BY <1>5, OpenAuction DEF MarketInv
  <2>2. /\ w = maker => stx'[w] = stx[w] + price
        /\ w # maker => stx'[w] = stx[w]
    BY <1>1, <1>2, <1>3, <1>7, <2>1, PaidIs, WalletsAreAccounts DEF MarketInv
  <2>3. stx[w] \in Nat
    BY WalletsAreAccounts DEF MarketInv
  <2>4. PICK worth \in Int : worth = NetWorth(w)
    BY OpenBidding, StandingType, WalletsAreAccounts DEF NetWorth, MarketInv
  <2>5. PICK gained \in Nat :
          /\ stx'[w] = stx[w] + gained
          /\ w = maker => gained = price
          /\ w # maker => gained = 0
    BY <2>1, <2>2, <2>3
  <2>6. /\ bidder = w => NetWorth(w)' = worth + gained - price
        /\ bidder # w => NetWorth(w)' = worth + gained
    BY <1>3, <1>4, <2>1, <2>4, <2>5, ClosingWorth
  <2>7. NetWorth(w)' # NetWorth(w) =>
          w \in {maker, bidder} /\ Traded(w, maker, price)
    BY <2>1, <2>4, <2>5, <2>6 DEF Traded
  <2>8. id \in DOMAIN completedAuctions'
    BY <1>3, <1>7 DEF MapSet
  <2>9. ASSUME NetWorth(w)' # NetWorth(w) PROVE TradesIn(w)
    BY <2>1, <2>7, <2>8, <2>9 DEF TradesIn
  <2> QED
    BY <2>9 DEF StaysWhole
<1> QED
  BY <1>6, <1>7

(* A bid moves from what its bidder owns to its standing bids, and the one *)
(* it tops moves back.                                                     *)
LEMMA BidWorth ==
  ASSUME MarketInv, [Next]_vars, NEW sender \in Wallets,
         NEW id \in DOMAIN auctions, NEW bid \in Prices,
         PlaceBid(sender, id, bid), NEW w \in Wallets
  PROVE  StaysWhole(w)
<1>1. PICK auction, due : auction = auctions[id] /\ due = bid - PreviousBid(id, sender)
  OBVIOUS
<1>2. /\ CanPay(stx, due, sender, Market)
      /\ auction.highestBidder # None =>
           CanPay(Paid(stx, due, sender, Market), auction.highestBid, Market,
                  auction.highestBidder)
      /\ stx' = StxAfterBid(auction, sender, due)
      /\ auctions' = MapSet(auctions, id,
           [auction EXCEPT !.highestBid = bid, !.highestBidder = sender])
  BY <1>1 DEF PlaceBid
<1>3. /\ auction.highestBid \in Nat /\ auction \in Auction
      /\ auction.highestBidder \in Wallets \cup {None}
      /\ AuctionOf(id) = auction
      /\ bid \in Nat
  BY <1>1, OpenAuction, MarketAssumption DEF MarketInv
<1>4. CASE w = sender /\ auction.highestBidder = sender
  <2>1. RaisesOwnBid(w)
    BY <1>1, <1>4 DEF RaisesOwnBid
  <2> QED
    BY <2>1 DEF StaysWhole
<1>5. CASE w # sender \/ auction.highestBidder # sender
  <2>1. due \in Nat
    <3>1. PreviousBid(id, sender) \in Nat
      BY DEF PreviousBid, MarketInv, BidsInv, IsMap
    <3> QED
      BY <1>1, <1>2, <1>3, <3>1 DEF CanPay
  <2>2. w = sender => due = bid
    <3>1. ASSUME w = sender PROVE <<id, sender>> \notin DOMAIN bids
      <4>1. auction.highestBidder # sender
        BY <1>5, <3>1
      <4>2. \A key \in DOMAIN bids : AuctionOf(key[1]).highestBidder = key[2]
        BY DEF MarketInv, BidsInv, RecordedBidIsHeld
      <4> QED
        BY <1>3, <4>1, <4>2
    <3> QED
      BY <1>1, <1>3, <3>1 DEF PreviousBid
  <2>3. PICK received : received = Paid(stx, due, sender, Market)
    OBVIOUS
  <2>4. /\ received \in [Accounts -> Nat]
        /\ w = sender => received[w] = stx[w] - due
        /\ w # sender => received[w] = stx[w]
    <3>1. /\ stx \in [Accounts -> Nat] /\ w \in Accounts /\ w # Market
          /\ sender \in Accounts /\ Market \in Accounts
      BY WalletsAreAccounts DEF MarketInv
    <3>2. CanPay(stx, due, sender, Market)
      BY <1>2
    <3>3. received \in [Accounts -> Nat]
      BY <2>1, <2>3, <3>1, <3>2, PaidType
    <3> QED
      BY <2>1, <2>3, <3>1, <3>2, <3>3, PaidIs
  <2>5. /\ w = auction.highestBidder => stx'[w] = received[w] + auction.highestBid
        /\ w # auction.highestBidder => stx'[w] = received[w]
    <3>1. CASE auction.highestBidder = None
      BY <1>2, <2>3, <3>1, WalletsAreAccounts DEF StxAfterBid
    <3>2. CASE auction.highestBidder # None
      <4>1. stx' = Paid(received, auction.highestBid, Market,
                        auction.highestBidder)
        BY <1>2, <2>3, <3>2 DEF StxAfterBid
      <4> QED
        BY <1>2, <1>3, <2>3, <2>4, <3>2, <4>1, PaidIs, WalletsAreAccounts
    <3> QED
      BY <3>1, <3>2
  <2>6. SameElsewhere(auctions, auctions', id)
    BY <1>2 DEF MapSet, SameElsewhere
  <2>7. /\ w = sender => Lead(auctions', id, w) = bid
        /\ w # sender => Lead(auctions', id, w) = 0
    <3>1. id \in DOMAIN auctions' /\ auctions'[id].highestBid = bid
          /\ auctions'[id].highestBidder = sender
      BY <1>2, <1>3 DEF MapSet, Auction
    <3> QED
      BY <3>1 DEF Lead
  <2>8. /\ w = auction.highestBidder =>
             Lead(auctions, id, w) = auction.highestBid
        /\ w # auction.highestBidder => Lead(auctions, id, w) = 0
    BY <1>1 DEF Lead
  <2>9. PICK own \in Nat, rec \in Nat, hb \in Nat :
          own = stx[w] /\ rec = received[w] /\ hb = auction.highestBid
    BY <1>3, <2>4, WalletsAreAccounts DEF MarketInv
  <2>10. PICK gained \in Int :
           /\ stx'[w] = stx[w] + gained
           /\ gained = (IF w = auction.highestBidder THEN hb ELSE 0)
                         - (IF w = sender THEN bid ELSE 0)
    <3>1. PICK g : g = (IF w = auction.highestBidder THEN hb ELSE 0)
                         - (IF w = sender THEN bid ELSE 0)
      OBVIOUS
    <3>2. g \in Int
      BY <1>3, <3>1
    <3>3. stx'[w] = own + g
      BY <1>3, <2>2, <2>4, <2>5, <2>9, <3>1
    <3> QED
      BY <2>9, <3>1, <3>2, <3>3
  <2>11. Bidding(auctions)'
    BY OpenBiddingNext
  <2>12. NetWorth(w)' = NetWorth(w) + gained
                          + Lead(auctions', id, w) - Lead(auctions, id, w)
    BY <2>6, <2>10, <2>11, LeadShows
  <2>13. PICK worth \in Int : worth = NetWorth(w)
    BY OpenBidding, StandingType, WalletsAreAccounts DEF NetWorth, MarketInv
  <2>14. NetWorth(w)' = worth
    BY <1>3, <2>7, <2>8, <2>9, <2>10, <2>12, <2>13
  <2> QED
    BY <2>13, <2>14 DEF StaysWhole
<1> QED
  BY <1>4, <1>5

-----------------------------------------------------------------------------
(* Every step *)

LEMMA StepWorth ==
  ASSUME MarketInv, [Next]_vars, NEW w \in Wallets
  PROVE  StaysWhole(w)
<1>1. CASE SaleNext
  <2>1. ASSUME NEW x \in Wallets, NEW item \in Items, NEW p \in Prices,
               ListFixedPrice(x, item, p)
        PROVE  StaysWhole(w)
    BY <2>1, QuietWorth DEF ListFixedPrice, auctionMaps
  <2>2. ASSUME NEW x \in Wallets, NEW id \in DOMAIN listings,
               NEW c \in Collections, CancelFixedPriceListing(x, id, c)
        PROVE  StaysWhole(w)
    BY <2>2, QuietWorth DEF CancelFixedPriceListing, auctionMaps
  <2> QED
    BY <1>1, <2>1, <2>2, PurchaseWorth, StartWorth, BidWorth, EndWorth,
       CancelWorth DEF SaleNext
<1>2. CASE OwnerNext \/ MineBlocks
  BY <1>2, OwnerStepIs, QuietWorth DEF auctionMaps
<1>3. CASE \E x \in Wallets, item \in Items, to \in Recipients :
             TransferNft(x, item, to)
             /\ UNCHANGED <<listingMaps, auctionMaps, settings, stx, blockHeight>>
  BY <1>3, QuietWorth DEF auctionMaps
<1>4. CASE UNCHANGED vars
  BY <1>4, QuietWorth DEF vars, auctionMaps
<1> QED
  BY <1>1, <1>2, <1>3, <1>4 DEF Next, EnvironmentNext

(* Through any series of bids, outbids, cancellations and endings, in any  *)
(* number of auctions, what a wallet owns and has in standing bids changes *)
(* only by the price of a completed sale it takes part in, or when it      *)
(* raises its own bid.                                                     *)
THEOREM BiddersAlwaysWhole == Spec => BiddersStayWhole
<1>1. MarketInv /\ [Next]_vars =>
        [ \A w \in Wallets :
            NetWorth(w)' # NetWorth(w) => TradesIn(w) \/ RaisesOwnBid(w) ]_vars
  BY StepWorth DEF StaysWhole
<1> QED
  BY <1>1, MarketInvariant, PTL DEF Spec, BiddersStayWhole
==============================================================================
