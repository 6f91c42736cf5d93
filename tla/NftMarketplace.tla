--------------------------- MODULE NftMarketplace ---------------------------
(***************************************************************************)
(* nft-marketplace.clar over marketplace-storage.clar: tokens are sold at  *)
(* a fixed price or by auction.  The contract takes the token of a sale    *)
(* in, and for an auction the highest bid, in the chain's currency.        *)
(*                                                                         *)
(* One action is one committed transaction; the checks of a call, its own  *)
(* and those of the transfers it makes, are the action's guards.  A caller *)
(* names the collection to move the token in, which the contract compares  *)
(* neither with the one the sale was opened with nor, after that, with its *)
(* whitelist: Collections are the contracts callers name, and every one of *)
(* them is assumed to transfer as sip009-nft does.                         *)
(*                                                                         *)
(* An operator named X_Op is a faulty variant of Op, kept beside it.       *)
(***************************************************************************)
EXTENDS Sip009Nft, ClarityMaps

CONSTANTS
  Market,           \* the principal of the contract .nft-marketplace
  Deployer,         \* its first contract-owner
  None,             \* the optional principal that is none
  InitialStx,       \* what each wallet owns of the chain's currency
  Prices,           \* what is asked for and bid
  AuctionTerms,     \* <<start block, end block, start bid, reserve price>>
  Heights,          \* the block heights at which something happens
  Whitelistable,    \* the collections the owner lists and delists
  Blacklistable,    \* the wallets the owner restricts
  NewOwners,        \* the wallets ownership is handed to
  Recipients,       \* whom tokens are bought for or sent to
  MaxListings,      \* bound: how many listings are ever made
  MaxAuctions,      \* bound: how many auctions are ever started
  MaxSales          \* bound: how many sales there ever are of either kind

ASSUME MarketAssumption ==
  /\ Market \in Contracts
  /\ Deployer \in Wallets
  /\ None \notin Accounts
  /\ InitialStx \in [Wallets -> Nat]
  /\ Prices \subseteq Nat /\ Heights \subseteq Nat
  /\ AuctionTerms \subseteq Nat \X Nat \X Nat \X Nat
  /\ Whitelistable \subseteq Collections
  /\ Blacklistable \subseteq Wallets /\ NewOwners \subseteq Wallets
  /\ Recipients \subseteq Accounts
  /\ MaxListings \in Nat /\ MaxAuctions \in Nat /\ MaxSales \in Nat

VARIABLES
  stx,                  \* what every account owns of the chain's currency
  listings, completedListings, cancelledListings,   \* id -> listing
  auctions, completedAuctions, cancelledAuctions,   \* id -> auction
  bids,                 \* <<auction, bidder>> -> the bid recorded
  withdrawnBids,        \* <<auction, bidder>> -> the bid last given back
  fixedPriceNonce,
  auctionNonce,
  whitelist,            \* the collections that may be sold
  blacklist,            \* the accounts that may not call
  paused,
  contractOwner,
  blockHeight           \* the chain's, not the contract's

listingMaps == <<listings, completedListings, cancelledListings, fixedPriceNonce>>
auctionMaps == <<auctions, completedAuctions, cancelledAuctions, bids,
                 withdrawnBids, auctionNonce>>
settings == <<whitelist, blacklist, paused, contractOwner>>
vars == <<listingMaps, auctionMaps, settings, stx, owners, blockHeight>>

Listing == [maker : Wallets, collection : Collections, tokenId : TokenIds,
            price : Nat]

Auction == [maker : Wallets, collection : Collections, tokenId : TokenIds,
            startBlock : Nat, endBlock : Nat, startBid : Nat,
            reservePrice : Nat,
            highestBid : Nat, highestBidder : Wallets \cup {None}]

IsMap(map, keys, values) ==
  /\ DOMAIN map \subseteq keys
  /\ \A k \in DOMAIN map : map[k] \in values

ListingIds == 0..(fixedPriceNonce - 1)
AuctionIds == 0..(auctionNonce - 1)

TypeOK ==
  /\ NftTypeOK
  /\ stx \in [Accounts -> Nat]
  /\ fixedPriceNonce \in Nat /\ auctionNonce \in Nat
  /\ IsMap(listings, ListingIds, Listing)
  /\ IsMap(completedListings, ListingIds, Listing)
  /\ IsMap(cancelledListings, ListingIds, Listing)
  /\ IsMap(auctions, AuctionIds, Auction)
  /\ IsMap(completedAuctions, AuctionIds, Auction)
  /\ IsMap(cancelledAuctions, AuctionIds, Auction)
  /\ IsMap(bids, AuctionIds \X Wallets, Nat \ {0})
  /\ IsMap(withdrawnBids, AuctionIds \X Wallets, Nat \ {0})
  /\ whitelist \subseteq Collections /\ blacklist \subseteq Wallets
  /\ paused \in BOOLEAN
  /\ contractOwner \in Wallets
  /\ blockHeight \in Nat

Init ==
  /\ NftInit
  /\ stx = [a \in Accounts |-> IF a \in Wallets THEN InitialStx[a] ELSE 0]
  /\ listings = <<>> /\ completedListings = <<>> /\ cancelledListings = <<>>
  /\ auctions = <<>> /\ completedAuctions = <<>> /\ cancelledAuctions = <<>>
  /\ bids = <<>> /\ withdrawnBids = <<>>
  /\ fixedPriceNonce = 0 /\ auctionNonce = 0
  /\ whitelist = {} /\ blacklist = {}
  /\ paused = FALSE
  /\ contractOwner = Deployer
  /\ blockHeight \in Heights

-----------------------------------------------------------------------------
(* Helpers *)

(* stx-transfer?, of the chain; from is the caller, or the contract inside *)
(* its as-contract.                                                        *)
CanPay(bal, amount, from, to) ==
  amount > 0 /\ from # to /\ amount <= bal[from]

Paid(bal, amount, from, to) ==
  [bal EXCEPT ![from] = @ - amount, ![to] = @ + amount]

(* The pause, which the owner is exempt from, and detect-restriction, which *)
(* nobody is.                                                              *)
MayTrade(sender) ==
  /\ ~paused \/ sender = contractOwner
  /\ sender \notin blacklist

(* increment-fixed-price-nonce, increment-auction-nonce *)
Stuck_Incremented(nonce) == nonce
Incremented(nonce) == nonce + 1

-----------------------------------------------------------------------------
(* Sales at a fixed price *)

ListFixedPrice(sender, item, price) ==
  /\ fixedPriceNonce < MaxListings
  /\ fixedPriceNonce + auctionNonce < MaxSales
  /\ MayTrade(sender)
  /\ item[1] \in whitelist
  /\ price > 0
  /\ CanMoveNft(item, sender, sender, Market)
  /\ owners' = MovedNft(item, Market)
  /\ listings' = MapSet(listings, fixedPriceNonce,
       [maker |-> sender, collection |-> item[1], tokenId |-> item[2],
        price |-> price])
  /\ fixedPriceNonce' = Incremented(fixedPriceNonce)
  /\ UNCHANGED <<completedListings, cancelledListings, auctionMaps, settings,
                 stx, blockHeight>>

PurchaseFixedPriceListing(sender, id, recipient, collection) ==
  LET listing == listings[id]
      item == <<collection, listing.tokenId>>
  IN /\ MayTrade(sender)
     /\ CanPay(stx, listing.price, sender, listing.maker)
     /\ CanMoveNft(item, Market, Market, recipient)
     /\ stx' = Paid(stx, listing.price, sender, listing.maker)
     /\ owners' = MovedNft(item, recipient)
     /\ completedListings' = MapSet(completedListings, id, listing)
     /\ listings' = MapDelete(listings, id)
     /\ UNCHANGED <<cancelledListings, fixedPriceNonce, auctionMaps, settings,
                    blockHeight>>

CancelFixedPriceListing(sender, id, collection) ==
  LET listing == listings[id]
      item == <<collection, listing.tokenId>>
  IN /\ sender \in {listing.maker, contractOwner}
     /\ MayTrade(sender)
     /\ CanMoveNft(item, Market, Market, listing.maker)
     /\ owners' = MovedNft(item, listing.maker)
     /\ cancelledListings' = MapSet(cancelledListings, id, listing)
     /\ listings' = MapDelete(listings, id)
     /\ UNCHANGED <<completedListings, fixedPriceNonce, auctionMaps, settings,
                    stx, blockHeight>>

-----------------------------------------------------------------------------
(* Auctions *)

StartAuction(sender, item, terms) ==
  /\ auctionNonce < MaxAuctions
  /\ fixedPriceNonce + auctionNonce < MaxSales
  /\ MayTrade(sender)
  /\ item[1] \in whitelist
  /\ terms[2] > terms[1]
  /\ terms[3] > 0
  /\ CanMoveNft(item, sender, sender, Market)
  /\ owners' = MovedNft(item, Market)
  /\ auctions' = MapSet(auctions, auctionNonce,
       [maker |-> sender, collection |-> item[1], tokenId |-> item[2],
        startBlock |-> terms[1], endBlock |-> terms[2],
        startBid |-> terms[3], reservePrice |-> terms[4],
        highestBid |-> 0, highestBidder |-> None])
  /\ auctionNonce' = Incremented(auctionNonce)
  /\ UNCHANGED <<completedAuctions, cancelledAuctions, bids, withdrawnBids,
                 listingMaps, settings, stx, blockHeight>>

(* get-previous-bid *)
PreviousBid(id, bidder) ==
  IF <<id, bidder>> \in DOMAIN bids THEN bids[<<id, bidder>>] ELSE 0

Lower_CanBid(auction, bid) ==
  /\ auction.startBlock <= blockHeight /\ blockHeight <= auction.endBlock
CanBid(auction, bid) ==
  /\ auction.startBlock <= blockHeight /\ blockHeight <= auction.endBlock
  /\ bid > auction.highestBid

(* What the bidder owes goes to the contract, then the highest bid goes    *)
(* back to whoever made it.                                                *)
NoRefund_StxAfterBid(auction, sender, due) == Paid(stx, due, sender, Market)
StxAfterBid(auction, sender, due) ==
  LET received == Paid(stx, due, sender, Market)
  IN IF auction.highestBidder = None THEN received
     ELSE Paid(received, auction.highestBid, Market, auction.highestBidder)

(* The new bid is recorded, then the one given back is removed; they are   *)
(* one entry when a bidder raises its own bid.                             *)
Both_BidsAfter(id, auction, sender, bid) == MapSet(bids, <<id, sender>>, bid)
BidsAfter(id, auction, sender, bid) ==
  LET recorded == MapSet(bids, <<id, sender>>, bid)
  IN IF auction.highestBidder = None THEN recorded
     ELSE MapDelete(recorded, <<id, auction.highestBidder>>)

WithdrawnAfter(id, auction) ==
  IF auction.highestBidder = None THEN withdrawnBids
  ELSE MapSet(withdrawnBids, <<id, auction.highestBidder>>, auction.highestBid)

PlaceBid(sender, id, bid) ==
  LET auction == auctions[id]
      due == bid - PreviousBid(id, sender)
  IN /\ MayTrade(sender)
     /\ CanBid(auction, bid)
     /\ CanPay(stx, due, sender, Market)
     /\ auction.highestBidder # None =>
          CanPay(Paid(stx, due, sender, Market),
                 auction.highestBid, Market, auction.highestBidder)
     /\ stx' = StxAfterBid(auction, sender, due)
     /\ auctions' = MapSet(auctions, id,
          [auction EXCEPT !.highestBid = bid, !.highestBidder = sender])
     /\ bids' = BidsAfter(id, auction, sender, bid)
     /\ withdrawnBids' = WithdrawnAfter(id, auction)
     /\ UNCHANGED <<completedAuctions, cancelledAuctions, auctionNonce,
                    listingMaps, settings, owners, blockHeight>>

Late_IsOver(auction) == blockHeight > auction.endBlock + 1
IsOver(auction) == blockHeight > auction.endBlock

ReserveMet(auction) == auction.highestBid >= auction.reservePrice

(* Either way of ending needs a bidder: the winner, or who to refund. *)
CanEndAuction(sender, id, collection) ==
  LET auction == auctions[id]
      sold == ReserveMet(auction)
      newOwner == IF sold THEN auction.highestBidder ELSE auction.maker
      payee == IF sold THEN auction.maker ELSE auction.highestBidder
  IN /\ MayTrade(sender)
     /\ IsOver(auction)
     /\ auction.highestBidder # None
     /\ CanMoveNft(<<collection, auction.tokenId>>, Market, Market, newOwner)
     /\ CanPay(stx, auction.highestBid, Market, payee)

EndAuction(sender, id, collection) ==
  LET auction == auctions[id]
      item == <<collection, auction.tokenId>>
      sold == ReserveMet(auction)
      newOwner == IF sold THEN auction.highestBidder ELSE auction.maker
      payee == IF sold THEN auction.maker ELSE auction.highestBidder
  IN /\ CanEndAuction(sender, id, collection)
     /\ owners' = MovedNft(item, newOwner)
     /\ stx' = Paid(stx, auction.highestBid, Market, payee)
     /\ completedAuctions' =
          IF sold THEN MapSet(completedAuctions, id, auction) ELSE completedAuctions
     /\ cancelledAuctions' =
          IF sold THEN cancelledAuctions ELSE MapSet(cancelledAuctions, id, auction)
     /\ auctions' = MapDelete(auctions, id)
     /\ UNCHANGED <<bids, withdrawnBids, auctionNonce, listingMaps, settings,
                    blockHeight>>

CancelAuction(sender, id, collection) ==
  LET auction == auctions[id]
      item == <<collection, auction.tokenId>>
  IN /\ MayTrade(sender)
     /\ ~IsOver(auction)
     /\ sender \in {auction.maker, contractOwner}
     /\ CanMoveNft(item, Market, Market, auction.maker)
     /\ owners' = MovedNft(item, auction.maker)
     /\ IF auction.highestBidder = None
        THEN UNCHANGED stx
        ELSE /\ CanPay(stx, auction.highestBid, Market, auction.highestBidder)
             /\ stx' = Paid(stx, auction.highestBid, Market,
                            auction.highestBidder)
     /\ cancelledAuctions' = MapSet(cancelledAuctions, id, auction)
     /\ auctions' = MapDelete(auctions, id)
     /\ UNCHANGED <<completedAuctions, bids, withdrawnBids, auctionNonce,
                    listingMaps, settings, blockHeight>>

-----------------------------------------------------------------------------
(* The owner's settings *)

SetWhitelisted(collection, whitelisted) ==
  /\ whitelist' = IF whitelisted THEN whitelist \cup {collection}
                                 ELSE whitelist \ {collection}
  /\ UNCHANGED <<blacklist, paused, contractOwner, listingMaps, auctionMaps,
                 stx, owners, blockHeight>>

UpdateBlacklisted(account, blacklisted) ==
  /\ blacklist' = IF blacklisted THEN blacklist \cup {account}
                                 ELSE blacklist \ {account}
  /\ UNCHANGED <<whitelist, paused, contractOwner, listingMaps, auctionMaps,
                 stx, owners, blockHeight>>

PauseContract ==
  /\ paused' = TRUE
  /\ UNCHANGED <<whitelist, blacklist, contractOwner, listingMaps, auctionMaps,
                 stx, owners, blockHeight>>

ResumeContract ==
  /\ paused' = FALSE
  /\ UNCHANGED <<whitelist, blacklist, contractOwner, listingMaps, auctionMaps,
                 stx, owners, blockHeight>>

SetOwner(newOwner) ==
  /\ contractOwner' = newOwner
  /\ UNCHANGED <<whitelist, blacklist, paused, listingMaps, auctionMaps, stx,
                 owners, blockHeight>>

(* Blocks are mined; the heights in between make no difference. *)
MineBlocks ==
  /\ \E h \in Heights : h > blockHeight /\ blockHeight' = h
  /\ UNCHANGED <<listingMaps, auctionMaps, settings, stx, owners>>

-----------------------------------------------------------------------------
SaleNext ==
  \/ \E w \in Wallets, item \in Items, p \in Prices : ListFixedPrice(w, item, p)
  \/ \E w \in Wallets, id \in DOMAIN listings, to \in Recipients, c \in Collections :
       PurchaseFixedPriceListing(w, id, to, c)
  \/ \E w \in Wallets, id \in DOMAIN listings, c \in Collections :
       CancelFixedPriceListing(w, id, c)
  \/ \E w \in Wallets, item \in Items, terms \in AuctionTerms :
       StartAuction(w, item, terms)
  \/ \E w \in Wallets, id \in DOMAIN auctions, bid \in Prices :
       PlaceBid(w, id, bid)
  \/ \E w \in Wallets, id \in DOMAIN auctions, c \in Collections :
       EndAuction(w, id, c)
  \/ \E w \in Wallets, id \in DOMAIN auctions, c \in Collections :
       CancelAuction(w, id, c)

OwnerNext ==
  \/ \E c \in Whitelistable, whitelisted \in BOOLEAN : SetWhitelisted(c, whitelisted)
  \/ \E w \in Blacklistable, blacklisted \in BOOLEAN :
       UpdateBlacklisted(w, blacklisted)
  \/ PauseContract
  \/ ResumeContract
  \/ \E w \in NewOwners : SetOwner(w)

EnvironmentNext ==
  \/ MineBlocks
  \/ /\ \E w \in Wallets, item \in Items, to \in Recipients : TransferNft(w, item, to)
     /\ UNCHANGED <<listingMaps, auctionMaps, settings, stx, blockHeight>>

Next == SaleNext \/ OwnerNext \/ EnvironmentNext

Spec == Init /\ [][Next]_vars
=============================================================================
