-------------------------- MODULE MCNftMarketplace --------------------------
(***************************************************************************)
(* Instances of NftMarketplace for TLC.                                    *)
(***************************************************************************)
EXTENDS NftMarketplaceSafety, TLC

CONSTANTS alice, bob, market, coll1, coll2

(* Two contracts with a token 1 each: callers can name the wrong one. *)
MCFirstOwner == [item \in Items |-> alice]

(* Enough for the two bids, of 1 and of 2, that are never both the higher. *)
MCStx == [w \in Wallets |-> 3]

(* Open at height 3, over at 4; the reserve is met by a bid of 2. *)
MCAuctionTerms == {<<2, 3, 1, 2>>}

(* Bound: the owner changes one thing at a time, besides the whitelist. *)
OneSettingChanged ==
  /\ paused => blacklist = {} /\ contractOwner = Deployer
  /\ blacklist # {} => contractOwner = Deployer

(* No constant tells the two collections apart. *)
Swapped == Permutations({coll1, coll2})
=============================================================================
