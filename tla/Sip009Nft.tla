------------------------------ MODULE Sip009Nft ------------------------------
(***************************************************************************)
(* sip009-nft.clar, the collection the marketplace trades: a token has one *)
(* owner, who alone moves it.  CanMoveNft and MovedNft are what transfer   *)
(* checks and does.  Every collection a caller names is assumed to be like *)
(* it, although the marketplace calls any contract of the trait.  Tokens   *)
(* are minted before the first step.                                       *)
(***************************************************************************)
EXTENDS Naturals, Principals

CONSTANTS
  Collections,    \* the contracts of the trait
  TokenIds,       \* identifiers of tokens, counted in each contract
  FirstOwner      \* whom each token was minted for

Items == Collections \X TokenIds

ASSUME NftAssumption == FirstOwner \in [Items -> Wallets]

VARIABLE owners   \* nft-get-owner? of every token

NftTypeOK == owners \in [Items -> Accounts]

NftInit == owners = FirstOwner

CanMoveNft(item, caller, from, to) ==
  /\ caller = from
  /\ owners[item] = from
  /\ from # to

MovedNft(item, to) == [owners EXCEPT ![item] = to]

(* A wallet calls transfer itself, outside any sale. *)
TransferNft(w, item, to) ==
  /\ CanMoveNft(item, w, w, to)
  /\ owners' = MovedNft(item, to)
=============================================================================
