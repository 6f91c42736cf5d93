-------------------------- MODULE BtcFtSwapSafety --------------------------
(***************************************************************************)
(* What btc-ft-swap.clar is to guarantee.  Its tokens are one balance per  *)
(* kind of token, which all swaps share.                                   *)
(***************************************************************************)
EXTENDS BtcFtSwap, FiniteSets, Functions

Open == {id \in DOMAIN swaps : swaps[id].done = 0}

OpenAmounts == [id \in Open |-> swaps[id].amount]
OpenFor(ft) == {id \in Open : swaps[id].ft = ft}
Reserved(ft) == SumFunctionOnSet(OpenAmounts, OpenFor(ft))

(* What the contract holds of a token covers all open swaps of that token,  *)
(* after any series of creations, claims and cancellations.                *)
EscrowCoversSwaps == \A ft \in Tokens : Reserved(ft) <= balances[ft][Escrow]

(* No open swap is stuck: the transfer of a cancellation succeeds, and so  *)
(* does that of a claim once there is a receiver other than the contract.  *)
OpenSwapCanBeSettled ==
  \A id \in Open :
    \A to \in {swaps[id].ftSender} \cup ({swaps[id].ftReceiver} \ {None, Escrow}) :
      CanTransfer(balances[swaps[id].ft], swaps[id].amount, Escrow, to)

-----------------------------------------------------------------------------
(* Whose the tokens are *)

(* What a wallet has of a token, what it put into open swaps included. *)
SentBy(w, ft) == {id \in Open : swaps[id].ftSender = w /\ swaps[id].ft = ft}
Escrowed(w, ft) == SumFunctionOnSet(OpenAmounts, SentBy(w, ft))
Wealth(w, ft) == balances[ft][w] + Escrowed(w, ft)

(* Someone has paid on Bitcoin what the swap asks for, in one output. *)
PaidFor(swap) ==
  \E tx \in mined : \E i \in DOMAIN tx :
    tx[i].scriptPubKey = swap.btcReceiver /\ tx[i].value >= swap.sats

(* A swap that was paid for goes from its sender to its receiver. *)
Sells(w, ft) ==
  \E id \in SentBy(w, ft) :
    /\ id \notin Open' /\ PaidFor(swaps[id])
    /\ Wealth(w, ft)' = Wealth(w, ft) - swaps[id].amount

Buys(w, ft) ==
  \E id \in Open :
    /\ id \notin Open' /\ PaidFor(swaps[id])
    /\ w = swaps[id].ftReceiver /\ ft = swaps[id].ft
    /\ Wealth(w, ft)' = Wealth(w, ft) + swaps[id].amount

TransfersItself(w, ft) ==
  \E from \in Wallets, amount \in WalletTransfers, to \in Accounts :
    w \in {from, to} /\ Transfer(from, ft, amount, to)

(* Through any series of swaps, canceled, claimed and racing for either,   *)
(* what a wallet has of a token changes only by a swap that was paid for   *)
(* on Bitcoin, by exactly its amount, or by the wallets' own transfers.    *)
WalletsStayWhole ==
  [][ \A w \in Wallets, ft \in Tokens :
        Wealth(w, ft)' # Wealth(w, ft)
          => Sells(w, ft) \/ Buys(w, ft) \/ TransfersItself(w, ft) ]_vars

-----------------------------------------------------------------------------
(* The agreement *)

SwapIds == 0..(MaxSwaps - 1)

Offer == [sats : Nat, btcReceiver : Scripts, amount : Nat \ {0},
          ftReceiver : Accounts \cup {None}, ftSender : Wallets, when : Nat,
          ft : Tokens]

Terms(swap) == [sats |-> swap.sats, btcReceiver |-> swap.btcReceiver,
                amount |-> swap.amount, ftReceiver |-> swap.ftReceiver,
                ftSender |-> swap.ftSender, when |-> swap.when, ft |-> swap.ft]

StageOf(id) ==
  IF id \notin DOMAIN swaps THEN "none" ELSE IF id \in Open THEN "open" ELSE "over"
TermsOf(id) == IF id \in DOMAIN swaps THEN Terms(swaps[id]) ELSE None
StageMap == [id \in SwapIds |-> StageOf(id)]
TermsMap == [id \in SwapIds |-> TermsOf(id)]
Payments == UNION {{tx[i] : i \in DOMAIN tx} : tx \in mined}

Agreement ==
  INSTANCE SwapAgreement WITH
    Swaps <- SwapIds,
    Offers <- Offer,
    Nobody <- None,
    Term <- Expiry,
    stage <- StageMap,
    terms <- TermsMap,
    payments <- Payments,
    height <- blockHeight

(* Creation, claim and cancellation by anyone, in any order, keep to the   *)
(* agreement: settled once, for a payment of the full price or after the   *)
(* expiry, on terms that stay.                                             *)
ImplementsAgreement == Agreement!AgreementSpec
=============================================================================
