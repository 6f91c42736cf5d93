----------------------------- MODULE BtcFtSwap -----------------------------
(***************************************************************************)
(* btc-ft-swap.clar: fungible tokens, held by the contract, against a      *)
(* payment on Bitcoin.  One action per public function that changes        *)
(* state; a call that returns err changes nothing, in the token as well    *)
(* as here.  Anyone may cancel and submit, so that these take no caller.   *)
(*                                                                         *)
(* A Bitcoin transaction is the sequence of its outputs.  What             *)
(* clarity-bitcoin.clar makes of a header, a transaction and a proof is    *)
(* taken to be whether the transaction was mined; Bitcoin is not           *)
(* reorganized.  Minting is done before the first step.                    *)
(***************************************************************************)
EXTENDS Naturals, Principals, ClarityMaps

CONSTANTS
  Escrow,         \* the swap contract's own address
  None,           \* no principal
  Tokens,         \* the contracts of ft-trait
  FirstBalance,   \* what each wallet was minted of each token
  Scripts,        \* what Bitcoin outputs pay to
  BtcTxs,         \* the transactions that may be mined
  Word,           \* an output's value is read modulo this: 2^32
  Expiry,         \* blocks until a swap can be canceled: 100
  Sats, BtcReceivers, Amounts, FtReceivers,   \* the arguments of callers: bounds
  WalletTransfers,   \* the amounts wallets move between themselves: a bound
  Heights,        \* the block heights that matter: a bound
  MaxSwaps        \* how many swaps are created: a bound

ASSUME SwapAssumption ==
  /\ Escrow \in Contracts
  /\ None \notin Accounts
  /\ FirstBalance \in [Tokens -> [Wallets -> Nat]]
  /\ \A tx \in BtcTxs :
       /\ DOMAIN tx \subseteq Nat
       /\ \A i \in DOMAIN tx : tx[i] \in [scriptPubKey : Scripts, value : Nat]
  /\ Word \in Nat \ {0} /\ Expiry \in Nat
  /\ Sats \subseteq Nat /\ BtcReceivers \subseteq Scripts
  /\ Amounts \subseteq Nat /\ WalletTransfers \subseteq Nat
  /\ Heights \subseteq Nat
  /\ FtReceivers \subseteq Accounts \cup {None}
  /\ MaxSwaps \in Nat

VARIABLES
  balances,      \* token -> account -> ft-get-balance
  swaps,         \* id -> swap
  nextId,
  mined,         \* the transactions in Bitcoin's blocks
  blockHeight

vars == <<balances, swaps, nextId, mined, blockHeight>>

Swap == [sats : Nat, btcReceiver : Scripts, amount : Nat \ {0},
         ftReceiver : Accounts \cup {None}, ftSender : Wallets, when : Nat,
         done : {0, 1}, ft : Tokens]

TypeOK ==
  /\ balances \in [Tokens -> [Accounts -> Nat]]
  /\ nextId \in 0..MaxSwaps
  /\ DOMAIN swaps = 0..(nextId - 1)
  /\ \A id \in DOMAIN swaps : swaps[id] \in Swap
  /\ mined \subseteq BtcTxs
  /\ blockHeight \in Nat
  /\ \A id \in DOMAIN swaps : swaps[id].when <= blockHeight

Init ==
  /\ balances = [ft \in Tokens |-> [a \in Accounts |->
                   IF a \in Wallets THEN FirstBalance[ft][a] ELSE 0]]
  /\ swaps = <<>>
  /\ nextId = 0
  /\ mined = {}
  /\ blockHeight \in Heights

-----------------------------------------------------------------------------
(* Helpers *)

(* transfer of the token: the caller, or the contract inside its           *)
(* as-contract, moves its own, and ft-transfer? refuses a zero amount, a   *)
(* transfer to oneself and an overdraft.                                   *)
CanTransfer(bal, amount, from, to) ==
  amount > 0 /\ from # to /\ amount <= bal[from]

Moved(bal, amount, from, to) ==
  [bal EXCEPT ![from] = @ - amount, ![to] = @ + amount]

Transferred(ft, amount, from, to) ==
  [balances EXCEPT ![ft] = Moved(@, amount, from, to)]

(* What create-swap sets next-id to. *)
Stuck_Advanced(id) == id
Advanced(id) == id + 1

(* An output's value has eight bytes, of which this reads the low four. *)
ReadUint32(value) == value % Word

(* The output that counts: the fold of find-out keeps the last one that    *)
(* pays to the receiver.                                                   *)
Counts(tx, btcReceiver, i) ==
  /\ tx[i].scriptPubKey = btcReceiver
  /\ \A j \in DOMAIN tx : tx[j].scriptPubKey = btcReceiver => j <= i

AnyOutput_PaysEnough(tx, swap) ==
  \E i \in DOMAIN tx : ReadUint32(tx[i].value) >= swap.sats
PaysEnough(tx, swap) ==
  \E i \in DOMAIN tx :
    /\ Counts(tx, swap.btcReceiver, i)
    /\ ReadUint32(tx[i].value) >= swap.sats

-----------------------------------------------------------------------------
(* The contract *)

CreateSwap(sender, sats, btcReceiver, amount, ftReceiver, ft) ==
  /\ nextId < MaxSwaps
  /\ nextId \notin DOMAIN swaps
  /\ CanTransfer(balances[ft], amount, sender, Escrow)
  /\ swaps' = MapSet(swaps, nextId,
       [sats |-> sats, btcReceiver |-> btcReceiver, amount |-> amount,
        ftReceiver |-> ftReceiver, ftSender |-> sender, when |-> blockHeight,
        done |-> 0, ft |-> ft])
  /\ nextId' = Advanced(nextId)
  /\ balances' = Transferred(ft, amount, sender, Escrow)
  /\ UNCHANGED <<mined, blockHeight>>

SetFtReceiver(sender, id) ==
  /\ swaps[id].ftReceiver = None
  /\ swaps' = [swaps EXCEPT ![id].ftReceiver = sender]
  /\ UNCHANGED <<balances, nextId, mined, blockHeight>>

Any_IsOf(ft, id) == TRUE
IsOf(ft, id) == ft = swaps[id].ft

Unmarked_Closed(id) == swaps
Closed(id) == [swaps EXCEPT ![id].done = 1]

(* The end of a swap: the contract sends what it holds for it. *)
Settle(id, ft, to) ==
  /\ swaps[id].done = 0
  /\ IsOf(ft, id)
  /\ CanTransfer(balances[ft], swaps[id].amount, Escrow, to)
  /\ swaps' = Closed(id)
  /\ balances' = Transferred(ft, swaps[id].amount, Escrow, to)
  /\ UNCHANGED <<nextId, mined, blockHeight>>

Early_Cancel(id, ft) ==
  /\ swaps[id].when + Expiry <= blockHeight
  /\ Settle(id, ft, swaps[id].ftSender)
Cancel(id, ft) ==
  /\ swaps[id].when + Expiry < blockHeight
  /\ Settle(id, ft, swaps[id].ftSender)

SubmitSwap(id, tx, ft) ==
  /\ tx \in mined
  /\ PaysEnough(tx, swaps[id])
  /\ swaps[id].ftReceiver # None
  /\ Settle(id, ft, swaps[id].ftReceiver)

-----------------------------------------------------------------------------
(* What surrounds it *)

(* A wallet transfers tokens itself, outside any swap. *)
Transfer(w, ft, amount, to) ==
  /\ CanTransfer(balances[ft], amount, w, to)
  /\ balances' = Transferred(ft, amount, w, to)
  /\ UNCHANGED <<swaps, nextId, mined, blockHeight>>

MineTx(tx) ==
  /\ mined' = mined \cup {tx}
  /\ UNCHANGED <<balances, swaps, nextId, blockHeight>>

(* Blocks are mined; the heights in between make no difference. *)
MineBlocks ==
  /\ \E h \in Heights : h > blockHeight /\ blockHeight' = h
  /\ UNCHANGED <<balances, swaps, nextId, mined>>

SwapNext ==
  \/ \E w \in Wallets, sats \in Sats, btc \in BtcReceivers, amount \in Amounts,
        to \in FtReceivers, ft \in Tokens : CreateSwap(w, sats, btc, amount, to, ft)
  \/ \E w \in Wallets, id \in DOMAIN swaps : SetFtReceiver(w, id)
  \/ \E id \in DOMAIN swaps, ft \in Tokens : Cancel(id, ft)
  \/ \E id \in DOMAIN swaps, tx \in BtcTxs, ft \in Tokens : SubmitSwap(id, tx, ft)

EnvironmentNext ==
  \/ \E w \in Wallets, ft \in Tokens, amount \in WalletTransfers, to \in Accounts :
       Transfer(w, ft, amount, to)
  \/ \E tx \in BtcTxs : MineTx(tx)
  \/ MineBlocks

Next == SwapNext \/ EnvironmentNext

Spec == Init /\ [][Next]_vars
=============================================================================
