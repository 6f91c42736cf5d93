----------------------------- MODULE TokenSusdt -----------------------------
(***************************************************************************)
(* token-susdt.clar: the fungible token every payment of the protocol is   *)
(* made in.  CanTransfer and Moved are what transfer checks and does; they *)
(* take the balances as an argument because one transaction of another     *)
(* contract may transfer several times before it commits.                  *)
(*                                                                         *)
(* Minting and burning by the token's owner are outside the model: wallets *)
(* start with what they were minted (InitialBalance).                      *)
(***************************************************************************)
EXTENDS Naturals, Principals

CONSTANTS
  InitialBalance,   \* what each wallet was minted
  WalletTransfers   \* the amounts wallets move between themselves: a bound

ASSUME TokenAssumption ==
  /\ InitialBalance \in [Wallets -> Nat]
  /\ WalletTransfers \subseteq Nat

VARIABLE balances   \* ft-get-balance of every account

TokenTypeOK == balances \in [Accounts -> Nat]

TokenInit ==
  balances = [a \in Accounts |->
                IF a \in Wallets THEN InitialBalance[a] ELSE 0]

Strict_CanTransfer(bal, caller, amount, from, to) ==
  caller = from /\ amount > 0 /\ from # to /\ amount < bal[from]

(* The caller moves its own tokens only, and ft-transfer? refuses a zero   *)
(* amount, a transfer to oneself and an overdraft.                         *)
CanTransfer(bal, caller, amount, from, to) ==
  /\ caller = from
  /\ amount > 0
  /\ from # to
  /\ amount <= bal[from]

Moved(bal, amount, from, to) ==
  [bal EXCEPT ![from] = @ - amount, ![to] = @ + amount]

(* A wallet calls transfer itself, outside any protocol operation. *)
WalletTransfer(w, amount, to) ==
  /\ CanTransfer(balances, w, amount, w, to)
  /\ balances' = Moved(balances, amount, w, to)
=============================================================================
