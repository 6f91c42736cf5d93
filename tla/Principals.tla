----------------------------- MODULE Principals -----------------------------
(***************************************************************************)
(* The addresses of the chain.  A wallet signs transactions (it is the     *)
(* tx-sender of a public call); a contract never does, it holds tokens and *)
(* becomes tx-sender only inside its own as-contract.                      *)
(***************************************************************************)
CONSTANTS
  Wallets,    \* standard principals
  Contracts   \* contract principals that hold tokens

ASSUME PrincipalsAssumption == Wallets \cap Contracts = {}

Accounts == Wallets \cup Contracts
=============================================================================
