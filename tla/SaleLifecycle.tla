---------------------------- MODULE SaleLifecycle ----------------------------
(***************************************************************************)
(* What the marketplace promises of a sale, a listing as well as an        *)
(* auction: it opens once and closes once, sold or returned, and the best  *)
(* offer only rises while it is open.                                      *)
(***************************************************************************)
EXTENDS Naturals

CONSTANTS
  Sales,    \* identities of sales
  Offers    \* the prices they may reach

VARIABLES
  stage,   \* sale -> where it is in its life
  price    \* sale -> the best offer, or what is asked for

Stages == {"none", "open", "sold", "returned"}

SaleInit ==
  /\ stage = [s \in Sales |-> "none"]
  /\ price = [s \in Sales |-> 0]

Open(s) ==
  /\ stage[s] = "none"
  /\ stage' = [stage EXCEPT ![s] = "open"]
  /\ price'[s] \in Offers
  /\ price' = [price EXCEPT ![s] = price'[s]]

Raise(s) ==
  /\ stage[s] = "open"
  /\ price'[s] \in Offers /\ price'[s] > price[s]
  /\ price' = [price EXCEPT ![s] = price'[s]]
  /\ UNCHANGED stage

Close(s) ==
  /\ stage[s] = "open"
  /\ stage'[s] \in {"sold", "returned"}
  /\ stage' = [stage EXCEPT ![s] = stage'[s]]
  /\ UNCHANGED price

SaleNext == \E s \in Sales : Open(s) \/ Raise(s) \/ Close(s)

SaleSpec == SaleInit /\ [][SaleNext]_<<stage, price>>
=============================================================================
