----------------------- MODULE PurchaseOrderLifecycle -----------------------
(***************************************************************************)
(* What the bank promises of a purchase order, whatever it stores: an      *)
(* order goes one way through its stages, a loan starts only from an offer *)
(* that was made for it, and neither the lender nor the amount of a loan   *)
(* ever changes once it runs.                                              *)
(***************************************************************************)
CONSTANTS
  Orders,    \* identities of orders
  Financiers,   \* who may lend
  Amounts,   \* what may be lent
  NoLoan     \* the loan of an order that has none

VARIABLES
  stage,   \* order -> where it is in its life
  loan     \* order -> its loan, once accepted

lifecycle == <<stage, loan>>

Stages == {"none", "open", "canceled", "offered", "running", "repaid", "failed"}

LifecycleInit ==
  /\ stage = [o \in Orders |-> "none"]
  /\ loan = [o \in Orders |-> NoLoan]

Advance(o, from, to) ==
  /\ stage[o] = from
  /\ stage' = [stage EXCEPT ![o] = to]

Open(o) == Advance(o, "none", "open") /\ UNCHANGED loan

Cancel(o) == Advance(o, "open", "canceled") /\ UNCHANGED loan

Offer(o) == Advance(o, "open", "offered") /\ UNCHANGED loan

Accept(o, lender, amount) ==
  /\ Advance(o, "offered", "running")
  /\ loan' = [loan EXCEPT ![o] = [lender |-> lender, amount |-> amount]]

Repay(o) == Advance(o, "running", "repaid") /\ UNCHANGED loan

Fail(o) == Advance(o, "running", "failed") /\ UNCHANGED loan

LifecycleNext ==
  \E o \in Orders :
    \/ Open(o) \/ Cancel(o) \/ Offer(o) \/ Repay(o) \/ Fail(o)
    \/ \E lender \in Financiers, amount \in Amounts : Accept(o, lender, amount)

LifecycleSpec == LifecycleInit /\ [][LifecycleNext]_lifecycle
=============================================================================
