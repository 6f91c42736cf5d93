------------------------------ MODULE TaralBank ------------------------------
(***************************************************************************)
(* taral-bank.clar over taral-bank-storage.clar: bullet loans for purchase *)
(* orders.  A borrower (importer) opens an order towards a seller          *)
(* (exporter) and pays a downpayment into the bank; a lender offers the    *)
(* rest; the borrower accepts, which pays the seller; the borrower repays  *)
(* in one payment, or the order is closed as failed.                       *)
(*                                                                         *)
(* An operator named X_Op is a faulty variant of Op, kept beside it: the   *)
(* properties of TaralBankSafety fail when it takes the place of Op.       *)
(*                                                                         *)
(* One action is one committed transaction.  A transaction that returns    *)
(* err, or aborts, rolls back everything it did, so its checks are the     *)
(* action's guards.  A map of the storage contract is a function on the    *)
(* keys present; 0 stands for an absent identifier (identifiers start at   *)
(* u1) and None for an absent principal.                                   *)
(***************************************************************************)
EXTENDS TokenSusdt, TrackRecords, ClarityMaps

CONSTANTS
  Bank,               \* the principal of the contract .taral-bank
  ContractOwner,      \* who deployed it
  None,               \* the optional principal that is none
  Quotes,             \* <<total, downpayment>> pairs borrowers ask for
  Rates,              \* what the owner may set the yearly interest to
  DueDates,           \* ... the days until a loan is due to
  GracePeriods,       \* ... the days of grace to
  BlockTimes,         \* ... the seconds a block takes to
  Heights,            \* the block heights at which something happens
  MaxPurchaseOrders   \* bound: how many orders are ever created

ASSUME BankAssumption ==
  /\ Bank \in Contracts
  /\ ContractOwner \in Wallets
  /\ None \notin Accounts
  /\ Quotes \subseteq Nat \X Nat
  /\ Rates \subseteq Nat /\ DueDates \subseteq Nat
  /\ GracePeriods \subseteq Nat /\ BlockTimes \subseteq Nat
  /\ Heights \subseteq Nat
  /\ MaxPurchaseOrders \in Nat

VARIABLES
  purchaseOrders,         \* id -> purchase order
  activePurchaseOrders,   \* wallet -> id of its active order, or 0
  poFinancing,            \* id -> financing offer
  payments,               \* id -> repayment
  nextPurchaseOrderId,
  nextFinancingId,
  nextPaymentId,
  contractPaused,
  interestRatePerAnnum,   \* protocol-interest-rate-per-annum
  poDueDate,              \* po-due-date, in days
  gracePeriodInDays,      \* payments-default-grace-period-in-days
  blocksTimeInSeconds,
  blockHeight             \* the chain's, not the contract's

storage == <<purchaseOrders, activePurchaseOrders, poFinancing, payments,
             nextPurchaseOrderId, nextFinancingId, nextPaymentId>>
terms == <<interestRatePerAnnum, poDueDate, gracePeriodInDays,
           blocksTimeInSeconds>>
vars == <<storage, contractPaused, terms, blockHeight, balances, trackRecords>>

PurchaseOrder ==
  [borrower : Wallets, lender : Wallets \cup {None}, seller : Wallets,
   totalAmount : Nat, downpayment : Nat, outstanding : Nat,
   isCompleted : BOOLEAN, completedSuccessfully : BOOLEAN,
   acceptedFinancing : Nat, proposedFinancing : Nat,
   isCanceled : BOOLEAN, hasActiveFinancing : BOOLEAN]

Financing ==
  [purchaseOrder : Nat, amount : Nat, lender : Wallets,
   isAccepted : BOOLEAN, refunded : BOOLEAN, isRejected : BOOLEAN,
   acceptedAt : Nat]

Payment == [purchaseOrder : Nat, borrower : Wallets, amount : Nat]

(* Every identifier below the next one is in use, and holds a record. *)
TypeOK ==
  /\ TokenTypeOK
  /\ TrackRecordsTypeOK
  /\ nextPurchaseOrderId \in Nat \ {0}
  /\ nextFinancingId \in Nat \ {0}
  /\ nextPaymentId \in Nat \ {0}
  /\ purchaseOrders \in [1..(nextPurchaseOrderId - 1) -> PurchaseOrder]
  /\ poFinancing \in [1..(nextFinancingId - 1) -> Financing]
  /\ payments \in [1..(nextPaymentId - 1) -> Payment]
  /\ activePurchaseOrders \in [Wallets -> Nat]
  /\ contractPaused \in BOOLEAN
  /\ interestRatePerAnnum \in Nat /\ poDueDate \in Nat
  /\ gracePeriodInDays \in Nat /\ blocksTimeInSeconds \in Nat
  /\ blockHeight \in Nat

Init ==
  /\ TokenInit
  /\ TrackRecordsInit
  /\ purchaseOrders = <<>> /\ poFinancing = <<>> /\ payments = <<>>
  /\ activePurchaseOrders = [w \in Wallets |-> 0]
  /\ nextPurchaseOrderId = 1 /\ nextFinancingId = 1 /\ nextPaymentId = 1
  /\ contractPaused = FALSE
  /\ interestRatePerAnnum = 12 /\ poDueDate = 90
  /\ gracePeriodInDays = 5 /\ blocksTimeInSeconds = 600
  /\ blockHeight \in Heights

-----------------------------------------------------------------------------
(* Helpers of the contract *)

MicroMultiplier == 1000000
SecondsPerDay == 86400

NotPaused(sender) == ~contractPaused \/ sender = ContractOwner

DaysToBlocks(days) == (SecondsPerDay \div blocksTimeInSeconds) * days

DefaultHeight(offer) ==
  offer.acceptedAt + DaysToBlocks(poDueDate) + DaysToBlocks(gracePeriodInDays)

(* is-po-defaulted, for an order that exists *)
IsDefaulted(po) ==
  /\ po.acceptedFinancing # 0
  /\ ~(po.isCompleted /\ po.completedSuccessfully)
  /\ blockHeight > DefaultHeight(poFinancing[po.acceptedFinancing])

(* What a lender lends: what the downpayment leaves open. *)
Swapped_AmountToFinance(total, downpayment) == downpayment - total
AmountToFinance(total, downpayment) == total - downpayment

InterestFor(amount, rate) ==
  ((amount * 100) + (amount * rate)) \div 100 - amount

(* end-purchase-order-(un)successfully: the three parties' track records   *)
CanEndPurchaseOrder(po) ==
  /\ po.lender # None
  /\ CanCredit(trackRecords, "importer", po.borrower)
  /\ CanCredit(trackRecords, "exporter", po.seller)
  /\ CanCredit(trackRecords, "lender", po.lender)

NoExporter_EndedPurchaseOrder(po, success) ==
  Credited(Credited(trackRecords,
    "importer", po.borrower, success),
    "lender", po.lender, success)

EndedPurchaseOrder(po, success) ==
  Credited(Credited(Credited(trackRecords,
    "importer", po.borrower, success),
    "exporter", po.seller, success),
    "lender", po.lender, success)

(* delete-active-purchase-order *)
Kept_WithoutActive(borrower) == activePurchaseOrders
WithoutActive(borrower) == [activePurchaseOrders EXCEPT ![borrower] = 0]

-----------------------------------------------------------------------------
(* Purchase orders *)

NewPurchaseOrder(borrower, total, downpayment, seller) ==
  [borrower |-> borrower, lender |-> None, seller |-> seller,
   totalAmount |-> total, downpayment |-> downpayment,
   outstanding |-> AmountToFinance(total, downpayment),
   isCompleted |-> FALSE, completedSuccessfully |-> FALSE,
   acceptedFinancing |-> 0, proposedFinancing |-> 0,
   isCanceled |-> FALSE, hasActiveFinancing |-> FALSE]

CreatePurchaseOrder(sender, totalUsdt, downpaymentUsdt, seller) ==
  LET total == totalUsdt * MicroMultiplier
      downpayment == downpaymentUsdt * MicroMultiplier
  IN /\ nextPurchaseOrderId <= MaxPurchaseOrders
     /\ activePurchaseOrders[sender] = 0
     /\ NotPaused(sender)
     /\ downpayment < total
     /\ CanTransfer(balances, sender, downpayment, sender, Bank)
     /\ balances' = Moved(balances, downpayment, sender, Bank)
     /\ purchaseOrders' = MapSet(purchaseOrders, nextPurchaseOrderId,
          NewPurchaseOrder(sender, total, downpayment, seller))
     /\ activePurchaseOrders' =
          [activePurchaseOrders EXCEPT ![sender] = nextPurchaseOrderId]
     /\ nextPurchaseOrderId' = nextPurchaseOrderId + 1
     /\ UNCHANGED <<poFinancing, payments, nextFinancingId, nextPaymentId,
                    contractPaused, terms, blockHeight, trackRecords>>

Financed_CanCancel(po, sender) ==
  NotPaused(sender) /\ sender \in {po.borrower, ContractOwner}
CanCancel(po, sender) ==
  /\ ~po.hasActiveFinancing
  /\ NotPaused(sender)
  /\ sender \in {po.borrower, ContractOwner}

(* Nothing here asks whether the order was canceled before: the refund     *)
(* comes from the pool, and the entry removed is the borrower's current    *)
(* one, whichever order that is.                                           *)
CancelPurchaseOrder(sender, id) ==
  LET po == purchaseOrders[id]
  IN /\ CanCancel(po, sender)
     /\ CanTransfer(balances, Bank, po.downpayment, Bank, po.borrower)
     /\ balances' = Moved(balances, po.downpayment, Bank, po.borrower)
     /\ activePurchaseOrders' = WithoutActive(po.borrower)
     /\ purchaseOrders' =
          MapSet(purchaseOrders, id, [po EXCEPT !.isCanceled = TRUE])
     /\ UNCHANGED <<poFinancing, payments, nextPurchaseOrderId,
                    nextFinancingId, nextPaymentId, contractPaused, terms,
                    blockHeight, trackRecords>>

-----------------------------------------------------------------------------
(* Financing offers *)

NewFinancing(id, amount, lender) ==
  [purchaseOrder |-> id, amount |-> amount, lender |-> lender,
   isAccepted |-> FALSE, refunded |-> FALSE, isRejected |-> FALSE,
   acceptedAt |-> 0]

Twice_CanFinance(po, sender) ==
  /\ NotPaused(sender)
  /\ sender \notin {po.borrower, po.seller}
  /\ ~po.isCanceled
CanFinance(po, sender) ==
  /\ NotPaused(sender)
  /\ sender \notin {po.borrower, po.seller}
  /\ ~po.isCanceled
  /\ ~po.hasActiveFinancing

Finance(sender, id) ==
  LET po == purchaseOrders[id]
      amount == AmountToFinance(po.totalAmount, po.downpayment)
  IN /\ CanFinance(po, sender)
     /\ CanTransfer(balances, sender, amount, sender, Bank)
     /\ balances' = Moved(balances, amount, sender, Bank)
     /\ poFinancing' =
          MapSet(poFinancing, nextFinancingId, NewFinancing(id, amount, sender))
     /\ purchaseOrders' = MapSet(purchaseOrders, id,
          [po EXCEPT !.hasActiveFinancing = TRUE,
                     !.proposedFinancing = nextFinancingId])
     /\ nextFinancingId' = nextFinancingId + 1
     /\ UNCHANGED <<activePurchaseOrders, payments, nextPurchaseOrderId,
                    nextPaymentId, contractPaused, terms, blockHeight,
                    trackRecords>>

(* The transfer back to the lender is made outside as-contract: the token  *)
(* sees the borrower as the caller and the bank as the sender.             *)
RejectFinancing(sender) ==
  LET id == activePurchaseOrders[sender]
      po == purchaseOrders[id]
      fid == po.proposedFinancing
      offer == poFinancing[fid]
  IN /\ id # 0
     /\ fid # 0
     /\ NotPaused(sender)
     /\ ~offer.isAccepted
     /\ sender = po.borrower
     /\ IF CanTransfer(balances, sender, offer.amount, Bank, offer.lender)
        THEN /\ balances' = Moved(balances, offer.amount, Bank, offer.lender)
             /\ poFinancing' =
                  MapSet(poFinancing, fid, [offer EXCEPT !.isRejected = TRUE])
             /\ purchaseOrders' = MapSet(purchaseOrders, id,
                  [po EXCEPT !.hasActiveFinancing = FALSE,
                             !.proposedFinancing = 0])
             /\ UNCHANGED <<activePurchaseOrders, payments,
                            nextPurchaseOrderId, nextFinancingId,
                            nextPaymentId, contractPaused, terms, blockHeight,
                            trackRecords>>
        ELSE UNCHANGED vars   \* ERR_NOT_ENOUGH_FUNDS: rolled back

Accepted_CanRefund(offer) == ~offer.refunded
Refunded_CanRefund(offer) == ~offer.isAccepted
CanRefund(offer) == ~offer.isAccepted /\ ~offer.refunded

(* cancel-financing with refund-financing: the order keeps pointing to the *)
(* offer.                                                                  *)
CancelFinancing(sender, fid) ==
  LET offer == poFinancing[fid]
  IN /\ NotPaused(sender)
     /\ CanRefund(offer)
     /\ sender \in {offer.lender, ContractOwner}
     /\ CanTransfer(balances, Bank, offer.amount, Bank, offer.lender)
     /\ balances' = Moved(balances, offer.amount, Bank, offer.lender)
     /\ poFinancing' =
          MapSet(poFinancing, fid, [offer EXCEPT !.refunded = TRUE])
     /\ UNCHANGED <<purchaseOrders, activePurchaseOrders, payments,
                    nextPurchaseOrderId, nextFinancingId, nextPaymentId,
                    contractPaused, terms, blockHeight, trackRecords>>

NoLender_AcceptedOrder(po, fid, offer) ==
  [po EXCEPT !.acceptedFinancing = fid]
AcceptedOrder(po, fid, offer) ==
  [po EXCEPT !.outstanding = AmountToFinance(po.totalAmount, po.downpayment),
             !.acceptedFinancing = fid,
             !.hasActiveFinancing = TRUE,
             !.lender = offer.lender]

Again_CanAccept(po, offer) == ~po.isCanceled
CanAccept(po, offer) ==
  /\ ~offer.isAccepted
  /\ ~po.isCanceled
  /\ po.acceptedFinancing = 0

AcceptFinancing(sender) ==
  LET id == activePurchaseOrders[sender]
      po == purchaseOrders[id]
      fid == po.proposedFinancing
      offer == poFinancing[fid]
      paidOffer == Moved(balances, offer.amount, Bank, po.seller)
  IN /\ id # 0
     /\ fid # 0
     /\ sender = po.borrower
     /\ CanAccept(po, offer)
     /\ NotPaused(sender)
     /\ CanTransfer(balances, Bank, offer.amount, Bank, po.seller)
     /\ CanTransfer(paidOffer, Bank, po.downpayment, Bank, po.seller)
     /\ balances' = Moved(paidOffer, po.downpayment, Bank, po.seller)
     /\ purchaseOrders' = MapSet(purchaseOrders, offer.purchaseOrder,
                                 AcceptedOrder(po, fid, offer))
     /\ poFinancing' = MapSet(poFinancing, fid,
          [offer EXCEPT !.isAccepted = TRUE, !.acceptedAt = blockHeight])
     /\ UNCHANGED <<activePurchaseOrders, payments, nextPurchaseOrderId,
                    nextFinancingId, nextPaymentId, contractPaused, terms,
                    blockHeight, trackRecords>>

-----------------------------------------------------------------------------
(* Repayment and default *)

Open_RepaidOrder(po) ==
  [po EXCEPT !.outstanding = 0, !.completedSuccessfully = TRUE]
RepaidOrder(po) ==
  [po EXCEPT !.outstanding = 0, !.completedSuccessfully = TRUE,
             !.isCompleted = TRUE]

(* The interest goes to the owner at the rate of the day, the principal to *)
(* the lender; either transfer failing undoes both.                        *)
CanMakePayment(sender) ==
  LET id == activePurchaseOrders[sender]
      po == purchaseOrders[id]
      interest == InterestFor(po.outstanding, interestRatePerAnnum \div 4)
      paidInterest == Moved(balances, interest, po.borrower, ContractOwner)
  IN /\ id # 0
     /\ po.acceptedFinancing # 0
     /\ po.lender # None
     /\ NotPaused(sender)
     /\ ~po.isCompleted
     /\ CanTransfer(balances, sender, interest, po.borrower, ContractOwner)
     /\ CanTransfer(paidInterest, sender, po.outstanding, po.borrower, po.lender)
     /\ CanEndPurchaseOrder(po)

MakePayment(sender) ==
  LET id == activePurchaseOrders[sender]
      po == purchaseOrders[id]
      interest == InterestFor(po.outstanding, interestRatePerAnnum \div 4)
      paidInterest == Moved(balances, interest, po.borrower, ContractOwner)
  IN /\ CanMakePayment(sender)
     /\ balances' = Moved(paidInterest, po.outstanding, po.borrower, po.lender)
     /\ trackRecords' = EndedPurchaseOrder(po, TRUE)
     /\ payments' = MapSet(payments, nextPaymentId,
          [purchaseOrder |-> id, borrower |-> po.borrower,
           amount |-> po.outstanding])
     /\ nextPaymentId' = nextPaymentId + 1
     /\ activePurchaseOrders' = WithoutActive(po.borrower)
     /\ purchaseOrders' = MapSet(purchaseOrders, id, RepaidOrder(po))
     /\ UNCHANGED <<poFinancing, nextPurchaseOrderId, nextFinancingId,
                    contractPaused, terms, blockHeight>>

(* is-po-defaulted answers (ok false) or (ok true) and the code only asks  *)
(* whether it answered ok: it does unless the block time is zero (division *)
(* by zero).  Of a completed order the call reports and changes nothing.   *)
CheckPurchaseOrderHealth(sender, id) ==
  LET po == purchaseOrders[id]
  IN /\ NotPaused(sender)
     /\ ~po.isCompleted
     /\ po.acceptedFinancing # 0 => blocksTimeInSeconds # 0
     /\ CanEndPurchaseOrder(po)
     /\ trackRecords' = EndedPurchaseOrder(po, FALSE)
     /\ purchaseOrders' = MapSet(purchaseOrders, id,
          [po EXCEPT !.completedSuccessfully = FALSE, !.isCompleted = TRUE])
     /\ UNCHANGED <<activePurchaseOrders, poFinancing, payments,
                    nextPurchaseOrderId, nextFinancingId, nextPaymentId,
                    contractPaused, terms, blockHeight, balances>>

-----------------------------------------------------------------------------
(* The owner's settings, and the passing of blocks *)

UpdateInterestRate(rate) ==
  /\ interestRatePerAnnum' = rate
  /\ UNCHANGED <<storage, contractPaused, poDueDate, gracePeriodInDays,
                 blocksTimeInSeconds, blockHeight, balances, trackRecords>>

UpdateDueDate(days) ==
  /\ poDueDate' = days
  /\ UNCHANGED <<storage, contractPaused, interestRatePerAnnum,
                 gracePeriodInDays, blocksTimeInSeconds, blockHeight,
                 balances, trackRecords>>

UpdateGracePeriod(days) ==
  /\ gracePeriodInDays' = days
  /\ UNCHANGED <<storage, contractPaused, interestRatePerAnnum, poDueDate,
                 blocksTimeInSeconds, blockHeight, balances, trackRecords>>

SetBlocksTime(seconds) ==
  /\ blocksTimeInSeconds' = seconds
  /\ UNCHANGED <<storage, contractPaused, interestRatePerAnnum, poDueDate,
                 gracePeriodInDays, blockHeight, balances, trackRecords>>

PauseContract ==
  /\ contractPaused' = TRUE
  /\ UNCHANGED <<storage, terms, blockHeight, balances, trackRecords>>

ResumeContract ==
  /\ contractPaused' = FALSE
  /\ UNCHANGED <<storage, terms, blockHeight, balances, trackRecords>>

(* Blocks are mined; the heights in between make no difference. *)
MineBlocks ==
  /\ \E h \in Heights : h > blockHeight /\ blockHeight' = h
  /\ UNCHANGED <<storage, contractPaused, terms, balances, trackRecords>>

-----------------------------------------------------------------------------
PurchaseOrderIds == 1..(nextPurchaseOrderId - 1)
FinancingIds == 1..(nextFinancingId - 1)

OrderNext ==
  \/ \E w \in Importers, q \in Quotes, seller \in Exporters :
       CreatePurchaseOrder(w, q[1], q[2], seller)
  \/ \E w \in Wallets, id \in PurchaseOrderIds : CancelPurchaseOrder(w, id)
  \/ \E w \in Lenders, id \in PurchaseOrderIds : Finance(w, id)
  \/ \E w \in Wallets : RejectFinancing(w)
  \/ \E w \in Wallets, fid \in FinancingIds : CancelFinancing(w, fid)
  \/ \E w \in Wallets : AcceptFinancing(w)
  \/ \E w \in Wallets : MakePayment(w)
  \/ \E w \in Wallets, id \in PurchaseOrderIds : CheckPurchaseOrderHealth(w, id)

OwnerNext ==
  \/ \E rate \in Rates : UpdateInterestRate(rate)
  \/ \E days \in DueDates : UpdateDueDate(days)
  \/ \E days \in GracePeriods : UpdateGracePeriod(days)
  \/ \E seconds \in BlockTimes : SetBlocksTime(seconds)
  \/ PauseContract
  \/ ResumeContract

(* The other contracts and the chain move without the bank. *)
EnvironmentNext ==
  \/ MineBlocks
  \/ /\ TrackRecordsNext
     /\ UNCHANGED <<storage, contractPaused, terms, blockHeight, balances>>
  \/ /\ \E w \in Wallets, amount \in WalletTransfers, to \in Accounts :
          WalletTransfer(w, amount, to)
     /\ UNCHANGED <<storage, contractPaused, terms, blockHeight, trackRecords>>

Next == OrderNext \/ OwnerNext \/ EnvironmentNext

Spec == Init /\ [][Next]_vars
=============================================================================
