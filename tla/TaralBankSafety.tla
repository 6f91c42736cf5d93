--------------------------- MODULE TaralBankSafety ---------------------------
(***************************************************************************)
(* What TaralBank is checked for: how the maps of taral-bank-storage agree *)
(* with each other, with the pool of tokens the bank holds and with the    *)
(* traders' track records, and the lifecycle it implements.                *)
(***************************************************************************)
EXTENDS TaralBank, FiniteSets, Functions

-----------------------------------------------------------------------------
(* Records that refer to each other *)

(* An offer belongs to one order, which points back to it: finance refuses *)
(* an order that has an offer, and nothing ever takes the offer away from  *)
(* the order (cancel-financing leaves it, reject-financing never gets past *)
(* its transfer), so that an order sees one offer in its life.             *)
OffersAndOrdersAgree ==
  \A fid \in FinancingIds :
    LET offer == poFinancing[fid]
        po == purchaseOrders[offer.purchaseOrder]
    IN /\ offer.purchaseOrder \in PurchaseOrderIds
       /\ po.proposedFinancing = fid
       /\ po.hasActiveFinancing
       /\ offer.amount = po.totalAmount - po.downpayment
       /\ offer.lender \notin {po.borrower, po.seller}

(* accept-financing writes the same loan on both sides: the order names    *)
(* the accepted offer and its lender, and only an accepted offer is named. *)
AcceptedOfferIsTheLoan ==
  /\ \A id \in PurchaseOrderIds :
       LET po == purchaseOrders[id]
       IN IF po.acceptedFinancing = 0
          THEN po.lender = None /\ ~po.isCompleted
          ELSE /\ po.acceptedFinancing \in FinancingIds
               /\ poFinancing[po.acceptedFinancing].isAccepted
               /\ poFinancing[po.acceptedFinancing].purchaseOrder = id
               /\ poFinancing[po.acceptedFinancing].lender = po.lender
               /\ ~po.isCanceled
  /\ \A fid \in FinancingIds :
       poFinancing[fid].isAccepted =>
         purchaseOrders[poFinancing[fid].purchaseOrder].acceptedFinancing = fid

(* make-payment, accept-financing and reject-financing trust the active    *)
(* order of the caller: it is the caller's own, and it was neither         *)
(* canceled nor repaid.                                                    *)
ActiveOrderIsOpen ==
  \A w \in Wallets :
    LET id == activePurchaseOrders[w]
    IN id # 0 =>
         /\ id \in PurchaseOrderIds
         /\ purchaseOrders[id].borrower = w
         /\ ~purchaseOrders[id].isCanceled
         /\ ~purchaseOrders[id].completedSuccessfully

(* An order counts as repaid exactly when one payment of its whole loan    *)
(* was recorded for it (make-payment); until then the whole loan is owed,  *)
(* also by an order that was closed as failed.                             *)
RepaidExactlyOnce ==
  \A id \in PurchaseOrderIds :
    LET po == purchaseOrders[id]
        its == {k \in DOMAIN payments : payments[k].purchaseOrder = id}
    IN IF po.completedSuccessfully
       THEN /\ po.isCompleted
            /\ po.outstanding = 0
            /\ \E k \in its : /\ its = {k}
                              /\ payments[k].borrower = po.borrower
                              /\ payments[k].amount =
                                   po.totalAmount - po.downpayment
       ELSE its = {} /\ po.outstanding = po.totalAmount - po.downpayment

(* What the four invariants above rest on, with TypeOK: identifiers an     *)
(* order or a payment holds are in use, an order's offer names that order, *)
(* and a downpayment leaves something to finance.                          *)
ReferencesResolve ==
  /\ \A id \in PurchaseOrderIds :
       /\ purchaseOrders[id].downpayment < purchaseOrders[id].totalAmount
       /\ purchaseOrders[id].proposedFinancing # 0 =>
            /\ purchaseOrders[id].proposedFinancing \in FinancingIds
            /\ poFinancing[purchaseOrders[id].proposedFinancing].purchaseOrder
                 = id
  /\ \A k \in DOMAIN payments : payments[k].purchaseOrder \in PurchaseOrderIds

(* The invariant every transaction preserves, of which the others are parts *)
BankInv ==
  /\ TypeOK
  /\ ReferencesResolve
  /\ OffersAndOrdersAgree
  /\ AcceptedOfferIsTheLoan
  /\ ActiveOrderIsOpen
  /\ RepaidExactlyOnce

-----------------------------------------------------------------------------
(* The life of an order *)

(* The first flag that is set decides: a running order keeps the flag of   *)
(* its offer, a repaid or failed one its accepted offer.                   *)
RecordStage(po) ==
  IF po.isCanceled THEN "canceled"
  ELSE IF po.completedSuccessfully THEN "repaid"
  ELSE IF po.isCompleted THEN "failed"
  ELSE IF po.acceptedFinancing # 0 THEN "running"
  ELSE IF po.hasActiveFinancing THEN "offered"
  ELSE "open"

StageOf(id) ==
  IF id \in DOMAIN purchaseOrders THEN RecordStage(purchaseOrders[id])
  ELSE "none"

LoanOf(id) ==
  IF StageOf(id) \in {"running", "repaid", "failed"}
  THEN [lender |-> purchaseOrders[id].lender,
        amount |-> poFinancing[purchaseOrders[id].acceptedFinancing].amount]
  ELSE None

LoanAmounts == {(q[1] - q[2]) * MicroMultiplier : q \in Quotes}

Lifecycle ==
  INSTANCE PurchaseOrderLifecycle WITH
    Orders <- 1..MaxPurchaseOrders,
    Financiers <- Wallets,
    Amounts <- LoanAmounts,
    NoLoan <- None,
    stage <- [id \in 1..MaxPurchaseOrders |-> StageOf(id)],
    loan <- [id \in 1..MaxPurchaseOrders |-> LoanOf(id)]

(* The flags and references the storage keeps for an order (eight fields,  *)
(* written by six functions) amount to the lifecycle: no step takes an     *)
(* order back, skips a stage, or changes a running loan.                   *)
ImplementsLifecycle == Lifecycle!LifecycleSpec

OrdersKept ==
  \A id \in PurchaseOrderIds :
    purchaseOrders[id].isCanceled \/ purchaseOrders[id].isCompleted
      => purchaseOrders'[id] = purchaseOrders[id]

OffersKept ==
  \A fid \in FinancingIds :
    poFinancing[fid].isAccepted => poFinancing'[fid] = poFinancing[fid]

(* Once an order is canceled or completed, and once an offer is accepted,  *)
(* the record is final: no later call of any function rewrites it.         *)
FinalRecordsStay == [][OrdersKept /\ OffersKept]_vars

-----------------------------------------------------------------------------
(* The pool: one token balance holds every downpayment and every offer *)

AwaitsLoan(po) == ~po.isCanceled /\ po.acceptedFinancing = 0

IsLive(offer) == ~offer.isAccepted /\ ~offer.refunded /\ ~offer.isRejected

(* What the records say the bank holds for others. *)
DownpaymentsHeld(orders) ==
  SumFunctionOnSet([id \in DOMAIN orders |-> orders[id].downpayment],
                   {id \in DOMAIN orders : AwaitsLoan(orders[id])})

OffersHeld(offers) ==
  SumFunctionOnSet([fid \in DOMAIN offers |-> offers[fid].amount],
                   {fid \in DOMAIN offers : IsLive(offers[fid])})

Escrowed == DownpaymentsHeld(purchaseOrders) + OffersHeld(poFinancing)

(* The only calls that pay out of the pool what the records do not set     *)
(* aside for them: canceling an order that was canceled before, and        *)
(* accepting an offer the lender has taken back.                           *)
CancelsAgain ==
  \E w \in Wallets, id \in PurchaseOrderIds :
    purchaseOrders[id].isCanceled /\ CancelPurchaseOrder(w, id)

AcceptsRetracted ==
  \E w \in Wallets :
    /\ activePurchaseOrders[w] # 0
    /\ LET fid == purchaseOrders[activePurchaseOrders[w]].proposedFinancing
       IN fid # 0 /\ poFinancing[fid].refunded
    /\ AcceptFinancing(w)

(* Whatever the interleaving of orders, offers, refunds and payments, a    *)
(* transaction never takes the pool below what the records set aside, the  *)
(* two calls above excepted: refund-financing, cancel-purchase-order and   *)
(* accept-financing each release what was put in, once.                    *)
PoolCoversRecords ==
  [][ balances'[Bank] - Escrowed' < balances[Bank] - Escrowed
        => CancelsAgain \/ AcceptsRetracted ]_vars

-----------------------------------------------------------------------------
(* Repayment *)

(* The caller's active loan runs, and the caller holds it with its interest. *)
IsSolvent(w) ==
  LET id == activePurchaseOrders[w]
      po == purchaseOrders[id]
      interest == InterestFor(po.outstanding, interestRatePerAnnum \div 4)
  IN /\ id # 0
     /\ StageOf(id) = "running"
     /\ ~contractPaused
     /\ CanEndPurchaseOrder(po)
     /\ w # ContractOwner
     /\ interest > 0
     /\ balances[w] >= po.outstanding + interest

(* A borrower whose active loan runs, and who holds the loan and its       *)
(* interest, can end it: make-payment's two transfers and three registry   *)
(* updates ask for nothing more than an unpaused bank, registered parties, *)
(* an interest that is not rounded to zero, and a borrower that is not the *)
(* owner the interest goes to.                                             *)
SolventBorrowerCanRepay ==
  \A w \in Wallets : IsSolvent(w) => ENABLED MakePayment(w)

(* As long as the owner leaves the terms alone, an order in default stays  *)
(* in default until it is repaid: the height its loan was accepted at is   *)
(* never written again (is-po-defaulted).                                  *)
DefaultLasts ==
  [][ blocksTimeInSeconds # 0 /\ terms' = terms =>
        \A id \in PurchaseOrderIds :
          IsDefaulted(purchaseOrders[id]) =>
            \/ IsDefaulted(purchaseOrders[id])'
            \/ purchaseOrders'[id].completedSuccessfully ]_vars

-----------------------------------------------------------------------------
(* Track records *)

Count(records, role, w, success) ==
  IF success THEN records[role][w].successful ELSE records[role][w].failed

CountedOnceMore(role, w, success) ==
  Count(trackRecords', role, w, success)
    = Count(trackRecords, role, w, success) + 1

CompletionCounted(id) ==
  purchaseOrders'[id].isCompleted # purchaseOrders[id].isCompleted =>
    LET po == purchaseOrders'[id]
        good == po.completedSuccessfully
    IN /\ po.isCompleted
       /\ CountedOnceMore("importer", po.borrower, good)
       /\ CountedOnceMore("exporter", po.seller, good)
       /\ CountedOnceMore("lender", po.lender, good)

(* Completing an order and counting it in the three registries is one      *)
(* transaction (end-purchase-order-successfully, -unsuccessfully): each    *)
(* party's count of that outcome goes up by one, in the call that sets     *)
(* is-completed, and no order is completed without it.                     *)
CompletionIsCounted ==
  [][\A id \in PurchaseOrderIds : CompletionCounted(id)]_vars

(* An importer's and an exporter's track record never shows fewer          *)
(* successes or failures than the orders they took part in ended with.     *)
(* (A lender's may: register-lender starts it again from zero.)            *)
TrackRecordsCoverOrders ==
  \A w \in Wallets, good \in BOOLEAN :
    LET Ended(po) == po.isCompleted /\ po.completedSuccessfully = good
    IN /\ Cardinality({id \in PurchaseOrderIds :
             Ended(purchaseOrders[id]) /\ purchaseOrders[id].borrower = w})
            <= Count(trackRecords, "importer", w, good)
       /\ Cardinality({id \in PurchaseOrderIds :
             Ended(purchaseOrders[id]) /\ purchaseOrders[id].seller = w})
            <= Count(trackRecords, "exporter", w, good)

-----------------------------------------------------------------------------
(* What comments and tests of the repository say of the bank, and it does  *)
(* not do                                                                  *)

(* taral-bank.clar's check-purchase-order-health: "else, check if it's     *)
(* defaulted": only an order past its due date and grace period is closed  *)
(* as failed.                                                              *)
FailsOnlyDefaulted ==
  [][ \A id \in PurchaseOrderIds :
        purchaseOrders'[id].isCompleted # purchaseOrders[id].isCompleted
          /\ ~purchaseOrders'[id].completedSuccessfully
        => IsDefaulted(purchaseOrders[id]) ]_vars

(* "Should not be able to create a purchase order if another one is        *)
(* active" (taral-bank.bullet.test.ts): a borrower has at most one order   *)
(* that is neither canceled nor completed.                                 *)
OneOpenOrderPerBorrower ==
  \A i, j \in PurchaseOrderIds :
    /\ purchaseOrders[i].borrower = purchaseOrders[j].borrower
    /\ StageOf(i) \in {"open", "offered", "running"}
    /\ StageOf(j) \in {"open", "offered", "running"}
    => i = j

(* "Retract or update a financing offer" (cancel-financing of              *)
(* taral-bank.clar): an offer the lender has retracted, and been refunded, *)
(* is no longer there to be accepted.                                      *)
RetractedIsNotAccepted ==
  \A fid \in FinancingIds :
    ~(poFinancing[fid].refunded /\ poFinancing[fid].isAccepted)
=============================================================================
