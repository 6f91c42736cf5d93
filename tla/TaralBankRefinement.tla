-------------------------- MODULE TaralBankRefinement --------------------------
(***************************************************************************)
(* Theorems about the steps of TaralBank, on top of BankInv: the storage   *)
(* implements the lifecycle of an order, a default lasts, and the track    *)
(* records cover the orders that ended.                                    *)
(***************************************************************************)
EXTENDS TaralBankProofs, FiniteSetTheorems

-----------------------------------------------------------------------------
(* What the lifecycle needs beyond BankInv: the identifiers stay within    *)
(* the bound of the model, and an order keeps the sums it was quoted.      *)
OrdersAreQuoted ==
  /\ nextPurchaseOrderId \in 1..(MaxPurchaseOrders + 1)
  /\ \A id \in PurchaseOrderIds :
       \E q \in Quotes :
         /\ purchaseOrders[id].totalAmount = q[1] * MicroMultiplier
         /\ purchaseOrders[id].downpayment = q[2] * MicroMultiplier

RefinementInv == BankInv /\ OrdersAreQuoted

LifecycleStep == [Lifecycle!LifecycleNext]_(Lifecycle!lifecycle)

LEMMA StageOfRecord ==
  ASSUME TypeOK, NEW id \in PurchaseOrderIds
  PROVE  StageOf(id) = RecordStage(purchaseOrders[id])
BY DEF TypeOK, PurchaseOrderIds, StageOf, RecordStage

LEMMA StageOfNone ==
  ASSUME TypeOK, NEW id, id \notin PurchaseOrderIds
  PROVE  StageOf(id) = "none" /\ LoanOf(id) = None
BY DEF TypeOK, PurchaseOrderIds, StageOf, LoanOf

(* An order whose record and whose loan's amount stay is where it was. *)
LEMMA SameRecord ==
  ASSUME BankInv, BankInv', NEW id,
         id \in PurchaseOrderIds <=> id \in PurchaseOrderIds',
         id \in PurchaseOrderIds => purchaseOrders'[id] = purchaseOrders[id],
         \A g \in FinancingIds : poFinancing'[g].amount = poFinancing[g].amount
  PROVE  StageOf(id)' = StageOf(id) /\ LoanOf(id)' = LoanOf(id)
<1>1. TypeOK /\ TypeOK'
  BY DEF BankInv
<1>2. CASE id \notin PurchaseOrderIds
  BY <1>1, <1>2, StageOfNone DEF StageOf, LoanOf, TypeOK, PurchaseOrderIds
<1>3. CASE id \in PurchaseOrderIds
  <2>1. id \in DOMAIN purchaseOrders /\ id \in DOMAIN purchaseOrders'
    BY <1>1, <1>3 DEF TypeOK, PurchaseOrderIds
  <2>2. StageOf(id)' = StageOf(id)
    BY <1>3, <2>1 DEF StageOf
  <2>3. StageOf(id) \in {"running", "repaid", "failed"} =>
          purchaseOrders[id].acceptedFinancing \in FinancingIds
    BY <1>3, <2>1 DEF StageOf, RecordStage, BankInv, AcceptedOfferIsTheLoan,
       RepaidExactlyOnce
  <2> QED
    BY <1>3, <2>2, <2>3 DEF LoanOf
<1> QED
  BY <1>2, <1>3

(* A step after which every order is where it was is a stutter of the      *)
(* lifecycle.                                                              *)
LEMMA NobodyMoves ==
  ASSUME \A j \in 1..MaxPurchaseOrders :
           StageOf(j)' = StageOf(j) /\ LoanOf(j)' = LoanOf(j)
  PROVE  LifecycleStep
BY DEF LifecycleStep, Lifecycle!lifecycle

(* A step after which one order has moved as the lifecycle allows, and     *)
(* every other is where it was, is a step of the lifecycle.                *)
LEMMA OneMoves ==
  ASSUME NEW o \in 1..MaxPurchaseOrders,
         \A j \in 1..MaxPurchaseOrders : j # o =>
           StageOf(j)' = StageOf(j) /\ LoanOf(j)' = LoanOf(j),
         \/ /\ LoanOf(o)' = LoanOf(o)
            /\ <<StageOf(o), StageOf(o)'>> \in
                 {<<"none", "open">>, <<"open", "canceled">>,
                  <<"open", "offered">>, <<"running", "repaid">>,
                  <<"running", "failed">>}
         \/ /\ StageOf(o) = "offered" /\ StageOf(o)' = "running"
            /\ \E lender \in Wallets, amount \in LoanAmounts :
                 LoanOf(o)' = [lender |-> lender, amount |-> amount]
  PROVE  LifecycleStep
<1> DEFINE Orders == 1..MaxPurchaseOrders
           stages == [id \in Orders |-> StageOf(id)]
           loans == [id \in Orders |-> LoanOf(id)]
<1>1. stages' = [stages EXCEPT ![o] = StageOf(o)']
  OBVIOUS
<1>2. loans' = [loans EXCEPT ![o] = LoanOf(o)']
  OBVIOUS
<1>3. stages[o] = StageOf(o) /\ loans[o] = LoanOf(o)
  OBVIOUS
<1>4. CASE LoanOf(o)' = LoanOf(o)
           /\ <<StageOf(o), StageOf(o)'>> \in
                {<<"none", "open">>, <<"open", "canceled">>,
                 <<"open", "offered">>, <<"running", "repaid">>,
                 <<"running", "failed">>}
  <2>1. loans' = loans
    BY <1>2, <1>3, <1>4
  <2>2. \/ Lifecycle!Open(o) \/ Lifecycle!Cancel(o) \/ Lifecycle!Offer(o)
        \/ Lifecycle!Repay(o) \/ Lifecycle!Fail(o)
    BY <1>1, <1>3, <1>4, <2>1 DEF Lifecycle!Open, Lifecycle!Cancel,
       Lifecycle!Offer, Lifecycle!Repay, Lifecycle!Fail, Lifecycle!Advance
  <2> QED
    BY <2>2 DEF LifecycleStep, Lifecycle!LifecycleNext
<1>5. CASE /\ StageOf(o) = "offered" /\ StageOf(o)' = "running"
           /\ \E lender \in Wallets, amount \in LoanAmounts :
                LoanOf(o)' = [lender |-> lender, amount |-> amount]
  <2>1. PICK lender \in Wallets, amount \in LoanAmounts :
          LoanOf(o)' = [lender |-> lender, amount |-> amount]
    BY <1>5
  <2>2. Lifecycle!Accept(o, lender, amount)
    BY <1>1, <1>2, <1>3, <1>5, <2>1 DEF Lifecycle!Accept, Lifecycle!Advance
  <2> QED
    BY <2>2 DEF LifecycleStep, Lifecycle!LifecycleNext
<1> QED
  BY <1>4, <1>5
-----------------------------------------------------------------------------
(* The shapes a call's effect on the storage takes *)

AmountsKept ==
  \A g \in FinancingIds : poFinancing'[g].amount = poFinancing[g].amount

(* What a call does to the order it rewrites: it keeps the parties and the *)
(* sums, takes the stage one step on, or leaves it, and names a lender     *)
(* only by accepting that lender's offer.                                  *)
MovesOn(po, new) ==
  /\ new.borrower = po.borrower /\ new.seller = po.seller
  /\ new.totalAmount = po.totalAmount /\ new.downpayment = po.downpayment
  /\ \/ /\ new.lender = po.lender
        /\ new.acceptedFinancing = po.acceptedFinancing
        /\ \/ RecordStage(new) = RecordStage(po)
           \/ <<RecordStage(po), RecordStage(new)>> \in
                {<<"open", "canceled">>, <<"open", "offered">>,
                 <<"running", "repaid">>, <<"running", "failed">>}
     \/ /\ RecordStage(po) = "offered" /\ RecordStage(new) = "running"
        /\ new.lender \in Wallets
        /\ new.acceptedFinancing \in FinancingIds
        /\ poFinancing[new.acceptedFinancing].amount
             = po.totalAmount - po.downpayment

Rewrites(id, new) ==
  /\ purchaseOrders' = MapSet(purchaseOrders, id, new)
  /\ nextPurchaseOrderId' = nextPurchaseOrderId
  /\ AmountsKept
  /\ MovesOn(purchaseOrders[id], new)

LeavesOrders ==
  /\ UNCHANGED <<purchaseOrders, nextPurchaseOrderId>>
  /\ AmountsKept

LEMMA LeavingRefines ==
  ASSUME RefinementInv, BankInv', LeavesOrders
  PROVE  OrdersAreQuoted' /\ LifecycleStep
<1>1. PurchaseOrderIds' = PurchaseOrderIds
  BY DEF LeavesOrders, PurchaseOrderIds
<1>2. \A id : StageOf(id)' = StageOf(id) /\ LoanOf(id)' = LoanOf(id)
  BY <1>1, SameRecord DEF LeavesOrders, AmountsKept, RefinementInv
<1> QED
  BY <1>1, <1>2, NobodyMoves DEF RefinementInv, OrdersAreQuoted, LeavesOrders

(* The sums of an order are among those the lifecycle lends. *)
LEMMA QuotedAmounts ==
  ASSUME OrdersAreQuoted, NEW id \in PurchaseOrderIds
  PROVE  purchaseOrders[id].totalAmount - purchaseOrders[id].downpayment
           \in LoanAmounts
<1>1. PICK q \in Quotes :
        /\ purchaseOrders[id].totalAmount = q[1] * MicroMultiplier
        /\ purchaseOrders[id].downpayment = q[2] * MicroMultiplier
  BY DEF OrdersAreQuoted
<1>2. q[1] \in Nat /\ q[2] \in Nat
  BY BankAssumption
<1>3. q[1] * MicroMultiplier - q[2] * MicroMultiplier
        = (q[1] - q[2]) * MicroMultiplier
  BY <1>2 DEF MicroMultiplier
<1> QED
  BY <1>1, <1>3 DEF LoanAmounts

LEMMA RewritingRefines ==
  ASSUME RefinementInv, BankInv', NEW id \in PurchaseOrderIds, NEW new,
         Rewrites(id, new)
  PROVE  OrdersAreQuoted' /\ LifecycleStep
<1> DEFINE po == purchaseOrders[id]
<1>1. TypeOK /\ TypeOK' /\ PurchaseOrderIds' = PurchaseOrderIds
  BY DEF RefinementInv, BankInv, Rewrites, PurchaseOrderIds
<1>2. \A j \in PurchaseOrderIds :
        purchaseOrders'[j] = IF j = id THEN new ELSE purchaseOrders[j]
  BY <1>1 DEF Rewrites, TypeOK, PurchaseOrderIds, MapSet
<1>3. OrdersAreQuoted'
  BY <1>1, <1>2 DEF RefinementInv, OrdersAreQuoted, Rewrites, MovesOn
<1>4. \A j : j # id => StageOf(j)' = StageOf(j) /\ LoanOf(j)' = LoanOf(j)
  BY <1>1, <1>2, SameRecord DEF Rewrites, AmountsKept, RefinementInv
<1>5. StageOf(id) = RecordStage(po) /\ StageOf(id)' = RecordStage(new)
  <2>1. purchaseOrders'[id] = new /\ id \in DOMAIN purchaseOrders'
    BY <1>1, <1>2 DEF TypeOK, PurchaseOrderIds
  <2>2. StageOf(id)' = RecordStage(new)
    BY <2>1 DEF StageOf, RecordStage
  <2> QED
    BY <1>1, <2>2, StageOfRecord
<1>6. id \in 1..MaxPurchaseOrders
  BY BankAssumption DEF RefinementInv, OrdersAreQuoted, PurchaseOrderIds
<1>7. ASSUME new.lender = po.lender,
             new.acceptedFinancing = po.acceptedFinancing,
             \/ StageOf(id)' = StageOf(id)
             \/ StageOf(id) = "running" /\ StageOf(id)' \in {"repaid", "failed"}
      PROVE  LoanOf(id)' = LoanOf(id)
  <2>1. StageOf(id) \in {"running", "repaid", "failed"} =>
          poFinancing'[po.acceptedFinancing].amount
            = poFinancing[po.acceptedFinancing].amount
    <3>1. RecordStage(po) \in {"running", "repaid", "failed"} =>
            po.acceptedFinancing # 0
      BY DEF RecordStage, RefinementInv, BankInv, AcceptedOfferIsTheLoan,
         RepaidExactlyOnce
    <3> QED
      BY <1>5, <3>1 DEF RefinementInv, BankInv, AcceptedOfferIsTheLoan,
         Rewrites, AmountsKept
  <2>2. purchaseOrders'[id] = new
    BY <1>2
  <2> QED
    BY <1>7, <2>1, <2>2 DEF LoanOf
<1>8. LifecycleStep
  <2>1. CASE /\ new.lender = po.lender
             /\ new.acceptedFinancing = po.acceptedFinancing
             /\ RecordStage(new) = RecordStage(po)
    BY <1>4, <1>5, <1>7, <2>1, NobodyMoves
  <2>2. CASE /\ new.lender = po.lender
             /\ new.acceptedFinancing = po.acceptedFinancing
             /\ <<RecordStage(po), RecordStage(new)>> \in
                  {<<"open", "canceled">>, <<"open", "offered">>}
    <3>1. LoanOf(id)' = LoanOf(id)
      BY <1>5, <2>2 DEF LoanOf
    <3> QED
      BY <1>4, <1>5, <1>6, <2>2, <3>1, OneMoves
  <2>3. CASE /\ new.lender = po.lender
             /\ new.acceptedFinancing = po.acceptedFinancing
             /\ <<RecordStage(po), RecordStage(new)>> \in
                  {<<"running", "repaid">>, <<"running", "failed">>}
    BY <1>4, <1>5, <1>6, <1>7, <2>3, OneMoves
  <2>4. CASE /\ RecordStage(po) = "offered" /\ RecordStage(new) = "running"
             /\ new.lender \in Wallets
             /\ new.acceptedFinancing \in FinancingIds
             /\ poFinancing[new.acceptedFinancing].amount
                  = po.totalAmount - po.downpayment
    <3>1. LoanOf(id)' = [lender |-> new.lender,
                         amount |-> po.totalAmount - po.downpayment]
      BY <1>2, <1>5, <2>4 DEF LoanOf, Rewrites, AmountsKept
    <3>2. po.totalAmount - po.downpayment \in LoanAmounts
      BY QuotedAmounts DEF RefinementInv
    <3> QED
      BY <1>4, <1>5, <1>6, <2>4, <3>1, <3>2, OneMoves
  <2> QED
    BY <2>1, <2>2, <2>3, <2>4 DEF Rewrites, MovesOn
<1> QED
  BY <1>3, <1>8

-----------------------------------------------------------------------------
(* The calls *)

LEMMA CreateRefines ==
  ASSUME RefinementInv, BankInv', NEW w \in Importers, NEW q \in Quotes,
         NEW seller \in Exporters, CreatePurchaseOrder(w, q[1], q[2], seller)
  PROVE  OrdersAreQuoted' /\ LifecycleStep
<1> SUFFICES ASSUME NEW next, next = nextPurchaseOrderId
             PROVE  OrdersAreQuoted' /\ LifecycleStep
  OBVIOUS
<1> DEFINE total == q[1] * MicroMultiplier
           downpayment == q[2] * MicroMultiplier
           new == NewPurchaseOrder(w, total, downpayment, seller)
<1>1. TypeOK /\ TypeOK'
  BY DEF RefinementInv, BankInv
<1>2. /\ purchaseOrders' = MapSet(purchaseOrders, next, new)
      /\ nextPurchaseOrderId' = next + 1
      /\ next <= MaxPurchaseOrders
      /\ poFinancing' = poFinancing
  BY Zenon DEF CreatePurchaseOrder
<1>3. /\ new.totalAmount = total /\ new.downpayment = downpayment
      /\ RecordStage(new) = "open"
  BY DEF NewPurchaseOrder, RecordStage
<1> HIDE DEF new
<1>4. /\ PurchaseOrderIds' = PurchaseOrderIds \cup {next}
      /\ next \notin PurchaseOrderIds
      /\ \A j \in PurchaseOrderIds : purchaseOrders'[j] = purchaseOrders[j]
      /\ purchaseOrders'[next] = new
  <2>1. DOMAIN purchaseOrders = PurchaseOrderIds
    BY <1>1 DEF TypeOK, PurchaseOrderIds
  <2>2. next \notin PurchaseOrderIds
    BY <1>1 DEF TypeOK, PurchaseOrderIds
  <2>3. PurchaseOrderIds' = DOMAIN purchaseOrders'
    BY <1>1 DEF TypeOK, PurchaseOrderIds
  <2> QED
    BY <1>2, <2>1, <2>2, <2>3 DEF MapSet
<1>5. OrdersAreQuoted'
  <2>1. next \in 1..(MaxPurchaseOrders + 1) /\ MaxPurchaseOrders \in Nat
    BY BankAssumption DEF RefinementInv, OrdersAreQuoted
  <2>2. nextPurchaseOrderId' \in 1..(MaxPurchaseOrders + 1)
    BY <1>2, <2>1
  <2> QED
    BY <1>3, <1>4, <2>2 DEF RefinementInv, OrdersAreQuoted
<1>6. \A j : j # next => StageOf(j)' = StageOf(j) /\ LoanOf(j)' = LoanOf(j)
  BY <1>2, <1>4, SameRecord DEF RefinementInv
<1>7. StageOf(next) = "none" /\ LoanOf(next) = None
  BY <1>1, <1>4, StageOfNone
<1>8. StageOf(next)' = "open" /\ LoanOf(next)' = None
  <2>1. next \in DOMAIN purchaseOrders'
    BY <1>2 DEF MapSet
  <2> QED
    BY <1>3, <1>4, <2>1 DEF StageOf, LoanOf, RecordStage
<1>9. next \in 1..MaxPurchaseOrders
  BY <1>1, <1>2, BankAssumption DEF TypeOK
<1> QED
  BY <1>5, <1>6, <1>7, <1>8, <1>9, OneMoves

(* An order without an offer is open, or was canceled before.              *)
LEMMA CancelRewrites ==
  ASSUME BankInv, NEW w, NEW id \in PurchaseOrderIds, CancelPurchaseOrder(w, id)
  PROVE  \E new : Rewrites(id, new)
<1> DEFINE po == purchaseOrders[id]
           new == [po EXCEPT !.isCanceled = TRUE]
<1>1. po \in PurchaseOrder
  BY Typed DEF BankInv
<1>2. /\ purchaseOrders' = MapSet(purchaseOrders, id, new)
      /\ nextPurchaseOrderId' = nextPurchaseOrderId
      /\ poFinancing' = poFinancing
      /\ ~po.hasActiveFinancing
  BY Zenon DEF CancelPurchaseOrder, CanCancel
<1>3. po.acceptedFinancing = 0 /\ ~po.isCompleted /\ ~po.completedSuccessfully
  BY <1>2 DEF BankInv, OffersAndOrdersAgree, AcceptedOfferIsTheLoan,
     RepaidExactlyOnce
<1>4. MovesOn(po, new)
  BY <1>1, <1>2, <1>3 DEF MovesOn, RecordStage, PurchaseOrder
<1> HIDE DEF new
<1> QED
  BY <1>2, <1>4 DEF Rewrites, AmountsKept

LEMMA FinanceRewrites ==
  ASSUME BankInv, NEW w, NEW id \in PurchaseOrderIds, Finance(w, id)
  PROVE  \E new : Rewrites(id, new)
<1> DEFINE po == purchaseOrders[id]
           fid == nextFinancingId
           new == [po EXCEPT !.hasActiveFinancing = TRUE, !.proposedFinancing = fid]
           offer == NewFinancing(id, AmountToFinance(po.totalAmount, po.downpayment), w)
<1>1. po \in PurchaseOrder
  BY Typed DEF BankInv
<1>2. /\ purchaseOrders' = MapSet(purchaseOrders, id, new)
      /\ nextPurchaseOrderId' = nextPurchaseOrderId
      /\ poFinancing' = MapSet(poFinancing, fid, offer)
      /\ CanFinance(po, w)
  BY Zenon DEF Finance
<1>3. /\ po.acceptedFinancing = 0 /\ ~po.isCompleted
      /\ ~po.completedSuccessfully /\ ~po.isCanceled /\ ~po.hasActiveFinancing
  BY <1>2 DEF CanFinance, BankInv, OffersAndOrdersAgree,
     AcceptedOfferIsTheLoan, RepaidExactlyOnce
<1>4. MovesOn(po, new)
  BY <1>1, <1>3 DEF MovesOn, RecordStage, PurchaseOrder
<1> HIDE DEF new, offer
<1>5. AmountsKept
  <2>1. fid \notin FinancingIds /\ DOMAIN poFinancing = FinancingIds
    BY DEF BankInv, TypeOK, FinancingIds
  <2> QED
    BY <1>2, <2>1 DEF AmountsKept, MapSet
<1> QED
  BY <1>2, <1>4, <1>5 DEF Rewrites

LEMMA CancelFinancingLeaves ==
  ASSUME BankInv, NEW w, NEW fid \in FinancingIds, CancelFinancing(w, fid)
  PROVE  LeavesOrders
<1> DEFINE new == [poFinancing[fid] EXCEPT !.refunded = TRUE]
<1>1. /\ poFinancing' = MapSet(poFinancing, fid, new)
      /\ UNCHANGED <<purchaseOrders, nextPurchaseOrderId>>
  BY Zenon DEF CancelFinancing
<1>2. new.amount = poFinancing[fid].amount
  BY Typed DEF BankInv, Financing
<1> HIDE DEF new
<1>3. DOMAIN poFinancing = FinancingIds
  BY DEF BankInv, TypeOK, FinancingIds
<1> QED
  BY <1>1, <1>2, <1>3 DEF LeavesOrders, AmountsKept, MapSet

LEMMA AcceptRewrites ==
  ASSUME BankInv, NEW w \in Wallets, AcceptFinancing(w)
  PROVE  \E id \in PurchaseOrderIds : \E new : Rewrites(id, new)
<1> SUFFICES ASSUME NEW id, id = activePurchaseOrders[w],
                    NEW fid, fid = purchaseOrders[id].proposedFinancing
             PROVE  id \in PurchaseOrderIds /\ \E new : Rewrites(id, new)
  OBVIOUS
<1> DEFINE po == purchaseOrders[id]
           offer == poFinancing[fid]
           new == AcceptedOrder(po, fid, offer)
           taken == [offer EXCEPT !.isAccepted = TRUE, !.acceptedAt = blockHeight]
<1>1. /\ id \in PurchaseOrderIds /\ fid \in FinancingIds
      /\ offer.purchaseOrder = id
      /\ ~po.isCanceled /\ ~po.completedSuccessfully
      /\ po.downpayment < po.totalAmount
      /\ po.acceptedFinancing = 0 /\ ~po.isCompleted
  BY DEF AcceptFinancing, CanAccept, BankInv, ActiveOrderIsOpen,
     ReferencesResolve, AcceptedOfferIsTheLoan
<1>2. /\ po.hasActiveFinancing
      /\ offer.amount = po.totalAmount - po.downpayment
  BY <1>1 DEF BankInv, OffersAndOrdersAgree
<1>3. /\ po \in PurchaseOrder /\ offer \in Financing /\ fid \in Nat /\ fid # 0
      /\ DOMAIN poFinancing = FinancingIds
  BY <1>1, Typed DEF AcceptFinancing, PurchaseOrder, BankInv, TypeOK, FinancingIds
<1>4. /\ purchaseOrders' = MapSet(purchaseOrders, offer.purchaseOrder, new)
      /\ poFinancing' = MapSet(poFinancing, fid, taken)
      /\ nextPurchaseOrderId' = nextPurchaseOrderId
  BY Zenon DEF AcceptFinancing
<1>5. MovesOn(po, new)
  <2> HIDE DEF po, offer, new
  <2>1. new = AcceptedOrder(po, fid, offer)
    BY DEF new
  <2>2. /\ new \in PurchaseOrder
        /\ new.borrower = po.borrower /\ new.lender = offer.lender
        /\ new.seller = po.seller /\ new.totalAmount = po.totalAmount
        /\ new.downpayment = po.downpayment
        /\ new.isCompleted = po.isCompleted /\ new.isCanceled = po.isCanceled
        /\ new.completedSuccessfully = po.completedSuccessfully
        /\ new.acceptedFinancing = fid
    BY <1>1, <1>3, <2>1, AcceptedOrderIs
  <2>3. /\ ~new.isCompleted /\ ~new.isCanceled /\ ~new.completedSuccessfully
        /\ new.acceptedFinancing # 0
    BY <1>1, <1>3, <2>2 DEF po
  <2>4. RecordStage(po) = "offered" /\ RecordStage(new) = "running"
    <3>1. RecordStage(po) = "offered"
      BY <1>1, <1>2 DEF RecordStage, po
    <3>2. RecordStage(new) = "running"
      BY <2>2, <2>3 DEF RecordStage, PurchaseOrder
    <3> QED
      BY <3>1, <3>2
  <2>5. new.lender \in Wallets
    BY <1>3, <2>2 DEF Financing
  <2> QED
    BY <1>1, <1>2, <2>2, <2>4, <2>5 DEF MovesOn, offer
<1>6. taken.amount = offer.amount
  BY <1>3 DEF Financing
<1> HIDE DEF new, taken
<1>7. purchaseOrders' = MapSet(purchaseOrders, id, new)
  BY <1>1, <1>4
<1>8. AmountsKept
  BY <1>3, <1>4, <1>6 DEF AmountsKept, MapSet
<1> QED
  BY <1>1, <1>4, <1>5, <1>7, <1>8 DEF Rewrites

LEMMA MakePaymentRewrites ==
  ASSUME BankInv, NEW w \in Wallets, MakePayment(w)
  PROVE  \E id \in PurchaseOrderIds : \E new : Rewrites(id, new)
<1> SUFFICES ASSUME NEW id, id = activePurchaseOrders[w]
             PROVE  id \in PurchaseOrderIds /\ \E new : Rewrites(id, new)
  OBVIOUS
<1> DEFINE po == purchaseOrders[id]
           new == RepaidOrder(po)
<1>1. /\ id \in PurchaseOrderIds
      /\ ~po.isCanceled /\ ~po.completedSuccessfully /\ ~po.isCompleted
      /\ po.acceptedFinancing # 0
  BY DEF MakePayment, CanMakePayment, BankInv, ActiveOrderIsOpen
<1>2. po \in PurchaseOrder
  BY <1>1, Typed DEF BankInv
<1>3. /\ purchaseOrders' = MapSet(purchaseOrders, id, new)
      /\ nextPurchaseOrderId' = nextPurchaseOrderId
      /\ poFinancing' = poFinancing
  BY Zenon DEF MakePayment, CanMakePayment
<1>4. MovesOn(po, new)
  BY <1>1, <1>2 DEF MovesOn, RecordStage, RepaidOrder, PurchaseOrder
<1> HIDE DEF new
<1> QED
  BY <1>1, <1>3, <1>4 DEF Rewrites, AmountsKept

LEMMA HealthRewrites ==
  ASSUME BankInv, NEW w, NEW id \in PurchaseOrderIds,
         CheckPurchaseOrderHealth(w, id)
  PROVE  \E new : Rewrites(id, new)
<1> DEFINE po == purchaseOrders[id]
           new == [po EXCEPT !.completedSuccessfully = FALSE, !.isCompleted = TRUE]
<1>1. po \in PurchaseOrder
  BY Typed DEF BankInv
<1>2. /\ purchaseOrders' = MapSet(purchaseOrders, id, new)
      /\ nextPurchaseOrderId' = nextPurchaseOrderId
      /\ poFinancing' = poFinancing
      /\ ~po.isCompleted /\ CanEndPurchaseOrder(po)
  BY Zenon DEF CheckPurchaseOrderHealth
<1>3. /\ po.acceptedFinancing # 0 /\ ~po.isCanceled
      /\ ~po.completedSuccessfully
  BY <1>2 DEF CanEndPurchaseOrder, BankInv, AcceptedOfferIsTheLoan,
     RepaidExactlyOnce
<1>4. MovesOn(po, new)
  BY <1>1, <1>2, <1>3 DEF MovesOn, RecordStage, PurchaseOrder
<1> HIDE DEF new
<1> QED
  BY <1>2, <1>4 DEF Rewrites, AmountsKept

(* Every step but the creation of an order leaves the orders, or takes one *)
(* of them one stage on.                                                   *)
LEMMA StepShapes ==
  ASSUME BankInv, [Next]_vars
  PROVE  \/ LeavesOrders
         \/ \E id \in PurchaseOrderIds : \E new : Rewrites(id, new)
         \/ \E w \in Importers, q \in Quotes, seller \in Exporters :
              CreatePurchaseOrder(w, q[1], q[2], seller)
<1>1. UNCHANGED storage => LeavesOrders
  BY DEF storage, LeavesOrders, AmountsKept
<1>2. CASE OrderNext
  <2>1. \A w \in Wallets : RejectFinancing(w) => UNCHANGED storage
    BY RejectChangesNothing DEF vars
  <2> QED
    BY <1>1, <1>2, <2>1, CancelRewrites, FinanceRewrites,
       CancelFinancingLeaves, AcceptRewrites, MakePaymentRewrites,
       HealthRewrites DEF OrderNext
<1>3. CASE OwnerNext
  BY <1>1, <1>3 DEF OwnerNext, UpdateInterestRate, UpdateDueDate,
     UpdateGracePeriod, SetBlocksTime, PauseContract, ResumeContract
<1>4. CASE EnvironmentNext
  BY <1>1, <1>4 DEF EnvironmentNext, MineBlocks
<1> QED
  BY <1>1, <1>2, <1>3, <1>4 DEF Next, vars

LEMMA InitRefines == Init => OrdersAreQuoted /\ Lifecycle!LifecycleInit
<1> SUFFICES ASSUME Init PROVE OrdersAreQuoted /\ Lifecycle!LifecycleInit
  OBVIOUS
<1>1. PurchaseOrderIds = {} /\ nextPurchaseOrderId = 1
  BY DEF Init, PurchaseOrderIds
<1>2. OrdersAreQuoted
  BY <1>1, BankAssumption DEF OrdersAreQuoted
<1>3. \A id \in 1..MaxPurchaseOrders : StageOf(id) = "none" /\ LoanOf(id) = None
  BY InitInv, <1>1, StageOfNone DEF BankInv
<1> QED
  BY <1>2, <1>3 DEF Lifecycle!LifecycleInit

LEMMA NextRefines ==
  RefinementInv /\ BankInv' /\ [Next]_vars => OrdersAreQuoted' /\ LifecycleStep
BY StepShapes, LeavingRefines, RewritingRefines, CreateRefines DEF RefinementInv

(* The identifiers stay within their bound, and the sums of every order    *)
(* are those of a quote.                                                   *)
THEOREM RefinementInvariant == Spec => []RefinementInv
<1>1. Init => RefinementInv
  BY InitInv, InitRefines DEF RefinementInv
<1>2. RefinementInv /\ [Next]_vars => RefinementInv'
  BY NextInv, NextRefines DEF RefinementInv
<1> QED
  BY <1>1, <1>2, PTL DEF Spec

(* The eight fields the storage keeps for an order, and the functions that *)
(* write them, implement the lifecycle: an order goes one way through its  *)
(* stages, a loan starts only from an offer made for the order, and        *)
(* neither its lender nor its amount ever changes.                         *)
THEOREM StorageImplementsLifecycle == Spec => ImplementsLifecycle
<1>1. RefinementInv /\ RefinementInv' /\ [Next]_vars
        => [Lifecycle!LifecycleNext]_(Lifecycle!lifecycle)
  BY NextRefines DEF RefinementInv, LifecycleStep
<1> QED
  BY <1>1, InitRefines, RefinementInvariant, PTL
  DEF Spec, ImplementsLifecycle, Lifecycle!LifecycleSpec

-----------------------------------------------------------------------------
(* Defaults *)

(* Once an offer is accepted for an order, the order names it for good.    *)
LEMMA AcceptedStays ==
  ASSUME BankInv, [Next]_vars, NEW id \in PurchaseOrderIds,
         purchaseOrders[id].acceptedFinancing # 0
  PROVE  purchaseOrders'[id].acceptedFinancing
           = purchaseOrders[id].acceptedFinancing
<1>1. DOMAIN purchaseOrders = PurchaseOrderIds
  BY DEF BankInv, TypeOK, PurchaseOrderIds
<1>2. CASE LeavesOrders
  BY <1>2 DEF LeavesOrders
<1>3. ASSUME NEW j \in PurchaseOrderIds, NEW new, Rewrites(j, new)
      PROVE  purchaseOrders'[id].acceptedFinancing
               = purchaseOrders[id].acceptedFinancing
  <2>1. purchaseOrders'[id] = IF id = j THEN new ELSE purchaseOrders[id]
    BY <1>1, <1>3 DEF Rewrites, MapSet
  <2>2. RecordStage(purchaseOrders[id]) # "offered"
    BY DEF RecordStage
  <2> QED
    BY <1>3, <2>1, <2>2 DEF Rewrites, MovesOn
<1>4. ASSUME NEW w, NEW total, NEW downpayment, NEW seller,
             CreatePurchaseOrder(w, total, downpayment, seller)
      PROVE  purchaseOrders'[id].acceptedFinancing
               = purchaseOrders[id].acceptedFinancing
  <2> DEFINE new == NewPurchaseOrder(w, total * MicroMultiplier,
                                     downpayment * MicroMultiplier, seller)
  <2>1. purchaseOrders' = MapSet(purchaseOrders, nextPurchaseOrderId, new)
    BY <1>4, Zenon DEF CreatePurchaseOrder
  <2> HIDE DEF new
  <2>2. id # nextPurchaseOrderId
    BY DEF BankInv, TypeOK, PurchaseOrderIds
  <2> QED
    BY <1>1, <2>1, <2>2 DEF MapSet
<1> QED
  BY <1>2, <1>3, <1>4, StepShapes

LEMMA HeightGrows ==
  ASSUME TypeOK, [Next]_vars
  PROVE  blockHeight' \in Nat /\ blockHeight <= blockHeight'
<1>1. blockHeight \in Nat
  BY DEF TypeOK
<1>2. \/ blockHeight' = blockHeight
      \/ \E h \in Heights : h > blockHeight /\ blockHeight' = h
  <2>1. CASE OrderNext
    <3>1. /\ \A w, total, downpayment, seller :
               CreatePurchaseOrder(w, total, downpayment, seller)
                 => blockHeight' = blockHeight
          /\ \A w, id : CancelPurchaseOrder(w, id) => blockHeight' = blockHeight
          /\ \A w, id : Finance(w, id) => blockHeight' = blockHeight
          /\ \A w, fid : CancelFinancing(w, fid) => blockHeight' = blockHeight
      BY Zenon DEF CreatePurchaseOrder, CancelPurchaseOrder, Finance,
         CancelFinancing
    <3>2. /\ \A w : AcceptFinancing(w) => blockHeight' = blockHeight
          /\ \A w : MakePayment(w) => blockHeight' = blockHeight
          /\ \A w, id : CheckPurchaseOrderHealth(w, id)
               => blockHeight' = blockHeight
      BY Zenon DEF AcceptFinancing, MakePayment, CanMakePayment, CheckPurchaseOrderHealth
    <3>3. \A w \in Wallets : RejectFinancing(w) => blockHeight' = blockHeight
      BY RejectChangesNothing DEF vars
    <3> QED
      BY <2>1, <3>1, <3>2, <3>3 DEF OrderNext
  <2>2. CASE OwnerNext
    BY <2>2 DEF OwnerNext, UpdateInterestRate, UpdateDueDate,
       UpdateGracePeriod, SetBlocksTime, PauseContract, ResumeContract
  <2>3. CASE EnvironmentNext
    BY <2>3 DEF EnvironmentNext, MineBlocks
  <2> QED
    BY <2>1, <2>2, <2>3 DEF Next, vars
<1>3. ASSUME NEW h \in Heights, h > blockHeight, blockHeight' = h
      PROVE  blockHeight' \in Nat /\ blockHeight <= blockHeight'
  <2>1. h \in Nat /\ blockHeight <= h
    BY <1>1, <1>3, BankAssumption
  <2> QED
    BY <1>3, <2>1
<1>4. blockHeight <= blockHeight
  BY <1>1
<1> QED
  BY <1>1, <1>2, <1>3, <1>4

LEMMA QuotientType ==
  ASSUME NEW a \in Nat, NEW b \in Nat, b # 0
  PROVE  a \div b \in Nat
OBVIOUS

(* With the terms as they are, nothing but a repayment ends a default: the *)
(* accepted offer, the height it was accepted at and the terms it is       *)
(* judged by stay, and the chain only grows.                               *)
LEMMA DefaultStays ==
  ASSUME BankInv, BankInv', [Next]_vars, terms' = terms,
         blocksTimeInSeconds # 0,
         NEW id \in PurchaseOrderIds, IsDefaulted(purchaseOrders[id])
  PROVE  \/ IsDefaulted(purchaseOrders[id])'
         \/ purchaseOrders'[id].completedSuccessfully
<1> SUFFICES ASSUME NEW fid, fid = purchaseOrders[id].acceptedFinancing,
                    NEW height, height = DefaultHeight(poFinancing[fid])
             PROVE  \/ IsDefaulted(purchaseOrders[id])'
                    \/ purchaseOrders'[id].completedSuccessfully
  OBVIOUS
<1>1. fid # 0 /\ blockHeight > height
  BY DEF IsDefaulted
<1>2. purchaseOrders'[id].acceptedFinancing = fid
  BY <1>1, AcceptedStays
<1>3. fid \in FinancingIds /\ poFinancing[fid].isAccepted
  BY <1>1 DEF BankInv, AcceptedOfferIsTheLoan
<1>4. poFinancing'[fid] = poFinancing[fid]
  BY <1>3, NextKeeps DEF OffersKept, vars, storage
<1>5. DefaultHeight(poFinancing[purchaseOrders[id].acceptedFinancing])' = height
  BY <1>2, <1>4 DEF DefaultHeight, DaysToBlocks, terms
<1>6. height \in Nat
  <2>1. /\ blocksTimeInSeconds \in Nat /\ poDueDate \in Nat
        /\ gracePeriodInDays \in Nat
    BY DEF BankInv, TypeOK
  <2>2. PICK rate \in Nat : rate = SecondsPerDay \div blocksTimeInSeconds
    BY <2>1, QuotientType DEF SecondsPerDay
  <2>3. rate * poDueDate \in Nat /\ rate * gracePeriodInDays \in Nat
    BY <2>1, <2>2
  <2>4. poFinancing[fid].acceptedAt \in Nat
    BY <1>3, Typed DEF BankInv, Financing
  <2> QED
    BY <2>2, <2>3, <2>4 DEF DefaultHeight, DaysToBlocks
<1>7. PICK h \in Nat : h = blockHeight' /\ h > height
  <2>1. blockHeight \in Nat
    BY DEF BankInv, TypeOK
  <2>2. PICK h \in Nat : h = blockHeight' /\ blockHeight <= h
    BY HeightGrows DEF BankInv
  <2> QED
    BY <1>1, <1>6, <2>1, <2>2
<1> QED
  BY <1>1, <1>2, <1>5, <1>7 DEF IsDefaulted

(* A default lasts until the order is repaid.                              *)
THEOREM DefaultAlwaysLasts == Spec => DefaultLasts
<1>1. BankInv /\ BankInv' /\ [Next]_vars =>
        [blocksTimeInSeconds # 0 /\ terms' = terms =>
           \A id \in PurchaseOrderIds :
             IsDefaulted(purchaseOrders[id]) =>
               \/ IsDefaulted(purchaseOrders[id])'
               \/ purchaseOrders'[id].completedSuccessfully]_vars
  BY DefaultStays
<1> QED
  BY <1>1, BankInvariant, PTL DEF Spec, DefaultLasts

-----------------------------------------------------------------------------
(* Track records *)

Trading == {"importer", "exporter"}

Trader(po, role) == IF role = "importer" THEN po.borrower ELSE po.seller

EndedAs(role, w, good) ==
  {id \in PurchaseOrderIds : /\ purchaseOrders[id].isCompleted
                             /\ purchaseOrders[id].completedSuccessfully = good
                             /\ Trader(purchaseOrders[id], role) = w}

(* What TrackRecordsCoverOrders rests on: who is not registered has not    *)
(* been counted, so that registering forgets nothing.                      *)
UnregisteredCountNothing ==
  \A role \in Trading, w \in Wallets :
    ~trackRecords[role][w].registered =>
      \A good \in BOOLEAN : Count(trackRecords, role, w, good) = 0

CountsCover ==
  \A role \in Trading, w \in Wallets, good \in BOOLEAN :
    Cardinality(EndedAs(role, w, good)) <= Count(trackRecords, role, w, good)

CoverInv == BankInv /\ UnregisteredCountNothing /\ CountsCover

LEMMA CoverIsCover == CountsCover => TrackRecordsCoverOrders
<1> SUFFICES ASSUME CountsCover, NEW w \in Wallets, NEW good \in BOOLEAN
             PROVE  LET Ended(po) == po.isCompleted /\ po.completedSuccessfully = good
                    IN /\ Cardinality({id \in PurchaseOrderIds :
                             Ended(purchaseOrders[id]) /\ purchaseOrders[id].borrower = w})
                            <= Count(trackRecords, "importer", w, good)
                       /\ Cardinality({id \in PurchaseOrderIds :
                             Ended(purchaseOrders[id]) /\ purchaseOrders[id].seller = w})
                            <= Count(trackRecords, "exporter", w, good)
  BY DEF TrackRecordsCoverOrders
<1> DEFINE Ended(po) == po.isCompleted /\ po.completedSuccessfully = good
<1>1. {id \in PurchaseOrderIds :
         Ended(purchaseOrders[id]) /\ purchaseOrders[id].borrower = w}
        = EndedAs("importer", w, good)
  BY DEF EndedAs, Trader
<1>2. {id \in PurchaseOrderIds :
         Ended(purchaseOrders[id]) /\ purchaseOrders[id].seller = w}
        = EndedAs("exporter", w, good)
  BY DEF EndedAs, Trader
<1>3. \A role \in Trading :
        Cardinality(EndedAs(role, w, good)) <= Count(trackRecords, role, w, good)
  BY DEF CountsCover
<1> QED
  BY <1>1, <1>2, <1>3 DEF Trading

(* No step takes back what an importer's or an exporter's record counts,   *)
(* or counts for who is not registered.                                    *)
CountsGrow(records, new) ==
  \A role \in Trading, w \in Wallets :
    /\ \A good \in BOOLEAN :
         /\ Count(records, role, w, good) \in Nat
         /\ Count(new, role, w, good) \in Nat
         /\ Count(records, role, w, good) <= Count(new, role, w, good)
    /\ (\A good \in BOOLEAN :
          ~records[role][w].registered => Count(records, role, w, good) = 0)
       => (\A good \in BOOLEAN :
             ~new[role][w].registered => Count(new, role, w, good) = 0)

LEMMA CountsGrowTransitive ==
  ASSUME NEW a, NEW b, NEW c, CountsGrow(a, b), CountsGrow(b, c)
  PROVE  CountsGrow(a, c)
BY DEF CountsGrow

LEMMA SameCountsGrow ==
  ASSUME NEW records \in [Roles -> [Wallets -> TrackRecord]]
  PROVE  CountsGrow(records, records)
BY DEF CountsGrow, Count, Trading, Roles, TrackRecord

LEMMA CreditedGrows ==
  ASSUME NEW records \in [Roles -> [Wallets -> TrackRecord]],
         NEW role \in Roles, NEW w \in Wallets, NEW success \in BOOLEAN,
         CanCredit(records, role, w)
  PROVE  CountsGrow(records, Credited(records, role, w, success))
<1> DEFINE new == Credited(records, role, w, success)
<1>1. ASSUME NEW r \in Roles, NEW v \in Wallets
      PROVE  LET old == records[r][v]
                 now == new[r][v]
             IN /\ old.registered \in BOOLEAN
                /\ old.successful \in Nat /\ old.failed \in Nat
                /\ now.registered = old.registered
                /\ now.successful = old.successful
                   \/ (r = role /\ v = w /\ now.successful = old.successful + 1)
                /\ now.failed = old.failed
                   \/ (r = role /\ v = w /\ now.failed = old.failed + 1)
  <2>1. records[r][v] \in TrackRecord
    OBVIOUS
  <2>2. CASE success
    <3>1. new[r][v] = IF r = role /\ v = w
                      THEN [records[r][v] EXCEPT !.successful = @ + 1]
                      ELSE records[r][v]
      BY <2>2 DEF Credited
    <3> HIDE DEF new
    <3> QED
      BY <2>1, <3>1 DEF TrackRecord
  <2>3. CASE ~success
    <3>1. new[r][v] = IF r = role /\ v = w
                      THEN [records[r][v] EXCEPT !.failed = @ + 1]
                      ELSE records[r][v]
      BY <2>3 DEF Credited
    <3> HIDE DEF new
    <3> QED
      BY <2>1, <3>1 DEF TrackRecord
  <2> QED
    BY <2>2, <2>3
<1> HIDE DEF new
<1>2. records[role][w].registered
  BY DEF CanCredit
<1>3. Trading \subseteq Roles
  BY DEF Trading, Roles
<1>4. ASSUME NEW r \in Trading, NEW v \in Wallets, NEW good \in BOOLEAN
      PROVE  /\ Count(records, r, v, good) \in Nat
             /\ Count(new, r, v, good) \in Nat
             /\ Count(records, r, v, good) <= Count(new, r, v, good)
             /\ ~records[r][v].registered =>
                  Count(new, r, v, good) = Count(records, r, v, good)
             /\ new[r][v].registered = records[r][v].registered
  BY <1>1, <1>2, <1>3 DEF Count
<1> QED
  BY <1>4 DEF CountsGrow, new

LEMMA EndingGrows ==
  ASSUME TypeOK, NEW po \in PurchaseOrder, NEW success \in BOOLEAN,
         CanEndPurchaseOrder(po), trackRecords' = EndedPurchaseOrder(po, success)
  PROVE  CountsGrow(trackRecords, trackRecords')
<1> SUFFICES ASSUME
      NEW first, first = Credited(trackRecords, "importer", po.borrower, success),
      NEW second, second = Credited(first, "exporter", po.seller, success),
      NEW third, third = Credited(second, "lender", po.lender, success)
    PROVE  CountsGrow(trackRecords, third)
  BY DEF EndedPurchaseOrder
<1>1. po.borrower \in Wallets /\ po.seller \in Wallets /\ po.lender \in Wallets
  BY DEF PurchaseOrder, CanEndPurchaseOrder
<1>2. "importer" \in Roles /\ "exporter" \in Roles /\ "lender" \in Roles
  BY DEF Roles
<1>3. trackRecords \in [Roles -> [Wallets -> TrackRecord]]
  BY DEF TypeOK, TrackRecordsTypeOK
<1>4. /\ first \in [Roles -> [Wallets -> TrackRecord]]
      /\ \A r \in Roles : r # "importer" => first[r] = trackRecords[r]
      /\ CountsGrow(trackRecords, first)
  BY <1>1, <1>2, <1>3, CreditedCounts, CreditedGrows DEF CanEndPurchaseOrder
<1>5. /\ second \in [Roles -> [Wallets -> TrackRecord]]
      /\ \A r \in Roles : r # "exporter" => second[r] = first[r]
      /\ CountsGrow(first, second)
  <2>1. CanCredit(first, "exporter", po.seller)
    BY <1>2, <1>4 DEF CanEndPurchaseOrder, CanCredit
  <2>2. CountsGrow(first, second)
    BY <1>1, <1>2, <1>4, <2>1, CreditedGrows
  <2> QED
    BY <1>1, <1>2, <1>4, <2>2, CreditedCounts
<1>6. CountsGrow(second, third)
  <2>1. CanCredit(second, "lender", po.lender)
    BY <1>2, <1>4, <1>5 DEF CanEndPurchaseOrder, CanCredit
  <2> QED
    BY <1>1, <1>2, <1>5, <2>1, CreditedGrows
<1> QED
  BY <1>4, <1>5, <1>6, CountsGrowTransitive

(* Registering writes a zero entry over one that counted nothing; a lender *)
(* is counted elsewhere.                                                   *)
Registers(records, new, role, w) ==
  \A r \in Roles, v \in Wallets :
    IF r = role /\ v = w
    THEN /\ new[r][v].registered
         /\ new[r][v].successful = 0 /\ new[r][v].failed = 0
         /\ role \in Trading => /\ records[r][v].successful = 0
                               /\ records[r][v].failed = 0
    ELSE new[r][v] = records[r][v]

LEMMA RegisteringGrows ==
  ASSUME NEW records \in [Roles -> [Wallets -> TrackRecord]],
         NEW new, NEW role \in Roles, NEW w \in Wallets,
         Registers(records, new, role, w)
  PROVE  CountsGrow(records, new)
<1>2. ASSUME NEW r \in Trading, NEW v \in Wallets, NEW good \in BOOLEAN
      PROVE  /\ Count(records, r, v, good) \in Nat
             /\ Count(new, r, v, good) \in Nat
             /\ Count(records, r, v, good) <= Count(new, r, v, good)
             /\ ~new[r][v].registered =>
                  /\ ~records[r][v].registered
                  /\ Count(new, r, v, good) = Count(records, r, v, good)
  <2>1. /\ r \in Roles /\ records[r][v] \in TrackRecord
        /\ records[r][v].successful \in Nat /\ records[r][v].failed \in Nat
    BY DEF Trading, Roles, TrackRecord
  <2>2. CASE r = role /\ v = w
    <3>1. /\ new[r][v].registered
          /\ new[r][v].successful = 0 /\ new[r][v].failed = 0
          /\ records[r][v].successful = 0 /\ records[r][v].failed = 0
      BY <2>1, <2>2 DEF Registers
    <3>2. Count(records, r, v, good) = 0
      BY <3>1 DEF Count
    <3>3. Count(new, r, v, good) = 0 /\ new[r][v].registered
      BY <3>1 DEF Count
    <3> QED
      BY <3>2, <3>3
  <2>3. CASE ~(r = role /\ v = w)
    <3>1. new[r][v] = records[r][v]
      BY <2>1, <2>3 DEF Registers
    <3>2. Count(new, r, v, good) = Count(records, r, v, good)
      BY <3>1 DEF Count
    <3>3. PICK n \in Nat : n = Count(records, r, v, good)
      BY <2>1 DEF Count
    <3> QED
      BY <3>1, <3>2, <3>3
  <2> QED
    BY <2>2, <2>3
<1> QED
  BY <1>2 DEF CountsGrow

LEMMA RegistriesGrow ==
  ASSUME TypeOK, UnregisteredCountNothing, TrackRecordsNext
  PROVE  CountsGrow(trackRecords, trackRecords')
<1>1. trackRecords \in [Roles -> [Wallets -> TrackRecord]]
  BY DEF TypeOK, TrackRecordsTypeOK
<1>2. ASSUME NEW role \in Roles, NEW w \in Wallets,
             trackRecords' = [trackRecords EXCEPT ![role][w] = Entry(TRUE)],
             role \in Trading => ~trackRecords[role][w].registered
      PROVE  CountsGrow(trackRecords, trackRecords')
  <2> SUFFICES ASSUME NEW entry, entry = Entry(TRUE)
               PROVE  CountsGrow(trackRecords, trackRecords')
    OBVIOUS
  <2>1. entry.registered /\ entry.successful = 0 /\ entry.failed = 0
    BY DEF Entry
  <2>2. \A r \in Roles, v \in Wallets :
          trackRecords'[r][v] = IF r = role /\ v = w THEN entry
                                ELSE trackRecords[r][v]
    BY <1>1, <1>2
  <2>3. role \in Trading => /\ trackRecords[role][w].successful = 0
                            /\ trackRecords[role][w].failed = 0
    <3>1. role \in Trading => /\ Count(trackRecords, role, w, TRUE) = 0
                              /\ Count(trackRecords, role, w, FALSE) = 0
      BY <1>2 DEF UnregisteredCountNothing
    <3> QED
      BY <3>1 DEF Count
  <2>4. Registers(trackRecords, trackRecords', role, w)
    BY <2>1, <2>2, <2>3 DEF Registers
  <2> QED
    BY <1>1, <2>4, RegisteringGrows
<1>3. "importer" \in Roles /\ "exporter" \in Roles /\ "lender" \in Roles
      /\ "lender" \notin Trading
  BY DEF Roles, Trading
<1>4. CASE \E w \in Importers : RegisterTrader("importer", w)
  BY <1>2, <1>3, <1>4, TrackRecordsAssumption DEF RegisterTrader
<1>5. CASE \E w \in Exporters : RegisterTrader("exporter", w)
  BY <1>2, <1>3, <1>5, TrackRecordsAssumption DEF RegisterTrader
<1>6. CASE \E w \in Lenders : RegisterLender(w)
  BY <1>2, <1>3, <1>6, TrackRecordsAssumption DEF RegisterLender
<1>7. CASE \E role \in Roles, w \in Wallets, good \in BOOLEAN :
             UpdateTrackRecord(role, w, good)
  BY <1>1, <1>7, CreditedGrows DEF UpdateTrackRecord
<1> QED
  BY <1>4, <1>5, <1>6, <1>7 DEF TrackRecordsNext

LEMMA RecordsGrow ==
  ASSUME BankInv, UnregisteredCountNothing, [Next]_vars
  PROVE  CountsGrow(trackRecords, trackRecords')
<1>1. /\ TypeOK /\ trackRecords \in [Roles -> [Wallets -> TrackRecord]]
      /\ \A id \in PurchaseOrderIds : purchaseOrders[id] \in PurchaseOrder
  BY Typed DEF BankInv, TypeOK, TrackRecordsTypeOK
<1>2. trackRecords' = trackRecords => CountsGrow(trackRecords, trackRecords')
  BY <1>1, SameCountsGrow
<1>3. CASE OrderNext
  <2>1. /\ \A w, total, downpayment, seller :
             CreatePurchaseOrder(w, total, downpayment, seller)
               => trackRecords' = trackRecords
        /\ \A w, id : CancelPurchaseOrder(w, id) => trackRecords' = trackRecords
        /\ \A w, id : Finance(w, id) => trackRecords' = trackRecords
        /\ \A w, fid : CancelFinancing(w, fid) => trackRecords' = trackRecords
        /\ \A w : AcceptFinancing(w) => trackRecords' = trackRecords
    BY Zenon DEF CreatePurchaseOrder, CancelPurchaseOrder, Finance,
       CancelFinancing, AcceptFinancing
  <2>2. \A w \in Wallets : RejectFinancing(w) => trackRecords' = trackRecords
    BY RejectChangesNothing DEF vars
  <2>3. ASSUME NEW w \in Wallets, MakePayment(w)
        PROVE  CountsGrow(trackRecords, trackRecords')
    <3>1. activePurchaseOrders[w] \in PurchaseOrderIds
      BY <2>3 DEF MakePayment, CanMakePayment, BankInv, ActiveOrderIsOpen
    <3>2. /\ CanEndPurchaseOrder(purchaseOrders[activePurchaseOrders[w]])
          /\ trackRecords' =
               EndedPurchaseOrder(purchaseOrders[activePurchaseOrders[w]], TRUE)
      BY <2>3, Zenon DEF MakePayment, CanMakePayment
    <3> QED
      BY <1>1, <3>1, <3>2, EndingGrows
  <2>4. ASSUME NEW w, NEW id \in PurchaseOrderIds, CheckPurchaseOrderHealth(w, id)
        PROVE  CountsGrow(trackRecords, trackRecords')
    <3>1. /\ CanEndPurchaseOrder(purchaseOrders[id])
          /\ trackRecords' = EndedPurchaseOrder(purchaseOrders[id], FALSE)
      BY <2>4, Zenon DEF CheckPurchaseOrderHealth
    <3> QED
      BY <1>1, <3>1, EndingGrows
  <2> QED
    BY <1>2, <1>3, <2>1, <2>2, <2>3, <2>4 DEF OrderNext
<1>4. CASE OwnerNext
  BY <1>2, <1>4 DEF OwnerNext, UpdateInterestRate, UpdateDueDate,
     UpdateGracePeriod, SetBlocksTime, PauseContract, ResumeContract
<1>5. CASE EnvironmentNext
  BY <1>1, <1>2, <1>5, RegistriesGrow DEF EnvironmentNext, MineBlocks
<1> QED
  BY <1>2, <1>3, <1>4, <1>5 DEF Next, vars

(* The orders that ended for a trader stay, and are joined by at most the  *)
(* one a step completes.                                                   *)
LEMMA EndedSets ==
  ASSUME BankInv, BankInv', [Next]_vars, NEW role \in Trading,
         NEW w \in Wallets, NEW good \in BOOLEAN
  PROVE  \/ EndedAs(role, w, good)' = EndedAs(role, w, good)
         \/ \E id \in PurchaseOrderIds :
              /\ EndedAs(role, w, good)' = EndedAs(role, w, good) \cup {id}
              /\ purchaseOrders'[id].isCompleted # purchaseOrders[id].isCompleted
              /\ purchaseOrders'[id].completedSuccessfully = good
              /\ Trader(purchaseOrders'[id], role) = w
<1>1. /\ DOMAIN purchaseOrders = PurchaseOrderIds
      /\ \A id \in PurchaseOrderIds : purchaseOrders[id] \in PurchaseOrder
  BY Typed DEF BankInv, TypeOK, PurchaseOrderIds
<1>2. CASE LeavesOrders
  BY <1>2 DEF LeavesOrders, EndedAs, PurchaseOrderIds
<1>3. ASSUME NEW id \in PurchaseOrderIds, NEW new, Rewrites(id, new)
      PROVE  \/ EndedAs(role, w, good)' = EndedAs(role, w, good)
             \/ /\ EndedAs(role, w, good)' = EndedAs(role, w, good) \cup {id}
                /\ purchaseOrders'[id].isCompleted # purchaseOrders[id].isCompleted
                /\ purchaseOrders'[id].completedSuccessfully = good
                /\ Trader(purchaseOrders'[id], role) = w
  <2>1. PurchaseOrderIds' = PurchaseOrderIds
    BY <1>3 DEF Rewrites, PurchaseOrderIds
  <2>2. \A j \in PurchaseOrderIds :
          purchaseOrders'[j] = IF j = id THEN new ELSE purchaseOrders[j]
    BY <1>1, <1>3 DEF Rewrites, MapSet
  <2>3. CASE new.isCompleted = purchaseOrders[id].isCompleted
    <3>1. \/ ~new.isCompleted /\ ~purchaseOrders[id].isCompleted
          \/ new = purchaseOrders[id]
      <4>1. CASE purchaseOrders[id].isCompleted
        <5>1. OrdersKept \/ UNCHANGED vars
          BY NextKeeps
        <5> QED
          BY <2>2, <4>1, <5>1 DEF OrdersKept, vars, storage
      <4> QED
        BY <2>3, <4>1
    <3> QED
      BY <2>1, <2>2, <3>1 DEF EndedAs
  <2>4. CASE new.isCompleted # purchaseOrders[id].isCompleted
    <3>1. ~purchaseOrders[id].isCompleted
      <4>1. OrdersKept \/ UNCHANGED vars
        BY NextKeeps
      <4> QED
        BY <2>2, <2>4, <4>1 DEF OrdersKept, vars, storage
    <3>2. new.isCompleted
      <4>1. new \in PurchaseOrder
        <5>1. purchaseOrders' \in [PurchaseOrderIds' -> PurchaseOrder]
          BY DEF BankInv, TypeOK, PurchaseOrderIds
        <5> QED
          BY <2>1, <2>2, <5>1
      <4> QED
        BY <1>1, <2>4, <3>1, <4>1 DEF PurchaseOrder
    <3>3. CASE new.completedSuccessfully = good /\ Trader(new, role) = w
      BY <2>1, <2>2, <2>4, <3>1, <3>2, <3>3 DEF EndedAs
    <3>4. CASE ~(new.completedSuccessfully = good /\ Trader(new, role) = w)
      BY <2>1, <2>2, <3>1, <3>4 DEF EndedAs
    <3> QED
      BY <3>3, <3>4
  <2> QED
    BY <2>3, <2>4
<1>4. ASSUME NEW v \in Importers, NEW q \in Quotes, NEW seller \in Exporters,
             CreatePurchaseOrder(v, q[1], q[2], seller)
      PROVE  EndedAs(role, w, good)' = EndedAs(role, w, good)
  <2> SUFFICES ASSUME NEW next, next = nextPurchaseOrderId
               PROVE  EndedAs(role, w, good)' = EndedAs(role, w, good)
    OBVIOUS
  <2> DEFINE new == NewPurchaseOrder(v, q[1] * MicroMultiplier,
                                     q[2] * MicroMultiplier, seller)
  <2>1. purchaseOrders' = MapSet(purchaseOrders, next, new)
    BY <1>4, Zenon DEF CreatePurchaseOrder
  <2>2. ~new.isCompleted
    BY DEF NewPurchaseOrder
  <2> HIDE DEF new
  <2>3. PurchaseOrderIds' = PurchaseOrderIds \cup {next}
        /\ next \notin PurchaseOrderIds
    <3>1. PurchaseOrderIds' = DOMAIN purchaseOrders'
      BY DEF BankInv, TypeOK, PurchaseOrderIds
    <3>2. next \notin PurchaseOrderIds
      BY DEF BankInv, TypeOK, PurchaseOrderIds
    <3> QED
      BY <1>1, <2>1, <3>1, <3>2 DEF MapSet
  <2> QED
    BY <1>1, <2>1, <2>2, <2>3 DEF EndedAs, MapSet
<1> QED
  BY <1>2, <1>3, <1>4, StepShapes

LEMMA OneMoreElement ==
  ASSUME NEW S, IsFiniteSet(S), NEW x
  PROVE  Cardinality(S \cup {x}) <= Cardinality(S) + 1
<1>1. PICK n \in Nat : n = Cardinality(S)
  BY FS_CardinalityType
<1>2. Cardinality(S \cup {x}) = IF x \in S THEN n ELSE n + 1
  BY <1>1, FS_AddElement
<1> QED
  BY <1>1, <1>2

LEMMA NextCovers ==
  ASSUME CoverInv, BankInv', [Next]_vars
  PROVE  UnregisteredCountNothing' /\ CountsCover'
<1>1. BankInv /\ UnregisteredCountNothing /\ CountsCover
  BY DEF CoverInv
<1>2. CountsGrow(trackRecords, trackRecords')
  BY <1>1, RecordsGrow
<1>3. UnregisteredCountNothing'
  BY <1>1, <1>2 DEF CountsGrow, UnregisteredCountNothing
<1>4. IsFiniteSet(PurchaseOrderIds)
  BY <1>1, Typed, FS_Interval DEF BankInv, PurchaseOrderIds
<1>5. ASSUME NEW role \in Trading, NEW w \in Wallets, NEW good \in BOOLEAN
      PROVE  (Cardinality(EndedAs(role, w, good))
                <= Count(trackRecords, role, w, good))'
  <2> DEFINE old == EndedAs(role, w, good)
             n == Count(trackRecords, role, w, good)
  <2>1. IsFiniteSet(old) /\ Cardinality(old) \in Nat
    BY <1>4, FS_Subset, FS_CardinalityType DEF EndedAs
  <2>2. PICK m \in Nat : m = Count(trackRecords', role, w, good) /\ n <= m
    BY <1>2, <1>5 DEF CountsGrow
  <2>3. n \in Nat /\ Cardinality(old) <= n
    BY <1>1, <1>2 DEF CountsGrow, CountsCover
  <2>4. CASE old' = old
    BY <2>1, <2>2, <2>3, <2>4 DEF Count
  <2>5. ASSUME NEW id \in PurchaseOrderIds, old' = old \cup {id},
               purchaseOrders'[id].isCompleted # purchaseOrders[id].isCompleted,
               purchaseOrders'[id].completedSuccessfully = good,
               Trader(purchaseOrders'[id], role) = w
        PROVE  (Cardinality(old) <= n)'
    <3>1. Cardinality(old \cup {id}) <= Cardinality(old) + 1
      BY <2>1, OneMoreElement
    <3>2. CompletionCounted(id)
      BY <1>1, <2>5, NextCounts DEF vars, storage
    <3>3. m = n + 1
      <4>1. CASE role = "importer"
        BY <2>2, <2>5, <3>2, <4>1 DEF CompletionCounted, CountedOnceMore, Trader
      <4>2. CASE role = "exporter"
        BY <2>2, <2>5, <3>2, <4>2 DEF CompletionCounted, CountedOnceMore, Trader
      <4> QED
        BY <4>1, <4>2 DEF Trading
    <3>4. Cardinality(old \cup {id}) \in Nat
      <4>1. IsFiniteSet(old \cup {id})
        BY <2>1, FS_AddElement
      <4> QED
        BY <4>1, FS_CardinalityType
    <3>5. Cardinality(old \cup {id}) <= m
      <4> SUFFICES ASSUME NEW k \in Nat, k = Cardinality(old),
                          NEW c, c = n, NEW d \in Nat, d = Cardinality(old \cup {id})
                   PROVE  d <= m
        BY <2>1, <3>4
      <4> HIDE DEF old, n
      <4> QED
        BY <2>2, <2>3, <3>1, <3>3
    <3> QED
      BY <2>2, <2>5, <3>5 DEF Count
  <2> QED
    BY <1>1, <2>4, <2>5, EndedSets
<1>6. CountsCover'
  BY <1>5 DEF CountsCover
<1> QED
  BY <1>3, <1>6

(* Importers and exporters are credited with every order of theirs that    *)
(* ended, each time, and no registration forgets it.                       *)
THEOREM TrackRecordsAlwaysCover == Spec => []TrackRecordsCoverOrders
<1>1. Init => CoverInv
  <2> SUFFICES ASSUME Init PROVE CoverInv
    OBVIOUS
  <2>1. \A role \in Roles, w \in Wallets, good \in BOOLEAN :
          Count(trackRecords, role, w, good) = 0
    BY DEF Init, TrackRecordsInit, Entry, Count
  <2>2. Trading \subseteq Roles
    BY DEF Trading, Roles
  <2>3. \A role, w, good : EndedAs(role, w, good) = {}
    BY DEF Init, PurchaseOrderIds, EndedAs
  <2>4. Cardinality({}) = 0
    BY FS_EmptySet
  <2>5. CountsCover
    <3>1. ASSUME NEW role \in Trading, NEW w \in Wallets, NEW good \in BOOLEAN
          PROVE  Cardinality(EndedAs(role, w, good)) = 0
      BY <2>3, <2>4
    <3> QED
      BY <2>1, <2>2, <3>1 DEF CountsCover
  <2> QED
    BY <2>1, <2>2, <2>5, InitInv DEF CoverInv, UnregisteredCountNothing
<1>2. CoverInv /\ [Next]_vars => CoverInv'
  <2>1. CoverInv /\ [Next]_vars => BankInv'
    BY NextInv DEF CoverInv
  <2> QED
    BY <2>1, NextCovers DEF CoverInv
<1>3. CoverInv => TrackRecordsCoverOrders
  BY CoverIsCover DEF CoverInv
<1> QED
  BY <1>1, <1>2, <1>3, PTL DEF Spec
=============================================================================
