---------------------------- MODULE TaralBankPool ----------------------------
(***************************************************************************)
(* The pool of TaralBank: no transaction takes it below what the records   *)
(* set aside, canceling an order again and accepting an offer taken back   *)
(* excepted.  What is set aside is a sum over the orders that await a loan *)
(* and one over the live offers, and a step changes one of each at most.   *)
(***************************************************************************)
EXTENDS TaralBankProofs, SumTheorems

-----------------------------------------------------------------------------
(* What the records set aside *)

SameElsewhere(map, map2, key) ==
  /\ DOMAIN map \ {key} = DOMAIN map2 \ {key}
  /\ \A k \in DOMAIN map \ {key} : map2[k] = map[k]

LEMMA SameEverywhere ==
  ASSUME NEW map, NEW key
  PROVE  SameElsewhere(map, map, key)
BY DEF SameElsewhere

LEMMA SetElsewhere ==
  ASSUME NEW map, NEW key, NEW value
  PROVE  SameElsewhere(map, MapSet(map, key, value), key)
BY DEF SameElsewhere, MapSet

Orders(orders) ==
  /\ IsFiniteSet(DOMAIN orders)
  /\ \A id \in DOMAIN orders : orders[id].downpayment \in Nat

Offers(offers) ==
  /\ IsFiniteSet(DOMAIN offers)
  /\ \A fid \in DOMAIN offers : offers[fid].amount \in Nat

(* What one order, and one offer, contribute. *)
Deposit(orders, id) ==
  IF id \in DOMAIN orders /\ AwaitsLoan(orders[id])
  THEN orders[id].downpayment ELSE 0

Advance(offers, fid) ==
  IF fid \in DOMAIN offers /\ IsLive(offers[fid])
  THEN offers[fid].amount ELSE 0

LEMMA DownpaymentsChange ==
  ASSUME NEW orders, Orders(orders), NEW orders2, Orders(orders2), NEW id,
         SameElsewhere(orders, orders2, id)
  PROVE  /\ DownpaymentsHeld(orders) \in Nat /\ DownpaymentsHeld(orders2) \in Nat
         /\ DownpaymentsHeld(orders2) - Deposit(orders2, id)
              = DownpaymentsHeld(orders) - Deposit(orders, id)
<1> DEFINE f == [j \in DOMAIN orders |-> orders[j].downpayment]
           g == [j \in DOMAIN orders2 |-> orders2[j].downpayment]
           S == {j \in DOMAIN orders : AwaitsLoan(orders[j])}
           T == {j \in DOMAIN orders2 : AwaitsLoan(orders2[j])}
<1>1. /\ IsFiniteSet(S) /\ IsFiniteSet(T)
      /\ DownpaymentsHeld(orders) = SumFunctionOnSet(f, S)
      /\ DownpaymentsHeld(orders2) = SumFunctionOnSet(g, T)
  BY FS_Subset DEF Orders, DownpaymentsHeld
<1>2. (\A j \in S : f[j] \in Nat) /\ (\A j \in T : g[j] \in Nat)
  BY DEF Orders
<1>3. S \ {id} = T \ {id} /\ \A j \in S \ {id} : f[j] = g[j]
  BY DEF SameElsewhere
<1>4. Share(g, T, id) = Deposit(orders2, id) /\ Share(f, S, id) = Deposit(orders, id)
  BY DEF Share, Deposit
<1> HIDE DEF f, g, S, T
<1>5. SumFunctionOnSet(f, S) \in Nat /\ SumFunctionOnSet(g, T) \in Nat
  BY <1>1, <1>2, SumType
<1>6. (\A j \in S : f[j] \in Int) /\ (\A j \in T : g[j] \in Int)
  BY <1>2
<1>7. SumFunctionOnSet(g, T) - Share(g, T, id)
        = SumFunctionOnSet(f, S) - Share(f, S, id)
  BY <1>1, <1>3, <1>6, SumChangesAt
<1> QED
  BY <1>1, <1>4, <1>5, <1>7

LEMMA OffersChange ==
  ASSUME NEW offers, Offers(offers), NEW offers2, Offers(offers2), NEW fid,
         SameElsewhere(offers, offers2, fid)
  PROVE  /\ OffersHeld(offers) \in Nat /\ OffersHeld(offers2) \in Nat
         /\ OffersHeld(offers2) - Advance(offers2, fid)
              = OffersHeld(offers) - Advance(offers, fid)
<1> DEFINE f == [j \in DOMAIN offers |-> offers[j].amount]
           g == [j \in DOMAIN offers2 |-> offers2[j].amount]
           S == {j \in DOMAIN offers : IsLive(offers[j])}
           T == {j \in DOMAIN offers2 : IsLive(offers2[j])}
<1>1. /\ IsFiniteSet(S) /\ IsFiniteSet(T)
      /\ OffersHeld(offers) = SumFunctionOnSet(f, S)
      /\ OffersHeld(offers2) = SumFunctionOnSet(g, T)
  BY FS_Subset DEF Offers, OffersHeld
<1>2. (\A j \in S : f[j] \in Nat) /\ (\A j \in T : g[j] \in Nat)
  BY DEF Offers
<1>3. S \ {fid} = T \ {fid} /\ \A j \in S \ {fid} : f[j] = g[j]
  BY DEF SameElsewhere
<1>4. Share(g, T, fid) = Advance(offers2, fid) /\ Share(f, S, fid) = Advance(offers, fid)
  BY DEF Share, Advance
<1> HIDE DEF f, g, S, T
<1>5. SumFunctionOnSet(f, S) \in Nat /\ SumFunctionOnSet(g, T) \in Nat
  BY <1>1, <1>2, SumType
<1>6. (\A j \in S : f[j] \in Int) /\ (\A j \in T : g[j] \in Int)
  BY <1>2
<1>7. SumFunctionOnSet(g, T) - Share(g, T, fid)
        = SumFunctionOnSet(f, S) - Share(f, S, fid)
  BY <1>1, <1>3, <1>6, SumChangesAt
<1> QED
  BY <1>1, <1>4, <1>5, <1>7

LEMMA RecordsAreFinite == BankInv => Orders(purchaseOrders) /\ Offers(poFinancing)
<1> SUFFICES ASSUME BankInv PROVE Orders(purchaseOrders) /\ Offers(poFinancing)
  OBVIOUS
<1>1. /\ DOMAIN purchaseOrders = 1..(nextPurchaseOrderId - 1)
      /\ DOMAIN poFinancing = 1..(nextFinancingId - 1)
      /\ nextPurchaseOrderId - 1 \in Int /\ nextFinancingId - 1 \in Int
  BY DEF BankInv, TypeOK
<1>2. IsFiniteSet(DOMAIN purchaseOrders) /\ IsFiniteSet(DOMAIN poFinancing)
  BY <1>1, FS_Interval
<1>3. /\ \A id \in DOMAIN purchaseOrders : purchaseOrders[id].downpayment \in Nat
      /\ \A fid \in DOMAIN poFinancing : poFinancing[fid].amount \in Nat
  BY <1>1, Typed DEF BankInv, PurchaseOrderIds, FinancingIds, PurchaseOrder, Financing
<1> QED
  BY <1>2, <1>3 DEF Orders, Offers

LEMMA RecordsStayFinite ==
  BankInv /\ [Next]_vars => Orders(purchaseOrders)' /\ Offers(poFinancing)'
BY RecordsAreFinite, NextInv, PTL

-----------------------------------------------------------------------------
(* Steps that keep the pool *)

PoolKept == balances'[Bank] - Escrowed' >= balances[Bank] - Escrowed

(* A step that changes one order and one offer keeps the pool when what    *)
(* comes in covers what is set aside in addition.                          *)
LEMMA KeepsPool ==
  ASSUME BankInv, [Next]_vars, NEW id, NEW fid,
         SameElsewhere(purchaseOrders, purchaseOrders', id),
         SameElsewhere(poFinancing, poFinancing', fid),
         NEW received \in Int, balances'[Bank] = balances[Bank] + received,
         Deposit(purchaseOrders', id) + Advance(poFinancing', fid)
           <= Deposit(purchaseOrders, id) + Advance(poFinancing, fid) + received
  PROVE  PoolKept
<1>1. /\ Orders(purchaseOrders) /\ Orders(purchaseOrders')
      /\ Offers(poFinancing) /\ Offers(poFinancing')
  BY RecordsAreFinite, RecordsStayFinite
<1>2. PICK d \in Nat, d2 \in Nat, o \in Nat, o2 \in Nat :
        /\ d = DownpaymentsHeld(purchaseOrders)
        /\ d2 = DownpaymentsHeld(purchaseOrders')
        /\ o = OffersHeld(poFinancing)
        /\ o2 = OffersHeld(poFinancing')
  BY <1>1, DownpaymentsChange, OffersChange
<1>3. PICK p \in Nat, p2 \in Nat, a \in Nat, a2 \in Nat :
        /\ p = Deposit(purchaseOrders, id) /\ p2 = Deposit(purchaseOrders', id)
        /\ a = Advance(poFinancing, fid) /\ a2 = Advance(poFinancing', fid)
  BY <1>1 DEF Deposit, Advance, Orders, Offers
<1>4. d2 - p2 = d - p
  BY <1>1, <1>2, <1>3, DownpaymentsChange
<1>5. o2 - a2 = o - a
  BY <1>1, <1>2, <1>3, OffersChange
<1>6. Escrowed = d + o /\ Escrowed' = d2 + o2
  BY <1>2 DEF Escrowed
<1>7. PICK b \in Nat : b = balances[Bank]
  BY Typed DEF BankInv
<1>8. p2 + a2 <= p + a + received
  BY <1>3
<1>9. (b + received) - (d2 + o2) >= b - (d + o)
  BY <1>4, <1>5, <1>8
<1> QED
  BY <1>6, <1>7, <1>9 DEF PoolKept

LEMMA QuietKeepsPool ==
  ASSUME BankInv, [Next]_vars, purchaseOrders' = purchaseOrders,
         poFinancing' = poFinancing, NEW received \in Nat,
         balances'[Bank] = balances[Bank] + received
  PROVE  PoolKept
<1>1. /\ SameElsewhere(purchaseOrders, purchaseOrders', 0)
      /\ SameElsewhere(poFinancing, poFinancing', 0)
  BY SameEverywhere
<1>2. PICK p \in Nat, a \in Nat :
        p = Deposit(purchaseOrders, 0) /\ a = Advance(poFinancing, 0)
  BY RecordsAreFinite DEF Deposit, Advance, Orders, Offers
<1>3. Deposit(purchaseOrders', 0) + Advance(poFinancing', 0)
        <= Deposit(purchaseOrders, 0) + Advance(poFinancing, 0) + received
  BY <1>2
<1> QED
  BY <1>1, <1>3, KeepsPool

(* What a transfer does to the bank's balance. *)
LEMMA MovedIs ==
  ASSUME NEW bal \in [Accounts -> Nat], NEW amount \in Nat, NEW caller,
         NEW from \in Accounts, NEW to \in Accounts,
         CanTransfer(bal, caller, amount, from, to)
  PROVE  /\ from = Bank => Moved(bal, amount, from, to)[Bank] = bal[Bank] - amount
         /\ to = Bank => Moved(bal, amount, from, to)[Bank] = bal[Bank] + amount
         /\ from # Bank /\ to # Bank =>
              Moved(bal, amount, from, to)[Bank] = bal[Bank]
BY BankAssumption DEF CanTransfer, Moved, Accounts

LEMMA Parties ==
  /\ Bank \in Accounts /\ Bank \notin Wallets
  /\ Wallets \subseteq Accounts /\ ContractOwner \in Wallets
BY BankAssumption, PrincipalsAssumption DEF Accounts

-----------------------------------------------------------------------------
(* The calls *)

(* RejectFinancing, the only call that would mark an offer rejected, never *)
(* gets past its transfer.                                                 *)
NoneRejected == \A fid \in FinancingIds : ~poFinancing[fid].isRejected

PoolInv == BankInv /\ NoneRejected

(* A downpayment comes in with its order. *)
LEMMA CreateKeepsPool ==
  ASSUME PoolInv, [Next]_vars, NEW w \in Importers, NEW q \in Quotes,
         NEW seller \in Exporters, CreatePurchaseOrder(w, q[1], q[2], seller)
  PROVE  PoolKept
<1>1. PICK id : id = nextPurchaseOrderId
  OBVIOUS
<1>2. PICK total \in Nat, downpayment \in Nat :
        total = q[1] * MicroMultiplier /\ downpayment = q[2] * MicroMultiplier
  BY BankAssumption DEF MicroMultiplier
<1>3. PICK new : new = NewPurchaseOrder(w, total, downpayment, seller)
  OBVIOUS
<1>4. /\ CanTransfer(balances, w, downpayment, w, Bank)
      /\ balances' = Moved(balances, downpayment, w, Bank)
      /\ purchaseOrders' = MapSet(purchaseOrders, id, new)
      /\ poFinancing' = poFinancing
  BY <1>1, <1>2, <1>3, Zenon DEF CreatePurchaseOrder
<1>5. w \in Wallets /\ balances \in [Accounts -> Nat]
  BY Typed, TrackRecordsAssumption DEF PoolInv, BankInv
<1>6. balances'[Bank] = balances[Bank] + downpayment
  BY <1>4, <1>5, MovedIs, Parties
<1>7. id \notin DOMAIN purchaseOrders
  BY <1>1 DEF PoolInv, BankInv, TypeOK
<1>8. /\ Deposit(purchaseOrders, id) = 0
      /\ Deposit(purchaseOrders', id) = downpayment
  BY <1>3, <1>4, <1>7 DEF Deposit, MapSet, NewPurchaseOrder, AwaitsLoan
<1>9. /\ SameElsewhere(purchaseOrders, purchaseOrders', id)
      /\ SameElsewhere(poFinancing, poFinancing', 0)
  BY <1>4, SetElsewhere, SameEverywhere
<1>10. PICK a \in Nat : a = Advance(poFinancing, 0) /\ a = Advance(poFinancing', 0)
  BY <1>4, RecordsAreFinite DEF Advance, Offers, PoolInv
<1>11. Deposit(purchaseOrders', id) + Advance(poFinancing', 0)
         <= Deposit(purchaseOrders, id) + Advance(poFinancing, 0) + downpayment
  BY <1>8, <1>10
<1> QED
  BY <1>6, <1>9, <1>11, KeepsPool DEF PoolInv

(* An order canceled for the first time awaits no loan any more. *)
LEMMA CancelKeepsPool ==
  ASSUME PoolInv, [Next]_vars, NEW w \in Wallets, NEW id \in PurchaseOrderIds,
         CancelPurchaseOrder(w, id), ~purchaseOrders[id].isCanceled
  PROVE  PoolKept
<1> DEFINE po == purchaseOrders[id]
           new == [po EXCEPT !.isCanceled = TRUE]
<1>1. /\ po \in PurchaseOrder /\ DOMAIN purchaseOrders = PurchaseOrderIds
      /\ balances \in [Accounts -> Nat]
  BY Typed DEF PoolInv, BankInv, TypeOK, PurchaseOrderIds
<1>2. /\ CanTransfer(balances, Bank, po.downpayment, Bank, po.borrower)
      /\ balances' = Moved(balances, po.downpayment, Bank, po.borrower)
      /\ purchaseOrders' = MapSet(purchaseOrders, id, new)
      /\ poFinancing' = poFinancing
      /\ ~po.hasActiveFinancing
  BY Zenon DEF CancelPurchaseOrder, CanCancel
<1>3. po.acceptedFinancing = 0
  BY <1>2 DEF PoolInv, BankInv, OffersAndOrdersAgree, AcceptedOfferIsTheLoan
<1>4. PICK downpayment \in Nat : downpayment = po.downpayment
  BY <1>1 DEF PurchaseOrder
<1>5. po.borrower \in Wallets /\ new.isCanceled
  BY <1>1 DEF PurchaseOrder
<1>6. balances'[Bank] = balances[Bank] - downpayment
  BY <1>1, <1>2, <1>4, <1>5, MovedIs, Parties
<1>7. Deposit(purchaseOrders, id) = downpayment
  BY <1>1, <1>3, <1>4 DEF Deposit, AwaitsLoan
<1>8. Deposit(purchaseOrders', id) = 0
  <2> HIDE DEF new
  <2> QED
    BY <1>2, <1>5 DEF Deposit, AwaitsLoan, MapSet
<1>9. /\ SameElsewhere(purchaseOrders, purchaseOrders', id)
      /\ SameElsewhere(poFinancing, poFinancing', 0)
  BY <1>2, SetElsewhere, SameEverywhere
<1>10. PICK a \in Nat : a = Advance(poFinancing, 0) /\ a = Advance(poFinancing', 0)
  BY <1>2, RecordsAreFinite DEF Advance, Offers, PoolInv
<1>11. /\ -downpayment \in Int
       /\ balances'[Bank] = balances[Bank] + (-downpayment)
       /\ Deposit(purchaseOrders', id) + Advance(poFinancing', 0)
            <= Deposit(purchaseOrders, id) + Advance(poFinancing, 0) + (-downpayment)
  <2>1. balances[Bank] \in Nat
    BY <1>1, Parties
  <2> QED
    BY <1>6, <1>7, <1>8, <1>10, <2>1
<1> HIDE DEF po, new
<1> QED
  BY <1>9, <1>11, KeepsPool DEF PoolInv

(* The amount of an offer comes in with it. *)
LEMMA FinanceKeepsPool ==
  ASSUME PoolInv, [Next]_vars, NEW w \in Wallets, NEW id \in PurchaseOrderIds,
         Finance(w, id)
  PROVE  PoolKept
<1> DEFINE po == purchaseOrders[id]
<1>1. PICK fid, new : fid = nextFinancingId
                      /\ new = [po EXCEPT !.hasActiveFinancing = TRUE,
                                          !.proposedFinancing = fid]
  OBVIOUS
<1>2. /\ po \in PurchaseOrder /\ DOMAIN purchaseOrders = PurchaseOrderIds
      /\ balances \in [Accounts -> Nat]
      /\ po.downpayment < po.totalAmount
  BY Typed DEF PoolInv, BankInv, TypeOK, PurchaseOrderIds, ReferencesResolve
<1>3. PICK amount \in Nat : amount = AmountToFinance(po.totalAmount, po.downpayment)
  BY <1>2 DEF AmountToFinance, PurchaseOrder
<1>4. PICK offer : offer = NewFinancing(id, amount, w)
  OBVIOUS
<1>5. /\ CanTransfer(balances, w, amount, w, Bank)
      /\ balances' = Moved(balances, amount, w, Bank)
      /\ poFinancing' = MapSet(poFinancing, fid, offer)
      /\ purchaseOrders' = MapSet(purchaseOrders, id, new)
  BY <1>1, <1>3, <1>4, Zenon DEF Finance
<1>6. balances'[Bank] = balances[Bank] + amount
  BY <1>2, <1>5, MovedIs, Parties
<1>7. /\ new.isCanceled = po.isCanceled /\ new.downpayment = po.downpayment
      /\ new.acceptedFinancing = po.acceptedFinancing
  BY <1>1, <1>2 DEF PurchaseOrder
<1>8. PICK p \in Nat : p = Deposit(purchaseOrders, id)
  BY <1>2 DEF Deposit, PurchaseOrder
<1>9. Deposit(purchaseOrders', id) = p
  BY <1>2, <1>5, <1>7, <1>8 DEF Deposit, AwaitsLoan, MapSet
<1>10. fid \notin DOMAIN poFinancing
  BY <1>1 DEF PoolInv, BankInv, TypeOK
<1>11. Advance(poFinancing, fid) = 0 /\ Advance(poFinancing', fid) = amount
  BY <1>4, <1>5, <1>10 DEF Advance, IsLive, MapSet, NewFinancing
<1>12. /\ SameElsewhere(purchaseOrders, purchaseOrders', id)
       /\ SameElsewhere(poFinancing, poFinancing', fid)
  BY <1>5, SetElsewhere
<1>13. Deposit(purchaseOrders', id) + Advance(poFinancing', fid)
         <= Deposit(purchaseOrders, id) + Advance(poFinancing, fid) + amount
  BY <1>8, <1>9, <1>11
<1> HIDE DEF po
<1> QED
  BY <1>6, <1>12, <1>13, KeepsPool DEF PoolInv

(* An offer taken back was live. *)
LEMMA CancelFinancingKeepsPool ==
  ASSUME PoolInv, [Next]_vars, NEW w \in Wallets, NEW fid \in FinancingIds,
         CancelFinancing(w, fid)
  PROVE  PoolKept
<1> DEFINE offer == poFinancing[fid]
           new == [offer EXCEPT !.refunded = TRUE]
<1>1. /\ offer \in Financing /\ DOMAIN poFinancing = FinancingIds
      /\ balances \in [Accounts -> Nat] /\ ~offer.isRejected
  BY Typed DEF PoolInv, BankInv, TypeOK, FinancingIds, NoneRejected
<1>2. /\ CanRefund(offer)
      /\ CanTransfer(balances, Bank, offer.amount, Bank, offer.lender)
      /\ balances' = Moved(balances, offer.amount, Bank, offer.lender)
      /\ poFinancing' = MapSet(poFinancing, fid, new)
      /\ purchaseOrders' = purchaseOrders
  BY Zenon DEF CancelFinancing
<1>3. PICK amount \in Nat : amount = offer.amount
  BY <1>1 DEF Financing
<1>4. offer.lender \in Wallets /\ new.refunded
  BY <1>1 DEF Financing
<1>5. balances'[Bank] = balances[Bank] - amount
  BY <1>1, <1>2, <1>3, <1>4, MovedIs, Parties
<1>6. Advance(poFinancing, fid) = amount
  BY <1>1, <1>2, <1>3 DEF Advance, IsLive, CanRefund
<1>7. Advance(poFinancing', fid) = 0
  <2> HIDE DEF new
  <2> QED
    BY <1>2, <1>4 DEF Advance, IsLive, MapSet
<1>8. /\ SameElsewhere(purchaseOrders, purchaseOrders', 0)
      /\ SameElsewhere(poFinancing, poFinancing', fid)
  BY <1>2, SetElsewhere, SameEverywhere
<1>9. PICK p \in Nat : p = Deposit(purchaseOrders, 0) /\ p = Deposit(purchaseOrders', 0)
  BY <1>2, RecordsAreFinite DEF Deposit, Orders, PoolInv
<1>10. /\ -amount \in Int
       /\ balances'[Bank] = balances[Bank] + (-amount)
       /\ Deposit(purchaseOrders', 0) + Advance(poFinancing', fid)
            <= Deposit(purchaseOrders, 0) + Advance(poFinancing, fid) + (-amount)
  <2>1. balances[Bank] \in Nat
    BY <1>1, Parties
  <2> QED
    BY <1>5, <1>6, <1>7, <1>9, <2>1
<1> HIDE DEF offer, new
<1> QED
  BY <1>8, <1>10, KeepsPool DEF PoolInv
(* The seller gets the offer and the downpayment, both set aside until     *)
(* then, when the offer was not taken back before.                         *)
LEMMA AcceptKeepsPool ==
  ASSUME PoolInv, [Next]_vars, NEW w \in Wallets, AcceptFinancing(w),
         ~AcceptsRetracted
  PROVE  PoolKept
<1> SUFFICES ASSUME NEW id, id = activePurchaseOrders[w],
                    NEW fid, fid = purchaseOrders[id].proposedFinancing
             PROVE  PoolKept
  OBVIOUS
<1> DEFINE po == purchaseOrders[id]
           offer == poFinancing[fid]
<1>1. PICK new, taken, half :
        /\ new = AcceptedOrder(po, fid, offer)
        /\ taken = [offer EXCEPT !.isAccepted = TRUE, !.acceptedAt = blockHeight]
        /\ half = Moved(balances, offer.amount, Bank, po.seller)
  OBVIOUS
<1>2. /\ id \in PurchaseOrderIds /\ fid \in FinancingIds
      /\ offer.purchaseOrder = id
      /\ po.downpayment < po.totalAmount
  BY DEF AcceptFinancing, PoolInv, BankInv, ActiveOrderIsOpen, ReferencesResolve
<1>3. /\ po \in PurchaseOrder /\ offer \in Financing /\ fid \in Nat
      /\ DOMAIN purchaseOrders = PurchaseOrderIds
      /\ DOMAIN poFinancing = FinancingIds
      /\ balances \in [Accounts -> Nat] /\ ~offer.isRejected
  BY <1>2, Typed DEF PoolInv, BankInv, TypeOK, PurchaseOrderIds, FinancingIds,
     NoneRejected
<1>4. /\ id # 0 /\ fid # 0
      /\ CanAccept(po, offer)
      /\ CanTransfer(balances, Bank, offer.amount, Bank, po.seller)
      /\ CanTransfer(half, Bank, po.downpayment, Bank, po.seller)
      /\ balances' = Moved(half, po.downpayment, Bank, po.seller)
      /\ purchaseOrders' = MapSet(purchaseOrders, id, new)
      /\ poFinancing' = MapSet(poFinancing, fid, taken)
  BY <1>1, <1>2, Zenon DEF AcceptFinancing
<1>5. ~offer.refunded
  BY <1>4 DEF AcceptsRetracted
<1>6. PICK amount \in Nat, downpayment \in Nat :
        amount = offer.amount /\ downpayment = po.downpayment
  BY <1>3 DEF Financing, PurchaseOrder
<1>7. po.seller \in Wallets
  BY <1>3 DEF PurchaseOrder
<1>8. half \in [Accounts -> Nat] /\ half[Bank] = balances[Bank] - amount
  <2>1. /\ po.seller \in Accounts /\ Bank \in Accounts
        /\ half = Moved(balances, amount, Bank, po.seller)
        /\ CanTransfer(balances, Bank, amount, Bank, po.seller)
    BY <1>1, <1>4, <1>6, <1>7, Parties
  <2> HIDE DEF po, offer
  <2>2. half \in [Accounts -> Nat]
    BY <1>3, <2>1, MovedType
  <2>3. half[Bank] = balances[Bank] - amount
    BY <1>3, <2>1, MovedIs
  <2> QED
    BY <2>2, <2>3
<1>9. balances'[Bank] = half[Bank] - downpayment
  BY <1>4, <1>6, <1>7, <1>8, MovedIs, Parties
<1>10. new.acceptedFinancing = fid
  BY <1>1, <1>2, <1>3, AcceptedOrderIs
<1>11. taken.isAccepted
  BY <1>1, <1>3 DEF Financing
<1>12. /\ Deposit(purchaseOrders, id) = downpayment
       /\ Deposit(purchaseOrders', id) = 0
  <2>1. Deposit(purchaseOrders, id) = downpayment
    BY <1>2, <1>3, <1>4, <1>6 DEF Deposit, AwaitsLoan, CanAccept
  <2>2. Deposit(purchaseOrders', id) = 0
    BY <1>4, <1>10 DEF Deposit, AwaitsLoan, MapSet
  <2> QED
    BY <2>1, <2>2
<1>13. /\ Advance(poFinancing, fid) = amount
       /\ Advance(poFinancing', fid) = 0
  <2>1. Advance(poFinancing, fid) = amount
    BY <1>2, <1>3, <1>4, <1>5, <1>6 DEF Advance, IsLive, CanAccept
  <2>2. Advance(poFinancing', fid) = 0
    BY <1>4, <1>11 DEF Advance, IsLive, MapSet
  <2> QED
    BY <2>1, <2>2
<1>14. /\ SameElsewhere(purchaseOrders, purchaseOrders', id)
       /\ SameElsewhere(poFinancing, poFinancing', fid)
  BY <1>4, SetElsewhere
<1>15. PICK received \in Int : received = -(amount + downpayment)
  OBVIOUS
<1>16. /\ balances'[Bank] = balances[Bank] + received
       /\ Deposit(purchaseOrders', id) + Advance(poFinancing', fid)
            <= Deposit(purchaseOrders, id) + Advance(poFinancing, fid) + received
  <2>1. balances[Bank] \in Nat
    BY <1>3, Parties
  <2> QED
    BY <1>8, <1>9, <1>12, <1>13, <1>15, <2>1
<1> HIDE DEF po, offer
<1> QED
  BY <1>14, <1>16, KeepsPool DEF PoolInv

(* A step that neither pays out of the pool nor changes the offers, and    *)
(* rewrites an order that has its loan.                                    *)
LEMMA RunningKeepsPool ==
  ASSUME PoolInv, [Next]_vars, NEW id \in PurchaseOrderIds, NEW new,
         purchaseOrders[id].acceptedFinancing # 0, new.acceptedFinancing # 0,
         purchaseOrders' = MapSet(purchaseOrders, id, new),
         poFinancing' = poFinancing, balances'[Bank] = balances[Bank]
  PROVE  PoolKept
<1>1. /\ SameElsewhere(purchaseOrders, purchaseOrders', id)
      /\ SameElsewhere(poFinancing, poFinancing', 0)
  BY SetElsewhere, SameEverywhere
<1>2. Deposit(purchaseOrders, id) = 0 /\ Deposit(purchaseOrders', id) = 0
  BY DEF Deposit, AwaitsLoan, MapSet
<1>3. PICK a \in Nat : a = Advance(poFinancing, 0) /\ a = Advance(poFinancing', 0)
  BY RecordsAreFinite DEF Advance, Offers, PoolInv
<1>4. balances[Bank] \in Nat
  BY Typed DEF PoolInv, BankInv
<1>5. /\ balances'[Bank] = balances[Bank] + 0
      /\ Deposit(purchaseOrders', id) + Advance(poFinancing', 0)
           <= Deposit(purchaseOrders, id) + Advance(poFinancing, 0) + 0
  BY <1>2, <1>3, <1>4
<1> QED
  BY <1>1, <1>5, KeepsPool DEF PoolInv

(* Repaying passes the pool by: the borrower pays the owner and the lender. *)
LEMMA MakePaymentKeepsPool ==
  ASSUME PoolInv, [Next]_vars, NEW w \in Wallets, MakePayment(w)
  PROVE  PoolKept
<1> SUFFICES ASSUME NEW id, id = activePurchaseOrders[w] PROVE PoolKept
  OBVIOUS
<1> DEFINE po == purchaseOrders[id]
<1>1. PICK interest, new :
        /\ interest = InterestFor(po.outstanding, interestRatePerAnnum \div 4)
        /\ new = RepaidOrder(po)
  OBVIOUS
<1>2. PICK half : half = Moved(balances, interest, po.borrower, ContractOwner)
  OBVIOUS
<1>3. /\ id # 0 /\ po.acceptedFinancing # 0 /\ po.lender # None
      /\ CanTransfer(balances, w, interest, po.borrower, ContractOwner)
      /\ CanTransfer(half, w, po.outstanding, po.borrower, po.lender)
      /\ balances' = Moved(half, po.outstanding, po.borrower, po.lender)
      /\ purchaseOrders' = MapSet(purchaseOrders, id, new)
      /\ poFinancing' = poFinancing
  BY <1>1, <1>2, Zenon DEF MakePayment, CanMakePayment
<1>4. id \in PurchaseOrderIds
  BY <1>3 DEF PoolInv, BankInv, ActiveOrderIsOpen
<1>5. /\ po \in PurchaseOrder /\ balances \in [Accounts -> Nat]
      /\ interestRatePerAnnum \in Nat
  BY <1>4, Typed DEF PoolInv, BankInv, TypeOK
<1>6. po.borrower \in Wallets /\ po.lender \in Wallets /\ po.outstanding \in Nat
  BY <1>3, <1>5 DEF PurchaseOrder
<1>7. new.acceptedFinancing # 0
  BY <1>1, <1>3, <1>5 DEF RepaidOrder, PurchaseOrder
<1>8. balances'[Bank] = balances[Bank]
  <2>1. po.borrower # Bank /\ ContractOwner # Bank /\ po.lender # Bank
    BY <1>6, Parties
  <2>2. half[Bank] = balances[Bank]
    BY <1>2, <1>5, <2>1, Parties DEF Moved
  <2>3. Moved(half, po.outstanding, po.borrower, po.lender)[Bank] = half[Bank]
    BY <1>2, <1>5, <2>1, Parties DEF Moved
  <2> QED
    BY <1>3, <2>2, <2>3
<1> HIDE DEF po
<1> QED
  BY <1>3, <1>4, <1>7, <1>8, RunningKeepsPool DEF po

LEMMA HealthKeepsPool ==
  ASSUME PoolInv, [Next]_vars, NEW w \in Wallets, NEW id \in PurchaseOrderIds,
         CheckPurchaseOrderHealth(w, id)
  PROVE  PoolKept
<1> DEFINE po == purchaseOrders[id]
           new == [po EXCEPT !.completedSuccessfully = FALSE, !.isCompleted = TRUE]
<1>1. po \in PurchaseOrder
  BY Typed DEF PoolInv, BankInv
<1>2. /\ purchaseOrders' = MapSet(purchaseOrders, id, new)
      /\ poFinancing' = poFinancing /\ balances' = balances
      /\ CanEndPurchaseOrder(po)
  BY Zenon DEF CheckPurchaseOrderHealth
<1>3. po.acceptedFinancing # 0
  BY <1>2 DEF CanEndPurchaseOrder, PoolInv, BankInv, AcceptedOfferIsTheLoan
<1>4. new.acceptedFinancing # 0
  BY <1>1, <1>3 DEF PurchaseOrder
<1> HIDE DEF new
<1> QED
  BY <1>2, <1>3, <1>4, RunningKeepsPool

(* What wallets move between themselves can only add to the pool. *)
LEMMA WalletKeepsPool ==
  ASSUME PoolInv, [Next]_vars, NEW w \in Wallets, NEW amount \in WalletTransfers,
         NEW to \in Accounts, WalletTransfer(w, amount, to), UNCHANGED storage
  PROVE  PoolKept
<1>1. /\ balances \in [Accounts -> Nat] /\ amount \in Nat
      /\ w \in Accounts /\ w # Bank
  BY Typed, TokenAssumption, Parties DEF PoolInv, BankInv
<1>2. /\ CanTransfer(balances, w, amount, w, to)
      /\ balances' = Moved(balances, amount, w, to)
  BY DEF WalletTransfer
<1>3. PICK received \in Nat : received = IF to = Bank THEN amount ELSE 0
  BY <1>1
<1>4. balances[Bank] \in Nat
  BY <1>1, Parties
<1>5. balances'[Bank] = balances[Bank] + received
  BY <1>1, <1>2, <1>3, <1>4, MovedIs
<1>6. purchaseOrders' = purchaseOrders /\ poFinancing' = poFinancing
  BY DEF storage
<1> QED
  BY <1>5, <1>6, QuietKeepsPool DEF PoolInv

LEMMA StillKeepsPool ==
  ASSUME PoolInv, [Next]_vars, UNCHANGED storage, balances' = balances
  PROVE  PoolKept
<1>1. balances[Bank] \in Nat
  BY Typed DEF PoolInv, BankInv
<1>2. balances'[Bank] = balances[Bank] + 0
  BY <1>1
<1>3. purchaseOrders' = purchaseOrders /\ poFinancing' = poFinancing
  BY DEF storage
<1> QED
  BY <1>2, <1>3, QuietKeepsPool DEF PoolInv

-----------------------------------------------------------------------------
(* Every step *)

LEMMA NextKeepsPool ==
  ASSUME PoolInv, [Next]_vars
  PROVE  PoolKept \/ CancelsAgain \/ AcceptsRetracted
<1>1. CASE OrderNext
  <2>1. ASSUME NEW w \in Wallets, NEW id \in PurchaseOrderIds,
               CancelPurchaseOrder(w, id)
        PROVE  PoolKept \/ CancelsAgain
    BY <2>1, CancelKeepsPool DEF CancelsAgain
  <2>2. ASSUME NEW w \in Wallets, AcceptFinancing(w)
        PROVE  PoolKept \/ AcceptsRetracted
    BY <2>2, AcceptKeepsPool
  <2>3. ASSUME NEW w \in Wallets, RejectFinancing(w)
        PROVE  PoolKept
    BY <2>3, RejectChangesNothing, StillKeepsPool DEF vars
  <2>4. Lenders \subseteq Wallets
    BY TrackRecordsAssumption
  <2> QED
    BY <1>1, <2>1, <2>2, <2>3, <2>4, CreateKeepsPool, FinanceKeepsPool,
       CancelFinancingKeepsPool, MakePaymentKeepsPool, HealthKeepsPool
       DEF OrderNext
<1>2. CASE OwnerNext
  BY <1>2, StillKeepsPool DEF OwnerNext, UpdateInterestRate, UpdateDueDate,
     UpdateGracePeriod, SetBlocksTime, PauseContract, ResumeContract
<1>3. CASE EnvironmentNext
  BY <1>3, StillKeepsPool, WalletKeepsPool DEF EnvironmentNext, MineBlocks
<1>4. CASE UNCHANGED vars
  BY <1>4, StillKeepsPool DEF vars
<1> QED
  BY <1>1, <1>2, <1>3, <1>4 DEF Next

LEMMA NextRejectsNone ==
  ASSUME PoolInv, [Next]_vars
  PROVE  NoneRejected'
<1>1. \A fid \in FinancingIds : poFinancing[fid] \in Financing
  BY Typed DEF PoolInv, BankInv
<1>2. ASSUME poFinancing' = poFinancing, nextFinancingId' = nextFinancingId
      PROVE  NoneRejected'
  BY <1>2 DEF PoolInv, NoneRejected, FinancingIds
<1>3. ASSUME NEW w \in Wallets, NEW id \in PurchaseOrderIds, Finance(w, id)
      PROVE  NoneRejected'
  <2> DEFINE po == purchaseOrders[id]
  <2>1. PICK offer :
          offer = NewFinancing(id, AmountToFinance(po.totalAmount, po.downpayment), w)
    OBVIOUS
  <2>2. /\ poFinancing' = MapSet(poFinancing, nextFinancingId, offer)
        /\ nextFinancingId' = nextFinancingId + 1
    BY <1>3, <2>1, Zenon DEF Finance
  <2>3. po \in PurchaseOrder /\ po.downpayment < po.totalAmount
    BY Typed DEF PoolInv, BankInv, ReferencesResolve
  <2>4. offer \in Financing /\ ~offer.isRejected
    <3>1. PICK amount \in Nat :
            amount = AmountToFinance(po.totalAmount, po.downpayment)
      BY <2>3 DEF AmountToFinance, PurchaseOrder
    <3>2. offer = NewFinancing(id, amount, w)
      BY <2>1, <3>1
    <3>3. id \in Nat
      BY DEF PurchaseOrderIds
    <3> QED
      BY <3>2, <3>3 DEF NewFinancing, Financing
  <2>5. /\ FinancingIds' = FinancingIds \cup {nextFinancingId}
        /\ \A j \in FinancingIds : poFinancing'[j] = poFinancing[j]
        /\ poFinancing'[nextFinancingId] = offer
    BY <2>2, <2>4, OfferAdded DEF PoolInv, BankInv
  <2> QED
    BY <2>4, <2>5 DEF PoolInv, NoneRejected
<1>4. ASSUME NEW fid \in FinancingIds, NEW new \in Financing, ~new.isRejected,
             poFinancing' = MapSet(poFinancing, fid, new),
             nextFinancingId' = nextFinancingId
      PROVE  NoneRejected'
  <2>1. /\ FinancingIds' = FinancingIds
        /\ \A g \in FinancingIds :
             poFinancing'[g] = IF g = fid THEN new ELSE poFinancing[g]
    BY <1>4, OfferStored DEF PoolInv, BankInv
  <2> QED
    BY <1>4, <2>1 DEF PoolInv, NoneRejected
<1>5. ASSUME NEW w \in Wallets, NEW fid \in FinancingIds, CancelFinancing(w, fid)
      PROVE  NoneRejected'
  <2>1. PICK new : new = [poFinancing[fid] EXCEPT !.refunded = TRUE]
    OBVIOUS
  <2>2. /\ poFinancing' = MapSet(poFinancing, fid, new)
        /\ nextFinancingId' = nextFinancingId
    BY <1>5, <2>1, Zenon DEF CancelFinancing
  <2>3. new \in Financing /\ ~new.isRejected
    BY <1>1, <2>1 DEF Financing, PoolInv, NoneRejected
  <2> QED
    BY <1>4, <2>2, <2>3
<1>6. ASSUME NEW w \in Wallets, AcceptFinancing(w)
      PROVE  NoneRejected'
  <2>1. PICK id, fid : /\ id = activePurchaseOrders[w]
                       /\ fid = purchaseOrders[id].proposedFinancing
    OBVIOUS
  <2>2. id \in PurchaseOrderIds /\ fid \in FinancingIds
    BY <1>6, <2>1 DEF AcceptFinancing, PoolInv, BankInv, ActiveOrderIsOpen,
       ReferencesResolve
  <2>3. PICK new : new = [poFinancing[fid] EXCEPT !.isAccepted = TRUE,
                                                  !.acceptedAt = blockHeight]
    OBVIOUS
  <2>4. /\ poFinancing' = MapSet(poFinancing, fid, new)
        /\ nextFinancingId' = nextFinancingId
    BY <1>6, <2>1, <2>3, Zenon DEF AcceptFinancing
  <2>5. new \in Financing /\ ~new.isRejected
    <3>1. blockHeight \in Nat
      BY DEF PoolInv, BankInv, TypeOK
    <3> QED
      BY <1>1, <2>2, <2>3, <3>1 DEF Financing, PoolInv, NoneRejected
  <2> QED
    BY <1>4, <2>2, <2>4, <2>5
<1>7. CASE OrderNext
  <2>1. \A w \in Wallets : RejectFinancing(w) => NoneRejected'
    BY <1>2, RejectChangesNothing DEF vars, storage
  <2>2. Lenders \subseteq Wallets
    BY TrackRecordsAssumption
  <2>3. \A w, a, b, s : CreatePurchaseOrder(w, a, b, s) => NoneRejected'
    BY <1>2 DEF CreatePurchaseOrder
  <2>4. \A w, id : CancelPurchaseOrder(w, id) => NoneRejected'
    BY <1>2 DEF CancelPurchaseOrder
  <2>5. \A w : MakePayment(w) => NoneRejected'
    BY <1>2 DEF MakePayment, CanMakePayment
  <2>6. \A w, id : CheckPurchaseOrderHealth(w, id) => NoneRejected'
    BY <1>2 DEF CheckPurchaseOrderHealth
  <2> QED
    BY <1>3, <1>5, <1>6, <1>7, <2>1, <2>2, <2>3, <2>4, <2>5, <2>6 DEF OrderNext
<1>8. CASE OwnerNext
  BY <1>2, <1>8 DEF OwnerNext, UpdateInterestRate, UpdateDueDate,
     UpdateGracePeriod, SetBlocksTime, PauseContract, ResumeContract, storage
<1>9. CASE EnvironmentNext
  BY <1>2, <1>9 DEF EnvironmentNext, MineBlocks, storage
<1> QED
  BY <1>2, <1>7, <1>8, <1>9 DEF Next, vars, storage

(* The inductive invariant of the pool: that of the bank, and no offer is  *)
(* ever marked rejected, since reject-financing fails at its transfer.     *)
THEOREM PoolInvariant == Spec => []PoolInv
<1>1. Init => PoolInv
  <2> SUFFICES ASSUME Init PROVE PoolInv
    OBVIOUS
  <2>1. FinancingIds = {}
    BY DEF Init, FinancingIds
  <2> QED
    BY <2>1, InitInv DEF PoolInv, NoneRejected
<1>2. PoolInv /\ [Next]_vars => PoolInv'
  BY NextInv, NextRejectsNone DEF PoolInv
<1> QED
  BY <1>1, <1>2, PTL DEF Spec

(* Whatever the interleaving of orders, offers, refunds and payments, no   *)
(* transaction takes the pool below what the records set aside, except for *)
(* canceling an order again and accepting an offer that was taken back.    *)
THEOREM PoolAlwaysCovers == Spec => PoolCoversRecords
<1>1. PoolInv /\ BankInv' /\ [Next]_vars =>
        [ balances'[Bank] - Escrowed' < balances[Bank] - Escrowed
            => CancelsAgain \/ AcceptsRetracted ]_vars
  <2> SUFFICES ASSUME PoolInv, BankInv', [Next]_vars, ~CancelsAgain,
                      ~AcceptsRetracted
               PROVE  ~(balances'[Bank] - Escrowed' < balances[Bank] - Escrowed)
    OBVIOUS
  <2>1. PoolKept
    BY NextKeepsPool
  <2>2. Escrowed \in Nat /\ Escrowed' \in Nat
    <3>1. /\ Orders(purchaseOrders) /\ Orders(purchaseOrders')
          /\ Offers(poFinancing) /\ Offers(poFinancing')
      BY RecordsAreFinite, RecordsStayFinite DEF PoolInv
    <3>2. \A o : Orders(o) => DownpaymentsHeld(o) \in Nat
      BY DownpaymentsChange, SameEverywhere
    <3>3. \A o : Offers(o) => OffersHeld(o) \in Nat
      BY OffersChange, SameEverywhere
    <3> QED
      BY <3>1, <3>2, <3>3 DEF Escrowed
  <2>3. balances[Bank] \in Nat /\ balances'[Bank] \in Nat
    BY Parties DEF PoolInv, BankInv, TypeOK, TokenTypeOK
  <2>4. PICK b \in Nat, b2 \in Nat, e \in Nat, e2 \in Nat :
          /\ b = balances[Bank] /\ b2 = balances'[Bank]
          /\ e = Escrowed /\ e2 = Escrowed'
    BY <2>2, <2>3
  <2> QED
    BY <2>1, <2>4 DEF PoolKept
<1> QED
  BY <1>1, PoolInvariant, BankInvariant, PTL DEF Spec, PoolCoversRecords
==============================================================================
