--------------------------- MODULE TaralBankProofs ---------------------------
(***************************************************************************)
(* Theorems about TaralBank, for every set of wallets, every quote and     *)
(* every setting of the terms: BankInv is an invariant.                    *)
(***************************************************************************)
EXTENDS TaralBankSafety, TLAPS

-----------------------------------------------------------------------------
(* The helpers *)

(* A transfer that the token accepts leaves every balance a natural. *)
LEMMA MovedType ==
  ASSUME NEW bal \in [Accounts -> Nat], NEW amount \in Nat,
         NEW caller, NEW from \in Accounts, NEW to \in Accounts,
         CanTransfer(bal, caller, amount, from, to)
  PROVE  Moved(bal, amount, from, to) \in [Accounts -> Nat]
BY DEF CanTransfer, Moved

(* The interest of a loan is the given percentage of it, rounded down. *)
THEOREM InterestIsPercentage ==
  \A amount, rate \in Nat :
    InterestFor(amount, rate) = (amount * rate) \div 100
<1> TAKE amount, rate \in Nat
<1> DEFINE share == amount * rate
<1>1. share \in Nat
  OBVIOUS
<1> HIDE DEF share
<1>2. ((amount * 100) + share) \div 100 = amount + (share \div 100)
  BY <1>1
<1>3. share \div 100 \in Nat
  BY <1>1
<1>4. InterestFor(amount, rate) = ((amount * 100) + share) \div 100 - amount
  BY DEF InterestFor, share
<1>5. InterestFor(amount, rate) = share \div 100
  BY <1>2, <1>3, <1>4
<1> QED
  BY <1>5 DEF share

(* An update of a track record leaves all of them well typed. *)
LEMMA CreditedType ==
  ASSUME NEW records \in [Roles -> [Wallets -> TrackRecord]],
         NEW role \in Roles, NEW w \in Wallets, NEW success \in BOOLEAN
  PROVE  Credited(records, role, w, success)
           \in [Roles -> [Wallets -> TrackRecord]]
BY DEF Credited, TrackRecord

-----------------------------------------------------------------------------
(* The initial state, and the steps that leave the storage alone *)

LEMMA InitInv == Init => BankInv
<1> SUFFICES ASSUME Init PROVE BankInv
  OBVIOUS
<1> USE BankAssumption, TokenAssumption
<1>1. 1..(1 - 1) = {} /\ DOMAIN <<>> = {}
  OBVIOUS
<1>2. TypeOK
  <2>1. TokenTypeOK
    BY DEF Init, TokenInit, TokenTypeOK, Accounts
  <2>2. TrackRecordsTypeOK
    BY DEF Init, TrackRecordsInit, TrackRecordsTypeOK, Entry, TrackRecord
  <2>3. \A S : <<>> \in [1..(1 - 1) -> S]
    OBVIOUS
  <2>4. /\ purchaseOrders \in [1..(nextPurchaseOrderId - 1) -> PurchaseOrder]
        /\ poFinancing \in [1..(nextFinancingId - 1) -> Financing]
        /\ payments \in [1..(nextPaymentId - 1) -> Payment]
    BY <2>3, Zenon DEF Init
  <2>5. /\ nextPurchaseOrderId \in Nat \ {0} /\ nextFinancingId \in Nat \ {0}
        /\ nextPaymentId \in Nat \ {0} /\ blockHeight \in Nat
        /\ interestRatePerAnnum \in Nat /\ poDueDate \in Nat
        /\ gracePeriodInDays \in Nat /\ blocksTimeInSeconds \in Nat
        /\ activePurchaseOrders \in [Wallets -> Nat]
    BY DEF Init
  <2> QED
    BY <2>1, <2>2, <2>4, <2>5, Zenon DEF TypeOK, Init
<1>3. /\ PurchaseOrderIds = {} /\ FinancingIds = {} /\ DOMAIN payments = {}
      /\ \A w \in Wallets : activePurchaseOrders[w] = 0
  BY <1>1 DEF Init, PurchaseOrderIds, FinancingIds
<1> QED
  BY <1>2, <1>3 DEF BankInv, ReferencesResolve, OffersAndOrdersAgree,
     AcceptedOfferIsTheLoan, ActiveOrderIsOpen, RepaidExactlyOnce

(* The parts of BankInv that only speak of the storage. *)
LEMMA StorageUnchanged ==
  ASSUME BankInv, TypeOK', UNCHANGED storage
  PROVE  BankInv'
BY DEF BankInv, ReferencesResolve, OffersAndOrdersAgree,
   AcceptedOfferIsTheLoan, ActiveOrderIsOpen, RepaidExactlyOnce, storage,
   PurchaseOrderIds, FinancingIds

LEMMA OwnerInv == BankInv /\ OwnerNext => BankInv'
<1> SUFFICES ASSUME BankInv, OwnerNext PROVE BankInv'
  OBVIOUS
<1>1. UNCHANGED storage
  BY DEF OwnerNext, UpdateInterestRate, UpdateDueDate, UpdateGracePeriod,
     SetBlocksTime, PauseContract, ResumeContract
<1>2. TypeOK'
  BY BankAssumption DEF BankInv, TypeOK, TokenTypeOK, TrackRecordsTypeOK,
     OwnerNext, UpdateInterestRate, UpdateDueDate, UpdateGracePeriod,
     SetBlocksTime, PauseContract, ResumeContract, storage, terms
<1> QED
  BY <1>1, <1>2, StorageUnchanged

(* RejectFinancing never gets past its transfer: the caller is a wallet,   *)
(* the sender of the transfer the bank.                                    *)
LEMMA RejectChangesNothing ==
  ASSUME NEW w \in Wallets, RejectFinancing(w)
  PROVE  UNCHANGED vars
<1>1. w # Bank
  BY BankAssumption, PrincipalsAssumption
<1> QED
  BY <1>1 DEF RejectFinancing, CanTransfer

LEMMA StutterInv == BankInv /\ UNCHANGED vars => BankInv'
<1> SUFFICES ASSUME BankInv, UNCHANGED vars PROVE BankInv'
  OBVIOUS
<1>1. UNCHANGED storage
  BY DEF vars
<1>2. TypeOK'
  BY DEF BankInv, TypeOK, TokenTypeOK, TrackRecordsTypeOK, vars, storage, terms
<1> QED
  BY <1>1, <1>2, StorageUnchanged

LEMMA RegistriesType ==
  TrackRecordsTypeOK /\ TrackRecordsNext => TrackRecordsTypeOK'
<1> SUFFICES ASSUME TrackRecordsTypeOK, TrackRecordsNext
             PROVE  TrackRecordsTypeOK'
  OBVIOUS
<1>1. ASSUME NEW role \in Roles, NEW w \in Wallets,
             trackRecords' = [trackRecords EXCEPT ![role][w] = Entry(TRUE)]
      PROVE  TrackRecordsTypeOK'
  <2>1. Entry(TRUE) \in TrackRecord
    BY DEF Entry, TrackRecord
  <2> QED
    BY <1>1, <2>1 DEF TrackRecordsTypeOK
<1>2. "importer" \in Roles /\ "exporter" \in Roles /\ "lender" \in Roles
  BY DEF Roles
<1>3. CASE \E w \in Importers : RegisterTrader("importer", w)
  BY <1>1, <1>2, <1>3, TrackRecordsAssumption DEF RegisterTrader
<1>4. CASE \E w \in Exporters : RegisterTrader("exporter", w)
  BY <1>1, <1>2, <1>4, TrackRecordsAssumption DEF RegisterTrader
<1>5. CASE \E w \in Lenders : RegisterLender(w)
  BY <1>1, <1>2, <1>5, TrackRecordsAssumption DEF RegisterLender
<1>6. CASE \E role \in Roles, w \in Wallets, good \in BOOLEAN :
             UpdateTrackRecord(role, w, good)
  BY <1>6, CreditedType DEF UpdateTrackRecord, TrackRecordsTypeOK
<1> QED
  BY <1>3, <1>4, <1>5, <1>6 DEF TrackRecordsNext

LEMMA EnvironmentInv == BankInv /\ EnvironmentNext => BankInv'
<1> SUFFICES ASSUME BankInv, EnvironmentNext PROVE BankInv'
  OBVIOUS
<1>1. UNCHANGED storage
  BY DEF EnvironmentNext, MineBlocks
<1>2. TypeOK'
  <2>1. CASE MineBlocks
    BY <2>1, BankAssumption DEF BankInv, TypeOK, TokenTypeOK,
       TrackRecordsTypeOK, MineBlocks, storage, terms
  <2>2. CASE /\ TrackRecordsNext
             /\ UNCHANGED <<storage, contractPaused, terms, blockHeight, balances>>
    <3>1. TrackRecordsTypeOK'
      BY <2>2, RegistriesType DEF BankInv, TypeOK
    <3> QED
      BY <2>2, <3>1 DEF BankInv, TypeOK, TokenTypeOK, storage, terms
  <2>3. CASE /\ \E w \in Wallets, amount \in WalletTransfers, to \in Accounts :
                  WalletTransfer(w, amount, to)
             /\ UNCHANGED <<storage, contractPaused, terms, blockHeight,
                            trackRecords>>
    <3>1. TokenTypeOK'
      <4>1. PICK w \in Wallets, amount \in WalletTransfers, to \in Accounts :
              WalletTransfer(w, amount, to)
        BY <2>3
      <4>2. w \in Accounts /\ amount \in Nat /\ balances \in [Accounts -> Nat]
        BY TokenAssumption DEF BankInv, TypeOK, TokenTypeOK, Accounts
      <4> QED
        BY <4>1, <4>2, MovedType DEF WalletTransfer, TokenTypeOK
    <3> QED
      BY <2>3, <3>1 DEF BankInv, TypeOK, TrackRecordsTypeOK, storage, terms
  <2> QED
    BY <2>1, <2>2, <2>3 DEF EnvironmentNext
<1> QED
  BY <1>1, <1>2, StorageUnchanged

-----------------------------------------------------------------------------
(* The calls that change the storage *)

(* What a step may rely on about the identifiers and the pool. *)
LEMMA Typed ==
  ASSUME TypeOK
  PROVE  /\ nextPurchaseOrderId - 1 \in Nat /\ nextFinancingId - 1 \in Nat
         /\ nextPaymentId - 1 \in Nat
         /\ \A id \in PurchaseOrderIds : purchaseOrders[id] \in PurchaseOrder
         /\ \A fid \in FinancingIds : poFinancing[fid] \in Financing
         /\ \A k \in DOMAIN payments : payments[k] \in Payment
         /\ DOMAIN payments = 1..(nextPaymentId - 1)
         /\ balances \in [Accounts -> Nat]
         /\ Bank \in Accounts /\ Wallets \subseteq Accounts
         /\ None \notin Wallets
BY BankAssumption DEF TypeOK, TokenTypeOK, PurchaseOrderIds, FinancingIds, Accounts

(* After a call that stores new as order id and creates no order, every    *)
(* other order is what it was; the same for offers.                        *)
LEMMA OrderStored ==
  ASSUME TypeOK, NEW id \in PurchaseOrderIds, NEW new \in PurchaseOrder,
         purchaseOrders' = MapSet(purchaseOrders, id, new),
         nextPurchaseOrderId' = nextPurchaseOrderId
  PROVE  /\ purchaseOrders' \in [1..(nextPurchaseOrderId' - 1) -> PurchaseOrder]
         /\ PurchaseOrderIds' = PurchaseOrderIds
         /\ \A j \in PurchaseOrderIds :
              purchaseOrders'[j] = IF j = id THEN new ELSE purchaseOrders[j]
<1> DEFINE n == nextPurchaseOrderId - 1
<1>1. /\ n \in Nat /\ id \in 1..n
      /\ purchaseOrders \in [1..n -> PurchaseOrder]
  BY Typed DEF TypeOK, PurchaseOrderIds
<1> HIDE DEF n
<1>2. /\ MapSet(purchaseOrders, id, new) \in [1..n -> PurchaseOrder]
      /\ \A j \in 1..n : MapSet(purchaseOrders, id, new)[j]
                           = IF j = id THEN new ELSE purchaseOrders[j]
  BY <1>1 DEF MapSet
<1> QED
  BY <1>2 DEF PurchaseOrderIds, n

LEMMA OfferStored ==
  ASSUME TypeOK, NEW fid \in FinancingIds, NEW new \in Financing,
         poFinancing' = MapSet(poFinancing, fid, new),
         nextFinancingId' = nextFinancingId
  PROVE  /\ poFinancing' \in [1..(nextFinancingId' - 1) -> Financing]
         /\ FinancingIds' = FinancingIds
         /\ \A g \in FinancingIds :
              poFinancing'[g] = IF g = fid THEN new ELSE poFinancing[g]
<1> DEFINE n == nextFinancingId - 1
<1>1. n \in Nat /\ fid \in 1..n /\ poFinancing \in [1..n -> Financing]
  BY Typed DEF TypeOK, FinancingIds
<1> HIDE DEF n
<1>2. /\ MapSet(poFinancing, fid, new) \in [1..n -> Financing]
      /\ \A g \in 1..n : MapSet(poFinancing, fid, new)[g]
                           = IF g = fid THEN new ELSE poFinancing[g]
  BY <1>1 DEF MapSet
<1> QED
  BY <1>2 DEF FinancingIds, n

(* A call that stores new under the next identifier leaves every record    *)
(* there was as it is.                                                     *)
LEMMA OrderAdded ==
  ASSUME TypeOK, NEW new \in PurchaseOrder,
         purchaseOrders' = MapSet(purchaseOrders, nextPurchaseOrderId, new),
         nextPurchaseOrderId' = nextPurchaseOrderId + 1
  PROVE  /\ purchaseOrders' \in [1..(nextPurchaseOrderId' - 1) -> PurchaseOrder]
         /\ PurchaseOrderIds' = PurchaseOrderIds \cup {nextPurchaseOrderId}
         /\ nextPurchaseOrderId \notin PurchaseOrderIds
         /\ \A j \in PurchaseOrderIds : purchaseOrders'[j] = purchaseOrders[j]
         /\ purchaseOrders'[nextPurchaseOrderId] = new
<1> DEFINE n == nextPurchaseOrderId
           m == purchaseOrders
<1>1. n \in Nat \ {0} /\ m \in [1..(n - 1) -> PurchaseOrder]
  BY DEF TypeOK
<1>2. nextPurchaseOrderId' - 1 = n /\ purchaseOrders' = MapSet(m, n, new)
  BY <1>1
<1>3. PurchaseOrderIds = 1..(n - 1) /\ PurchaseOrderIds' = 1..n
  BY <1>1, <1>2 DEF PurchaseOrderIds
<1> HIDE DEF n, m
<1>4. 1..n = 1..(n - 1) \cup {n} /\ n \notin 1..(n - 1)
  BY <1>1
<1>5. /\ MapSet(m, n, new) \in [1..n -> PurchaseOrder]
      /\ \A j \in 1..(n - 1) : MapSet(m, n, new)[j] = m[j]
      /\ MapSet(m, n, new)[n] = new
  BY <1>1, <1>4 DEF MapSet
<1> QED
  BY <1>2, <1>3, <1>4, <1>5 DEF n, m

LEMMA OfferAdded ==
  ASSUME TypeOK, NEW new \in Financing,
         poFinancing' = MapSet(poFinancing, nextFinancingId, new),
         nextFinancingId' = nextFinancingId + 1
  PROVE  /\ poFinancing' \in [1..(nextFinancingId' - 1) -> Financing]
         /\ FinancingIds' = FinancingIds \cup {nextFinancingId}
         /\ nextFinancingId \notin FinancingIds
         /\ \A j \in FinancingIds : poFinancing'[j] = poFinancing[j]
         /\ poFinancing'[nextFinancingId] = new
<1> DEFINE n == nextFinancingId
           m == poFinancing
<1>1. n \in Nat \ {0} /\ m \in [1..(n - 1) -> Financing]
  BY DEF TypeOK
<1>2. nextFinancingId' - 1 = n /\ poFinancing' = MapSet(m, n, new)
  BY <1>1
<1>3. FinancingIds = 1..(n - 1) /\ FinancingIds' = 1..n
  BY <1>1, <1>2 DEF FinancingIds
<1> HIDE DEF n, m
<1>4. 1..n = 1..(n - 1) \cup {n} /\ n \notin 1..(n - 1)
  BY <1>1
<1>5. /\ MapSet(m, n, new) \in [1..n -> Financing]
      /\ \A j \in 1..(n - 1) : MapSet(m, n, new)[j] = m[j]
      /\ MapSet(m, n, new)[n] = new
  BY <1>1, <1>4 DEF MapSet
<1> QED
  BY <1>2, <1>3, <1>4, <1>5 DEF n, m

LEMMA PaymentAdded ==
  ASSUME TypeOK, NEW new \in Payment,
         payments' = MapSet(payments, nextPaymentId, new),
         nextPaymentId' = nextPaymentId + 1
  PROVE  /\ payments' \in [1..(nextPaymentId' - 1) -> Payment]
         /\ DOMAIN payments' = DOMAIN payments \cup {nextPaymentId}
         /\ nextPaymentId \notin DOMAIN payments
         /\ \A j \in DOMAIN payments : payments'[j] = payments[j]
         /\ payments'[nextPaymentId] = new
<1> DEFINE n == nextPaymentId
           m == payments
<1>1. n \in Nat \ {0} /\ m \in [1..(n - 1) -> Payment]
  BY DEF TypeOK
<1>2. nextPaymentId' - 1 = n /\ payments' = MapSet(m, n, new)
  BY <1>1
<1>3. DOMAIN m = 1..(n - 1)
  BY <1>1
<1> HIDE DEF n, m
<1>4. 1..n = 1..(n - 1) \cup {n} /\ n \notin 1..(n - 1)
  BY <1>1
<1>5. /\ MapSet(m, n, new) \in [1..n -> Payment]
      /\ \A j \in 1..(n - 1) : MapSet(m, n, new)[j] = m[j]
      /\ MapSet(m, n, new)[n] = new
  BY <1>1, <1>4 DEF MapSet
<1>6. DOMAIN MapSet(m, n, new) = 1..n
  BY <1>5
<1> QED
  BY <1>2, <1>3, <1>4, <1>5, <1>6 DEF n, m

LEMMA CancelFinancingInv ==
  ASSUME BankInv, NEW w \in Wallets, NEW fid \in FinancingIds,
         CancelFinancing(w, fid)
  PROVE  BankInv'
<1> DEFINE offer == poFinancing[fid]
           new == [offer EXCEPT !.refunded = TRUE]
<1>1. TypeOK
  BY DEF BankInv
<1>2. offer \in Financing
  BY <1>1, Typed
<1>3. /\ new \in Financing
      /\ new.purchaseOrder = offer.purchaseOrder /\ new.amount = offer.amount
      /\ new.lender = offer.lender /\ new.isAccepted = offer.isAccepted
  BY <1>2 DEF Financing
<1>4. /\ poFinancing' \in [1..(nextFinancingId' - 1) -> Financing]
      /\ FinancingIds' = FinancingIds
      /\ \A g \in FinancingIds :
           poFinancing'[g] = IF g = fid THEN new ELSE poFinancing[g]
  <2>1. /\ poFinancing' = MapSet(poFinancing, fid, new)
        /\ nextFinancingId' = nextFinancingId
    BY Zenon DEF CancelFinancing
  <2> HIDE DEF new
  <2> QED
    BY <1>1, <1>3, <2>1, OfferStored
<1> HIDE DEF new
<1>5. /\ PurchaseOrderIds' = PurchaseOrderIds
      /\ purchaseOrders' = purchaseOrders /\ payments' = payments
      /\ activePurchaseOrders' = activePurchaseOrders
  BY DEF CancelFinancing, PurchaseOrderIds
<1>6. \A g \in FinancingIds :
        /\ poFinancing'[g].purchaseOrder = poFinancing[g].purchaseOrder
        /\ poFinancing'[g].amount = poFinancing[g].amount
        /\ poFinancing'[g].lender = poFinancing[g].lender
        /\ poFinancing'[g].isAccepted = poFinancing[g].isAccepted
  BY <1>3, <1>4
<1>7. TypeOK'
  <2>1. TokenTypeOK'
    BY <1>1, <1>2, Typed, MovedType DEF CancelFinancing, TokenTypeOK, Financing
  <2> QED
    BY <1>1, <1>4, <2>1 DEF TypeOK, TrackRecordsTypeOK, CancelFinancing, terms
<1>8. ReferencesResolve'
  BY <1>4, <1>5, <1>6 DEF BankInv, ReferencesResolve
<1>9. OffersAndOrdersAgree'
  BY <1>4, <1>5, <1>6 DEF BankInv, OffersAndOrdersAgree
<1>10. AcceptedOfferIsTheLoan'
  BY <1>4, <1>5, <1>6 DEF BankInv, AcceptedOfferIsTheLoan
<1>11. ActiveOrderIsOpen'
  BY <1>5 DEF BankInv, ActiveOrderIsOpen
<1>12. RepaidExactlyOnce'
  BY <1>5 DEF BankInv, RepaidExactlyOnce
<1> QED
  BY <1>7, <1>8, <1>9, <1>10, <1>11, <1>12 DEF BankInv

LEMMA CancelPurchaseOrderInv ==
  ASSUME BankInv, NEW w \in Wallets, NEW id \in PurchaseOrderIds,
         CancelPurchaseOrder(w, id)
  PROVE  BankInv'
<1> DEFINE po == purchaseOrders[id]
           new == [po EXCEPT !.isCanceled = TRUE]
<1>1. TypeOK
  BY DEF BankInv
<1>2. po \in PurchaseOrder
  BY <1>1, Typed
<1>3. /\ new \in PurchaseOrder
      /\ new.borrower = po.borrower /\ new.lender = po.lender
      /\ new.seller = po.seller /\ new.totalAmount = po.totalAmount
      /\ new.downpayment = po.downpayment /\ new.outstanding = po.outstanding
      /\ new.isCompleted = po.isCompleted
      /\ new.completedSuccessfully = po.completedSuccessfully
      /\ new.acceptedFinancing = po.acceptedFinancing
      /\ new.proposedFinancing = po.proposedFinancing
      /\ new.hasActiveFinancing = po.hasActiveFinancing
  BY <1>2 DEF PurchaseOrder
<1>4. /\ purchaseOrders' \in [1..(nextPurchaseOrderId' - 1) -> PurchaseOrder]
      /\ PurchaseOrderIds' = PurchaseOrderIds
      /\ \A j \in PurchaseOrderIds :
           purchaseOrders'[j] = IF j = id THEN new ELSE purchaseOrders[j]
  <2>1. /\ purchaseOrders' = MapSet(purchaseOrders, id, new)
        /\ nextPurchaseOrderId' = nextPurchaseOrderId
    BY Zenon DEF CancelPurchaseOrder
  <2> HIDE DEF new
  <2> QED
    BY <1>1, <1>3, <2>1, OrderStored
<1> HIDE DEF new
<1>5. /\ FinancingIds' = FinancingIds /\ poFinancing' = poFinancing
      /\ payments' = payments
      /\ activePurchaseOrders' = [activePurchaseOrders EXCEPT ![po.borrower] = 0]
  BY DEF CancelPurchaseOrder, FinancingIds, WithoutActive
(* No offer names the order, so that none was accepted for it. *)
<1>6. /\ ~po.hasActiveFinancing
      /\ po.acceptedFinancing = 0
      /\ \A fid \in FinancingIds : poFinancing[fid].purchaseOrder # id
  BY DEF CancelPurchaseOrder, CanCancel, BankInv, OffersAndOrdersAgree,
     AcceptedOfferIsTheLoan
<1>7. TypeOK'
  <2>1. TokenTypeOK'
    BY <1>1, <1>2, Typed, MovedType DEF CancelPurchaseOrder, TokenTypeOK,
       PurchaseOrder
  <2>2. activePurchaseOrders' \in [Wallets -> Nat]
    BY <1>1, <1>5 DEF TypeOK
  <2> QED
    BY <1>1, <1>4, <2>1, <2>2 DEF TypeOK, TrackRecordsTypeOK,
       CancelPurchaseOrder, terms
<1>8. ReferencesResolve'
  BY <1>3, <1>4, <1>5 DEF BankInv, ReferencesResolve
<1>9. OffersAndOrdersAgree'
  BY <1>4, <1>5, <1>6 DEF BankInv, OffersAndOrdersAgree
<1>10. AcceptedOfferIsTheLoan'
  BY <1>3, <1>4, <1>5, <1>6 DEF BankInv, AcceptedOfferIsTheLoan,
     OffersAndOrdersAgree
<1>11. ActiveOrderIsOpen'
  <2>1. \A v \in Wallets : activePurchaseOrders'[v] # 0 =>
          /\ v # po.borrower
          /\ activePurchaseOrders'[v] = activePurchaseOrders[v]
    BY <1>1, <1>5 DEF TypeOK
  <2>2. \A v \in Wallets : activePurchaseOrders[v] = id => v = po.borrower
    <3>1. id # 0
      BY DEF PurchaseOrderIds
    <3> QED
      BY <3>1 DEF BankInv, ActiveOrderIsOpen
  <2>3. \A j \in PurchaseOrderIds : j # id =>
          purchaseOrders'[j] = purchaseOrders[j]
    BY <1>4
  <2>4. PurchaseOrderIds' = PurchaseOrderIds
    BY <1>4
  <2> QED
    BY <2>1, <2>2, <2>3, <2>4 DEF BankInv, ActiveOrderIsOpen
<1>12. RepaidExactlyOnce'
  BY <1>3, <1>4, <1>5 DEF BankInv, RepaidExactlyOnce
<1> QED
  BY <1>7, <1>8, <1>9, <1>10, <1>11, <1>12 DEF BankInv

LEMMA CreatePurchaseOrderInv ==
  ASSUME BankInv, NEW w \in Importers, NEW q \in Quotes, NEW seller \in Exporters,
         CreatePurchaseOrder(w, q[1], q[2], seller)
  PROVE  BankInv'
<1> DEFINE total == q[1] * MicroMultiplier
           downpayment == q[2] * MicroMultiplier
           next == nextPurchaseOrderId
           new == NewPurchaseOrder(w, total, downpayment, seller)
<1>1. TypeOK
  BY DEF BankInv
<1>2. /\ total \in Nat /\ downpayment \in Nat /\ downpayment < total
      /\ w \in Wallets /\ seller \in Wallets
  <2>1. q[1] \in Nat /\ q[2] \in Nat
    BY BankAssumption
  <2>2. downpayment < total
    BY DEF CreatePurchaseOrder
  <2> QED
    BY <2>1, <2>2, TrackRecordsAssumption DEF MicroMultiplier
<1>3. /\ purchaseOrders' = MapSet(purchaseOrders, next, new)
      /\ nextPurchaseOrderId' = next + 1
      /\ activePurchaseOrders' = [activePurchaseOrders EXCEPT ![w] = next]
      /\ balances' = Moved(balances, downpayment, w, Bank)
      /\ CanTransfer(balances, w, downpayment, w, Bank)
      /\ UNCHANGED <<poFinancing, payments, nextFinancingId, nextPaymentId>>
  BY Zenon DEF CreatePurchaseOrder
<1> HIDE DEF total, downpayment
<1>4. /\ new \in PurchaseOrder
      /\ new.borrower = w /\ new.lender = None
      /\ new.totalAmount = total /\ new.downpayment = downpayment
      /\ new.outstanding = total - downpayment
      /\ ~new.isCompleted /\ ~new.completedSuccessfully /\ ~new.isCanceled
      /\ new.acceptedFinancing = 0 /\ new.proposedFinancing = 0
  BY <1>2 DEF NewPurchaseOrder, PurchaseOrder, AmountToFinance
<1> HIDE DEF new
<1>5. /\ purchaseOrders' \in [1..(nextPurchaseOrderId' - 1) -> PurchaseOrder]
      /\ PurchaseOrderIds' = PurchaseOrderIds \cup {next}
      /\ next \notin PurchaseOrderIds
      /\ \A j \in PurchaseOrderIds : purchaseOrders'[j] = purchaseOrders[j]
      /\ purchaseOrders'[next] = new
  BY <1>1, <1>3, <1>4, OrderAdded
<1>6. FinancingIds' = FinancingIds
  BY <1>3 DEF FinancingIds
<1>7. TypeOK'
  <2>1. TokenTypeOK'
    BY <1>1, <1>2, <1>3, Typed, MovedType DEF TokenTypeOK
  <2>2. nextPurchaseOrderId' \in Nat \ {0}
    BY <1>1, <1>3 DEF TypeOK
  <2>3. activePurchaseOrders' \in [Wallets -> Nat]
    BY <1>1, <1>3 DEF TypeOK
  <2> QED
    BY <1>1, <1>3, <1>5, <2>1, <2>2, <2>3 DEF TypeOK, TrackRecordsTypeOK,
       CreatePurchaseOrder, terms
<1>8. ReferencesResolve'
  BY <1>2, <1>3, <1>4, <1>5, <1>6 DEF BankInv, ReferencesResolve
<1>9. OffersAndOrdersAgree'
  BY <1>3, <1>5, <1>6 DEF BankInv, OffersAndOrdersAgree
<1>10. AcceptedOfferIsTheLoan'
  BY <1>3, <1>4, <1>5, <1>6 DEF BankInv, AcceptedOfferIsTheLoan,
     OffersAndOrdersAgree
<1>11. ActiveOrderIsOpen'
  <2>1. /\ activePurchaseOrders'[w] = next
        /\ \A v \in Wallets : v # w =>
             activePurchaseOrders'[v] = activePurchaseOrders[v]
    BY <1>1, <1>2, <1>3 DEF TypeOK
  <2>2. /\ next \in PurchaseOrderIds'
        /\ purchaseOrders'[next].borrower = w
        /\ ~purchaseOrders'[next].isCanceled
        /\ ~purchaseOrders'[next].completedSuccessfully
    BY <1>4, <1>5
  <2>3. \A j \in PurchaseOrderIds :
          j \in PurchaseOrderIds' /\ purchaseOrders'[j] = purchaseOrders[j]
    BY <1>5
  <2> QED
    BY <2>1, <2>2, <2>3 DEF BankInv, ActiveOrderIsOpen
<1>12. RepaidExactlyOnce'
  BY <1>3, <1>4, <1>5 DEF BankInv, RepaidExactlyOnce, ReferencesResolve
<1> QED
  BY <1>7, <1>8, <1>9, <1>10, <1>11, <1>12 DEF BankInv

LEMMA FinanceInv ==
  ASSUME BankInv, NEW w \in Lenders, NEW id \in PurchaseOrderIds, Finance(w, id)
  PROVE  BankInv'
<1> DEFINE po == purchaseOrders[id]
           amount == AmountToFinance(po.totalAmount, po.downpayment)
           fid == nextFinancingId
           offer == NewFinancing(id, amount, w)
           new == [po EXCEPT !.hasActiveFinancing = TRUE,
                             !.proposedFinancing = fid]
<1>1. TypeOK /\ w \in Wallets
  BY TrackRecordsAssumption DEF BankInv
<1>2. po \in PurchaseOrder /\ fid \in Nat \ {0} /\ id \in Nat
  BY <1>1, Typed DEF TypeOK, PurchaseOrderIds
<1>3. amount = po.totalAmount - po.downpayment /\ amount \in Nat
  BY <1>2 DEF AmountToFinance, BankInv, ReferencesResolve, PurchaseOrder
<1>4. /\ purchaseOrders' = MapSet(purchaseOrders, id, new)
      /\ poFinancing' = MapSet(poFinancing, fid, offer)
      /\ nextFinancingId' = fid + 1
      /\ balances' = Moved(balances, amount, w, Bank)
      /\ CanTransfer(balances, w, amount, w, Bank)
      /\ CanFinance(po, w)
      /\ UNCHANGED <<activePurchaseOrders, payments, nextPurchaseOrderId,
                     nextPaymentId>>
  BY Zenon DEF Finance
<1> HIDE DEF amount
<1>5. /\ new \in PurchaseOrder
      /\ new.borrower = po.borrower /\ new.lender = po.lender
      /\ new.seller = po.seller /\ new.totalAmount = po.totalAmount
      /\ new.downpayment = po.downpayment /\ new.outstanding = po.outstanding
      /\ new.isCompleted = po.isCompleted /\ new.isCanceled = po.isCanceled
      /\ new.completedSuccessfully = po.completedSuccessfully
      /\ new.acceptedFinancing = po.acceptedFinancing
      /\ new.proposedFinancing = fid /\ new.hasActiveFinancing
  BY <1>2 DEF PurchaseOrder
<1>6. /\ offer \in Financing
      /\ offer.purchaseOrder = id /\ offer.amount = amount
      /\ offer.lender = w /\ ~offer.isAccepted
  BY <1>1, <1>2, <1>3 DEF NewFinancing, Financing
<1> HIDE DEF new, offer
<1>7. /\ purchaseOrders' \in [1..(nextPurchaseOrderId' - 1) -> PurchaseOrder]
      /\ PurchaseOrderIds' = PurchaseOrderIds
      /\ \A j \in PurchaseOrderIds :
           purchaseOrders'[j] = IF j = id THEN new ELSE purchaseOrders[j]
  BY <1>1, <1>4, <1>5, OrderStored
<1>8. /\ poFinancing' \in [1..(nextFinancingId' - 1) -> Financing]
      /\ FinancingIds' = FinancingIds \cup {fid} /\ fid \notin FinancingIds
      /\ \A g \in FinancingIds : poFinancing'[g] = poFinancing[g]
      /\ poFinancing'[fid] = offer
  BY <1>1, <1>4, <1>6, OfferAdded
(* The order had no offer yet. *)
<1>9. \A g \in FinancingIds : poFinancing[g].purchaseOrder # id
  BY <1>4 DEF CanFinance, BankInv, OffersAndOrdersAgree
<1>10. TypeOK'
  <2>1. TokenTypeOK'
    BY <1>1, <1>3, <1>4, Typed, MovedType DEF TokenTypeOK
  <2>2. nextFinancingId' \in Nat \ {0}
    BY <1>2, <1>4
  <2> QED
    BY <1>1, <1>4, <1>7, <1>8, <2>1, <2>2 DEF TypeOK, TrackRecordsTypeOK,
       Finance, terms
<1>11. ReferencesResolve'
  BY <1>4, <1>5, <1>6, <1>7, <1>8 DEF BankInv, ReferencesResolve
<1>12. OffersAndOrdersAgree'
  <2> DEFINE Agrees(g) ==
        LET its == poFinancing[g]
            order == purchaseOrders[its.purchaseOrder]
        IN /\ its.purchaseOrder \in PurchaseOrderIds
           /\ order.proposedFinancing = g
           /\ order.hasActiveFinancing
           /\ its.amount = order.totalAmount - order.downpayment
           /\ its.lender \notin {order.borrower, order.seller}
  <2>1. ASSUME NEW g \in FinancingIds PROVE Agrees(g)'
    BY <1>7, <1>8, <1>9 DEF BankInv, OffersAndOrdersAgree
  <2>2. ASSUME NEW g, g = fid PROVE Agrees(g)'
    <3>1. poFinancing'[g] = offer /\ purchaseOrders'[id] = new
      BY <1>7, <1>8, <2>2
    <3>2. w \notin {po.borrower, po.seller}
      BY <1>4 DEF CanFinance
    <3> QED
      BY <1>3, <1>5, <1>6, <1>7, <2>2, <3>1, <3>2
  <2>3. \A g \in FinancingIds' : Agrees(g)'
    BY <1>8, <2>1, <2>2
  <2> QED
    BY <2>3, Zenon DEF OffersAndOrdersAgree
<1>13. AcceptedOfferIsTheLoan'
  BY <1>4, <1>5, <1>6, <1>7, <1>8, <1>9 DEF BankInv,
     AcceptedOfferIsTheLoan, OffersAndOrdersAgree
<1>14. ActiveOrderIsOpen'
  BY <1>4, <1>5, <1>7 DEF BankInv, ActiveOrderIsOpen
<1>15. RepaidExactlyOnce'
  BY <1>4, <1>5, <1>7 DEF BankInv, RepaidExactlyOnce
<1> QED
  BY <1>10, <1>11, <1>12, <1>13, <1>14, <1>15 DEF BankInv

(* What accept-financing writes into an order. *)
LEMMA AcceptedOrderIs ==
  ASSUME NEW po \in PurchaseOrder, NEW fid \in Nat, NEW offer \in Financing,
         po.downpayment < po.totalAmount,
         NEW new, new = AcceptedOrder(po, fid, offer)
  PROVE  /\ new \in PurchaseOrder
         /\ new.borrower = po.borrower /\ new.lender = offer.lender
         /\ new.seller = po.seller /\ new.totalAmount = po.totalAmount
         /\ new.downpayment = po.downpayment
         /\ new.outstanding = po.totalAmount - po.downpayment
         /\ new.isCompleted = po.isCompleted /\ new.isCanceled = po.isCanceled
         /\ new.completedSuccessfully = po.completedSuccessfully
         /\ new.acceptedFinancing = fid
         /\ new.proposedFinancing = po.proposedFinancing
         /\ new.hasActiveFinancing
<1>1. po.totalAmount - po.downpayment \in Nat /\ offer.lender \in Wallets
  BY DEF PurchaseOrder, Financing
<1>2. new \in PurchaseOrder
  BY <1>1 DEF AcceptedOrder, AmountToFinance, PurchaseOrder
<1> QED
  BY <1>2 DEF AcceptedOrder, AmountToFinance, PurchaseOrder

LEMMA AcceptFinancingInv ==
  ASSUME BankInv, NEW w \in Wallets, AcceptFinancing(w)
  PROVE  BankInv'
<1> SUFFICES ASSUME NEW id, id = activePurchaseOrders[w],
                    NEW fid, fid = purchaseOrders[id].proposedFinancing
             PROVE  BankInv'
  OBVIOUS
<1> DEFINE po == purchaseOrders[id]
           offer == poFinancing[fid]
           new == AcceptedOrder(po, fid, offer)
           taken == [offer EXCEPT !.isAccepted = TRUE, !.acceptedAt = blockHeight]
           half == Moved(balances, offer.amount, Bank, po.seller)
<1>1. TypeOK
  BY DEF BankInv
<1>2. /\ id \in PurchaseOrderIds /\ fid \in FinancingIds
      /\ offer.purchaseOrder = id
      /\ ~po.isCanceled /\ ~po.completedSuccessfully
      /\ po.downpayment < po.totalAmount
      /\ po.acceptedFinancing = 0 /\ ~po.isCompleted
  BY DEF AcceptFinancing, CanAccept, BankInv, ActiveOrderIsOpen,
     ReferencesResolve, AcceptedOfferIsTheLoan
<1>3. /\ po.hasActiveFinancing
      /\ po.outstanding = po.totalAmount - po.downpayment
  BY <1>2 DEF BankInv, OffersAndOrdersAgree, RepaidExactlyOnce
<1>4. po \in PurchaseOrder /\ offer \in Financing /\ fid \in Nat /\ fid # 0
  BY <1>1, <1>2, Typed DEF AcceptFinancing, PurchaseOrder
<1>5. /\ purchaseOrders' = MapSet(purchaseOrders, offer.purchaseOrder, new)
      /\ poFinancing' = MapSet(poFinancing, fid, taken)
      /\ balances' = Moved(half, po.downpayment, Bank, po.seller)
      /\ CanTransfer(balances, Bank, offer.amount, Bank, po.seller)
      /\ CanTransfer(half, Bank, po.downpayment, Bank, po.seller)
      /\ UNCHANGED <<activePurchaseOrders, payments, nextPurchaseOrderId,
                     nextFinancingId, nextPaymentId, trackRecords, terms,
                     contractPaused, blockHeight>>
  BY Zenon DEF AcceptFinancing
<1>6. /\ new \in PurchaseOrder
      /\ new.borrower = po.borrower /\ new.lender = offer.lender
      /\ new.seller = po.seller /\ new.totalAmount = po.totalAmount
      /\ new.downpayment = po.downpayment /\ new.outstanding = po.outstanding
      /\ new.isCompleted = po.isCompleted /\ new.isCanceled = po.isCanceled
      /\ new.completedSuccessfully = po.completedSuccessfully
      /\ new.acceptedFinancing = fid
      /\ new.proposedFinancing = po.proposedFinancing /\ new.hasActiveFinancing
  <2> HIDE DEF po, offer, new
  <2>1. new = AcceptedOrder(po, fid, offer)
    BY DEF new
  <2> QED
    BY <1>2, <1>3, <1>4, <2>1, AcceptedOrderIs
<1>7. /\ taken \in Financing
      /\ taken.purchaseOrder = offer.purchaseOrder
      /\ taken.amount = offer.amount
      /\ taken.lender = offer.lender /\ taken.isAccepted
  BY <1>1, <1>4 DEF Financing, TypeOK
<1> HIDE DEF new, taken
<1>8. /\ purchaseOrders' \in [1..(nextPurchaseOrderId' - 1) -> PurchaseOrder]
      /\ PurchaseOrderIds' = PurchaseOrderIds
      /\ \A j \in PurchaseOrderIds :
           purchaseOrders'[j] = IF j = id THEN new ELSE purchaseOrders[j]
  <2>1. purchaseOrders' = MapSet(purchaseOrders, id, new)
    BY <1>2, <1>5
  <2> QED
    BY <1>1, <1>2, <1>5, <1>6, <2>1, OrderStored
<1>9. /\ poFinancing' \in [1..(nextFinancingId' - 1) -> Financing]
      /\ FinancingIds' = FinancingIds
      /\ \A g \in FinancingIds :
           poFinancing'[g] = IF g = fid THEN taken ELSE poFinancing[g]
  BY <1>1, <1>2, <1>5, <1>7, OfferStored
(* What stays of the orders and of the offers. *)
<1>10. \A j \in PurchaseOrderIds :
         LET old == purchaseOrders[j]
             now == purchaseOrders'[j]
         IN /\ now.borrower = old.borrower /\ now.seller = old.seller
            /\ now.totalAmount = old.totalAmount
            /\ now.downpayment = old.downpayment
            /\ now.outstanding = old.outstanding
            /\ now.isCompleted = old.isCompleted
            /\ now.isCanceled = old.isCanceled
            /\ now.completedSuccessfully = old.completedSuccessfully
            /\ now.proposedFinancing = old.proposedFinancing
            /\ old.hasActiveFinancing => now.hasActiveFinancing
            /\ j # id => /\ now.acceptedFinancing = old.acceptedFinancing
                         /\ now.lender = old.lender
  BY <1>6, <1>8
<1>11. \A g \in FinancingIds :
         /\ poFinancing'[g].purchaseOrder = poFinancing[g].purchaseOrder
         /\ poFinancing'[g].amount = poFinancing[g].amount
         /\ poFinancing'[g].lender = poFinancing[g].lender
         /\ g # fid => poFinancing'[g].isAccepted = poFinancing[g].isAccepted
  BY <1>7, <1>9
<1>12. payments' = payments /\ activePurchaseOrders' = activePurchaseOrders
  BY <1>5
<1>13. TypeOK'
  <2>1. half \in [Accounts -> Nat]
    BY <1>1, <1>4, <1>5, Typed, MovedType DEF PurchaseOrder, Financing
  <2> HIDE DEF half
  <2>2. TokenTypeOK'
    BY <1>1, <1>4, <1>5, <2>1, Typed, MovedType DEF TokenTypeOK, PurchaseOrder
  <2> QED
    BY <1>1, <1>5, <1>8, <1>9, <2>2 DEF TypeOK, TrackRecordsTypeOK, terms
<1>14. ReferencesResolve'
  BY <1>8, <1>9, <1>10, <1>11, <1>12 DEF BankInv, ReferencesResolve
<1>15. OffersAndOrdersAgree'
  BY <1>8, <1>9, <1>10, <1>11 DEF BankInv, OffersAndOrdersAgree
<1>16. AcceptedOfferIsTheLoan'
  <2>1. /\ purchaseOrders'[id].acceptedFinancing = fid
        /\ purchaseOrders'[id].lender = poFinancing'[fid].lender
        /\ poFinancing'[fid].isAccepted
        /\ ~purchaseOrders'[id].isCanceled
    BY <1>2, <1>6, <1>7, <1>8, <1>9
  (* The order sees no other offer. *)
  <2>2. \A g \in FinancingIds :
          /\ poFinancing[g].purchaseOrder \in PurchaseOrderIds
          /\ poFinancing[g].purchaseOrder = id => g = fid
    BY DEF BankInv, OffersAndOrdersAgree
  <2>3. ASSUME NEW j \in PurchaseOrderIds, j # id,
               purchaseOrders[j].acceptedFinancing # 0
        PROVE  purchaseOrders[j].acceptedFinancing # fid
    BY <1>2, <2>3 DEF BankInv, AcceptedOfferIsTheLoan
  <2>4. \A j \in PurchaseOrderIds :
          LET now == purchaseOrders'[j]
          IN IF now.acceptedFinancing = 0
             THEN now.lender = None /\ ~now.isCompleted
             ELSE /\ now.acceptedFinancing \in FinancingIds
                  /\ poFinancing'[now.acceptedFinancing].isAccepted
                  /\ poFinancing'[now.acceptedFinancing].purchaseOrder = j
                  /\ poFinancing'[now.acceptedFinancing].lender = now.lender
                  /\ ~now.isCanceled
    <3>1. ASSUME NEW j \in PurchaseOrderIds, j # id
          PROVE  /\ purchaseOrders'[j] = purchaseOrders[j]
                 /\ purchaseOrders[j].acceptedFinancing # 0 =>
                      poFinancing'[purchaseOrders[j].acceptedFinancing]
                        = poFinancing[purchaseOrders[j].acceptedFinancing]
      BY <1>8, <1>9, <2>3, <3>1 DEF BankInv, AcceptedOfferIsTheLoan
    <3> QED
      BY <1>2, <1>4, <1>11, <2>1, <3>1 DEF BankInv, AcceptedOfferIsTheLoan
  <2>5. \A g \in FinancingIds :
          poFinancing'[g].isAccepted =>
            purchaseOrders'[poFinancing'[g].purchaseOrder].acceptedFinancing = g
    BY <1>2, <1>10, <1>11, <2>1, <2>2 DEF BankInv, AcceptedOfferIsTheLoan
  <2> QED
    BY <1>8, <1>9, <2>4, <2>5 DEF AcceptedOfferIsTheLoan
<1>17. ActiveOrderIsOpen'
  BY <1>8, <1>10, <1>12 DEF BankInv, ActiveOrderIsOpen
<1>18. RepaidExactlyOnce'
  BY <1>8, <1>10, <1>12 DEF BankInv, RepaidExactlyOnce
<1> QED
  BY <1>13, <1>14, <1>15, <1>16, <1>17, <1>18 DEF BankInv

(* Ending an order keeps the three registries well typed. *)
LEMMA EndedType ==
  ASSUME TypeOK, NEW po \in PurchaseOrder, NEW success \in BOOLEAN,
         CanEndPurchaseOrder(po)
  PROVE  EndedPurchaseOrder(po, success) \in [Roles -> [Wallets -> TrackRecord]]
<1>1. po.borrower \in Wallets /\ po.seller \in Wallets /\ po.lender \in Wallets
  BY DEF PurchaseOrder, CanEndPurchaseOrder
<1>2. "importer" \in Roles /\ "exporter" \in Roles /\ "lender" \in Roles
  BY DEF Roles
<1> DEFINE first == Credited(trackRecords, "importer", po.borrower, success)
           second == Credited(first, "exporter", po.seller, success)
<1>3. first \in [Roles -> [Wallets -> TrackRecord]]
  BY <1>1, <1>2, CreditedType DEF TypeOK, TrackRecordsTypeOK
<1> HIDE DEF first
<1>4. second \in [Roles -> [Wallets -> TrackRecord]]
  BY <1>1, <1>2, <1>3, CreditedType
<1> HIDE DEF second
<1>5. Credited(second, "lender", po.lender, success)
        \in [Roles -> [Wallets -> TrackRecord]]
  BY <1>1, <1>2, <1>4, CreditedType
<1> QED
  BY <1>5, Zenon DEF EndedPurchaseOrder, first, second

LEMMA CheckPurchaseOrderHealthInv ==
  ASSUME BankInv, NEW w \in Wallets, NEW id \in PurchaseOrderIds,
         CheckPurchaseOrderHealth(w, id)
  PROVE  BankInv'
<1> DEFINE po == purchaseOrders[id]
           new == [po EXCEPT !.completedSuccessfully = FALSE, !.isCompleted = TRUE]
<1>1. TypeOK
  BY DEF BankInv
<1>2. po \in PurchaseOrder
  BY <1>1, Typed
<1>3. /\ new \in PurchaseOrder
      /\ new.borrower = po.borrower /\ new.lender = po.lender
      /\ new.seller = po.seller /\ new.totalAmount = po.totalAmount
      /\ new.downpayment = po.downpayment /\ new.outstanding = po.outstanding
      /\ new.isCompleted /\ ~new.completedSuccessfully
      /\ new.acceptedFinancing = po.acceptedFinancing
      /\ new.proposedFinancing = po.proposedFinancing
      /\ new.hasActiveFinancing = po.hasActiveFinancing
      /\ new.isCanceled = po.isCanceled
  BY <1>2 DEF PurchaseOrder
<1>4. /\ purchaseOrders' \in [1..(nextPurchaseOrderId' - 1) -> PurchaseOrder]
      /\ PurchaseOrderIds' = PurchaseOrderIds
      /\ \A j \in PurchaseOrderIds :
           purchaseOrders'[j] = IF j = id THEN new ELSE purchaseOrders[j]
  <2>1. /\ purchaseOrders' = MapSet(purchaseOrders, id, new)
        /\ nextPurchaseOrderId' = nextPurchaseOrderId
    BY Zenon DEF CheckPurchaseOrderHealth
  <2> HIDE DEF new
  <2> QED
    BY <1>1, <1>3, <2>1, OrderStored
<1> HIDE DEF new
<1>5. /\ FinancingIds' = FinancingIds /\ poFinancing' = poFinancing
      /\ payments' = payments /\ activePurchaseOrders' = activePurchaseOrders
  BY DEF CheckPurchaseOrderHealth, FinancingIds
(* Only an order with a lender, hence an accepted offer, can be closed. *)
<1>6. /\ ~po.isCompleted /\ ~po.completedSuccessfully
      /\ po.acceptedFinancing # 0
  BY DEF CheckPurchaseOrderHealth, CanEndPurchaseOrder, BankInv,
     AcceptedOfferIsTheLoan, RepaidExactlyOnce
<1>7. TypeOK'
  <2>1. TrackRecordsTypeOK'
    BY <1>1, <1>2, EndedType DEF CheckPurchaseOrderHealth, TrackRecordsTypeOK
  <2> QED
    BY <1>1, <1>4, <2>1 DEF TypeOK, TokenTypeOK, CheckPurchaseOrderHealth, terms
<1>8. ReferencesResolve'
  BY <1>3, <1>4, <1>5 DEF BankInv, ReferencesResolve
<1>9. OffersAndOrdersAgree'
  BY <1>3, <1>4, <1>5 DEF BankInv, OffersAndOrdersAgree
<1>10. AcceptedOfferIsTheLoan'
  <2>1. \A j \in PurchaseOrderIds :
          /\ purchaseOrders'[j].acceptedFinancing = purchaseOrders[j].acceptedFinancing
          /\ purchaseOrders'[j].lender = purchaseOrders[j].lender
          /\ purchaseOrders'[j].isCanceled = purchaseOrders[j].isCanceled
          /\ purchaseOrders[j].acceptedFinancing = 0 =>
               purchaseOrders'[j].isCompleted = purchaseOrders[j].isCompleted
    BY <1>3, <1>4, <1>6
  <2>2. \A g \in FinancingIds : poFinancing[g].purchaseOrder \in PurchaseOrderIds
    BY DEF BankInv, OffersAndOrdersAgree
  <2> QED
    BY <1>4, <1>5, <2>1, <2>2 DEF BankInv, AcceptedOfferIsTheLoan
<1>11. ActiveOrderIsOpen'
  BY <1>3, <1>4, <1>5 DEF BankInv, ActiveOrderIsOpen
<1>12. RepaidExactlyOnce'
  BY <1>3, <1>4, <1>5, <1>6 DEF BankInv, RepaidExactlyOnce
<1> QED
  BY <1>7, <1>8, <1>9, <1>10, <1>11, <1>12 DEF BankInv

LEMMA MakePaymentInv ==
  ASSUME BankInv, NEW w \in Wallets, MakePayment(w)
  PROVE  BankInv'
<1> SUFFICES ASSUME NEW id, id = activePurchaseOrders[w]
             PROVE  BankInv'
  OBVIOUS
<1> DEFINE po == purchaseOrders[id]
           next == nextPaymentId
           rate == interestRatePerAnnum \div 4
           interest == InterestFor(po.outstanding, rate)
           half == Moved(balances, interest, po.borrower, ContractOwner)
           new == RepaidOrder(po)
           payment == [purchaseOrder |-> id, borrower |-> po.borrower,
                       amount |-> po.outstanding]
<1>1. TypeOK
  BY DEF BankInv
<1>2. /\ id \in PurchaseOrderIds /\ po.borrower = w
      /\ ~po.isCanceled /\ ~po.completedSuccessfully
      /\ po.acceptedFinancing # 0 /\ po.lender # None
  BY DEF MakePayment, CanMakePayment, BankInv, ActiveOrderIsOpen
<1>3. po \in PurchaseOrder /\ po.lender \in Wallets /\ id \in Nat
  BY <1>1, <1>2, Typed DEF PurchaseOrder, PurchaseOrderIds
<1>4. /\ purchaseOrders' = MapSet(purchaseOrders, id, new)
      /\ payments' = MapSet(payments, next, payment)
      /\ nextPaymentId' = next + 1
      /\ balances' = Moved(half, po.outstanding, po.borrower, po.lender)
      /\ CanTransfer(balances, w, interest, po.borrower, ContractOwner)
      /\ CanTransfer(half, w, po.outstanding, po.borrower, po.lender)
      /\ CanEndPurchaseOrder(po)
      /\ trackRecords' = EndedPurchaseOrder(po, TRUE)
      /\ activePurchaseOrders' = [activePurchaseOrders EXCEPT ![po.borrower] = 0]
  BY Zenon DEF MakePayment, CanMakePayment, WithoutActive
<1>5. UNCHANGED <<poFinancing, nextPurchaseOrderId, nextFinancingId,
                  contractPaused, terms, blockHeight>>
  BY Zenon DEF MakePayment, CanMakePayment
<1>6. /\ new \in PurchaseOrder
      /\ new.borrower = po.borrower /\ new.lender = po.lender
      /\ new.seller = po.seller /\ new.totalAmount = po.totalAmount
      /\ new.downpayment = po.downpayment /\ new.outstanding = 0
      /\ new.isCompleted /\ new.completedSuccessfully
      /\ new.acceptedFinancing = po.acceptedFinancing
      /\ new.proposedFinancing = po.proposedFinancing
      /\ new.hasActiveFinancing = po.hasActiveFinancing
      /\ new.isCanceled = po.isCanceled
  BY <1>3 DEF RepaidOrder, PurchaseOrder
<1>7. /\ payment \in Payment
      /\ payment.purchaseOrder = id /\ payment.borrower = po.borrower
      /\ payment.amount = po.outstanding
  BY <1>3 DEF Payment, PurchaseOrder
<1> HIDE DEF new, payment
<1>8. /\ purchaseOrders' \in [1..(nextPurchaseOrderId' - 1) -> PurchaseOrder]
      /\ PurchaseOrderIds' = PurchaseOrderIds
      /\ \A j \in PurchaseOrderIds :
           purchaseOrders'[j] = IF j = id THEN new ELSE purchaseOrders[j]
  BY <1>1, <1>2, <1>4, <1>5, <1>6, OrderStored
<1>9. /\ payments' \in [1..(nextPaymentId' - 1) -> Payment]
      /\ DOMAIN payments' = DOMAIN payments \cup {next}
      /\ next \notin DOMAIN payments
      /\ \A k \in DOMAIN payments : payments'[k] = payments[k]
      /\ payments'[next] = payment
  BY <1>1, <1>4, <1>7, PaymentAdded
<1>10. FinancingIds' = FinancingIds /\ poFinancing' = poFinancing
  BY <1>5 DEF FinancingIds
<1>11. TypeOK'
  <2>1. TokenTypeOK'
    <3>1. rate \in Nat /\ interest \in Nat
      <4>1. rate \in Nat
        BY <1>1 DEF TypeOK
      <4>2. po.outstanding \in Nat
        BY <1>3 DEF PurchaseOrder
      <4>3. po.outstanding * rate \in Nat
        BY <4>1, <4>2
      <4>4. (po.outstanding * rate) \div 100 \in Nat
        BY <4>3
      <4> QED
        BY <4>1, <4>2, <4>4, InterestIsPercentage
    <3> HIDE DEF rate, interest
    <3>2. half \in [Accounts -> Nat]
      BY <1>1, <1>2, <1>4, <3>1, BankAssumption, Typed, MovedType
    <3> HIDE DEF half
    <3> QED
      BY <1>1, <1>2, <1>3, <1>4, <3>2, Typed, MovedType DEF TokenTypeOK,
         PurchaseOrder
  <2>2. TrackRecordsTypeOK'
    BY <1>1, <1>3, <1>4, EndedType DEF TrackRecordsTypeOK
  <2>3. nextPaymentId' \in Nat \ {0}
    BY <1>1, <1>4 DEF TypeOK
  <2>4. activePurchaseOrders' \in [Wallets -> Nat]
    BY <1>1, <1>4 DEF TypeOK
  <2> QED
    BY <1>1, <1>5, <1>8, <1>9, <2>1, <2>2, <2>3, <2>4 DEF TypeOK, terms
(* What stays of the orders. *)
<1>12. \A j \in PurchaseOrderIds :
         LET old == purchaseOrders[j]
             now == purchaseOrders'[j]
         IN /\ now.borrower = old.borrower /\ now.seller = old.seller
            /\ now.lender = old.lender
            /\ now.totalAmount = old.totalAmount
            /\ now.downpayment = old.downpayment
            /\ now.isCanceled = old.isCanceled
            /\ now.acceptedFinancing = old.acceptedFinancing
            /\ now.proposedFinancing = old.proposedFinancing
            /\ now.hasActiveFinancing = old.hasActiveFinancing
            /\ j # id => now = old
  BY <1>6, <1>8
<1>13. ReferencesResolve'
  BY <1>2, <1>7, <1>8, <1>9, <1>10, <1>12 DEF BankInv, ReferencesResolve
<1>14. OffersAndOrdersAgree'
  BY <1>8, <1>10, <1>12 DEF BankInv, OffersAndOrdersAgree
<1>15. AcceptedOfferIsTheLoan'
  <2>1. \A j \in PurchaseOrderIds :
          purchaseOrders[j].acceptedFinancing = 0 =>
            purchaseOrders'[j].isCompleted = purchaseOrders[j].isCompleted
    BY <1>2, <1>12
  <2>2. \A g \in FinancingIds : poFinancing[g].purchaseOrder \in PurchaseOrderIds
    BY DEF BankInv, OffersAndOrdersAgree
  <2> QED
    BY <1>8, <1>10, <1>12, <2>1, <2>2 DEF BankInv, AcceptedOfferIsTheLoan
<1>16. ActiveOrderIsOpen'
  <2>1. activePurchaseOrders' = [activePurchaseOrders EXCEPT ![w] = 0]
    BY <1>2, <1>4
  <2>2. \A v \in Wallets : activePurchaseOrders[v] = id => v = w
    BY <1>2 DEF BankInv, ActiveOrderIsOpen, PurchaseOrderIds
  <2>3. \A v \in Wallets : activePurchaseOrders'[v] # 0 =>
          v # w /\ activePurchaseOrders'[v] = activePurchaseOrders[v]
    BY <1>1, <2>1 DEF TypeOK
  <2>4. \A j \in PurchaseOrderIds : j # id =>
          purchaseOrders'[j] = purchaseOrders[j]
    BY <1>12
  <2>5. PurchaseOrderIds' = PurchaseOrderIds
    BY <1>8
  <2> QED
    BY <2>2, <2>3, <2>4, <2>5 DEF BankInv, ActiveOrderIsOpen
<1>17. RepaidExactlyOnce'
  <2> DEFINE Its(j) == {k \in DOMAIN payments : payments[k].purchaseOrder = j}
  <2>1. /\ Its(id) = {} /\ po.outstanding = po.totalAmount - po.downpayment
    BY <1>2 DEF BankInv, RepaidExactlyOnce
  <2>2. {k \in DOMAIN payments' : payments'[k].purchaseOrder = id} = {next}
    BY <1>7, <1>9, <2>1
  <2>3. \A j \in PurchaseOrderIds : j # id =>
          {k \in DOMAIN payments' : payments'[k].purchaseOrder = j} = Its(j)
    BY <1>7, <1>9
  <2>4. \A j \in PurchaseOrderIds : \A k \in Its(j) : payments'[k] = payments[k]
    BY <1>9
  <2>5. /\ purchaseOrders'[id] = new /\ payments'[next] = payment
        /\ new.isCompleted /\ new.completedSuccessfully /\ new.outstanding = 0
        /\ payment.borrower = new.borrower
        /\ payment.amount = new.totalAmount - new.downpayment
    BY <1>2, <1>6, <1>7, <1>8, <1>9, <2>1
  <2> DEFINE Repaid(j) ==
        LET order == purchaseOrders[j]
            its == {k \in DOMAIN payments : payments[k].purchaseOrder = j}
        IN IF order.completedSuccessfully
           THEN /\ order.isCompleted
                /\ order.outstanding = 0
                /\ \E k \in its : /\ its = {k}
                                  /\ payments[k].borrower = order.borrower
                                  /\ payments[k].amount =
                                       order.totalAmount - order.downpayment
           ELSE its = {} /\ order.outstanding = order.totalAmount - order.downpayment
  <2>6. ASSUME NEW j \in PurchaseOrderIds, j # id PROVE Repaid(j)'
    BY <1>12, <2>3, <2>4, <2>6 DEF BankInv, RepaidExactlyOnce
  <2>7. Repaid(id)'
    BY <2>2, <2>5
  <2> QED
    BY <1>8, <2>6, <2>7 DEF RepaidExactlyOnce
<1> QED
  BY <1>11, <1>13, <1>14, <1>15, <1>16, <1>17 DEF BankInv

-----------------------------------------------------------------------------
(* The theorems *)

LEMMA NextInv == BankInv /\ [Next]_vars => BankInv'
<1> SUFFICES ASSUME BankInv, [Next]_vars PROVE BankInv'
  OBVIOUS
<1>1. CASE OrderNext
  <2>1. \A w \in Wallets : RejectFinancing(w) => BankInv'
    BY RejectChangesNothing, StutterInv
  <2>2. Lenders \subseteq Wallets
    BY TrackRecordsAssumption
  <2> QED
    BY <1>1, <2>1, CreatePurchaseOrderInv, CancelPurchaseOrderInv, FinanceInv,
       CancelFinancingInv, AcceptFinancingInv, MakePaymentInv,
       CheckPurchaseOrderHealthInv DEF OrderNext
<1> QED
  BY <1>1, OwnerInv, EnvironmentInv, StutterInv DEF Next

(* Every record of the storage is well typed and every identifier below    *)
(* the next one is in use, and the references, amounts and flags the       *)
(* storage keeps in several places agree.                                  *)
THEOREM BankInvariant == Spec => []BankInv
BY InitInv, NextInv, PTL DEF Spec

(* The bank's state keeps its type. *)
THEOREM TypeCorrect == Spec => []TypeOK
<1>1. BankInv => TypeOK
  BY DEF BankInv
<1> QED
  BY <1>1, BankInvariant, PTL

(* An offer and the order it was made for point at each other, always: an  *)
(* order sees one offer in its life.                                       *)
THEOREM OffersAlwaysAgree == Spec => []OffersAndOrdersAgree
<1>1. BankInv => OffersAndOrdersAgree
  BY DEF BankInv
<1> QED
  BY <1>1, BankInvariant, PTL

(* The two sides of a loan agree, always. *)
THEOREM LoansAlwaysAgree == Spec => []AcceptedOfferIsTheLoan
<1>1. BankInv => AcceptedOfferIsTheLoan
  BY DEF BankInv
<1> QED
  BY <1>1, BankInvariant, PTL

(* A wallet's active order is its own, and neither canceled nor repaid. *)
THEOREM ActiveAlwaysOpen == Spec => []ActiveOrderIsOpen
<1>1. BankInv => ActiveOrderIsOpen
  BY DEF BankInv
<1> QED
  BY <1>1, BankInvariant, PTL

(* A loan is repaid by exactly one payment of the whole of it. *)
THEOREM AlwaysRepaidOnce == Spec => []RepaidExactlyOnce
<1>1. BankInv => RepaidExactlyOnce
  BY DEF BankInv
<1> QED
  BY <1>1, BankInvariant, PTL

-----------------------------------------------------------------------------
(* Repayment *)

(* An active order that awaits its repayment runs, and the loan it owes is *)
(* somebody else's and not nothing.                                        *)
LEMMA RunningOrder ==
  ASSUME BankInv, NEW w \in Wallets, activePurchaseOrders[w] # 0
  PROVE  LET id == activePurchaseOrders[w]
             po == purchaseOrders[id]
         IN /\ po \in PurchaseOrder /\ po.borrower = w
            /\ StageOf(id) = "running"
                 <=> po.acceptedFinancing # 0 /\ ~po.isCompleted
            /\ po.acceptedFinancing # 0 =>
                 /\ po.lender \in Wallets /\ po.lender # w
                 /\ po.outstanding > 0
<1> DEFINE id == activePurchaseOrders[w]
           po == purchaseOrders[id]
<1>1. /\ id \in PurchaseOrderIds /\ po.borrower = w
      /\ ~po.isCanceled /\ ~po.completedSuccessfully
  BY DEF BankInv, ActiveOrderIsOpen
<1>2. id \in DOMAIN purchaseOrders /\ po \in PurchaseOrder
  BY <1>1, Typed DEF BankInv, TypeOK, PurchaseOrderIds
<1>3. StageOf(id) = RecordStage(po)
  BY <1>2 DEF StageOf
<1>4. StageOf(id) = "running" <=> po.acceptedFinancing # 0 /\ ~po.isCompleted
  BY <1>1, <1>3 DEF RecordStage
<1>5. ASSUME po.acceptedFinancing # 0
      PROVE  po.lender \in Wallets /\ po.lender # w
  <2>1. PICK fid : fid = po.acceptedFinancing
    OBVIOUS
  <2>2. /\ fid \in FinancingIds /\ poFinancing[fid].purchaseOrder = id
        /\ poFinancing[fid].lender = po.lender
    BY <1>1, <1>5, <2>1 DEF BankInv, AcceptedOfferIsTheLoan
  <2>3. poFinancing[fid] \in Financing
    BY <2>2, Typed DEF BankInv
  <2>4. poFinancing[fid].lender # po.borrower
    BY <2>2 DEF BankInv, OffersAndOrdersAgree
  <2> QED
    BY <1>1, <2>2, <2>3, <2>4 DEF Financing
<1>6. po.outstanding > 0
  <2>1. po.outstanding = po.totalAmount - po.downpayment
    BY <1>1 DEF BankInv, RepaidExactlyOnce
  <2>2. po.downpayment < po.totalAmount
    BY <1>1 DEF BankInv, ReferencesResolve
  <2> QED
    BY <1>2, <2>1, <2>2 DEF PurchaseOrder
<1> QED
  BY <1>1, <1>2, <1>4, <1>5, <1>6

(* The two transfers of make-payment both succeed when the borrower holds  *)
(* what they amount to together, whoever the lender is.                    *)
LEMMA BothTransfersSucceed ==
  ASSUME balances \in [Accounts -> Nat],
         NEW w \in Wallets, NEW lender \in Wallets, lender # w,
         NEW interest \in Nat, NEW owed \in Nat, owed > 0
  PROVE  /\ CanTransfer(balances, w, interest, w, ContractOwner)
         /\ CanTransfer(Moved(balances, interest, w, ContractOwner),
                        w, owed, w, lender)
         <=> /\ interest > 0 /\ w # ContractOwner
             /\ balances[w] >= owed + interest
<1>1. w \in Accounts /\ balances[w] \in Nat
  BY DEF Accounts
<1>2. ASSUME w # ContractOwner
      PROVE  Moved(balances, interest, w, ContractOwner)[w] = balances[w] - interest
  BY <1>1, <1>2 DEF Moved
<1> QED
  BY <1>1, <1>2 DEF CanTransfer

(* make-payment accepts exactly the borrowers that can pay: the checks of  *)
(* the order, of the two transfers and of the three registries come to no  *)
(* more, and to no less, than a running loan and the means to repay it.    *)
THEOREM RepaysExactlyTheSolvent ==
  Spec => [](\A w \in Wallets : IsSolvent(w) <=> CanMakePayment(w))
<1> DEFINE Exactly == \A w \in Wallets : IsSolvent(w) <=> CanMakePayment(w)
<1>1. BankInv => Exactly
  <2> SUFFICES ASSUME BankInv, NEW w \in Wallets
               PROVE  IsSolvent(w) <=> CanMakePayment(w)
    OBVIOUS
  <2>1. CASE activePurchaseOrders[w] = 0
    BY <2>1 DEF IsSolvent, CanMakePayment
  <2>2. CASE activePurchaseOrders[w] # 0
    <3> DEFINE id == activePurchaseOrders[w]
               po == purchaseOrders[id]
               rate == interestRatePerAnnum \div 4
               interest == InterestFor(po.outstanding, rate)
    <3>1. /\ po \in PurchaseOrder /\ po.borrower = w
          /\ StageOf(id) = "running"
               <=> po.acceptedFinancing # 0 /\ ~po.isCompleted
          /\ po.acceptedFinancing # 0 =>
               /\ po.lender \in Wallets /\ po.lender # w
               /\ po.outstanding > 0
      BY <2>2, RunningOrder
    <3>2. po.outstanding \in Nat /\ interest \in Nat
      <4>1. interestRatePerAnnum \in Nat
        BY DEF BankInv, TypeOK
      <4>2. rate \in Nat
        BY <4>1
      <4>3. po.outstanding \in Nat
        BY <3>1 DEF PurchaseOrder
      <4>4. po.outstanding * rate \in Nat
        BY <4>2, <4>3
      <4>5. (po.outstanding * rate) \div 100 \in Nat
        BY <4>4
      <4> HIDE DEF po, rate
      <4>6. interest = (po.outstanding * rate) \div 100
        BY <4>2, <4>3, InterestIsPercentage
      <4> QED
        BY <4>3, <4>5, <4>6
    <3>3. balances \in [Accounts -> Nat] /\ None \notin Wallets
      BY Typed DEF BankInv
    <3>4. IsSolvent(w) <=>
            /\ StageOf(id) = "running" /\ ~contractPaused
            /\ CanEndPurchaseOrder(po) /\ w # ContractOwner
            /\ interest > 0 /\ balances[w] >= po.outstanding + interest
      BY <2>2, Zenon DEF IsSolvent
    <3>5. CanMakePayment(w) <=>
            /\ po.acceptedFinancing # 0 /\ po.lender # None
            /\ NotPaused(w) /\ ~po.isCompleted
            /\ CanTransfer(balances, w, interest, w, ContractOwner)
            /\ CanTransfer(Moved(balances, interest, w, ContractOwner),
                           w, po.outstanding, w, po.lender)
            /\ CanEndPurchaseOrder(po)
      BY <2>2, <3>1, Zenon DEF CanMakePayment
    <3> HIDE DEF po, interest, id
    <3>6. po.acceptedFinancing # 0 =>
            (/\ CanTransfer(balances, w, interest, w, ContractOwner)
             /\ CanTransfer(Moved(balances, interest, w, ContractOwner),
                            w, po.outstanding, w, po.lender)
             <=> /\ interest > 0 /\ w # ContractOwner
                 /\ balances[w] >= po.outstanding + interest)
      BY <3>1, <3>2, <3>3, BothTransfersSucceed
    <3> QED
      BY <3>1, <3>3, <3>4, <3>5, <3>6 DEF NotPaused
  <2> QED
    BY <2>1, <2>2
<1> QED
  BY <1>1, BankInvariant, PTL

-----------------------------------------------------------------------------
(* Final records *)

(* Storing new as order id keeps the final orders if it keeps this one.    *)
LEMMA StoredOrderKept ==
  ASSUME TypeOK, NEW id \in PurchaseOrderIds, NEW new,
         purchaseOrders' = MapSet(purchaseOrders, id, new),
         \/ ~purchaseOrders[id].isCanceled /\ ~purchaseOrders[id].isCompleted
         \/ new = purchaseOrders[id]
  PROVE  OrdersKept
<1>1. \A j \in PurchaseOrderIds :
        purchaseOrders'[j] = IF j = id THEN new ELSE purchaseOrders[j]
  BY DEF TypeOK, PurchaseOrderIds, MapSet
<1> QED
  BY <1>1 DEF OrdersKept

LEMMA StoredOfferKept ==
  ASSUME TypeOK, NEW fid \in FinancingIds, NEW new,
         poFinancing' = MapSet(poFinancing, fid, new),
         ~poFinancing[fid].isAccepted
  PROVE  OffersKept
<1>1. \A g \in FinancingIds :
        poFinancing'[g] = IF g = fid THEN new ELSE poFinancing[g]
  BY DEF TypeOK, FinancingIds, MapSet
<1> QED
  BY <1>1 DEF OffersKept

(* Canceling meets no completed order, and writes a canceled one as it is. *)
LEMMA CancelKeeps ==
  ASSUME BankInv, NEW w \in Wallets, NEW id \in PurchaseOrderIds,
         CancelPurchaseOrder(w, id)
  PROVE  OrdersKept /\ OffersKept
<1> DEFINE po == purchaseOrders[id]
           new == [po EXCEPT !.isCanceled = TRUE]
<1>1. TypeOK
  BY DEF BankInv
<1>2. po \in PurchaseOrder
  BY <1>1, Typed
<1>3. ~po.isCompleted
  BY DEF CancelPurchaseOrder, CanCancel, BankInv, OffersAndOrdersAgree,
     AcceptedOfferIsTheLoan
<1>4. po.isCanceled => new = po
  BY <1>2 DEF PurchaseOrder
<1>5. /\ purchaseOrders' = MapSet(purchaseOrders, id, new)
      /\ poFinancing' = poFinancing
  BY Zenon DEF CancelPurchaseOrder
<1>6. OrdersKept
  <2> HIDE DEF new
  <2> QED
    BY <1>1, <1>3, <1>4, <1>5, StoredOrderKept
<1> QED
  BY <1>5, <1>6 DEF OffersKept

LEMMA CreateKeeps ==
  ASSUME TypeOK, NEW w, NEW total, NEW downpayment, NEW seller,
         CreatePurchaseOrder(w, total, downpayment, seller)
  PROVE  OrdersKept /\ OffersKept
<1> DEFINE next == nextPurchaseOrderId
           new == NewPurchaseOrder(w, total * MicroMultiplier,
                                   downpayment * MicroMultiplier, seller)
<1>1. /\ purchaseOrders' = MapSet(purchaseOrders, next, new)
      /\ poFinancing' = poFinancing
  BY Zenon DEF CreatePurchaseOrder
<1> HIDE DEF new
<1>2. next \notin PurchaseOrderIds /\ DOMAIN purchaseOrders = PurchaseOrderIds
  BY DEF TypeOK, PurchaseOrderIds
<1> QED
  BY <1>1, <1>2 DEF OrdersKept, OffersKept, MapSet

(* An order that has an accepted offer is not financed again.              *)
LEMMA FinanceKeeps ==
  ASSUME BankInv, NEW w, NEW id \in PurchaseOrderIds, Finance(w, id)
  PROVE  OrdersKept /\ OffersKept
<1> DEFINE po == purchaseOrders[id]
           fid == nextFinancingId
           new == [po EXCEPT !.hasActiveFinancing = TRUE, !.proposedFinancing = fid]
           offer == NewFinancing(id, AmountToFinance(po.totalAmount, po.downpayment), w)
<1>1. TypeOK
  BY DEF BankInv
<1>2. /\ purchaseOrders' = MapSet(purchaseOrders, id, new)
      /\ poFinancing' = MapSet(poFinancing, fid, offer)
      /\ CanFinance(po, w)
  BY Zenon DEF Finance
<1>3. ~po.isCompleted /\ ~po.isCanceled
  BY <1>2 DEF CanFinance, BankInv, OffersAndOrdersAgree, AcceptedOfferIsTheLoan
<1> HIDE DEF new, offer
<1>4. OrdersKept
  BY <1>1, <1>2, <1>3, StoredOrderKept
<1>5. fid \notin FinancingIds /\ DOMAIN poFinancing = FinancingIds
  BY <1>1 DEF TypeOK, FinancingIds
<1> QED
  BY <1>2, <1>4, <1>5 DEF OffersKept, MapSet

LEMMA CancelFinancingKeeps ==
  ASSUME TypeOK, NEW w, NEW fid \in FinancingIds, CancelFinancing(w, fid)
  PROVE  OrdersKept /\ OffersKept
<1>1. /\ poFinancing' =
           MapSet(poFinancing, fid, [poFinancing[fid] EXCEPT !.refunded = TRUE])
      /\ purchaseOrders' = purchaseOrders
      /\ CanRefund(poFinancing[fid])
  BY Zenon DEF CancelFinancing
<1> DEFINE new == [poFinancing[fid] EXCEPT !.refunded = TRUE]
<1> HIDE DEF new
<1>2. OffersKept
  BY <1>1, StoredOfferKept DEF CanRefund, new
<1> QED
  BY <1>1, <1>2 DEF OrdersKept

(* The caller's active order is neither canceled nor, having no accepted   *)
(* offer, completed.                                                       *)
LEMMA AcceptKeeps ==
  ASSUME BankInv, NEW w \in Wallets, AcceptFinancing(w)
  PROVE  OrdersKept /\ OffersKept
<1> SUFFICES ASSUME NEW id, id = activePurchaseOrders[w],
                    NEW fid, fid = purchaseOrders[id].proposedFinancing
             PROVE  OrdersKept /\ OffersKept
  OBVIOUS
<1> DEFINE po == purchaseOrders[id]
           offer == poFinancing[fid]
           new == AcceptedOrder(po, fid, offer)
           taken == [offer EXCEPT !.isAccepted = TRUE, !.acceptedAt = blockHeight]
<1>1. TypeOK
  BY DEF BankInv
<1>2. /\ id \in PurchaseOrderIds /\ fid \in FinancingIds
      /\ offer.purchaseOrder = id /\ ~offer.isAccepted
      /\ ~po.isCanceled /\ ~po.isCompleted
  BY DEF AcceptFinancing, CanAccept, BankInv, ActiveOrderIsOpen,
     ReferencesResolve, AcceptedOfferIsTheLoan
<1>3. /\ purchaseOrders' = MapSet(purchaseOrders, offer.purchaseOrder, new)
      /\ poFinancing' = MapSet(poFinancing, fid, taken)
  BY Zenon DEF AcceptFinancing
<1> HIDE DEF new, taken
<1>4. OrdersKept
  <2>1. purchaseOrders' = MapSet(purchaseOrders, id, new)
    BY <1>2, <1>3
  <2> QED
    BY <1>1, <1>2, <2>1, StoredOrderKept
<1>5. OffersKept
  BY <1>1, <1>2, <1>3, StoredOfferKept
<1> QED
  BY <1>4, <1>5

LEMMA MakePaymentKeeps ==
  ASSUME BankInv, NEW w \in Wallets, MakePayment(w)
  PROVE  OrdersKept /\ OffersKept
<1> SUFFICES ASSUME NEW id, id = activePurchaseOrders[w]
             PROVE  OrdersKept /\ OffersKept
  OBVIOUS
<1> DEFINE new == RepaidOrder(purchaseOrders[id])
<1>1. TypeOK
  BY DEF BankInv
<1>2. /\ id \in PurchaseOrderIds
      /\ ~purchaseOrders[id].isCanceled /\ ~purchaseOrders[id].isCompleted
  BY DEF MakePayment, CanMakePayment, BankInv, ActiveOrderIsOpen
<1>3. /\ purchaseOrders' = MapSet(purchaseOrders, id, new)
      /\ poFinancing' = poFinancing
  BY Zenon DEF MakePayment, CanMakePayment
<1> HIDE DEF new
<1>4. OrdersKept
  BY <1>1, <1>2, <1>3, StoredOrderKept
<1> QED
  BY <1>3, <1>4 DEF OffersKept

(* An order with a lender was accepted, hence is not canceled.             *)
LEMMA HealthKeeps ==
  ASSUME BankInv, NEW w, NEW id \in PurchaseOrderIds,
         CheckPurchaseOrderHealth(w, id)
  PROVE  OrdersKept /\ OffersKept
<1> DEFINE po == purchaseOrders[id]
           new == [po EXCEPT !.completedSuccessfully = FALSE, !.isCompleted = TRUE]
<1>1. TypeOK
  BY DEF BankInv
<1>2. ~po.isCanceled /\ ~po.isCompleted
  BY DEF CheckPurchaseOrderHealth, CanEndPurchaseOrder, BankInv,
     AcceptedOfferIsTheLoan
<1>3. /\ purchaseOrders' = MapSet(purchaseOrders, id, new)
      /\ poFinancing' = poFinancing
  BY Zenon DEF CheckPurchaseOrderHealth
<1> HIDE DEF new
<1>4. OrdersKept
  BY <1>1, <1>2, <1>3, StoredOrderKept
<1> QED
  BY <1>3, <1>4 DEF OffersKept

LEMMA NextKeeps == BankInv /\ [Next]_vars => [OrdersKept /\ OffersKept]_vars
<1> SUFFICES ASSUME BankInv, [Next]_vars
             PROVE  [OrdersKept /\ OffersKept]_vars
  OBVIOUS
<1>1. TypeOK
  BY DEF BankInv
<1>2. CASE OrderNext
  <2>1. \A w \in Wallets : RejectFinancing(w) => UNCHANGED vars
    BY RejectChangesNothing
  <2>2. Lenders \subseteq Wallets
    BY TrackRecordsAssumption
  <2> QED
    BY <1>1, <1>2, <2>1, <2>2, CreateKeeps, CancelKeeps, FinanceKeeps,
       CancelFinancingKeeps, AcceptKeeps, MakePaymentKeeps, HealthKeeps
    DEF OrderNext
<1>3. CASE OwnerNext
  <2>1. UNCHANGED storage
    BY <1>3 DEF OwnerNext, UpdateInterestRate, UpdateDueDate,
       UpdateGracePeriod, SetBlocksTime, PauseContract, ResumeContract
  <2> QED
    BY <2>1 DEF storage, OrdersKept, OffersKept
<1>4. CASE EnvironmentNext
  <2>1. UNCHANGED storage
    BY <1>4 DEF EnvironmentNext, MineBlocks
  <2> QED
    BY <2>1 DEF storage, OrdersKept, OffersKept
<1> QED
  BY <1>2, <1>3, <1>4 DEF Next

(* Canceled and completed orders, and accepted offers, stay as they are.   *)
THEOREM FinalAlwaysStay == Spec => FinalRecordsStay
BY BankInvariant, NextKeeps, PTL DEF Spec, FinalRecordsStay

-----------------------------------------------------------------------------
(* Completion and the registries *)

(* An update of a track record adds one to one counter, and leaves the     *)
(* other roles alone.                                                      *)
LEMMA CreditedCounts ==
  \A records \in [Roles -> [Wallets -> TrackRecord]], role \in Roles,
     w \in Wallets, success \in BOOLEAN :
    LET new == Credited(records, role, w, success)
    IN /\ new \in [Roles -> [Wallets -> TrackRecord]]
       /\ Count(new, role, w, success) = Count(records, role, w, success) + 1
       /\ \A r \in Roles : r # role => new[r] = records[r]
<1> TAKE records \in [Roles -> [Wallets -> TrackRecord]], role \in Roles,
         w \in Wallets, success \in BOOLEAN
<1> DEFINE new == Credited(records, role, w, success)
           old == records[role][w]
<1>1. old \in TrackRecord /\ old.successful \in Nat /\ old.failed \in Nat
  BY DEF TrackRecord
<1>2. new \in [Roles -> [Wallets -> TrackRecord]]
  BY CreditedType
<1>3. CASE success
  <2>1. new[role][w] = [old EXCEPT !.successful = @ + 1]
    BY <1>3 DEF Credited
  <2>2. new[role][w].successful = old.successful + 1
    BY <1>1, <2>1 DEF TrackRecord
  <2>3. \A r \in Roles : r # role => new[r] = records[r]
    BY <1>3 DEF Credited
  <2>4. Count(new, role, w, success) = Count(records, role, w, success) + 1
    <3> HIDE DEF new
    <3> QED
      BY <1>3, <2>2 DEF Count
  <2> QED
    BY <1>2, <2>3, <2>4, Zenon
<1>4. CASE ~success
  <2>1. new[role][w] = [old EXCEPT !.failed = @ + 1]
    BY <1>4 DEF Credited
  <2>2. new[role][w].failed = old.failed + 1
    BY <1>1, <2>1 DEF TrackRecord
  <2>3. \A r \in Roles : r # role => new[r] = records[r]
    BY <1>4 DEF Credited
  <2>4. Count(new, role, w, success) = Count(records, role, w, success) + 1
    <3> HIDE DEF new
    <3> QED
      BY <1>4, <2>2 DEF Count
  <2> QED
    BY <1>2, <2>3, <2>4, Zenon
<1> QED
  BY <1>3, <1>4

(* Ending an order counts it for its three parties.                        *)
LEMMA EndedCounts ==
  ASSUME TypeOK, NEW po \in PurchaseOrder, NEW success \in BOOLEAN,
         CanEndPurchaseOrder(po), trackRecords' = EndedPurchaseOrder(po, success)
  PROVE  /\ CountedOnceMore("importer", po.borrower, success)
         /\ CountedOnceMore("exporter", po.seller, success)
         /\ CountedOnceMore("lender", po.lender, success)
<1> SUFFICES ASSUME
      NEW first, first = Credited(trackRecords, "importer", po.borrower, success),
      NEW second, second = Credited(first, "exporter", po.seller, success),
      NEW third, third = Credited(second, "lender", po.lender, success)
    PROVE  /\ CountedOnceMore("importer", po.borrower, success)
           /\ CountedOnceMore("exporter", po.seller, success)
           /\ CountedOnceMore("lender", po.lender, success)
  OBVIOUS
<1>1. po.borrower \in Wallets /\ po.seller \in Wallets /\ po.lender \in Wallets
  BY DEF PurchaseOrder, CanEndPurchaseOrder
<1>2. "importer" \in Roles /\ "exporter" \in Roles /\ "lender" \in Roles
  BY DEF Roles
<1>3. trackRecords \in [Roles -> [Wallets -> TrackRecord]]
  BY DEF TypeOK, TrackRecordsTypeOK
<1>4. trackRecords' = third
  BY DEF EndedPurchaseOrder
<1>5. /\ first \in [Roles -> [Wallets -> TrackRecord]]
      /\ Count(first, "importer", po.borrower, success)
           = Count(trackRecords, "importer", po.borrower, success) + 1
      /\ \A r \in Roles : r # "importer" => first[r] = trackRecords[r]
  BY <1>1, <1>2, <1>3, CreditedCounts
<1>6. /\ second \in [Roles -> [Wallets -> TrackRecord]]
      /\ Count(second, "exporter", po.seller, success)
           = Count(first, "exporter", po.seller, success) + 1
      /\ \A r \in Roles : r # "exporter" => second[r] = first[r]
  BY <1>1, <1>2, <1>5, CreditedCounts
<1>7. /\ Count(third, "lender", po.lender, success)
           = Count(second, "lender", po.lender, success) + 1
      /\ \A r \in Roles : r # "lender" => third[r] = second[r]
  BY <1>1, <1>2, <1>6, CreditedCounts
<1>8. /\ first["exporter"] = trackRecords["exporter"]
      /\ first["lender"] = trackRecords["lender"]
      /\ second["importer"] = first["importer"]
      /\ second["lender"] = first["lender"]
      /\ third["importer"] = second["importer"]
      /\ third["exporter"] = second["exporter"]
  BY <1>2, <1>5, <1>6, <1>7
<1> QED
  BY <1>4, <1>5, <1>6, <1>7, <1>8 DEF CountedOnceMore, Count

(* A call that ends order id with the outcome success and stores it counts *)
(* what it completes.                                                      *)
LEMMA StoredCompletion ==
  ASSUME TypeOK, NEW id \in PurchaseOrderIds, NEW success \in BOOLEAN,
         NEW new, purchaseOrders' = MapSet(purchaseOrders, id, new),
         new.isCompleted, new.completedSuccessfully = success,
         new.borrower = purchaseOrders[id].borrower,
         new.seller = purchaseOrders[id].seller,
         new.lender = purchaseOrders[id].lender,
         CanEndPurchaseOrder(purchaseOrders[id]),
         trackRecords' = EndedPurchaseOrder(purchaseOrders[id], success)
  PROVE  \A j \in PurchaseOrderIds : CompletionCounted(j)
<1>1. \A j \in PurchaseOrderIds :
        purchaseOrders'[j] = IF j = id THEN new ELSE purchaseOrders[j]
  BY DEF TypeOK, PurchaseOrderIds, MapSet
<1>2. /\ CountedOnceMore("importer", new.borrower, success)
      /\ CountedOnceMore("exporter", new.seller, success)
      /\ CountedOnceMore("lender", new.lender, success)
  <2> DEFINE po == purchaseOrders[id]
  <2>1. po \in PurchaseOrder
    BY Typed
  <2> HIDE DEF po
  <2>2. /\ CountedOnceMore("importer", po.borrower, success)
        /\ CountedOnceMore("exporter", po.seller, success)
        /\ CountedOnceMore("lender", po.lender, success)
    BY <2>1, EndedCounts DEF po
  <2> QED
    BY <2>2 DEF po
<1>3. ASSUME NEW j \in PurchaseOrderIds PROVE CompletionCounted(j)
  <2>1. CASE j = id
    BY <1>1, <1>2, <2>1 DEF CompletionCounted
  <2>2. CASE j # id
    BY <1>1, <2>2 DEF CompletionCounted
  <2> QED
    BY <2>1, <2>2
<1> QED
  BY <1>3

(* A call that completes nothing has nothing to count.                     *)
LEMMA NothingCompleted ==
  ASSUME \A j \in PurchaseOrderIds :
           purchaseOrders'[j].isCompleted = purchaseOrders[j].isCompleted
  PROVE  \A j \in PurchaseOrderIds : CompletionCounted(j)
BY DEF CompletionCounted

LEMMA OtherCallsCompleteNothing ==
  ASSUME BankInv,
         \/ \E w \in Importers, q \in Quotes, seller \in Exporters :
              CreatePurchaseOrder(w, q[1], q[2], seller)
         \/ \E w \in Wallets, id \in PurchaseOrderIds : CancelPurchaseOrder(w, id)
         \/ \E w \in Lenders, id \in PurchaseOrderIds : Finance(w, id)
         \/ \E w \in Wallets, fid \in FinancingIds : CancelFinancing(w, fid)
         \/ \E w \in Wallets : AcceptFinancing(w)
  PROVE  \A j \in PurchaseOrderIds : CompletionCounted(j)
<1>1. TypeOK
  BY DEF BankInv
<1>2. \A j \in PurchaseOrderIds : purchaseOrders[j] \in PurchaseOrder
  BY <1>1, Typed
<1>3. ASSUME NEW id \in PurchaseOrderIds, NEW new,
             new.isCompleted = purchaseOrders[id].isCompleted,
             purchaseOrders' = MapSet(purchaseOrders, id, new)
      PROVE  \A j \in PurchaseOrderIds : CompletionCounted(j)
  <2>1. \A j \in PurchaseOrderIds :
          purchaseOrders'[j] = IF j = id THEN new ELSE purchaseOrders[j]
    BY <1>1, <1>3 DEF TypeOK, PurchaseOrderIds, MapSet
  <2> QED
    BY <1>3, <2>1, NothingCompleted
<1>4. CASE \E w \in Importers, q \in Quotes, seller \in Exporters :
             CreatePurchaseOrder(w, q[1], q[2], seller)
  <2>1. PICK w \in Importers, q \in Quotes, seller \in Exporters :
          CreatePurchaseOrder(w, q[1], q[2], seller)
    BY <1>4
  <2> DEFINE new == NewPurchaseOrder(w, q[1] * MicroMultiplier,
                                     q[2] * MicroMultiplier, seller)
  <2>2. purchaseOrders' = MapSet(purchaseOrders, nextPurchaseOrderId, new)
    BY <2>1, Zenon DEF CreatePurchaseOrder
  <2> HIDE DEF new
  <2>3. /\ nextPurchaseOrderId \notin PurchaseOrderIds
        /\ DOMAIN purchaseOrders = PurchaseOrderIds
    BY <1>1 DEF TypeOK, PurchaseOrderIds
  <2>4. \A j \in PurchaseOrderIds : purchaseOrders'[j] = purchaseOrders[j]
    BY <2>2, <2>3 DEF MapSet
  <2> QED
    BY <2>4, NothingCompleted
<1>5. CASE \E w \in Wallets, id \in PurchaseOrderIds : CancelPurchaseOrder(w, id)
  <2>1. PICK w \in Wallets, id \in PurchaseOrderIds : CancelPurchaseOrder(w, id)
    BY <1>5
  <2> DEFINE new == [purchaseOrders[id] EXCEPT !.isCanceled = TRUE]
  <2>2. purchaseOrders' = MapSet(purchaseOrders, id, new)
    BY <2>1, Zenon DEF CancelPurchaseOrder
  <2>3. new.isCompleted = purchaseOrders[id].isCompleted
    BY <1>2 DEF PurchaseOrder
  <2> HIDE DEF new
  <2> QED
    BY <1>3, <2>2, <2>3
<1>6. CASE \E w \in Lenders, id \in PurchaseOrderIds : Finance(w, id)
  <2>1. PICK w \in Lenders, id \in PurchaseOrderIds : Finance(w, id)
    BY <1>6
  <2> DEFINE new == [purchaseOrders[id] EXCEPT
                       !.hasActiveFinancing = TRUE,
                       !.proposedFinancing = nextFinancingId]
  <2>2. purchaseOrders' = MapSet(purchaseOrders, id, new)
    BY <2>1, Zenon DEF Finance
  <2>3. new.isCompleted = purchaseOrders[id].isCompleted
    BY <1>2 DEF PurchaseOrder
  <2> HIDE DEF new
  <2> QED
    BY <1>3, <2>2, <2>3
<1>7. CASE \E w \in Wallets, fid \in FinancingIds : CancelFinancing(w, fid)
  <2>1. purchaseOrders' = purchaseOrders
    BY <1>7 DEF CancelFinancing
  <2> QED
    BY <2>1, NothingCompleted
<1>8. CASE \E w \in Wallets : AcceptFinancing(w)
  <2>1. PICK w \in Wallets : AcceptFinancing(w)
    BY <1>8
  <2> SUFFICES ASSUME NEW id, id = activePurchaseOrders[w],
                      NEW fid, fid = purchaseOrders[id].proposedFinancing
               PROVE  \A j \in PurchaseOrderIds : CompletionCounted(j)
    OBVIOUS
  <2> DEFINE new == AcceptedOrder(purchaseOrders[id], fid, poFinancing[fid])
  <2>2. /\ id \in PurchaseOrderIds /\ poFinancing[fid].purchaseOrder = id
    BY <2>1 DEF AcceptFinancing, BankInv, ActiveOrderIsOpen, ReferencesResolve
  <2>3. purchaseOrders' =
          MapSet(purchaseOrders, poFinancing[fid].purchaseOrder, new)
    BY <2>1, Zenon DEF AcceptFinancing
  <2>4. new.isCompleted = purchaseOrders[id].isCompleted
    BY <1>2, <2>2 DEF AcceptedOrder, PurchaseOrder
  <2> HIDE DEF new
  <2> QED
    BY <1>3, <2>2, <2>3, <2>4
<1> QED
  BY <1>4, <1>5, <1>6, <1>7, <1>8

LEMMA MakePaymentCounts ==
  ASSUME BankInv, NEW w \in Wallets, MakePayment(w)
  PROVE  \A j \in PurchaseOrderIds : CompletionCounted(j)
<1> SUFFICES ASSUME NEW id, id = activePurchaseOrders[w]
             PROVE  \A j \in PurchaseOrderIds : CompletionCounted(j)
  OBVIOUS
<1> DEFINE po == purchaseOrders[id]
           new == RepaidOrder(po)
<1>1. TypeOK /\ id \in PurchaseOrderIds
  BY DEF MakePayment, CanMakePayment, BankInv, ActiveOrderIsOpen
<1>2. po \in PurchaseOrder
  BY <1>1, Typed
<1>3. /\ purchaseOrders' = MapSet(purchaseOrders, id, new)
      /\ CanEndPurchaseOrder(po)
      /\ trackRecords' = EndedPurchaseOrder(po, TRUE)
  BY Zenon DEF MakePayment, CanMakePayment
<1>4. /\ new.isCompleted /\ new.completedSuccessfully = TRUE
      /\ new.borrower = po.borrower /\ new.seller = po.seller
      /\ new.lender = po.lender
  BY <1>2 DEF RepaidOrder, PurchaseOrder
<1> HIDE DEF new
<1> QED
  BY <1>1, <1>3, <1>4, StoredCompletion

LEMMA HealthCounts ==
  ASSUME BankInv, NEW w, NEW id \in PurchaseOrderIds,
         CheckPurchaseOrderHealth(w, id)
  PROVE  \A j \in PurchaseOrderIds : CompletionCounted(j)
<1> DEFINE po == purchaseOrders[id]
           new == [po EXCEPT !.completedSuccessfully = FALSE, !.isCompleted = TRUE]
<1>1. TypeOK /\ po \in PurchaseOrder
  BY Typed DEF BankInv
<1>2. /\ purchaseOrders' = MapSet(purchaseOrders, id, new)
      /\ CanEndPurchaseOrder(po)
      /\ trackRecords' = EndedPurchaseOrder(po, FALSE)
  BY Zenon DEF CheckPurchaseOrderHealth
<1>3. /\ new.isCompleted /\ new.completedSuccessfully = FALSE
      /\ new.borrower = po.borrower /\ new.seller = po.seller
      /\ new.lender = po.lender
  BY <1>1 DEF PurchaseOrder
<1> HIDE DEF new
<1> QED
  BY <1>1, <1>2, <1>3, StoredCompletion

LEMMA NextCounts ==
  BankInv /\ [Next]_vars =>
    [\A id \in PurchaseOrderIds : CompletionCounted(id)]_vars
<1> SUFFICES ASSUME BankInv, [Next]_vars
             PROVE  [\A id \in PurchaseOrderIds : CompletionCounted(id)]_vars
  OBVIOUS
<1>1. CASE OrderNext
  <2>1. \A w \in Wallets : RejectFinancing(w) => UNCHANGED vars
    BY RejectChangesNothing
  <2> QED
    BY <1>1, <2>1, OtherCallsCompleteNothing, MakePaymentCounts, HealthCounts
    DEF OrderNext
<1>2. CASE OwnerNext
  <2>1. UNCHANGED storage
    BY <1>2 DEF OwnerNext, UpdateInterestRate, UpdateDueDate,
       UpdateGracePeriod, SetBlocksTime, PauseContract, ResumeContract
  <2> QED
    BY <2>1, NothingCompleted DEF storage
<1>3. CASE EnvironmentNext
  <2>1. UNCHANGED storage
    BY <1>3 DEF EnvironmentNext, MineBlocks
  <2> QED
    BY <2>1, NothingCompleted DEF storage
<1> QED
  BY <1>1, <1>2, <1>3 DEF Next

(* Every completion of an order is counted for its three parties, once, in *)
(* the transaction that completes it.                                      *)
THEOREM CompletionAlwaysCounted == Spec => CompletionIsCounted
BY BankInvariant, NextCounts, PTL DEF Spec, CompletionIsCounted
=============================================================================
