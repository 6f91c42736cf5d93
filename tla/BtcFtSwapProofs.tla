-------------------------- MODULE BtcFtSwapProofs --------------------------
(***************************************************************************)
(* Theorems about BtcFtSwap, for any wallets, tokens, Bitcoin              *)
(* transactions and arguments, and any number of swaps.                    *)
(***************************************************************************)
EXTENDS BtcFtSwapSafety, SumTheorems, TLAPS

-----------------------------------------------------------------------------
(* Types, and what each step does to the balances and to the swaps *)

(* What a transfer the token accepts does to the balances. *)
MovesTo(ft, amount, from, to, after) ==
  /\ after \in [Tokens -> [Accounts -> Nat]]
  /\ after[ft][from] = balances[ft][from] - amount
  /\ after[ft][to] = balances[ft][to] + amount
  /\ \A a \in Accounts \ {from, to} : after[ft][a] = balances[ft][a]
  /\ \A ft2 \in Tokens \ {ft} : after[ft2] = balances[ft2]

LEMMA TransferMoves ==
  ASSUME balances \in [Tokens -> [Accounts -> Nat]], NEW ft \in Tokens,
         NEW amount \in Nat, NEW from \in Accounts, NEW to \in Accounts,
         CanTransfer(balances[ft], amount, from, to)
  PROVE  MovesTo(ft, amount, from, to, Transferred(ft, amount, from, to))
<1> DEFINE bal == balances[ft]
           moved == Moved(bal, amount, from, to)
<1>1. bal \in [Accounts -> Nat] /\ from # to /\ amount <= bal[from]
  BY DEF CanTransfer
<1>2. /\ moved \in [Accounts -> Nat]
      /\ moved[from] = bal[from] - amount /\ moved[to] = bal[to] + amount
      /\ \A a \in Accounts \ {from, to} : moved[a] = bal[a]
  BY <1>1 DEF Moved
<1>3. Transferred(ft, amount, from, to) = [balances EXCEPT ![ft] = moved]
  BY DEF Transferred
<1> HIDE DEF moved
<1> QED
  BY <1>2, <1>3 DEF MovesTo

(* The swap x may change, no other does. *)
OnlyAt(x) ==
  /\ DOMAIN swaps' \ {x} = DOMAIN swaps \ {x}
  /\ \A id \in DOMAIN swaps \ {x} : swaps'[id] = swaps[id]

Creates(w, id, amount, ft) ==
  /\ w \in Wallets /\ amount \in Nat \ {0} /\ ft \in Tokens
  /\ OnlyAt(id) /\ id \notin DOMAIN swaps /\ id \in DOMAIN swaps'
  /\ swaps'[id].amount = amount /\ swaps'[id].ft = ft
  /\ swaps'[id].ftSender = w /\ swaps'[id].done = 0
  /\ MovesTo(ft, amount, w, Escrow, balances')

Takes(id) ==
  /\ OnlyAt(id) /\ id \in DOMAIN swaps /\ id \in DOMAIN swaps'
  /\ swaps'[id].amount = swaps[id].amount /\ swaps'[id].ft = swaps[id].ft
  /\ swaps'[id].ftSender = swaps[id].ftSender /\ swaps'[id].done = swaps[id].done
  /\ balances' = balances

Ends(id, to) ==
  /\ OnlyAt(id) /\ id \in Open /\ id \in DOMAIN swaps'
  /\ swaps'[id].done = 1
  /\ to \in Accounts \ {Escrow}
  /\ MovesTo(swaps[id].ft, swaps[id].amount, Escrow, to, balances')

Pays(w, ft, amount, to) ==
  /\ w \in Wallets /\ ft \in Tokens /\ amount \in Nat /\ to \in Accounts
  /\ Transfer(w, ft, amount, to)
  /\ MovesTo(ft, amount, w, to, balances')
  /\ swaps' = swaps

Claimed(id) == Ends(id, swaps[id].ftReceiver) /\ PaidFor(swaps[id])

(* Every step is one of these. *)
StepIs ==
  \/ \E w, id, amount, ft : Creates(w, id, amount, ft)
  \/ \E id : Takes(id)
  \/ \E id : Claimed(id)
  \/ \E id : Ends(id, swaps[id].ftSender)
  \/ \E w, ft, to : \E amount \in WalletTransfers : Pays(w, ft, amount, to)
  \/ swaps' = swaps /\ balances' = balances

(* The value that is read of an output is never above its value. *)
LEMMA PaysEnoughIsPaid ==
  ASSUME TypeOK, NEW tx \in mined, NEW swap \in Swap, PaysEnough(tx, swap)
  PROVE  PaidFor(swap)
<1>1. PICK i \in DOMAIN tx :
        tx[i].scriptPubKey = swap.btcReceiver /\ tx[i].value % Word >= swap.sats
  BY DEF PaysEnough, Counts, ReadUint32
<1>2. tx[i].value \in Nat /\ Word \in Nat \ {0} /\ swap.sats \in Nat
  BY SwapAssumption DEF TypeOK, Swap
<1>3. \A v \in Nat, n \in Nat \ {0} : v % n \in Nat /\ v % n <= v
  OBVIOUS
<1>4. tx[i].value >= swap.sats
  BY <1>1, <1>2, <1>3
<1> QED
  BY <1>1, <1>4 DEF PaidFor

LEMMA EscrowIsAccount == Escrow \in Accounts /\ Escrow \notin Wallets
BY SwapAssumption, PrincipalsAssumption DEF Accounts

LEMMA CreateTypes ==
  ASSUME TypeOK, NEW w \in Wallets, NEW sats \in Sats, NEW btc \in BtcReceivers,
         NEW amount \in Amounts, NEW to \in FtReceivers, NEW ft \in Tokens,
         CreateSwap(w, sats, btc, amount, to, ft)
  PROVE  TypeOK' /\ Creates(w, nextId, amount, ft)
<1> DEFINE swap == [sats |-> sats, btcReceiver |-> btc, amount |-> amount,
                    ftReceiver |-> to, ftSender |-> w, when |-> blockHeight,
                    done |-> 0, ft |-> ft]
<1>1. amount \in Nat \ {0} /\ w \in Accounts
  BY SwapAssumption DEF CreateSwap, CanTransfer, Accounts
<1>2. swap \in Swap
  BY <1>1, SwapAssumption DEF Swap, TypeOK
<1>3. MovesTo(ft, amount, w, Escrow, balances')
  BY <1>1, TransferMoves, EscrowIsAccount DEF CreateSwap, TypeOK
<1>4. /\ swap.amount = amount /\ swap.ft = ft /\ swap.ftSender = w
      /\ swap.done = 0 /\ swap.when = blockHeight
  OBVIOUS
<1>5. swaps' = MapSet(swaps, nextId, swap) /\ nextId \notin DOMAIN swaps
  BY DEF CreateSwap
<1> HIDE DEF swap
<1>6. /\ DOMAIN swaps' = DOMAIN swaps \cup {nextId} /\ swaps'[nextId] = swap
      /\ \A id \in DOMAIN swaps : swaps'[id] = swaps[id]
  BY <1>5 DEF MapSet
<1>7. Creates(w, nextId, amount, ft)
  BY <1>1, <1>3, <1>4, <1>5, <1>6 DEF Creates, OnlyAt
<1>8. /\ nextId' = nextId + 1 /\ mined' = mined /\ blockHeight' = blockHeight
  BY DEF CreateSwap, Advanced
<1>9. DOMAIN swaps' = 0..(nextId' - 1) /\ nextId' \in 0..MaxSwaps
  <2>1. nextId \in 0..MaxSwaps /\ DOMAIN swaps = 0..(nextId - 1)
    BY DEF TypeOK
  <2>2. nextId < MaxSwaps /\ MaxSwaps \in Nat
    BY SwapAssumption DEF CreateSwap
  <2>3. (0..(nextId - 1)) \cup {nextId} = 0..((nextId + 1) - 1)
    BY <2>1
  <2>4. DOMAIN swaps' = 0..(nextId' - 1)
    BY <1>6, <1>8, <2>1, <2>3
  <2> QED
    BY <1>8, <2>1, <2>2, <2>4
<1>10. \A id \in DOMAIN swaps' : swaps'[id] \in Swap /\ swaps'[id].when <= blockHeight'
  BY <1>2, <1>4, <1>6, <1>8 DEF TypeOK
<1> QED
  BY <1>3, <1>7, <1>8, <1>9, <1>10 DEF TypeOK, MovesTo

LEMMA TakeTypes ==
  ASSUME TypeOK, NEW w \in Wallets, NEW id \in DOMAIN swaps, SetFtReceiver(w, id)
  PROVE  TypeOK' /\ Takes(id)
<1> DEFINE swap == [swaps[id] EXCEPT !.ftReceiver = w]
<1>1. swaps[id] \in Swap /\ w \in Accounts
  BY DEF TypeOK, Accounts
<1>2. /\ swap \in Swap /\ swap.amount = swaps[id].amount /\ swap.ft = swaps[id].ft
      /\ swap.ftSender = swaps[id].ftSender /\ swap.done = swaps[id].done
      /\ swap.when = swaps[id].when
  BY <1>1 DEF Swap
<1>3. swaps' = [swaps EXCEPT ![id] = swap]
  BY DEF SetFtReceiver
<1> HIDE DEF swap
<1>4. /\ DOMAIN swaps' = DOMAIN swaps /\ swaps'[id] = swap
      /\ \A j \in DOMAIN swaps \ {id} : swaps'[j] = swaps[j]
  BY <1>3
<1> QED
  BY <1>2, <1>4 DEF SetFtReceiver, TypeOK, Takes, OnlyAt

LEMMA SettleTypes ==
  ASSUME TypeOK, NEW id \in DOMAIN swaps, NEW ft \in Tokens, NEW to \in Accounts,
         Settle(id, ft, to)
  PROVE  TypeOK' /\ Ends(id, to)
<1> DEFINE swap == [swaps[id] EXCEPT !.done = 1]
<1>1. swaps[id] \in Swap /\ ft = swaps[id].ft /\ to # Escrow /\ id \in Open
  BY DEF TypeOK, Settle, IsOf, CanTransfer, Open
<1>2. swap \in Swap /\ swap.done = 1 /\ swap.when = swaps[id].when
  BY <1>1 DEF Swap
<1>3. swaps' = [swaps EXCEPT ![id] = swap]
  BY DEF Settle, Closed
<1>4. swaps[id].amount \in Nat
  BY <1>1 DEF Swap
<1>5. MovesTo(ft, swaps[id].amount, Escrow, to, balances')
  BY <1>4, TransferMoves, EscrowIsAccount DEF Settle, TypeOK
<1> HIDE DEF swap
<1>6. /\ DOMAIN swaps' = DOMAIN swaps /\ swaps'[id] = swap
      /\ \A j \in DOMAIN swaps \ {id} : swaps'[j] = swaps[j]
  BY <1>3
<1>7. Ends(id, to)
  BY <1>1, <1>2, <1>5, <1>6 DEF Ends, OnlyAt
<1> QED
  BY <1>2, <1>5, <1>6, <1>7 DEF Settle, TypeOK, MovesTo

LEMMA TypeStep ==
  ASSUME TypeOK, [Next]_vars
  PROVE  TypeOK' /\ StepIs
<1>1. ASSUME NEW w \in Wallets, NEW sats \in Sats, NEW btc \in BtcReceivers,
             NEW amount \in Amounts, NEW to \in FtReceivers, NEW ft \in Tokens,
             CreateSwap(w, sats, btc, amount, to, ft)
      PROVE  TypeOK' /\ StepIs
  BY <1>1, CreateTypes DEF StepIs
<1>2. ASSUME NEW w \in Wallets, NEW id \in DOMAIN swaps, SetFtReceiver(w, id)
      PROVE  TypeOK' /\ StepIs
  BY <1>2, TakeTypes DEF StepIs
<1>3. ASSUME NEW id \in DOMAIN swaps, NEW ft \in Tokens, Cancel(id, ft)
      PROVE  TypeOK' /\ StepIs
  <2>1. swaps[id].ftSender \in Accounts
    BY DEF TypeOK, Swap, Accounts
  <2> QED
    BY <1>3, <2>1, SettleTypes DEF Cancel, StepIs
<1>4. ASSUME NEW id \in DOMAIN swaps, NEW tx \in BtcTxs, NEW ft \in Tokens,
             SubmitSwap(id, tx, ft)
      PROVE  TypeOK' /\ StepIs
  <2>1. swaps[id].ftReceiver \in Accounts /\ swaps[id] \in Swap
    BY <1>4 DEF TypeOK, Swap, SubmitSwap
  <2>2. PaidFor(swaps[id])
    BY <1>4, <2>1, PaysEnoughIsPaid DEF SubmitSwap
  <2>3. TypeOK' /\ Ends(id, swaps[id].ftReceiver)
    BY <1>4, <2>1, SettleTypes DEF SubmitSwap
  <2> QED
    BY <2>2, <2>3 DEF StepIs, Claimed
<1>5. ASSUME NEW w \in Wallets, NEW ft \in Tokens, NEW amount \in WalletTransfers,
             NEW to \in Accounts, Transfer(w, ft, amount, to)
      PROVE  TypeOK' /\ StepIs
  <2>1. amount \in Nat /\ w \in Accounts
    BY SwapAssumption DEF Accounts
  <2>2. MovesTo(ft, amount, w, to, balances')
    BY <1>5, <2>1, TransferMoves DEF Transfer, TypeOK
  <2> QED
    BY <1>5, <2>1, <2>2 DEF Transfer, TypeOK, MovesTo, StepIs, Pays
<1>6. ASSUME NEW tx \in BtcTxs, MineTx(tx)
      PROVE  TypeOK' /\ StepIs
  BY <1>6 DEF MineTx, TypeOK, StepIs
<1>7. CASE MineBlocks
  <2>1. PICK h \in Heights : h > blockHeight /\ blockHeight' = h
    BY <1>7 DEF MineBlocks
  <2>2. h \in Nat /\ blockHeight \in Nat
    BY SwapAssumption DEF TypeOK
  <2>3. \A id \in DOMAIN swaps : swaps[id].when \in Nat /\ swaps[id].when <= h
    BY <2>1, <2>2 DEF TypeOK, Swap
  <2> QED
    BY <1>7, <2>1, <2>2, <2>3 DEF MineBlocks, TypeOK, StepIs
<1>8. CASE UNCHANGED vars
  BY <1>8 DEF vars, TypeOK, StepIs
<1> QED
  BY <1>1, <1>2, <1>3, <1>4, <1>5, <1>6, <1>7, <1>8
     DEF Next, SwapNext, EnvironmentNext

LEMMA TypeInit ==
  ASSUME Init
  PROVE  TypeOK
<1>1. balances \in [Tokens -> [Accounts -> Nat]]
  BY SwapAssumption DEF Init
<1>2. DOMAIN swaps = {} /\ 0..(nextId - 1) = {} /\ nextId = 0
  BY DEF Init
<1> QED
  BY <1>1, <1>2, SwapAssumption DEF Init, TypeOK

(* The records of swaps, the identifiers without gaps, and balances that   *)
(* are never overdrawn.                                                    *)
THEOREM SwapTypes == Spec => []TypeOK
<1>1. TypeOK /\ [Next]_vars => TypeOK'
  BY TypeStep
<1> QED
  BY <1>1, TypeInit, PTL DEF Spec

-----------------------------------------------------------------------------
(* Sums over open swaps, of which a step changes one swap *)

OpenIsFinite == IsFiniteSet(Open) /\ \A id \in Open : OpenAmounts[id] \in Nat

LEMMA TypedOpenIsFinite == TypeOK => OpenIsFinite
<1> SUFFICES ASSUME TypeOK PROVE OpenIsFinite
  OBVIOUS
<1>1. IsFiniteSet(0..(nextId - 1)) /\ Open \subseteq 0..(nextId - 1)
  BY FS_Interval DEF TypeOK, Open
<1>2. IsFiniteSet(Open)
  BY <1>1, FS_Subset
<1> QED
  BY <1>2 DEF OpenAmounts, Open, TypeOK, Swap, OpenIsFinite

LEMMA SumStep ==
  ASSUME TypeOK, TypeOK', NEW x, OnlyAt(x), NEW S, NEW T,
         S \subseteq Open, T \subseteq Open', S \ {x} = T \ {x}
  PROVE  SumFunctionOnSet(OpenAmounts', T) - Share(OpenAmounts', T, x)
           = SumFunctionOnSet(OpenAmounts, S) - Share(OpenAmounts, S, x)
<1>1. PICK f, g : f = OpenAmounts /\ g = OpenAmounts'
  OBVIOUS
<1>2. IsFiniteSet(S) /\ \A id \in S : f[id] \in Int
  BY <1>1, TypedOpenIsFinite, FS_Subset DEF OpenIsFinite
<1>3. OpenIsFinite'
  BY TypedOpenIsFinite, PTL
<1>4. IsFiniteSet(T) /\ \A id \in T : g[id] \in Int
  BY <1>1, <1>3, FS_Subset DEF OpenIsFinite
<1>5. \A id \in S \ {x} : f[id] = g[id]
  BY <1>1 DEF OpenAmounts, OnlyAt, Open
<1>6. SumFunctionOnSet(g, T) - Share(g, T, x) = SumFunctionOnSet(f, S) - Share(f, S, x)
  BY <1>2, <1>4, <1>5, SumChangesAt
<1> QED
  BY <1>1, <1>6

(* What the swap x is part of, and with how much. *)
PartOf(ft, x) == IF x \in OpenFor(ft) THEN swaps[x].amount ELSE 0
PartSentBy(w, ft, x) == IF x \in SentBy(w, ft) THEN swaps[x].amount ELSE 0

LEMMA ReservedType == TypeOK => \A ft : Reserved(ft) \in Nat
<1> SUFFICES ASSUME TypeOK, NEW ft PROVE Reserved(ft) \in Nat
  OBVIOUS
<1>1. PICK f, S : f = OpenAmounts /\ S = OpenFor(ft)
  OBVIOUS
<1>2. IsFiniteSet(S) /\ \A id \in S : f[id] \in Nat
  BY <1>1, TypedOpenIsFinite, FS_Subset DEF OpenIsFinite, OpenFor
<1> QED
  BY <1>1, <1>2, SumType DEF Reserved

LEMMA ReservedStep ==
  ASSUME TypeOK, TypeOK', NEW x, OnlyAt(x), NEW ft
  PROVE  Reserved(ft)' - PartOf(ft, x)' = Reserved(ft) - PartOf(ft, x)
<1>1. PICK S, T : S = OpenFor(ft) /\ T = OpenFor(ft)'
  OBVIOUS
<1>2. S \subseteq Open /\ T \subseteq Open'
  BY <1>1 DEF OpenFor
<1>3. S \ {x} = T \ {x}
  BY <1>1 DEF OpenFor, OnlyAt, Open
<1>4. SumFunctionOnSet(OpenAmounts', T) - Share(OpenAmounts', T, x)
        = SumFunctionOnSet(OpenAmounts, S) - Share(OpenAmounts, S, x)
  BY <1>2, <1>3, SumStep
<1>5. /\ Share(OpenAmounts, S, x) = PartOf(ft, x)
      /\ Share(OpenAmounts', T, x) = PartOf(ft, x)'
  BY <1>1 DEF Share, PartOf, OpenAmounts, OpenFor
<1> QED
  BY <1>1, <1>4, <1>5 DEF Reserved

(* The same of what a wallet put into swaps. *)

LEMMA EscrowedType == TypeOK => \A w, ft : Escrowed(w, ft) \in Nat
<1> SUFFICES ASSUME TypeOK, NEW w, NEW ft PROVE Escrowed(w, ft) \in Nat
  OBVIOUS
<1>1. PICK f, S : f = OpenAmounts /\ S = SentBy(w, ft)
  OBVIOUS
<1>2. IsFiniteSet(S) /\ \A id \in S : f[id] \in Nat
  BY <1>1, TypedOpenIsFinite, FS_Subset DEF OpenIsFinite, SentBy
<1> QED
  BY <1>1, <1>2, SumType DEF Escrowed

LEMMA EscrowedStep ==
  ASSUME TypeOK, TypeOK', NEW x, OnlyAt(x), NEW w, NEW ft
  PROVE  Escrowed(w, ft)' - PartSentBy(w, ft, x)'
           = Escrowed(w, ft) - PartSentBy(w, ft, x)
<1>1. PICK S, T : S = SentBy(w, ft) /\ T = SentBy(w, ft)'
  OBVIOUS
<1>2. S \subseteq Open /\ T \subseteq Open'
  BY <1>1 DEF SentBy
<1>3. S \ {x} = T \ {x}
  BY <1>1 DEF SentBy, OnlyAt, Open
<1>4. SumFunctionOnSet(OpenAmounts', T) - Share(OpenAmounts', T, x)
        = SumFunctionOnSet(OpenAmounts, S) - Share(OpenAmounts, S, x)
  BY <1>2, <1>3, SumStep
<1>5. /\ Share(OpenAmounts, S, x) = PartSentBy(w, ft, x)
      /\ Share(OpenAmounts', T, x) = PartSentBy(w, ft, x)'
  BY <1>1 DEF Share, PartSentBy, OpenAmounts, SentBy
<1> QED
  BY <1>1, <1>4, <1>5 DEF Escrowed

SumsTyped ==
  /\ \A ft : Reserved(ft) \in Nat
  /\ \A w, ft : Escrowed(w, ft) \in Nat

LEMMA TypedSums == TypeOK => SumsTyped
BY ReservedType, EscrowedType DEF SumsTyped

(* What each kind of step changes of either sum. *)

LEMMA SumsWhenCreated ==
  ASSUME TypeOK, TypeOK', NEW w, NEW id, NEW amount, NEW ft,
         Creates(w, id, amount, ft)
  PROVE  /\ Reserved(ft)' = Reserved(ft) + amount
         /\ \A ft2 \in Tokens \ {ft} : Reserved(ft2)' = Reserved(ft2)
         /\ Escrowed(w, ft)' = Escrowed(w, ft) + amount
         /\ \A w2, ft2 : w2 # w \/ ft2 # ft => Escrowed(w2, ft2)' = Escrowed(w2, ft2)
<1>1. /\ OnlyAt(id) /\ id \notin DOMAIN swaps /\ id \in DOMAIN swaps'
      /\ swaps'[id].amount = amount /\ swaps'[id].ft = ft /\ amount \in Nat
      /\ swaps'[id].ftSender = w /\ swaps'[id].done = 0
  BY DEF Creates
<1>2. \A ft2 : /\ PartOf(ft2, id) = 0
               /\ PartOf(ft2, id)' = IF ft2 = ft THEN amount ELSE 0
  BY <1>1 DEF PartOf, OpenFor, Open
<1>3. \A w2, ft2 :
        /\ PartSentBy(w2, ft2, id) = 0
        /\ PartSentBy(w2, ft2, id)' = IF w2 = w /\ ft2 = ft THEN amount ELSE 0
  BY <1>1 DEF PartSentBy, SentBy, Open
<1>4. SumsTyped /\ SumsTyped'
  BY TypedSums, PTL
<1>5. /\ \A ft2 : Reserved(ft2) \in Nat /\ Reserved(ft2)' \in Nat
      /\ \A w2, ft2 : Escrowed(w2, ft2) \in Nat /\ Escrowed(w2, ft2)' \in Nat
  BY <1>4 DEF SumsTyped
<1>6. \A ft2 : Reserved(ft2)' - PartOf(ft2, id)' = Reserved(ft2) - PartOf(ft2, id)
  BY <1>1, ReservedStep
<1>7. \A w2, ft2 : Escrowed(w2, ft2)' - PartSentBy(w2, ft2, id)'
                     = Escrowed(w2, ft2) - PartSentBy(w2, ft2, id)
  BY <1>1, EscrowedStep
<1> QED
  BY <1>1, <1>2, <1>3, <1>5, <1>6, <1>7

LEMMA SumsWhenTaken ==
  ASSUME TypeOK, TypeOK', NEW id, Takes(id)
  PROVE  /\ \A ft : Reserved(ft)' = Reserved(ft)
         /\ \A w, ft : Escrowed(w, ft)' = Escrowed(w, ft)
<1>1. OnlyAt(id)
  BY DEF Takes
<1>2. \A ft : PartOf(ft, id)' = PartOf(ft, id) /\ PartOf(ft, id) \in Nat
  BY DEF Takes, PartOf, OpenFor, Open, TypeOK, Swap
<1>3. \A w, ft : /\ PartSentBy(w, ft, id)' = PartSentBy(w, ft, id)
                 /\ PartSentBy(w, ft, id) \in Nat
  BY DEF Takes, PartSentBy, SentBy, Open, TypeOK, Swap
<1>4. SumsTyped /\ SumsTyped'
  BY TypedSums, PTL
<1>5. /\ \A ft : Reserved(ft) \in Nat /\ Reserved(ft)' \in Nat
      /\ \A w, ft : Escrowed(w, ft) \in Nat /\ Escrowed(w, ft)' \in Nat
  BY <1>4 DEF SumsTyped
<1>6. \A ft : Reserved(ft)' - PartOf(ft, id)' = Reserved(ft) - PartOf(ft, id)
  BY <1>1, ReservedStep
<1>7. \A w, ft : Escrowed(w, ft)' - PartSentBy(w, ft, id)'
                   = Escrowed(w, ft) - PartSentBy(w, ft, id)
  BY <1>1, EscrowedStep
<1> QED
  BY <1>2, <1>3, <1>5, <1>6, <1>7

LEMMA SumsWhenEnded ==
  ASSUME TypeOK, TypeOK', NEW id, NEW to, Ends(id, to),
         NEW w, w = swaps[id].ftSender, NEW ft, ft = swaps[id].ft,
         NEW amount, amount = swaps[id].amount
  PROVE  /\ Reserved(ft)' = Reserved(ft) - amount
         /\ \A ft2 \in Tokens \ {ft} : Reserved(ft2)' = Reserved(ft2)
         /\ Escrowed(w, ft)' = Escrowed(w, ft) - amount
         /\ \A w2, ft2 : w2 # w \/ ft2 # ft => Escrowed(w2, ft2)' = Escrowed(w2, ft2)
<1>1. OnlyAt(id) /\ id \in Open /\ swaps'[id].done = 1 /\ amount \in Nat
  BY DEF Ends, Open, TypeOK, Swap
<1>2. \A ft2 : /\ PartOf(ft2, id)' = 0
               /\ PartOf(ft2, id) = IF ft2 = ft THEN amount ELSE 0
  BY <1>1 DEF PartOf, OpenFor, Open
<1>3. \A w2, ft2 :
        /\ PartSentBy(w2, ft2, id)' = 0
        /\ PartSentBy(w2, ft2, id) = IF w2 = w /\ ft2 = ft THEN amount ELSE 0
  BY <1>1 DEF PartSentBy, SentBy, Open
<1>4. SumsTyped /\ SumsTyped'
  BY TypedSums, PTL
<1>5. /\ \A ft2 : Reserved(ft2) \in Nat /\ Reserved(ft2)' \in Nat
      /\ \A w2, ft2 : Escrowed(w2, ft2) \in Nat /\ Escrowed(w2, ft2)' \in Nat
  BY <1>4 DEF SumsTyped
<1>6. \A ft2 : Reserved(ft2)' - PartOf(ft2, id)' = Reserved(ft2) - PartOf(ft2, id)
  BY <1>1, ReservedStep
<1>7. \A w2, ft2 : Escrowed(w2, ft2)' - PartSentBy(w2, ft2, id)'
                     = Escrowed(w2, ft2) - PartSentBy(w2, ft2, id)
  BY <1>1, EscrowedStep
<1> QED
  BY <1>1, <1>2, <1>3, <1>5, <1>6, <1>7

-----------------------------------------------------------------------------
(* The escrow *)

CoveredInv == TypeOK /\ EscrowCoversSwaps

LEMMA NothingReservedAtFirst ==
  ASSUME Init
  PROVE  EscrowCoversSwaps
<1>1. TypeOK
  BY TypeInit
<1> SUFFICES ASSUME NEW ft \in Tokens PROVE Reserved(ft) <= balances[ft][Escrow]
  BY DEF EscrowCoversSwaps
<1>2. OpenFor(ft) = {}
  BY DEF OpenFor, Open, Init
<1>3. SumFunctionOnSet(OpenAmounts, {}) = 0
  BY SumUnfolds, FS_EmptySet
<1>4. balances[ft][Escrow] \in Nat
  BY <1>1, EscrowIsAccount DEF TypeOK
<1> QED
  BY <1>2, <1>3, <1>4 DEF Reserved

LEMMA CoverStep ==
  ASSUME CoveredInv, [Next]_vars
  PROVE  CoveredInv'
<1>1. TypeOK /\ TypeOK' /\ StepIs /\ EscrowCoversSwaps
  BY TypeStep DEF CoveredInv
<1>2. \A ft \in Tokens : /\ Reserved(ft) \in Nat /\ Reserved(ft)' \in Nat
                         /\ Reserved(ft) <= balances[ft][Escrow]
                         /\ balances[ft][Escrow] \in Nat /\ balances'[ft][Escrow] \in Nat
  <2>1. SumsTyped /\ SumsTyped'
    BY <1>1, TypedSums, PTL
  <2> QED
    BY <1>1, <2>1, EscrowIsAccount DEF SumsTyped, EscrowCoversSwaps, TypeOK
<1> SUFFICES ASSUME NEW ft \in Tokens
             PROVE  Reserved(ft)' <= balances'[ft][Escrow]
  BY <1>1 DEF CoveredInv, EscrowCoversSwaps
<1>3. ASSUME NEW w, NEW id, NEW amount, NEW ft2, Creates(w, id, amount, ft2)
      PROVE  Reserved(ft)' <= balances'[ft][Escrow]
  <2>1. amount \in Nat /\ ft2 \in Tokens /\ MovesTo(ft2, amount, w, Escrow, balances')
    BY <1>3 DEF Creates
  <2>2. CASE ft = ft2
    BY <1>1, <1>2, <1>3, <2>1, <2>2, SumsWhenCreated DEF MovesTo
  <2>3. CASE ft # ft2
    <3>1. Reserved(ft)' = Reserved(ft)
      BY <1>1, <1>3, <2>3, SumsWhenCreated
    <3> QED
      BY <1>2, <2>1, <2>3, <3>1 DEF MovesTo
  <2> QED
    BY <2>2, <2>3
<1>4. ASSUME NEW id, Takes(id)
      PROVE  Reserved(ft)' <= balances'[ft][Escrow]
  BY <1>1, <1>2, <1>4, SumsWhenTaken DEF Takes
<1>5. ASSUME NEW id, NEW to, Ends(id, to)
      PROVE  Reserved(ft)' <= balances'[ft][Escrow]
  <2>1. PICK w, ft2, amount : /\ w = swaps[id].ftSender /\ ft2 = swaps[id].ft
                              /\ amount = swaps[id].amount
    OBVIOUS
  <2>2. amount \in Nat /\ ft2 \in Tokens /\ MovesTo(ft2, amount, Escrow, to, balances')
    BY <1>1, <1>5, <2>1 DEF Ends, Open, TypeOK, Swap
  <2>3. CASE ft = ft2
    <3>1. Reserved(ft)' = Reserved(ft) - amount
      BY <1>1, <1>5, <2>1, <2>3, SumsWhenEnded
    <3> QED
      BY <1>2, <2>2, <2>3, <3>1 DEF MovesTo
  <2>4. CASE ft # ft2
    <3>1. Reserved(ft)' = Reserved(ft)
      BY <1>1, <1>5, <2>1, <2>4, SumsWhenEnded
    <3> QED
      BY <1>2, <2>2, <2>4, <3>1 DEF MovesTo
  <2> QED
    BY <2>3, <2>4
<1>6. ASSUME swaps' = swaps PROVE Reserved(ft)' = Reserved(ft)
  BY <1>6 DEF Reserved, OpenFor, OpenAmounts, Open
<1>7. ASSUME NEW w, NEW ft2, NEW to, NEW amount \in WalletTransfers,
             Pays(w, ft2, amount, to)
      PROVE  Reserved(ft)' <= balances'[ft][Escrow]
  <2>1. /\ amount \in Nat /\ w # Escrow /\ w \in Accounts /\ to \in Accounts
        /\ MovesTo(ft2, amount, w, to, balances') /\ swaps' = swaps /\ ft2 \in Tokens
    BY <1>7, EscrowIsAccount DEF Pays, Accounts
  <2>2. balances'[ft][Escrow] >= balances[ft][Escrow]
    <3>1. CASE ft # ft2
      BY <1>2, <2>1, <3>1 DEF MovesTo
    <3>2. CASE ft = ft2 /\ to = Escrow
      BY <1>2, <2>1, <3>2 DEF MovesTo
    <3>3. CASE ft = ft2 /\ to # Escrow
      BY <1>2, <2>1, <3>3, EscrowIsAccount DEF MovesTo
    <3> QED
      BY <3>1, <3>2, <3>3
  <2> QED
    BY <1>2, <1>6, <2>1, <2>2
<1>8. CASE swaps' = swaps /\ balances' = balances
  BY <1>2, <1>6, <1>8
<1> QED
  BY <1>1, <1>3, <1>4, <1>5, <1>7, <1>8 DEF StepIs, Claimed

(* Whatever is created, claimed and canceled, what the contract holds of a *)
(* token covers all open swaps of that token.                              *)
THEOREM EscrowAlwaysCovers == Spec => []EscrowCoversSwaps
<1>1. Init => CoveredInv
  BY TypeInit, NothingReservedAtFirst DEF CoveredInv
<1>2. CoveredInv /\ [Next]_vars => CoveredInv'
  BY CoverStep
<1>3. CoveredInv => EscrowCoversSwaps
  BY DEF CoveredInv
<1> QED
  BY <1>1, <1>2, <1>3, PTL DEF Spec

LEMMA OneIsReserved ==
  ASSUME TypeOK, NEW id \in Open
  PROVE  swaps[id].amount <= Reserved(swaps[id].ft)
<1>1. PICK f, S : f = OpenAmounts /\ S = OpenFor(swaps[id].ft)
  OBVIOUS
<1>2. IsFiniteSet(S) /\ \A x \in S : f[x] \in Nat
  BY <1>1, TypedOpenIsFinite, FS_Subset DEF OpenIsFinite, OpenFor
<1>3. id \in S /\ f[id] = swaps[id].amount
  BY <1>1 DEF OpenFor, OpenAmounts
<1>4. IsFiniteSet(S \ {id}) /\ \A x \in S \ {id} : f[x] \in Nat
  BY <1>2, FS_Subset
<1>5. PICK rest \in Nat : rest = SumFunctionOnSet(f, S \ {id})
  BY <1>4, SumType
<1>6. SumFunctionOnSet(f, S) = f[id] + rest
  BY <1>2, <1>3, <1>5, SumTakesOut
<1> QED
  BY <1>1, <1>2, <1>3, <1>5, <1>6 DEF Reserved

(* No open swap is stuck: the contract can send its tokens back, and can   *)
(* send them to the receiver once there is one other than itself.          *)
THEOREM OpenSwapCanAlwaysBeSettled == Spec => []OpenSwapCanBeSettled
<1>1. TypeOK /\ EscrowCoversSwaps => OpenSwapCanBeSettled
  <2> SUFFICES ASSUME TypeOK, EscrowCoversSwaps, NEW id \in Open,
                      NEW to \in {swaps[id].ftSender} \cup ({swaps[id].ftReceiver} \ {None, Escrow})
               PROVE  CanTransfer(balances[swaps[id].ft], swaps[id].amount, Escrow, to)
    BY DEF OpenSwapCanBeSettled
  <2>1. swaps[id] \in Swap
    BY DEF Open, TypeOK
  <2>2. swaps[id].amount \in Nat \ {0} /\ swaps[id].ft \in Tokens /\ to # Escrow
    BY <2>1, EscrowIsAccount DEF Swap
  <2>3. /\ Reserved(swaps[id].ft) \in Nat
        /\ Reserved(swaps[id].ft) <= balances[swaps[id].ft][Escrow]
        /\ balances[swaps[id].ft][Escrow] \in Nat
    BY <2>2, ReservedType, EscrowIsAccount DEF EscrowCoversSwaps, TypeOK
  <2> QED
    BY <2>2, <2>3, OneIsReserved DEF CanTransfer
<1> QED
  BY <1>1, SwapTypes, EscrowAlwaysCovers, PTL

-----------------------------------------------------------------------------
(* What wallets have *)

LEMMA BalancesTyped == TypeOK => \A ft \in Tokens, a \in Accounts : balances[ft][a] \in Nat
BY DEF TypeOK

LEMMA WealthWhenCreated ==
  ASSUME TypeOK, TypeOK', NEW v, NEW id, NEW amount, NEW ft2,
         Creates(v, id, amount, ft2), NEW w \in Wallets, NEW ft \in Tokens
  PROVE  Wealth(w, ft)' = Wealth(w, ft)
<1>1. /\ amount \in Nat /\ v \in Wallets /\ ft2 \in Tokens /\ v \in Accounts
      /\ MovesTo(ft2, amount, v, Escrow, balances')
  BY DEF Creates, Accounts
<1>2. SumsTyped /\ w \in Accounts /\ w # Escrow
  BY TypedSums, EscrowIsAccount DEF Accounts
<1>3. balances[ft][w] \in Nat /\ Escrowed(w, ft) \in Nat
  BY <1>2, BalancesTyped DEF SumsTyped
<1>4. CASE w = v /\ ft = ft2
  <2>1. balances'[ft][w] = balances[ft][w] - amount
    BY <1>1, <1>4 DEF MovesTo
  <2>2. Escrowed(w, ft)' = Escrowed(w, ft) + amount
    BY <1>4, SumsWhenCreated
  <2> QED
    BY <1>1, <1>3, <2>1, <2>2 DEF Wealth
<1>5. CASE w # v \/ ft # ft2
  <2>1. balances'[ft][w] = balances[ft][w]
    BY <1>1, <1>2, <1>5 DEF MovesTo
  <2>2. Escrowed(w, ft)' = Escrowed(w, ft)
    BY <1>5, SumsWhenCreated
  <2> QED
    BY <2>1, <2>2 DEF Wealth
<1> QED
  BY <1>4, <1>5

(* A swap that ends takes its amount from its sender and gives it to to. *)
LEMMA WealthWhenEnded ==
  ASSUME TypeOK, TypeOK', NEW id, NEW to, Ends(id, to),
         NEW v, v = swaps[id].ftSender, NEW ft2, ft2 = swaps[id].ft,
         NEW amount, amount = swaps[id].amount,
         NEW w \in Wallets, NEW ft \in Tokens
  PROVE  /\ w = to /\ w # v /\ ft = ft2 => Wealth(w, ft)' = Wealth(w, ft) + amount
         /\ w = v /\ w # to /\ ft = ft2 => Wealth(w, ft)' = Wealth(w, ft) - amount
         /\ ft # ft2 \/ w \notin {v, to} \/ v = to => Wealth(w, ft)' = Wealth(w, ft)
<1>1. /\ amount \in Nat /\ ft2 \in Tokens /\ to \in Accounts /\ to # Escrow
      /\ MovesTo(ft2, amount, Escrow, to, balances')
  BY DEF Ends, Open, TypeOK, Swap
<1>2. SumsTyped /\ w \in Accounts /\ w # Escrow
  BY TypedSums, EscrowIsAccount DEF Accounts
<1>3. balances[ft][w] \in Nat /\ Escrowed(w, ft) \in Nat
  BY <1>2, BalancesTyped DEF SumsTyped
<1>4. balances'[ft][w] = balances[ft][w] + (IF w = to /\ ft = ft2 THEN amount ELSE 0)
  BY <1>1, <1>2, <1>3 DEF MovesTo
<1>5. Escrowed(w, ft)' = Escrowed(w, ft) - (IF w = v /\ ft = ft2 THEN amount ELSE 0)
  <2>1. CASE w = v /\ ft = ft2
    BY <2>1, SumsWhenEnded
  <2>2. CASE w # v \/ ft # ft2
    <3>1. Escrowed(w, ft)' = Escrowed(w, ft)
      BY <2>2, SumsWhenEnded
    <3> QED
      BY <1>3, <2>2, <3>1
  <2> QED
    BY <2>1, <2>2
<1> QED
  BY <1>1, <1>3, <1>4, <1>5 DEF Wealth

LEMMA WealthStep ==
  ASSUME TypeOK, [Next]_vars, NEW w \in Wallets, NEW ft \in Tokens,
         Wealth(w, ft)' # Wealth(w, ft)
  PROVE  Sells(w, ft) \/ Buys(w, ft) \/ TransfersItself(w, ft)
<1>1. TypeOK /\ TypeOK' /\ StepIs
  BY TypeStep
<1>2. ASSUME NEW v, NEW id, NEW amount, NEW ft2, Creates(v, id, amount, ft2)
      PROVE  FALSE
  BY <1>1, <1>2, WealthWhenCreated
<1>3. ASSUME NEW id, Takes(id)
      PROVE  FALSE
  <2>1. Escrowed(w, ft)' = Escrowed(w, ft)
    BY <1>1, <1>3, SumsWhenTaken
  <2> QED
    BY <1>3, <2>1 DEF Takes, Wealth
<1>4. ASSUME NEW id, Ends(id, swaps[id].ftSender)
      PROVE  FALSE
  <2>1. PICK v, ft2, amount : /\ v = swaps[id].ftSender /\ ft2 = swaps[id].ft
                              /\ amount = swaps[id].amount
    OBVIOUS
  <2>2. Ends(id, v)
    BY <1>4, <2>1
  <2> QED
    BY <1>1, <2>1, <2>2, WealthWhenEnded
<1>5. ASSUME NEW id, Claimed(id)
      PROVE  Sells(w, ft) \/ Buys(w, ft)
  <2>1. PICK v, ft2, amount, to :
          /\ v = swaps[id].ftSender /\ ft2 = swaps[id].ft
          /\ amount = swaps[id].amount /\ to = swaps[id].ftReceiver
    OBVIOUS
  <2>2. Ends(id, to) /\ PaidFor(swaps[id])
    BY <1>5, <2>1 DEF Claimed
  <2>3. id \in Open /\ id \notin Open'
    BY <2>2 DEF Ends, Open
  <2>4. ft = ft2 /\ w \in {v, to} /\ v # to
    BY <1>1, <2>1, <2>2, WealthWhenEnded
  <2>5. CASE w = to
    <3>1. Wealth(w, ft)' = Wealth(w, ft) + amount
      BY <1>1, <2>1, <2>2, <2>4, <2>5, WealthWhenEnded
    <3> QED
      BY <2>1, <2>2, <2>3, <2>4, <2>5, <3>1 DEF Buys
  <2>6. CASE w = v
    <3>1. Wealth(w, ft)' = Wealth(w, ft) - amount
      BY <1>1, <2>1, <2>2, <2>4, <2>6, WealthWhenEnded
    <3>2. id \in SentBy(w, ft)
      BY <2>1, <2>3, <2>4, <2>6 DEF SentBy
    <3> QED
      BY <2>1, <2>2, <2>3, <3>1, <3>2 DEF Sells
  <2> QED
    BY <2>4, <2>5, <2>6
<1>6. ASSUME swaps' = swaps PROVE Escrowed(w, ft)' = Escrowed(w, ft)
  BY <1>6 DEF Escrowed, SentBy, OpenAmounts, Open
<1>7. ASSUME NEW v, NEW ft2, NEW to, NEW amount \in WalletTransfers,
             Pays(v, ft2, amount, to)
      PROVE  TransfersItself(w, ft)
  <2>1. /\ v \in Wallets /\ to \in Accounts /\ Transfer(v, ft2, amount, to)
        /\ MovesTo(ft2, amount, v, to, balances') /\ swaps' = swaps
    BY <1>7 DEF Pays
  <2>2. balances'[ft][w] # balances[ft][w]
    BY <1>6, <2>1 DEF Wealth
  <2>3. ft = ft2 /\ w \in {v, to}
    BY <2>1, <2>2 DEF MovesTo, Accounts
  <2> QED
    BY <2>1, <2>3 DEF TransfersItself
<1>8. CASE swaps' = swaps /\ balances' = balances
  BY <1>6, <1>8 DEF Wealth
<1> QED
  BY <1>1, <1>2, <1>3, <1>4, <1>5, <1>7, <1>8 DEF StepIs

(* What a wallet has of a token, its open swaps included, changes only by  *)
(* a swap that was paid for on Bitcoin, by exactly its amount, or by the   *)
(* wallets' own transfers.                                                 *)
THEOREM WalletsAlwaysWhole == Spec => WalletsStayWhole
<1> DEFINE Whole == \A w \in Wallets, ft \in Tokens :
                      Wealth(w, ft)' # Wealth(w, ft)
                        => Sells(w, ft) \/ Buys(w, ft) \/ TransfersItself(w, ft)
<1>1. TypeOK /\ [Next]_vars => [Whole]_vars
  BY WealthStep
<1> QED
  BY <1>1, SwapTypes, PTL DEF Spec, WalletsStayWhole

-----------------------------------------------------------------------------
(* The agreement *)

AgreementStep ==
  [Agreement!AgreementNext]_<<StageMap, TermsMap, Payments, blockHeight>>

LEMMA IdsBounded ==
  ASSUME TypeOK
  PROVE  DOMAIN swaps \subseteq SwapIds
BY SwapAssumption DEF TypeOK, SwapIds

(* A step that changes one swap changes its stage and its terms only. *)
LEMMA MapsChangeAt ==
  ASSUME NEW x \in SwapIds, OnlyAt(x)
  PROVE  /\ StageMap' = [StageMap EXCEPT ![x] = StageOf(x)']
         /\ TermsMap' = [TermsMap EXCEPT ![x] = TermsOf(x)']
<1>1. \A id \in SwapIds \ {x} :
        StageOf(id)' = StageOf(id) /\ TermsOf(id)' = TermsOf(id)
  BY DEF OnlyAt, StageOf, TermsOf, Open
<1> QED
  BY <1>1 DEF StageMap, TermsMap

LEMMA MapsStay ==
  ASSUME swaps' = swaps
  PROVE  StageMap' = StageMap /\ TermsMap' = TermsMap
BY DEF StageMap, TermsMap, StageOf, TermsOf, Open

LEMMA TermsAreOffered ==
  ASSUME NEW swap \in Swap
  PROVE  Terms(swap) \in Offer /\ Terms(swap).when = swap.when
BY DEF Terms, Offer, Swap

LEMMA CreateAgrees ==
  ASSUME TypeOK, NEW w \in Wallets, NEW sats \in Sats, NEW btc \in BtcReceivers,
         NEW amount \in Amounts, NEW to \in FtReceivers, NEW ft \in Tokens,
         CreateSwap(w, sats, btc, amount, to, ft)
  PROVE  AgreementStep
<1>1. TypeOK' /\ Creates(w, nextId, amount, ft)
  BY CreateTypes
<1>2. PICK x : x = nextId
  OBVIOUS
<1>3. x \in SwapIds /\ OnlyAt(x) /\ x \notin DOMAIN swaps /\ x \in DOMAIN swaps'
  BY <1>1, <1>2, SwapAssumption DEF Creates, CreateSwap, TypeOK, SwapIds
<1>4. StageOf(x) = "none" /\ StageOf(x)' = "open"
  BY <1>1, <1>2, <1>3 DEF StageOf, Open, Creates
<1>5. swaps'[x] \in Swap /\ swaps'[x].when = blockHeight
  BY <1>1, <1>2, <1>3 DEF TypeOK, CreateSwap, MapSet
<1>6. TermsOf(x)' \in Offer /\ TermsOf(x)'.when = blockHeight
  BY <1>3, <1>5, TermsAreOffered DEF TermsOf
<1>7. /\ StageMap[x] = "none"
      /\ StageMap' = [StageMap EXCEPT ![x] = "open"]
      /\ TermsMap' = [TermsMap EXCEPT ![x] = TermsOf(x)']
      /\ TermsMap'[x] = TermsOf(x)'
  BY <1>3, <1>4, MapsChangeAt DEF StageMap, TermsMap
<1>8. Payments' = Payments /\ blockHeight' = blockHeight
  BY DEF CreateSwap, Payments
<1>9. Agreement!Opening(x)
  BY <1>6, <1>7 DEF Agreement!Opening
<1> QED
  BY <1>3, <1>8, <1>9 DEF AgreementStep, Agreement!AgreementNext

LEMMA TakeAgrees ==
  ASSUME TypeOK, NEW w \in Wallets, NEW id \in DOMAIN swaps, SetFtReceiver(w, id)
  PROVE  AgreementStep
<1>1. TypeOK' /\ Takes(id) /\ id \in SwapIds
  BY TakeTypes, IdsBounded
<1>2. StageOf(id)' = StageOf(id) /\ StageOf(id) # "none"
  BY <1>1 DEF Takes, StageOf, Open
<1>3. swaps[id] \in Swap /\ swaps'[id] = [swaps[id] EXCEPT !.ftReceiver = w]
  BY DEF TypeOK, SetFtReceiver
<1>4. TermsOf(id)' = [TermsOf(id) EXCEPT !.ftReceiver = w]
  BY <1>1, <1>3 DEF TermsOf, Terms, Takes, Swap
<1>5. TermsOf(id).ftReceiver = None /\ TermsOf(id)'.ftReceiver = w /\ w # None
  <2>1. TermsOf(id) = Terms(swaps[id]) /\ swaps[id].ftReceiver = None
    BY DEF TermsOf, SetFtReceiver
  <2>2. TermsOf(id).ftReceiver = None
    BY <2>1 DEF Terms
  <2>3. TermsOf(id) = [sats |-> swaps[id].sats, btcReceiver |-> swaps[id].btcReceiver,
                       amount |-> swaps[id].amount, ftReceiver |-> swaps[id].ftReceiver,
                       ftSender |-> swaps[id].ftSender, when |-> swaps[id].when,
                       ft |-> swaps[id].ft]
    BY <2>1 DEF Terms
  <2>4. [TermsOf(id) EXCEPT !.ftReceiver = w].ftReceiver = w
    BY <2>3
  <2>5. TermsOf(id)'.ftReceiver = w
    BY <1>4, <2>4
  <2>6. w # None
    BY SwapAssumption DEF Accounts
  <2> QED
    BY <2>2, <2>5, <2>6
<1>6. /\ StageMap' = [StageMap EXCEPT ![id] = StageOf(id)']
      /\ TermsMap' = [TermsMap EXCEPT ![id] = TermsOf(id)']
  BY <1>1, MapsChangeAt DEF Takes
<1>7. /\ StageMap[id] = StageOf(id) /\ TermsMap[id] = TermsOf(id)
      /\ TermsMap'[id] = TermsOf(id)'
  BY <1>1 DEF StageMap, TermsMap
<1>8. StageMap' = StageMap
  BY <1>2, <1>6 DEF StageMap
<1>9. TermsMap' = [TermsMap EXCEPT ![id].ftReceiver = w]
  BY <1>4, <1>6, <1>7
<1>10. Agreement!Taking(id)
  BY <1>2, <1>5, <1>7, <1>8, <1>9 DEF Agreement!Taking
<1>11. Payments' = Payments /\ blockHeight' = blockHeight
  BY DEF SetFtReceiver, Payments
<1> QED
  BY <1>1, <1>10, <1>11 DEF AgreementStep, Agreement!AgreementNext

LEMMA SettleAgrees ==
  ASSUME TypeOK, NEW id \in DOMAIN swaps, NEW ft \in Tokens, NEW to \in Accounts,
         Settle(id, ft, to),
         \/ swaps[id].ftReceiver # None /\ PaidFor(swaps[id])
         \/ blockHeight > swaps[id].when + Expiry
  PROVE  AgreementStep
<1>1. Ends(id, to) /\ id \in SwapIds /\ swaps[id] \in Swap
  BY SettleTypes, IdsBounded DEF TypeOK
<1>2. StageOf(id) = "open" /\ StageOf(id)' = "over"
  BY <1>1 DEF Ends, StageOf, Open
<1>3. swaps'[id] = [swaps[id] EXCEPT !.done = 1]
  BY DEF Settle, Closed
<1>4. TermsOf(id)' = TermsOf(id) /\ TermsOf(id) = Terms(swaps[id])
  BY <1>1, <1>3 DEF TermsOf, Terms, Ends, Swap
<1>5. /\ StageMap' = [StageMap EXCEPT ![id] = StageOf(id)']
      /\ TermsMap' = [TermsMap EXCEPT ![id] = TermsOf(id)']
  BY <1>1, MapsChangeAt DEF Ends
<1>6. StageMap[id] = StageOf(id) /\ TermsMap[id] = Terms(swaps[id])
  BY <1>1, <1>4 DEF StageMap, TermsMap
<1>7. TermsMap' = TermsMap
  BY <1>4, <1>5 DEF TermsMap
<1>8. /\ Terms(swaps[id]).ftReceiver = swaps[id].ftReceiver
      /\ Terms(swaps[id]).btcReceiver = swaps[id].btcReceiver
      /\ Terms(swaps[id]).sats = swaps[id].sats
      /\ Terms(swaps[id]).when = swaps[id].when
  BY DEF Terms
<1>9. PaidFor(swaps[id]) => Agreement!Paid(TermsMap[id])
  BY <1>6, <1>8 DEF PaidFor, Agreement!Paid, Payments
<1>10. Agreement!Settling(id)
  BY <1>2, <1>5, <1>6, <1>7, <1>8, <1>9 DEF Agreement!Settling
<1>11. Payments' = Payments /\ blockHeight' = blockHeight
  BY DEF Settle, Payments
<1> QED
  BY <1>1, <1>10, <1>11 DEF AgreementStep, Agreement!AgreementNext

LEMMA StepAgrees ==
  ASSUME TypeOK, [Next]_vars
  PROVE  AgreementStep
<1>1. ASSUME NEW w \in Wallets, NEW sats \in Sats, NEW btc \in BtcReceivers,
             NEW amount \in Amounts, NEW to \in FtReceivers, NEW ft \in Tokens,
             CreateSwap(w, sats, btc, amount, to, ft)
      PROVE  AgreementStep
  BY <1>1, CreateAgrees
<1>2. ASSUME NEW w \in Wallets, NEW id \in DOMAIN swaps, SetFtReceiver(w, id)
      PROVE  AgreementStep
  BY <1>2, TakeAgrees
<1>3. ASSUME NEW id \in DOMAIN swaps, NEW ft \in Tokens, Cancel(id, ft)
      PROVE  AgreementStep
  <2>1. swaps[id].ftSender \in Accounts /\ swaps[id].when \in Nat
    BY DEF TypeOK, Swap, Accounts
  <2>2. blockHeight > swaps[id].when + Expiry
    BY <1>3, <2>1, SwapAssumption DEF Cancel, TypeOK
  <2> QED
    BY <1>3, <2>1, <2>2, SettleAgrees DEF Cancel
<1>4. ASSUME NEW id \in DOMAIN swaps, NEW tx \in BtcTxs, NEW ft \in Tokens,
             SubmitSwap(id, tx, ft)
      PROVE  AgreementStep
  <2>1. swaps[id].ftReceiver \in Accounts /\ swaps[id] \in Swap
    BY <1>4 DEF TypeOK, Swap, SubmitSwap
  <2>2. PaidFor(swaps[id]) /\ swaps[id].ftReceiver # None
    BY <1>4, <2>1, PaysEnoughIsPaid DEF SubmitSwap
  <2> QED
    BY <1>4, <2>1, <2>2, SettleAgrees DEF SubmitSwap
<1>5. ASSUME swaps' = swaps, mined \subseteq mined', blockHeight' >= blockHeight
      PROVE  AgreementStep
  <2>1. Payments \subseteq Payments'
    BY <1>5 DEF Payments
  <2> QED
    BY <1>5, <2>1, MapsStay
       DEF AgreementStep, Agreement!AgreementNext, Agreement!Passing
<1>6. blockHeight \in Nat
  BY DEF TypeOK
<1>7. ASSUME NEW w \in Wallets, NEW ft \in Tokens, NEW amount \in WalletTransfers,
             NEW to \in Accounts, Transfer(w, ft, amount, to)
      PROVE  AgreementStep
  BY <1>5, <1>6, <1>7 DEF Transfer
<1>8. ASSUME NEW tx \in BtcTxs, MineTx(tx)
      PROVE  AgreementStep
  BY <1>5, <1>6, <1>8 DEF MineTx
<1>9. CASE MineBlocks
  <2>1. blockHeight' >= blockHeight
    BY <1>6, <1>9, SwapAssumption DEF MineBlocks
  <2> QED
    BY <1>5, <1>9, <2>1 DEF MineBlocks
<1>10. CASE UNCHANGED vars
  BY <1>5, <1>6, <1>10 DEF vars
<1> QED
  BY <1>1, <1>2, <1>3, <1>4, <1>7, <1>8, <1>9, <1>10
     DEF Next, SwapNext, EnvironmentNext

(* Swaps keep to the agreement: settled once, for a payment on Bitcoin of  *)
(* the full price or after the expiry, on terms that stay.                 *)
THEOREM SwapsImplementAgreement == Spec => ImplementsAgreement
<1>1. Init => Agreement!AgreementInit
  BY DEF Init, Agreement!AgreementInit, StageMap, StageOf
<1>2. TypeOK /\ [Next]_vars => AgreementStep
  BY StepAgrees
<1> QED
  BY <1>1, <1>2, SwapTypes, PTL
     DEF Spec, ImplementsAgreement, Agreement!AgreementSpec, AgreementStep
=============================================================================
