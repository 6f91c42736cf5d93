# TLA+ specifications of Taral

Taral is a trade-finance platform: Clarity contracts on Stacks hold purchase
orders, loans, auctions and swaps; a chainhook service turns contract events
into RabbitMQ messages; a portal (NestJS) projects them into its database and
keeps users, documents and applications. These modules specify its core logic.
Paths below are relative to the repository; contracts are under
`packages/clarity/contracts/taral/`.

## 1. The system

| Component | State | Operations | What is hard, and what makes it correct |
|---|---|---|---|
| Bank (`taral-bank.clar`) | terms (rate, due date, grace, block time), pause flag | create / cancel a purchase order, finance, reject, cancel and accept an offer, pay, check health, owner settings | any caller may call anything in any order; one token balance holds everyone's deposits; flags kept in several places must agree; an order is repaid once, or failed, never both |
| Bank storage (`taral-bank-storage.clar`) | orders, offers, payments, each borrower's active order, counters | setters, called by the bank only | references between maps |
| Payment token (`token-susdt.clar`) | balances | transfer, mint, burn | only the sender moves tokens; zero and self transfers fail |
| Registries (`taral-importer`, `taral-exporter`, `taral-lender` and storage) | profiles with counts of good and failed transactions | register, update track record, append order | counts follow the orders that ended |
| NFT marketplace (`nft-marketplace.clar`, `marketplace-storage.clar`) | listings, auctions, bids, lists, roles | list, buy, cancel, start / bid / end / cancel auctions, pause | the escrow equals the highest bid; a token in escrow comes out once |
| Swaps (`btc-ft-swap.clar`, `btc-nft-swap.clar`) | swaps | create, set receiver, cancel after expiry, submit proof | one balance of a token serves all swaps of it; a cancellation races a claim; a swap is settled once, for the full price or after the expiry |
| Bitcoin proofs (`clarity-bitcoin.clar`) | none | parse, verify inclusion | parsing of byte strings |
| Insurance pool (`insurance-pool-admin.clar`, `-audit.clar`) | vaults, stacking and rewards per cycle | pay in, delegate, commit, submit and claim rewards | rewards paid once, vault not overdrawn |
| Vaults (`taral-purchase-order.clar` and storage, NFT) | vaults, collateral, debt | create, repay, liquidate | identifiers unique, debt repaid in full |
| Document contracts (`storage-service`, `taral-storage`, `taral-file-storage`) | file hashes, participants | add, update, share | versions, access lists |
| Oracle (`taral-oracle.clar`, `apps/oracle`) | prices | update, read | single writer |
| Monthly bank (`taral-bank-complete.clar`) | as the bank, with instalments | as the bank | predecessor of the bullet bank |
| Chainhook service (`standalone/chainhook`) | none | publish the print events of applied blocks, one by one | a delivery that fails midway is repeated, the events already published included |
| Event consumer (`modules/rabbit` of the portal) | connection, channel, consuming flag, promise of the loop | get, process, acknowledge, reconnect, shut down | channels that close under a running handler, redelivery, a loop that must go on, a shutdown that must end |
| Auction history (`modules/auctionhistory`) | auctions, bids, histories | start, bid, cancel handlers | every event takes effect once and in order, although it may be delivered often |
| Applications (`modules/applications`, `payment-term`, `order-detail`, `collateral`, `company-information`) | applications, the parts of their form, invoices | create, fill in, submit, submit by card | requests that overlap save what they loaded: an application must not be opened again, lose a part, or be invoiced twice |
| Companies and relationships (`modules/company`, `relationship`) | profiles, lists of applications, relationships of buyer and supplier | create, update | saving a company or a supplier saves its list of applications |
| Authentication (`modules/auth`, `modules/refresh-token`) | users, tokens, attempts | register, login, activate, reset, refresh, revoke | revocation against issue, throttling |
| Files (`modules/files`) | files on disk and in the database | create, update, request | disk against transaction |
| Other portal modules, `standalone/modules`, `apps/frontend`, `libs`, `packages/contracts` | records, adapters, views, generated interfaces | | no logic of their own that interleaves |

Contracts call each other synchronously, inside one transaction that commits
or rolls back as a whole; transactions of different callers interleave freely.
The bank calls its storage, the token and the three registries; a swap calls the
token its caller names and asks `clarity-bitcoin` for a verdict; the marketplace
calls its storage, the collection its caller names, and the chain's currency. The
portal and the chainhook service never call a contract: what the marketplace
prints reaches the chainhook service, the queue, the portal's loop and its
handlers in turn. The requests of the portal share its database, and nothing
else orders them.

## 2. Plan

Done: the bank (`Principals`, `ClarityMaps`, `TokenSusdt`, `TrackRecords`,
`TaralBank`, `PurchaseOrderLifecycle`, `TaralBankSafety`, `MCTaralBank`,
`TaralBankProofs`, `TaralBankRefinement`, `TaralBankPool`); the marketplace
(`Sip009Nft`, `NftMarketplace`, `SaleLifecycle`, `NftMarketplaceSafety`,
`MCNftMarketplace`, `NftMarketplaceProofs`); the way of its
events to the portal (`MarketplaceEvents`, `RabbitQueue`, `ChainhookPublisher`,
`PortalConsumer`, `AuctionProjection`, composed in `EventPipeline`, with
`AuctionFeed`, `EventPipelineSafety`, `MCEventPipeline`, `EventPipelineProofs`);
applications (`QuickApplications`, `QuickApplicationsSafety`,
`MCQuickApplications`, `QuickApplicationsProofs`); swaps of tokens (`BtcFtSwap`,
`SwapAgreement`, `BtcFtSwapSafety`, `MCBtcFtSwap`, `BtcFtSwapProofs`).

Next, in this order:

1. `InsurancePool` and `PurchaseOrderVaults`: accounts per cycle, identifiers.
2. `RefreshTokens` and `FileVersions`: resolution, revocation and issue, and
   disk write and transaction, as separate steps.

## 3. The modules of the bank

| Module | What it is |
|---|---|
| `ClarityMaps` | `map-set` and `map-delete` of contract maps |
| `Principals` | wallets, which sign transactions, and contracts, which do not |
| `TokenSusdt` | balances; `CanTransfer` and `Moved` are the check and the effect of `transfer`, as operators on a balance function, since one bank transaction transfers several times |
| `TrackRecords` | the three registries: registration, updates, counts |
| `TaralBank` | the bank and its storage: one action per public function |
| `PurchaseOrderLifecycle` | what an order promises: none, open, canceled / offered, running, repaid / failed, with a loan that never changes |
| `TaralBankSafety` | the properties, and the refinement mapping |
| `MCTaralBank` | values of the constants for TLC |
| `TaralBankProofs` | theorems: the inductive invariant and the properties that are parts of it |
| `TaralBankRefinement` | theorems: the refinement, default, track records |
| `TaralBankPool` | theorem: what the pool holds |
| `SumTheorems` | theorems about sums over finite sets, for the bank, the marketplace and the swaps |

How state and actions correspond to the code:

- A storage map is a function on the identifiers in use; `0` is an absent
  identifier, `None` an absent principal. Block heights of creation and update,
  and the rate stored with an offer, are left out: nothing reads them.
- A transaction that returns `err` or aborts changes nothing, so its checks are
  the guards of the action, and what it does, in all contracts, is one step.
  Where the order of two transfers matters (`make-payment`,
  `accept-financing`) the second is checked against the balances after the
  first. `RejectFinancing` keeps the attempt: its transfer runs outside
  `as-contract`, with the bank as sender and the borrower as caller, and the
  token refuses it every time.
- `CheckPurchaseOrderHealth` asks, as the code does, whether `is-po-defaulted`
  answered `ok`, not what it answered; a block time of zero aborts it.
- The caller is a parameter of every action. Owner settings take no caller:
  they are the owner's. The registries' and the token's own public functions
  are environment actions, since wallets call them directly.
- Integers are unbounded: the code's `uint` has 128 bits and a transaction that
  would overflow or underflow aborts.
- Assumed: the registries' storage contracts are called by their registry only
  (they do not check it; the bank's storage does); nobody mints or burns.

An operator named `X_Op` next to `Op` is `Op` with a plausible mistake in it;
`PROJECT.json` names the property that fails when it replaces `Op`.

### The modules of the marketplace

| Module | What it is |
|---|---|
| `Sip009Nft` | collections: each token's owner, and `transfer` as `CanMoveNft` and `MovedNft` |
| `NftMarketplace` | the marketplace and its storage: one action per public function |
| `SaleLifecycle` | what a sale promises: it opens once, its price only rises, it closes once, sold or returned |
| `NftMarketplaceSafety` | the properties, and the refinement mapping |
| `MCNftMarketplace` | values of the constants for TLC |
| `NftMarketplaceProofs` | theorems |

The six maps of sales, the two maps of bids and the two counters of
`marketplace-storage.clar` are variables of the same names. `stx` is what
accounts own of the chain's currency; a payment out of the contract
(`as-contract`) is checked against the balances after the payment into it. The
collection a caller names is a parameter of its own, since the code does not
compare it with the one in the sale. `StxAfterBid` and `BidsAfter` keep the order of
`place-bid`: the new bid is written before the one given back is deleted, and
the two are one entry when a bidder raises its own bid. `EndAuction` asks for a
highest bidder in both branches, as the code does: an auction without a bid can be
canceled until its end block and settled in no way after it. Roles and
`initialize` are left out: no function reads what they write.

Assumed: the storage is called by the marketplace only; the chain's currency moves
in sales only; and every collection a caller names transfers as `sip009-nft.clar`
does: for its token's owner only, and nothing but that token. The contract checks
the last nowhere. `is-whitelisted` is asked when a sale opens; a purchase, both
cancellations and both endings of an auction call whichever contract of the trait
they are given, as the marketplace (`nft-marketplace.clar:217`, `242`, `363`, `379`,
`405`). Of what a contract that transfers otherwise does there, nothing is claimed:
all that is said below of tokens and of currency is said under this assumption.

### The modules of the swaps

| Module | What it is |
|---|---|
| `BtcFtSwap` | `btc-ft-swap.clar` and the tokens it holds: one action per public function |
| `SwapAgreement` | what a swap promises: its terms stay, but that an open place for the receiver is taken once, and it is settled once, for a payment or after its term |
| `BtcFtSwapSafety` | the properties, and the refinement mapping |
| `MCBtcFtSwap` | values of the constants for TLC |
| `BtcFtSwapProofs` | theorems: all the properties |

- `swaps` and `nextId` are the contract's; `balances` are those of the tokens, any
  contracts of `ft-trait` that transfer as `taral-coin.clar` does. `IsOf` compares
  the token the caller names with that of the swap.
- The contract asks `clarity-bitcoin` whether a transaction was mined and then
  looks at its outputs only. So a Bitcoin transaction is the sequence of its outputs,
  and the verdict is whether it is in `mined`; Bitcoin is not reorganized. Of
  several outputs to the receiver the last counts (`Counts`, the fold of
  `find-out`), and of its value the low four bytes (`ReadUint32`).
- `Cancel` and `SubmitSwap` end the same way: marked done, then the transfer out of
  the contract (`Settle`). Anyone may call either, so they take no caller.
- The environment mines blocks on both chains, and wallets transfer tokens
  themselves. Minting is done before the first step.

### The modules of the event pipeline

| Module | What it is |
|---|---|
| `MarketplaceEvents` | the events the marketplace prints about auctions, as a log that only holds sequences the contract can print |
| `RabbitQueue` | the broker's queue: ready messages, the one taken and not acknowledged, and what was lost when the broker restarted |
| `ChainhookPublisher` | `app.controller.ts`: a delivery, its events published one by one, the answer |
| `PortalConsumer` | `rabbitmq.service.ts`: start, loop, reconnection, shutdown |
| `AuctionProjection` | the handlers of `auctionhistory/`, as what they commit |
| `EventPipeline` | their composition, and what may fail |
| `AuctionFeed` | what readers of the auctions are promised: every event takes effect once, in order |
| `EventPipelineSafety`, `MCEventPipeline` | properties and refinement mapping; values for TLC |
| `EventPipelineProofs` | theorems: nothing is lost, everything is applied once, in order |

- A message is the position in `log` of the event it carries: the code never
  looks at more of an event than its action, auction, bidder and bid, which the
  log has. That a log is what the contract can print is what `ImplementsSale`
  says of the marketplace: a sale opens once, its price rises, it closes once.
- `loop` is where the only chain of promises of `rabbitmq.service.ts` stands.
  `stalled` is the promise of `processNextMessage` that is neither resolved
  nor rejected when there is no channel; `ended` is a loop that nothing
  continues. The field `connection` is left out, since nothing depends on it
  once a channel is open.
- A handler is one step: it runs under `@Transactional` over repositories that
  join the transaction, so its writes are committed together; a failure or a crash
  before the commit leaves nothing, a crash after it leaves the message
  unacknowledged. A failing statement is `DatabaseFails`.
- Whatever closes the channel (crash, reconnection, shutdown, a dropped
  connection) puts the unacknowledged message back in its place. A restart of
  the broker empties the queue, which is declared not durable.
- `Fault` bounds what fails: failed deliveries, a start without a channel, a
  failing database, crashes, dropped connections, restarts of the broker, and
  requests to stop, `MaxFaults` in all.

### The modules of the applications

| Module | What it is |
|---|---|
| `QuickApplications` | the requests of the portal that write the row of an application, statement by statement |
| `QuickApplicationsSafety` | the properties |
| `MCQuickApplications` | values for TLC |
| `QuickApplicationsProofs` | theorems: all its properties but the liveness one |

- `Programs` gives the statements of each handler in their order; the actions are
  those statements. They are committed one by one, although the handlers are
  under `@Transactional`: their repositories are injected by entity and do not
  join the transaction that opens (those of `auctionhistory` do).
- A save is two statements: `ReadRows` reads the rows and `WriteRows` writes what
  differs in the copy. What differs can be what another request wrote since the
  copy was loaded. Relations that were not loaded are left alone (`Loaded`).
- A company, or a supplier, is saved with the list of applications it was
  loaded with: an application that is not in the list loses its company or its
  supplier. A relationship is saved with the company and the supplier it is
  between, their lists included. There is one company and one supplier.
- Several handlers call `application.save()` without waiting for it: the answer
  comes first, and a failure there ends the process.
- The history variable `exposed` holds which fields were written while another
  request held a copy of them, or were held by a request that failed. Nothing
  in the code orders requests, so that the properties cannot promise that
  overlapping requests do no harm; they promise that nothing else does.
- Left out: what only writes the row of a part or of a product, creation and
  deletion of companies, and application numbers.

## 4. The properties, and what TLC checks

### The bank

Run `tlc -config <cfg> MCTaralBank.tla`.

`TaralBank_orders.cfg`: two borrowers, one seller, one lender, the owner, three
orders, two heights (before and after default), no change of terms. About
119,000 states. The third order is what it takes for one borrower to cancel an
order, open another and cancel the first again while the pool still holds the
other borrower's downpayment. It checks

- `TypeOK`: types, and identifiers without gaps;
- `OffersAndOrdersAgree`: an offer and its order point at each other;
- `AcceptedOfferIsTheLoan`: both sides of a loan name the same offer, order and
  lender;
- `ActiveOrderIsOpen`: the order the bank takes for the caller's active one is
  the caller's own, neither canceled nor repaid;
- `RepaidExactlyOnce`: repaid means exactly one payment of the whole loan;
- `ImplementsLifecycle`: eight fields written by six functions amount to the
  stages of `PurchaseOrderLifecycle`;
- `FinalRecordsStay`: a canceled or completed order and an accepted offer are
  never rewritten;
- `PoolCoversRecords`: no step takes the bank's balance further below what the
  records set aside, except two named calls, `CancelsAgain` and
  `AcceptsRetracted`, which are findings below.

`TaralBank_terms.cfg`: one order while the owner changes rate, due date, grace
and block time (0 and more than a day included), parties register late or again,
registries are updated directly once, and wallets move what a seller is paid. The
importer owns exactly a downpayment, a loan and its interest. About 166,000
states. It checks

- `TrackRecordsCoverOrders`: an importer's and an exporter's counts are at
  least the orders they ended;
- `CompletionIsCounted`: the step that completes an order counts it for all
  three parties;
- `SolventBorrowerCanRepay`: a borrower with a running loan and the money can
  pay it, given an unpaused bank, registered parties and an interest that does
  not round to zero: three transfers and updates never stand in the way;
- `DefaultLasts`: with the terms unchanged, default ends by repayment only.

Both runs disable nothing: deadlock is checked (the owner can always act).

Three more runs each show a sentence of the repository that the code does not
keep; `PROJECT.json` quotes it.

| cfg | property violated | what happens |
|---|---|---|
| `TaralBank_health.cfg` | `FailsOnlyDefaulted` | a running loan that is not due is closed as failed by a health check |
| `TaralBank_reopen.cfg` | `OneOpenOrderPerBorrower` | canceling a canceled order again drops the active entry of the current one |
| `TaralBank_retract.cfg` | `RetractedIsNotAccepted` | a refunded offer is accepted and paid from the pool |

An order whose offer was refunded keeps its flag: until that offer is accepted, the
order can be neither financed nor canceled. `OffersAndOrdersAgree` says so.

Bounds: `MaxPurchaseOrders` caps creations, and with it offers and payments (an
order sees one of each); `Heights` stands for the heights on either side of
default; `MaxDirectUpdates` caps direct updates of the registries;
`WalletTransfers` the amounts wallets move. No fairness is assumed: nothing in
the bank has to happen, every step waits for someone to send a transaction.
`SolventBorrowerCanRepay` says with ENABLED what would be liveness.

### The marketplace

Run `tlc -config <cfg> MCNftMarketplace.tla`.

`NftMarketplace_sales.cfg`: two sales at most, a listing and an auction or two
auctions, over two collections that each have a token of the same identifier; two
prices, two wallets with currency for both bids, all owner settings, token transfers
outside sales, heights before and after the end of an auction. About 199,000
states. It checks

- `TypeOK`: types, and identifiers without gaps;
- `EscrowKeepsEachToken`: there are more open sales of a token than the contract
  holds only after a call that settled the sale of the same identifier of
  another collection with it, and then that sale's own token stays: nothing else
  takes a token out of the contract but the end of its sale;
- `RecordedBidIsHeld`: the only bid recorded for an auction is its highest
  one, by its highest bidder, and every bid given back was lower;
- `BiddersStayWhole`: what a wallet owns together with its standing bids
  changes only by the price of a sale it takes part in, except when it raises its
  own bid;
- `OverAuctionCanEnd`: an auction that is over, with a bid the contract holds,
  can be ended by anyone who may call;
- `ImplementsSale`: six maps with entries moved by a write and a delete amount
  to `SaleLifecycle`: a sale opens once, its price only rises, it closes once.

Two more runs each show a sentence of the contract that it does not keep.

| cfg | property violated | what happens |
|---|---|---|
| `NftMarketplace_mismatch.cfg` | `EscrowHoldsEachToken` | the same identifier is listed in two collections, and a purchase of the one is settled with the token of the other: `err-nft-asset-mismatch` is declared for it, but nothing compares the two contracts |
| `NftMarketplace_ownraise.cfg` | `EscrowCoversBids` | a bidder that raises its own bid pays the difference and is given the bid back as well |

Bounds: `MaxListings` and `MaxAuctions` cap the listings and auctions ever
opened, `MaxSales` both together. Two sales are what it takes for one to be paid out
of the other's bids, or settled with the other's token; the first run has room for
two auctions and for one of each, the second for two listings. `Heights` stands for
the heights around an auction's end. The constraint `OneSettingChanged` lets the
owner change one thing at a time besides the whitelist (pause, exclude a
wallet, or hand over the contract). `Swapped` exchanges the two collections:
no constant tells them apart. No fairness is assumed here either, for the same
reason; deadlock is checked.

### The swaps

Run `tlc -config BtcFtSwap_escrow.cfg MCBtcFtSwap.tla`: two swaps, two tokens, two
wallets (one that has none of either token), amounts 1 and 2, two Bitcoin
transactions, three heights with a term of one block. About 203,000 states. Two
swaps and two tokens are what it takes for one swap to be paid out of another's
tokens, in the same token or not; with three heights a cancellation can come too
early, in time, and after the claim. A word of 4 makes one output overflow it; one
transaction has two outputs to the receiver, the other pays it too little and pays
enough elsewhere. Swaps are open to all, or name the contract itself as receiver,
which no transfer reaches. It checks

- `TypeOK`: types, and identifiers without gaps;
- `EscrowCoversSwaps`: the balance the contract has of a token covers all open swaps
  of it;
- `OpenSwapCanBeSettled`: the transfer that would cancel an open swap, or settle
  it once it has a receiver, succeeds;
- `WalletsStayWhole`: what a wallet has of a token, its open swaps included, changes
  only by a swap that was paid for on Bitcoin, by exactly its amount, or by the
  wallets' own transfers;
- `ImplementsAgreement`: a swap is settled once, for one output of the full price to
  the receiver or after the expiry, on the terms it was created with.

No document says that a payment belongs to one swap, and nothing in the contract
ties it to one: the agreement asks for a payment, whenever it was made. No fairness is
assumed, as with the other contracts; deadlock is checked.

### The event pipeline

Run `tlc -config <cfg> MCEventPipeline.tla`.

`EventPipeline_feed.cfg`: one auction, one bidder, two bids, three events, two
faults. About 158,000 states. Three events are a start and two bids, or a bid and
the cancellation; two faults are what it takes for a message to be requeued
behind a lost one, or for a shutdown to meet a stalled loop. It checks

- `TypeOK`: types, and that the publisher and the loop are where they can be;
- `AckIsOfThisChannel`: what is acknowledged is the delivery of the channel it
  came by;
- `NothingVanishes`: a published event is in the broker, has taken effect, or was
  lost by the broker;
- `HighestBidIsShown`: no bid shown is above the highest bid shown, unless the
  broker lost events, although `placeBid` compares nothing;
- `ImplementsFeed`: with at-least-once delivery, crashes and repeated deliveries,
  the rows are those of a feed in which every event takes effect exactly once, in
  order, and leaves one row of history (`AuctionFeed`, with `table`, `versions`
  and `applied` read off the rows and the log);
- `EventsArrive`: while the loop keeps its channel, every event arrives;
- `StopEnds`: a process that was asked to stop ends, even with the loop stalled.

`EventPipeline_stall.cfg` shows what the comment in `processMessage` does not
keep: `FailedMessageIsRetried` fails without any fault but a handler that throws.
The message is requeued, but no channel is opened, the loop stalls, and nothing is
taken any more until the process is restarted.

Fairness: weak fairness of the publisher, the start, the loop and the shutdown.
Each is a chain of promises that the event loop of Node continues when its
turn comes, over requests that the broker and the database answer or that fail;
the chainhook node repeats a delivery until it is answered. Nothing is assumed of
the users of the chain, of whoever starts and stops the portal, or of faults.
`EventsArrive` is conditional on `<>[]Serving`: nothing makes the portal keep its
channel. Deadlock is not checked: when the log is full and the process is off,
everything may stop.

### Applications

Run `tlc -config QuickApplications_overlap.cfg MCQuickApplications.tla`: all
operations, two requests at a time and three in all, one failure, two
applications; at first there is none, or one that lacks the buyer's
information, or one that is complete and has a supplier. About 272,000 states.
Two requests are what it takes for one to write what the other holds; the third is
a submission before or after. It checks

- `TypeOK`: no part belongs to two applications, and nothing is saved that was
  not loaded;
- `OneInvoice`: an application is invoiced once;
- `SubmittedIsComplete`: an application in review has all its parts;
- `OneActive`, `CreatedIsListed`: a company has one active application, and
  lists every application that was created;
- `PartsStay`, `SupplierStays`, `SubmittedStays`: a part, a supplier and a
  submission are not undone;
- `SubmissionTakesEffect`: a submission that was answered becomes true, although
  it is saved after the answer.

The safety properties except the first excuse what happens to a field in `exposed`, which
names the weak points of the code: a handler that loaded an application before
it was submitted opens it again, two submissions both send an invoice, a
creation takes an application that was created at the same time out of the company's
list. `SupplierStays` further excuses `updateSupplierInformation`, which by
itself can leave the application without a supplier: it saves the application with
its new supplier, and then, with the relationship, that supplier with the list it
was loaded with before.

Fairness: weak fairness of every request's steps, since a statement that was
sent is answered and the handler goes on; no fairness of arrivals and
failures. Deadlock is not checked: when no request is left to be made,
everything has stopped.

## 5. What is proved

### The bank

`tlapm TaralBankProofs.tla`. The theorems hold for all sets of wallets, quotes,
settings, heights and numbers of orders that satisfy the assumptions
(`PrincipalsAssumption`, `TokenAssumption`, `TrackRecordsAssumption`,
`BankAssumption`): wallets are not contracts, the bank is a contract, amounts
and settings are naturals.

`BankInvariant` proves `[]BankInv`, the conjunction of `TypeOK`, the four
invariants above and `ReferencesResolve`. None of the four is inductive alone:

- that `cancel-purchase-order` meets no accepted offer needs the flag
  `has-active-financing`, hence that an offer's order has it
  (`OffersAndOrdersAgree`), hence that the accepted offer names this order
  (`AcceptedOfferIsTheLoan`);
- that `accept-financing` writes the offer's order and not another needs the
  way back, from the order's proposal to the offer (`ReferencesResolve`), which
  is the part no property states by itself;
- that a new order has no payment needs that payments name orders in use;
- that `check-purchase-order-health` closes only orders with a loan needs that
  a lender is set with the accepted offer.

There is one lemma per function, each with one step per conjunct, on lemmas
about what storing a record does to a map (`OrderStored`, `OrderAdded`, ...),
about transfers (`MovedType`) and about the registries (`CreditedType`).
Two action properties follow from `BankInv` as well. `FinalAlwaysStay`: canceling
again writes the record that is there; that nothing else meets a final order
needs `BankInv` at each call (a completed order has active financing, a canceled
one no lender and no active entry). `CompletionAlwaysCounted`: the three updates
of the registries touch three different roles, so that the later ones leave the
earlier counts standing.
`RejectChangesNothing` uses that a wallet is not the bank. The four invariants
and `TypeOK` follow as theorems of their own. `InterestIsPercentage` shows that
`make-payment`'s formula is the percentage of the loan, rounded down.

`RepaysExactlyTheSolvent`: the guard of `make-payment` holds exactly for the callers
with a running loan and the means to repay it (`IsSolvent`). That the second
transfer is never one to oneself needs that an offer's lender is not the borrower
(`OffersAndOrdersAgree`); that it is never one of nothing, that a downpayment leaves
something to lend (`ReferencesResolve`) and that all of it is owed
(`RepaidExactlyOnce`).

`TaralBankRefinement.tla`, on top of `BankInv`:

- `StorageImplementsLifecycle`: every call rewrites one order, adds one, or
  leaves all where they are (`StepShapes`), and what it writes is a step of
  `PurchaseOrderLifecycle`. Beyond `BankInv` this needs `OrdersAreQuoted`: an
  order keeps the sums it was quoted, and identifiers stay within the bound;
- `DefaultAlwaysLasts`: the height an accepted offer was accepted at is never
  written again (`AcceptedStays`), and blocks only get higher;
- `TrackRecordsAlwaysCover`: no call lowers a count (`RecordsGrow`), and the
  one that ends an order adds one to the count of its outcome. Inductive only with
  `UnregisteredCountNothing`: registering again sets counts to zero, and must
  not forget any.

`TaralBankPool.tla` proves `PoolCoversRecords`: how each call changes the
balance and the two sums of what the records set aside. It needs, besides
`BankInv`, that no offer is ever marked rejected: `RejectFinancing`, which would
mark it, never gets past its transfer. The sums are those of the community module
`Functions`, defined by recursion over finite sets; `SumTheorems.tla` proves
what is needed of them from a minimal counterexample (`SubsetInduction`, with
`WFMin` over the subsets of a finite set), since the library's induction theorems
cannot be used here.

### The marketplace

`tlapm NftMarketplaceProofs.tla`. The theorems hold for any wallets, collections,
tokens, prices, terms and heights, under the assumptions of `Principals`,
`Sip009Nft` and `NftMarketplace`: that every collection transfers as `sip009-nft`
does is part of the model, not something these theorems show of the contract.

`MarketInvariant` proves `[]MarketInv`: an identifier given out is in exactly
one of the three maps of its kind, an auction has a highest bidder exactly if it
has a bid, the bids recorded are those of `RecordedBidIsHeld`, and `EscrowInv`,
that for every identifier the sets of open sales of it and of tokens of it the
contract owns, whatever their collection, are finite and the former no larger. That
is all a state keeps of the tokens: a sale settled with another collection's
leaves the numbers right and the tokens exchanged. `TypeOK` and `RecordedBidIsHeld`
follow. The calls are first reduced to what they do to one sale (`StepIs`: it opens,
closes or rises), and the invariant, the refinement, the tokens and the accounts are
each shown for those.

`EndsExactlyTheOver`: `end-auction` is accepted, for some collection, exactly when
the auction is over and has a bid the contract holds, from a caller that may
trade. It needs `EscrowInv` for the token (`TokenIsHeld`: an open auction is one of
the sales the tokens are as many as), and that a bidder and a bid come together.

`EscrowAlwaysKeepsEachToken` says what a step does to each token: a call that closes
a sale lowers the number of open sales of one token, a call that names another
collection takes out a token of the same identifier, and no other call takes any
out. It needs that an open sale is in one map (`MarketInv`), so that closing it
lowers the number by one.

`MarketImplementsSale`: every call is a step of `SaleLifecycle` for one sale. It
needs that an identifier is in one map only, since a write and a delete move it.

`BiddersAlwaysWhole`: a wallet's standing bids are a sum over the auctions it
leads; a call changes it in one auction at most (`StandingChanges`), by what
the payments of the call move. A bidder who raises its own bid is the exception
the property names.

### The swaps

`tlapm BtcFtSwapProofs.tla`. The theorems hold for any wallets, tokens, Bitcoin
transactions, word, term, arguments and heights, and any number of swaps, under
`PrincipalsAssumption` and `SwapAssumption`: the contract is one of the contracts,
amounts and values are naturals, and a transaction's outputs are numbered.

`SwapTypes` (`TypeOK`) is inductive by itself. Its lemmas reduce the calls to what
they do to one swap and to the balances (`StepIs`: a swap is created, its receiver is
set, it is claimed, it is canceled, or a wallet pays another). Of the sums the
properties speak of, such a step changes one part (`OnlyAt`, with `SumChangesAt` of
`SumTheorems`), and the balances by the same amount. Then

- `EscrowAlwaysCovers` (`EscrowCoversSwaps`): with `TypeOK` it is inductive;
- `OpenSwapCanAlwaysBeSettled`: the amount of one swap is at most the sum
  (`OneIsReserved`), hence at most the balance;
- `WalletsAlwaysWhole`: a swap that is created or canceled moves an amount between a
  wallet and its open swaps (`WealthWhenCreated`, `WealthWhenEnded`);
- `SwapsImplementAgreement`: every step changes the stage and the terms of one
  swap (`MapsChangeAt`) as `SwapAgreement` allows. That the low word of a value
  reaches the price means that the value does (`PaysEnoughIsPaid`).

### The event pipeline

`tlapm EventPipelineProofs.tla`. The theorems hold for any auctions, bidders and
bids, and any number of events and faults, under `EventsAssumption`,
`ProjectionAssumption` and `PipelineAssumption`: bids are positive and the bounds
are naturals. Nothing is assumed of fairness.

`PipelineInvariant` proves `[]PipelineInv`; `TypeOK`, `AckIsOfThisChannel` and
`NothingVanishes` follow from it. What they need beyond themselves:

- `OneOutstanding`: the broker waits for exactly the message the turn holds, or
  for none. Without it a get could overwrite an unacknowledged message, which
  would then be nowhere;
- `ChannelIsOfTheSession`: there is no channel before the start and after the
  shutdown, so that a start never finds a delivery of an earlier session, and
  the end of the process leaves none behind;
- `HandledIsCommitted`: the message about to be acknowledged is visible in the
  tables, so that the broker may let it go;
- `AheadOfAnswer`: a delivery that fails falls back behind what it published,
  never ahead.

`HandleKeeps` shows that a handler makes its event visible and hides none
(a bid is only added, a status is only closed), on lemmas about a row
(`RowWithBidKeeps`, `SaveKeeps`); `PublishKeeps`, `GetKeeps` and `RequeueKeeps`
say what each operation of the broker keeps. `StillAccounted` and
`PortalStepKeeps` are the frames: what a step that writes no table has to show.

The second part of the module proves `[]OrderInv` on top of `PipelineInv`
(`OrderInvariant`), and from both `HighestBidIsShown` and that the pipeline
implements `AuctionFeed`. An event is gone once it was lost or its effect is
visible; what is gone stays so (`GoneGrows`, by `HandleKeeps`). `OrderInv` says

- `QueueInOrder`: what is before a message in the log is gone, is taken, or is
  ahead of it in the queue. A repeated delivery keeps this because what it
  overtakes was published and so is somewhere (`NothingVanishes`); a message
  goes back to the head of the queue, which is its place (`InOrderBack`);
- `HeldIsNext`: all before the message in hand is gone. It outlives the channel:
  a handler may commit after its message went back to the queue;
- `AppliedInOrder`: all before a visible effect is gone;
- `LogInOrder` and `RowsComeFromLog`: an auction starts and is canceled once, its
  bids rise, and the rows show nothing that was not printed; so an event that is
  printed is not visible yet, and a handler makes its own event visible and no
  other (`OnlyItsHandler`).

A step prints, applies the message in hand (`HandlerIsApplied`), or does neither;
all the latter are shown to be `Quiet` and treated once.

### Applications

`tlapm QuickApplicationsProofs.tla`. The theorems hold for any number of
applications, of requests served at a time and made in all, and of failures, under
`ApplicationsAssumption`: there is an application to create, and only the
operations of the handlers are asked for. Nothing is assumed of fairness.

They rest on two invariants, which the seven properties share:

- `TypedOK` (`RequestsInvariant`): what is left of a request is a tail of one of its
  handler's programs (`Planned`), and what it has in hand follows from what is
  left (`InHand`): it holds a copy once it has loaded one that it still saves, a list
  likewise, the number of its part once it has created it. Programs are
  sequences; `SituationHolds` turns them into what comes before and after each
  statement, and nothing later looks at a sequence again. The first information of
  a company replaces its program midway (`WithAddress`), for which
  `AddressOK` shows that the request could have been in the other program all along;
- `FreshOK` (`CopiesAreFresh`): a field that is held and not exposed is as it is in
  the table, but for what the handler has changed in it, and then it is as the
  handler must find it: a status to be submitted is `ACTIVE` in the table, a part
  to be filled in is missing. This is inductive because a save that changes a field
  another request holds exposes it (`WriteSpares`), and one that does not,
  changes it as its handler is to (`WriteKeeps`).

`WriteKeeps` is what the rest uses: a field that is not exposed is changed only by a
submission, by the creation of a part, by the creation that lists the
application, or by a supplier's information or update. Then

- `PartsAlwaysStay`, `SubmittedAlwaysStays` and `SupplierAlwaysStays` follow from
  it at once;
- `ApplicationTypes` (`TypeOK`) further needs that each row of a part belongs to one
  part of one application, in tables and copies alike (`PartsAlwaysOwned`);
- `OneActiveAlways` needs that a request which has checked creates alone
  (`CreateAlone`): it holds the company's list from before its check, so that whoever
  lists another application exposes it;
- `CreatedAlwaysListed` follows the request that created an application until it
  lists it; a failure exposes the list it holds;
- `SubmittedAlwaysComplete` needs that whoever is to put an application in review,
  or holds a copy that is, has found it complete (`SubmitsCovered`), whether or not
  the status is exposed;
- `OneInvoiceAlways` counts (`InvoicesKnown`): an invoice was sent for an application
  that is in review or that a request is about to submit, and a second one only if
  two requests are. The first of the two to save exposes the status.

### Model-checked only

`SolventBorrowerCanRepay` and `OverAuctionCanEnd` (ENABLED is out of the prover's
reach; `RepaysExactlyTheSolvent` and `EndsExactlyTheOver` prove the same of the
guards, to which those actions add nothing but values of the next state),
`EventsArrive`, `StopEnds` and `SubmissionTakesEffect` (so is liveness).
All other properties of the passing runs are theorems. The runs that show a
disagreement have nothing to prove.

## 6. Not modelled

For now, see section 2: the insurance pool, vaults, document contracts,
the monthly bank, refresh tokens and files. Of the modelled contracts: minting and
burning, `append-order`, metadata, roles, and `update-authorized-contract-caller`,
whose variable nothing reads. Of the portal: metrics, hashes, the history of bids
(written with that of the auction), application numbers, products, what only
changes the contents of a part, and the rest of the companies' records.

The swaps of NFTs (`btc-nft-swap.clar`) have the control of the swaps of tokens. What
would be new is the escrow of a single token; the only collection of their trait in
the repository, `taral-purchase-order-nft.clar`, lets any caller transfer a token
(lines 42 to 47), so that nothing could be promised of what the contract holds.

Left out for good: parsing and hashing of Bitcoin headers (byte manipulation),
views, generated interfaces, configuration, telemetry, mailing, and the oracle
(one writer, no interaction). Blocks that are rolled back: the chainhook service
never looks at them.
