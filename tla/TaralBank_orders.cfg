SPECIFICATION Spec
CONSTANTS
  importer1 = importer1
  importer2 = importer2
  exporter = exporter
  lender = lender
  owner = owner
  bank = bank
  Wallets = {importer1, importer2, exporter, lender, owner}
  Contracts = {bank}
  Bank = bank
  ContractOwner = owner
  None = None
  Importers = {importer1, importer2}
  Exporters = {exporter}
  Lenders = {lender}
  InitialBalance <- MCBalances
  Quotes <- MCQuotes
  Heights <- MCTwoHeights
  WalletTransfers = {}
  Rates = {12}
  DueDates = {90}
  GracePeriods = {5}
  BlockTimes = {600}
  MaxPurchaseOrders = 3
  MaxDirectUpdates = 0
INVARIANTS
  TypeOK
  OffersAndOrdersAgree
  AcceptedOfferIsTheLoan
  ActiveOrderIsOpen
  RepaidExactlyOnce
PROPERTIES
  ImplementsLifecycle
  FinalRecordsStay
  PoolCoversRecords
