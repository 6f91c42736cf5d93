SPECIFICATION Spec
CONSTANTS
  importer1 = importer1
  importer2 = importer2
  exporter = exporter
  lender = lender
  owner = owner
  bank = bank
  Wallets = {importer1, exporter, lender, owner}
  Contracts = {bank}
  Bank = bank
  ContractOwner = owner
  None = None
  Importers = {importer1}
  Exporters = {exporter}
  Lenders = {lender}
  InitialBalance <- MCExactBalances
  Quotes <- MCQuotes
  Heights <- MCTwoHeights
  WalletTransfers <- MCTransfers
  Rates = {2}
  DueDates = {90}
  GracePeriods = {5}
  BlockTimes = {0, 86401}
  MaxPurchaseOrders = 1
  MaxDirectUpdates = 1
INVARIANTS
  TrackRecordsCoverOrders
  SolventBorrowerCanRepay
PROPERTIES
  CompletionIsCounted
  DefaultLasts
