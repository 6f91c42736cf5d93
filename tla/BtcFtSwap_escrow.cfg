SPECIFICATION Spec
CONSTANTS
  alice = alice
  bob = bob
  tal = tal
  usda = usda
  script = script
  change = change
  Scripts = {script, change}
  Wallets = {alice, bob}
  Contracts = {escrow}
  Escrow = escrow
  None = None
  Tokens = {tal, usda}
  FirstBalance <- MCFirstBalance
  BtcReceivers = {script}
  BtcTxs <- MCBtcTxs
  Word = 4
  Expiry = 1
  Sats = {2}
  Amounts = {1, 2}
  FtReceivers = {escrow, None}
  WalletTransfers = {1}
  Heights = {0, 1, 2}
  MaxSwaps = 2
INVARIANTS
  TypeOK
  EscrowCoversSwaps
  OpenSwapCanBeSettled
PROPERTIES
  WalletsStayWhole
  ImplementsAgreement
