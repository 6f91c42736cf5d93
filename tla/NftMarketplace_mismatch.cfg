SPECIFICATION Spec
CONSTANTS
  alice = alice
  bob = bob
  market = market
  coll1 = coll1
  coll2 = coll2
  Wallets = {alice, bob}
  Contracts = {market}
  Market = market
  Deployer = alice
  None = None
  Collections = {coll1, coll2}
  TokenIds = {1}
  FirstOwner <- MCFirstOwner
  InitialStx <- MCStx
  Prices = {1, 2}
  AuctionTerms <- MCAuctionTerms
  Heights = {3, 4}
  Whitelistable = {coll1, coll2}
  Blacklistable = {bob}
  NewOwners = {bob}
  Recipients = {bob}
  MaxListings = 2
  MaxAuctions = 1
  MaxSales = 2
INVARIANT
  EscrowHoldsEachToken
