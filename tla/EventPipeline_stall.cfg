SPECIFICATION FairSpec
CONSTANTS
  auction = auction
  dave = dave
  nobody = nobody
  Auctions = {auction}
  Bidders = {dave}
  NoBidder = nobody
  Bids = {1, 2}
  MaxAmount = 1
  MaxEvents = 3
  MaxFaults = 0
PROPERTY
  FailedMessageIsRetried
CHECK_DEADLOCK FALSE
