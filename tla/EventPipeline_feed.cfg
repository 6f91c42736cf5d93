SPECIFICATION FairSpec
CONSTANTS
  auction = auction
  dave = dave
  nobody = nobody
  Auctions = {auction}
  Bidders = {dave}
  NoBidder = nobody
  Bids = {1, 2}
  MaxAmount = 2
  MaxEvents = 3
  MaxFaults = 2
INVARIANTS
  TypeOK
  AckIsOfThisChannel
  NothingVanishes
  HighestBidIsShown
PROPERTIES
  ImplementsFeed
  EventsArrive
  StopEnds
CHECK_DEADLOCK FALSE
