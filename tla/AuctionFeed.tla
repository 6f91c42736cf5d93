----------------------------- MODULE AuctionFeed -----------------------------
(***************************************************************************)
(* What the portal's copy of the auctions promises its readers: every      *)
(* event of the chain takes effect exactly once, in the order of the       *)
(* chain, and leaves one row in the history.  An event that the broker     *)
(* lost may be overtaken by later ones; nothing else may be.               *)
(***************************************************************************)
EXTENDS MarketplaceEvents

VARIABLES
  table,      \* auction -> what is shown of it
  versions,   \* auction -> how many rows its history has
  applied,    \* the positions of the log that have taken effect
  lost        \* the positions of the log that the broker has lost

Nothing == [status |-> "none", highestBid |-> 0, highestBidder |-> NoBidder,
            bids |-> <<>>]

Effect(e, shown) ==
  CASE e.action = "start-auction"  -> [Nothing EXCEPT !.status = "OPEN"]
    [] e.action = "place-bid"      ->
         [shown EXCEPT !.bids = Append(@, [bidder |-> e.bidder, amount |-> e.bid]),
                       !.highestBid = e.bid,
                       !.highestBidder = e.bidder]
    [] e.action = "cancel-auction" -> [shown EXCEPT !.status = "CANCELLED"]

Ignored == {i \in Positions : log[i].action = "end-auction"}

FeedInit ==
  /\ log = <<>>
  /\ table = [a \in Auctions |-> Nothing]
  /\ versions = [a \in Auctions |-> 0]
  /\ applied = {}
  /\ lost = {}

Apply(i) ==
  /\ i \notin applied \cup Ignored
  /\ \A j \in 1 .. i - 1 : j \in applied \cup Ignored \cup lost
  /\ applied' = applied \cup {i}
  /\ LET a == log[i].auction
     IN /\ table' = [table EXCEPT ![a] = Effect(log[i], @)]
        /\ versions' = [versions EXCEPT ![a] = @ + 1]
  /\ UNCHANGED <<log, lost>>

Lose ==
  /\ lost' \in SUBSET Positions /\ lost \subseteq lost'
  /\ UNCHANGED <<log, table, versions, applied>>

FeedNext ==
  \/ PrintEvent /\ UNCHANGED <<table, versions, applied, lost>>
  \/ \E i \in Positions : Apply(i)
  \/ Lose

FeedSpec == FeedInit /\ [][FeedNext]_<<log, table, versions, applied, lost>>
=============================================================================
