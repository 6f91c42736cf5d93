------------------------- MODULE EventPipelineProofs -------------------------
(***************************************************************************)
(* Theorems about EventPipeline, for every set of auctions and bids, every *)
(* number of events and every number of faults: PipelineInv is an          *)
(* invariant, and with it TypeOK, AckIsOfThisChannel and NothingVanishes;  *)
(* OrderInv is one on top of it: the tables are an exactly-once feed of    *)
(* the log, and the highest bid they show is the highest.                  *)
(***************************************************************************)
EXTENDS EventPipelineSafety, SequenceTheorems, TLAPS

-----------------------------------------------------------------------------
(* The inductive invariant *)

PublisherType ==
  /\ answered \in 0 .. Len(log) /\ upTo \in 0 .. Len(log)
  /\ next \in 1 .. (IF upTo = 0 THEN answered ELSE upTo) + 1

QueueType ==
  /\ queue \in Seq(Positions) /\ lost \subseteq Positions
  /\ unacked \in 0 .. Len(log)

Busy == loop \in {"handling", "handled", "failed"}

ProcessType ==
  /\ loop \in LoopStates /\ stop \in StopStates
  /\ IF Busy THEN held \in Positions ELSE held = 0
  /\ channel \in BOOLEAN /\ consuming \in BOOLEAN
  /\ cancelled \in BOOLEAN /\ awaited \in BOOLEAN

DatabaseType ==
  /\ rows \in [Auctions -> Row \cup {NoRow}]
  /\ history \in [Auctions -> Seq({Snapshot(row) : row \in Row})]
  /\ \A a \in Auctions : Exists(a) => history[a] # <<>>

LogType == log \in Seq(Event) /\ Len(log) <= MaxEvents

(* What is not acknowledged over the open channel is what the turn holds.  *)
OneOutstanding == unacked = IF channel /\ Busy THEN held ELSE 0

(* There is a channel only between the start and the end of the service.   *)
ChannelIsOfTheSession ==
  /\ loop \in {"off", "starting"} => stop = "no" /\ ~ channel
  /\ stop = "closed" => ~ channel

(* What is about to be acknowledged was committed. *)
HandledIsCommitted == loop = "handled" => Visible(log[held])

(* A repeated delivery begins where the last one answered ended. *)
AheadOfAnswer == answered < next

PipelineInv ==
  /\ LogType /\ PublisherType /\ QueueType /\ ProcessType /\ DatabaseType
  /\ faults \in 0 .. MaxFaults
  /\ OneOutstanding /\ ChannelIsOfTheSession
  /\ HandledIsCommitted /\ AheadOfAnswer
  /\ NothingVanishes

-----------------------------------------------------------------------------
(* The broker: what its operations keep *)

RangeOf(q) == {q[i] : i \in 1 .. Len(q)}

LEMMA RangeOfAppend ==
  ASSUME NEW S, NEW q \in Seq(S), NEW m \in S
  PROVE  RangeOf(Append(q, m)) = RangeOf(q) \cup {m}
<1>1. /\ Len(Append(q, m)) = Len(q) + 1 /\ Len(q) \in Nat
      /\ \A i \in 1 .. Len(q) : Append(q, m)[i] = q[i]
      /\ Append(q, m)[Len(q) + 1] = m
  BY AppendProperties, LenProperties
<1>2. \A i : i \in 1 .. Len(q) + 1 <=> i \in 1 .. Len(q) \/ i = Len(q) + 1
  BY <1>1
<1> QED
  BY <1>1, <1>2 DEF RangeOf

LEMMA RangeOfConcat ==
  ASSUME NEW S, NEW q \in Seq(S), NEW m \in S
  PROVE  /\ <<m>> \o q \in Seq(S)
         /\ RangeOf(<<m>> \o q) = {m} \cup RangeOf(q)
<1> DEFINE c == <<m>> \o q
<1>1. <<m>> \in Seq(S) /\ Len(<<m>>) = 1 /\ <<m>>[1] = m
  OBVIOUS
<1>2. /\ c \in Seq(S) /\ Len(c) = 1 + Len(q) /\ Len(q) \in Nat
      /\ \A i \in 1 .. 1 + Len(q) : c[i] = IF i <= 1 THEN <<m>>[i] ELSE q[i - 1]
  BY <1>1, ConcatProperties, LenProperties
<1> HIDE DEF c
<1>3. c[1] = m /\ \A i \in 1 .. Len(q) : c[i + 1] = q[i] /\ i + 1 \in 1 .. Len(c)
  BY <1>1, <1>2
<1>4. \A i \in 1 .. Len(c) : i = 1 \/ (i - 1 \in 1 .. Len(q) /\ c[i] = q[i - 1])
  BY <1>2
<1>5. 1 \in 1 .. Len(c)
  BY <1>2
<1>6. RangeOf(c) = {m} \cup RangeOf(q)
  BY <1>3, <1>4, <1>5 DEF RangeOf
<1> QED
  BY <1>2, <1>6 DEF c

LEMMA RangeOfTail ==
  ASSUME NEW S, NEW q \in Seq(S), q # <<>>
  PROVE  /\ Head(q) \in S /\ Tail(q) \in Seq(S)
         /\ RangeOf(q) = {Head(q)} \cup RangeOf(Tail(q))
<1> DEFINE t == Tail(q)
<1>1. /\ Head(q) \in S /\ t \in Seq(S) /\ Len(t) = Len(q) - 1
      /\ \A i \in 1 .. Len(t) : t[i] = q[i + 1]
      /\ Len(q) \in Nat \ {0} /\ Head(q) = q[1]
  BY HeadTailProperties, EmptySeq
<1> HIDE DEF t
<1>2. \A i \in 1 .. Len(q) : i = 1 \/ (i - 1 \in 1 .. Len(t) /\ t[i - 1] = q[i])
  BY <1>1
<1>3. 1 \in 1 .. Len(q) /\ \A i \in 1 .. Len(t) : i + 1 \in 1 .. Len(q)
  BY <1>1
<1>4. RangeOf(q) \subseteq {Head(q)} \cup RangeOf(t)
  <2>1. SUFFICES ASSUME NEW i \in 1 .. Len(q), i # 1 PROVE q[i] \in RangeOf(t)
    BY <1>1 DEF RangeOf
  <2> QED
    BY <1>2, <2>1 DEF RangeOf
<1>5. Head(q) \in RangeOf(q)
  BY <1>1, <1>3 DEF RangeOf
<1>6. RangeOf(t) \subseteq RangeOf(q)
  BY <1>1, <1>3 DEF RangeOf
<1> QED
  BY <1>1, <1>4, <1>5, <1>6 DEF t

LEMMA InBrokerRange == InBroker = RangeOf(queue) \cup ({unacked} \ {0})
BY DEF InBroker, RangeOf

LEMMA InBrokerRangeNext ==
  InBroker' = RangeOf(queue') \cup ({unacked'} \ {0})
BY DEF InBroker, RangeOf

LEMMA PositionsType ==
  ASSUME LogType
  PROVE  Len(log) \in Nat /\ Positions \subseteq Nat \ {0} /\ 0 \notin Positions
BY DEF LogType, Positions

LEMMA PublishKeeps ==
  ASSUME LogType, QueueType, UNCHANGED log, NEW m \in Positions, Publish(m)
  PROVE  QueueType' /\ InBroker' = InBroker \cup {m} /\ UNCHANGED <<unacked, lost>>
<1>1. queue' = Append(queue, m) /\ UNCHANGED <<unacked, lost, log>>
  BY DEF Publish
<1>2. Append(queue, m) \in Seq(Positions)
  BY AppendProperties DEF QueueType
<1>3. QueueType'
  BY <1>1, <1>2 DEF QueueType, Positions
<1>4. RangeOf(queue') = RangeOf(queue) \cup {m}
  BY <1>1, RangeOfAppend DEF QueueType
<1> QED
  BY <1>1, <1>3, <1>4, InBrokerRange, InBrokerRangeNext

LEMMA GetKeeps ==
  ASSUME LogType, QueueType, UNCHANGED log, unacked = 0, Get
  PROVE  /\ QueueType' /\ InBroker' = InBroker /\ UNCHANGED lost
         /\ unacked' = Head(queue) /\ unacked' \in Positions
<1>1. /\ queue' = Tail(queue) /\ unacked' = Head(queue) /\ queue # <<>>
      /\ UNCHANGED <<lost, log>>
  BY DEF Get
<1>2. /\ Head(queue) \in Positions /\ Tail(queue) \in Seq(Positions)
      /\ RangeOf(queue) = {Head(queue)} \cup RangeOf(Tail(queue))
  BY <1>1, RangeOfTail DEF QueueType
<1>3. QueueType'
  BY <1>1, <1>2, PositionsType DEF QueueType, Positions
<1> QED
  BY <1>1, <1>2, <1>3, InBrokerRange, InBrokerRangeNext, PositionsType

LEMMA RequeueKeeps ==
  ASSUME LogType, QueueType, UNCHANGED log, Requeue
  PROVE  QueueType' /\ InBroker' = InBroker /\ unacked' = 0 /\ UNCHANGED lost
<1>1. /\ queue' = IF unacked = 0 THEN queue ELSE <<unacked>> \o queue
      /\ unacked' = 0 /\ UNCHANGED <<lost, log>>
  BY DEF Requeue
<1>2. unacked # 0 => unacked \in Positions
  BY PositionsType DEF QueueType, Positions
<1>3. unacked # 0 => /\ <<unacked>> \o queue \in Seq(Positions)
                     /\ RangeOf(<<unacked>> \o queue) = {unacked} \cup RangeOf(queue)
  BY <1>2, RangeOfConcat DEF QueueType
<1>4. QueueType'
  <2>1. queue' \in Seq(Positions)
    BY <1>1, <1>3, Zenon DEF QueueType
  <2>2. UNCHANGED <<Positions, lost>> /\ 0 \in 0 .. Len(log')
    BY <1>1, PositionsType DEF Positions
  <2> QED
    BY <1>1, <2>1, <2>2 DEF QueueType
<1>5. RangeOf(queue') = IF unacked = 0 THEN RangeOf(queue)
                                       ELSE {unacked} \cup RangeOf(queue)
  BY <1>1, <1>3
<1> QED
  BY <1>1, <1>4, <1>5, InBrokerRange, InBrokerRangeNext

-----------------------------------------------------------------------------
(* The tables: what a handler keeps *)

Snapshots == {Snapshot(row) : row \in Row}

(* A committed row and its line of the history keep the tables well typed. *)
LEMMA SaveKeeps ==
  ASSUME DatabaseType, NEW a \in Auctions, NEW row \in Row, Save(a, row)
  PROVE  DatabaseType'
<1>1. /\ rows' = [rows EXCEPT ![a] = row]
      /\ history' = [history EXCEPT ![a] = Append(history[a], Snapshot(row))]
  BY DEF Save
<1>2. history[a] \in Seq(Snapshots) /\ Snapshot(row) \in Snapshots
  BY DEF DatabaseType, Snapshots
<1>3. /\ Append(history[a], Snapshot(row)) \in Seq(Snapshots)
      /\ Append(history[a], Snapshot(row)) # <<>>
  BY <1>2, AppendProperties
<1>4. rows' \in [Auctions -> Row \cup {NoRow}]
  BY <1>1 DEF DatabaseType
<1>5. history' \in [Auctions -> Seq(Snapshots)]
  BY <1>1, <1>3 DEF DatabaseType, Snapshots
<1>6. \A b \in Auctions : Exists(b)' => history'[b] # <<>>
  BY <1>1, <1>3 DEF DatabaseType, Exists
<1> QED
  BY <1>4, <1>5, <1>6 DEF DatabaseType, Snapshots

LEMMA RowFields ==
  /\ NoRow \notin Row
  /\ NewRow \in Row
  /\ \A row \in Row :
       /\ row.status \in {"OPEN", "CANCELLED"}
       /\ row.bids \in Seq([bidder : Bidders, amount : Bids])
       /\ [row EXCEPT !.status = "CANCELLED"] \in Row
<1>1. NoRow.status = "none" /\ \A row \in Row : row.status \in {"OPEN", "CANCELLED"}
  BY DEF Row, NoRow
<1>2. <<>> \in Seq([bidder : Bidders, amount : Bids])
  BY EmptySeq
<1>3. NewRow \in Row
  BY <1>2 DEF Row, NoRow, NewRow
<1>4. \A row \in Row :
       /\ row.bids \in Seq([bidder : Bidders, amount : Bids])
       /\ [row EXCEPT !.status = "CANCELLED"] \in Row
  BY DEF Row
<1> QED
  BY <1>1, <1>3, <1>4

(* The row that a bid makes holds that bid and all those before it. *)
LEMMA RowWithBidKeeps ==
  ASSUME NEW row \in Row, NEW e \in Event, e.action = "place-bid"
  PROVE  /\ RowWithBid(row, e) \in Row
         /\ RowWithBid(row, e).status = row.status
         /\ HasBid(RowWithBid(row, e), e)
         /\ \A f : HasBid(row, f) => HasBid(RowWithBid(row, e), f)
<1> DEFINE Bid == [bidder : Bidders, amount : Bids]
           after == RowWithBid(row, e)
<1>1. e.bidder \in Bidders /\ e.bid \in Bids /\ BidOf(e) \in Bid
  BY DEF Event, BidOf
<1>2. row.bids \in Seq(Bid)
  BY RowFields
<1>3. /\ Append(row.bids, BidOf(e)) \in Seq(Bid)
      /\ Len(Append(row.bids, BidOf(e))) = Len(row.bids) + 1
      /\ \A i \in 1 .. Len(row.bids) :
           Append(row.bids, BidOf(e))[i] = row.bids[i]
      /\ Append(row.bids, BidOf(e))[Len(row.bids) + 1] = BidOf(e)
  BY <1>1, <1>2, AppendProperties
<1>4. /\ after.bids = Append(row.bids, BidOf(e))
      /\ after.status = row.status
      /\ after \in Row
  BY <1>1, <1>3 DEF RowWithBid, Row
<1>5. Len(row.bids) \in Nat
  BY <1>2, LenProperties
<1>6. HasBid(after, e)
  <2>1. Len(row.bids) + 1 \in 1 .. Len(after.bids)
    BY <1>3, <1>4, <1>5
  <2> QED
    BY <2>1, <1>3, <1>4 DEF HasBid
<1>7. ASSUME NEW f, HasBid(row, f)
      PROVE  HasBid(after, f)
  <2>1. PICK i \in 1 .. Len(row.bids) : row.bids[i] = BidOf(f)
    BY <1>7 DEF HasBid
  <2>2. i \in 1 .. Len(after.bids) /\ after.bids[i] = BidOf(f)
    BY <2>1, <1>3, <1>4, <1>5
  <2> QED
    BY <2>2 DEF HasBid
<1> QED
  BY <1>4, <1>6, <1>7

(* A handler that returns has made its event visible, and every event that *)
(* was visible still is.                                                   *)
LEMMA HandleKeeps ==
  ASSUME DatabaseType, NEW e \in Event, Handle(e)
  PROVE  /\ DatabaseType' /\ Visible(e)'
         /\ \A f \in Event : Visible(f) => Visible(f)'
<1> DEFINE a == e.auction
           Fine == /\ DatabaseType' /\ Visible(e)'
                   /\ \A f \in Event : Visible(f) => Visible(f)'
<1>1. a \in Auctions /\ ~ Throws(e)
  BY DEF Event, Handle
<1>2. rows[a] \in Row \/ rows[a] = NoRow
  BY <1>1 DEF DatabaseType
<1>3. ASSUME Unchanged, Visible(e)
      PROVE  Fine
  BY <1>3 DEF Unchanged, DatabaseType, Visible, Exists, HasBid
<1>4. ASSUME NEW row \in Row, Save(a, row),
             rows[a].status = "CANCELLED" => row.status = "CANCELLED",
             \A f \in Event : f.action = "place-bid" /\ HasBid(rows[a], f)
                              => HasBid(row, f)
      PROVE  /\ DatabaseType' /\ rows'[a] = row /\ Exists(a)'
             /\ \A f \in Event : Visible(f) => Visible(f)'
  <2>1. DatabaseType'
    BY <1>1, <1>4, SaveKeeps
  <2>2. rows'[a] = row /\ \A b \in Auctions : b # a => rows'[b] = rows[b]
    BY <1>1, <1>4 DEF Save, DatabaseType
  <2>3. Exists(a)'
    BY <2>2, RowFields DEF Exists
  <2>4. ASSUME NEW f \in Event, Visible(f)
        PROVE  Visible(f)'
    <3>1. f.auction \in Auctions
      BY DEF Event
    <3>2. CASE f.auction # a
      BY <2>2, <2>4, <3>1, <3>2 DEF Visible, Exists, HasBid
    <3>3. CASE f.auction = a
      <4>1. f.action = "place-bid" => HasBid(rows'[a], f)
        BY <1>4, <2>2, <2>4, <3>3 DEF Visible
      <4>2. f.action = "cancel-auction" => rows'[a].status = "CANCELLED"
        BY <1>4, <2>2, <2>4, <3>3 DEF Visible
      <4> QED
        BY <2>3, <3>3, <4>1, <4>2 DEF Visible, HasBid, Exists
    <3> QED
      BY <3>2, <3>3
  <2> QED
    BY <2>1, <2>2, <2>3, <2>4
<1>5. CASE e.action = "start-auction"
  <2>1. StartAuction(e)
    BY <1>5 DEF Handle
  <2>2. CASE Exists(a)
    BY <1>3, <1>5, <2>1, <2>2 DEF StartAuction, Visible
  <2>3. CASE ~ Exists(a)
    <3>1. Save(a, NewRow) /\ rows[a] = NoRow
      BY <2>1, <2>3 DEF StartAuction, Exists
    <3>2. rows[a].status # "CANCELLED" /\ \A f : ~ HasBid(rows[a], f)
      BY <3>1 DEF NoRow, HasBid
    <3>3. /\ DatabaseType' /\ Exists(a)'
          /\ \A f \in Event : Visible(f) => Visible(f)'
      BY <1>4, <3>1, <3>2, RowFields
    <3> QED
      BY <1>5, <3>3 DEF Visible
  <2> QED
    BY <2>2, <2>3
<1>6. CASE e.action = "place-bid"
  <2>1. PlaceBid(e) /\ rows[a] \in Row
    BY <1>1, <1>2, <1>6 DEF Handle, Throws, Exists
  <2>2. CASE SameBid(rows[a], e)
    BY <1>3, <1>6, <2>1, <2>2 DEF PlaceBid, SameBid, Visible
  <2>3. CASE ~ SameBid(rows[a], e)
    <3>1. Save(a, RowWithBid(rows[a], e))
      BY <2>1, <2>3 DEF PlaceBid
    <3>2. /\ DatabaseType' /\ rows'[a] = RowWithBid(rows[a], e)
          /\ \A f \in Event : Visible(f) => Visible(f)'
      BY <1>4, <1>6, <2>1, <3>1, RowWithBidKeeps
    <3>3. HasBid(rows'[a], e)
      BY <1>6, <2>1, <3>2, RowWithBidKeeps
    <3> QED
      BY <1>6, <3>2, <3>3 DEF Visible, HasBid
  <2> QED
    BY <2>2, <2>3
<1>7. CASE e.action = "cancel-auction"
  <2>1. CancelAuction(e) /\ rows[a] \in Row
    BY <1>1, <1>2, <1>7 DEF Handle, Throws, Exists
  <2>2. CASE rows[a].status = "CANCELLED"
    BY <1>3, <1>7, <2>1, <2>2 DEF CancelAuction, Visible
  <2>3. CASE rows[a].status # "CANCELLED"
    <3> DEFINE row == [rows[a] EXCEPT !.status = "CANCELLED"]
    <3>1. Save(a, row)
      BY <2>1, <2>3 DEF CancelAuction
    <3>2. row \in Row /\ row.status = "CANCELLED" /\ row.bids = rows[a].bids
      BY <2>1, RowFields DEF Row
    <3>3. \A f : HasBid(rows[a], f) => HasBid(row, f)
      BY <3>2 DEF HasBid
    <3> HIDE DEF row
    <3>4. /\ DatabaseType' /\ rows'[a] = row
          /\ \A f \in Event : Visible(f) => Visible(f)'
      BY <1>4, <3>1, <3>2, <3>3
    <3> QED
      BY <1>7, <3>2, <3>4 DEF Visible
  <2> QED
    BY <2>2, <2>3
<1>8. CASE e.action \notin {"start-auction", "place-bid", "cancel-auction"}
  BY <1>3, <1>8 DEF Handle, Visible
<1> QED
  BY <1>5, <1>6, <1>7, <1>8

-----------------------------------------------------------------------------
(* The parts of PipelineInv and the steps that leave them alone *)

Accounted(i) == i \in lost \cup InBroker \/ Visible(log[i])

LEMMA PublishedPositions ==
  ASSUME LogType, PublisherType
  PROVE  /\ Published \subseteq Positions
         /\ Published = 1 .. IF upTo = 0 THEN answered ELSE next - 1
         /\ \A i \in Positions : log[i] \in Event
BY ElementOfSeq DEF LogType, PublisherType, Published, Positions

(* With the tables and the log unchanged, an event is still accounted for  *)
(* if the broker keeps it, or lets it go after it was made visible.        *)
LEMMA StillAccounted ==
  ASSUME NothingVanishes, UNCHANGED <<log, rows>>, Published' \subseteq Published,
         \A i \in lost \cup InBroker : i \in lost' \cup InBroker' \/ Visible(log[i])
  PROVE  NothingVanishes'
BY DEF NothingVanishes, Visible, Exists, HasBid

(* The portal and the tables do not see what the publisher does. *)
LEMMA PortalUnchanged ==
  ASSUME PipelineInv, UNCHANGED <<log, process, database, faults, unacked>>
  PROVE  /\ LogType' /\ ProcessType' /\ DatabaseType' /\ faults' \in 0 .. MaxFaults
         /\ OneOutstanding' /\ ChannelIsOfTheSession' /\ HandledIsCommitted'
<1>1. LogType' /\ ProcessType' /\ faults' \in 0 .. MaxFaults
  BY DEF PipelineInv, LogType, ProcessType, process, session, stopping, Busy,
     Positions
<1>2. DatabaseType'
  BY DEF PipelineInv, DatabaseType, database, Exists
<1>3. OneOutstanding' /\ ChannelIsOfTheSession'
  BY DEF PipelineInv, OneOutstanding, ChannelIsOfTheSession, process, session,
     stopping, Busy
<1>4. HandledIsCommitted'
  BY DEF PipelineInv, HandledIsCommitted, process, database, Visible, Exists,
     HasBid
<1> QED
  BY <1>1, <1>2, <1>3, <1>4

(* The publisher does not see what the portal does. *)
LEMMA PublisherUnchanged ==
  ASSUME PipelineInv, UNCHANGED <<log, publisherVars>>
  PROVE  LogType' /\ PublisherType' /\ AheadOfAnswer' /\ Published' = Published
BY DEF PipelineInv, LogType, PublisherType, AheadOfAnswer, Published, publisherVars

-----------------------------------------------------------------------------
(* The chain and the publisher *)

LEMMA InitInv == Init => PipelineInv
<1> SUFFICES ASSUME Init PROVE PipelineInv
  OBVIOUS
<1> USE EventsAssumption, PipelineAssumption
    DEF Init, PublisherInit, QueueInit, ConsumerInit, ProjectionInit
<1>1. \A S : <<>> \in Seq(S) /\ Len(<<>>) = 0
  BY EmptySeq
<1>2. LogType /\ PublisherType /\ QueueType
  BY <1>1 DEF LogType, PublisherType, QueueType, Positions
<1>3. ProcessType
  BY DEF ProcessType, LoopStates, StopStates, Busy
<1>4. OneOutstanding /\ ChannelIsOfTheSession /\ HandledIsCommitted
      /\ AheadOfAnswer
  BY DEF OneOutstanding, ChannelIsOfTheSession, HandledIsCommitted,
     AheadOfAnswer, Busy
<1>5. DatabaseType
  BY <1>1 DEF DatabaseType, Exists
<1>6. NothingVanishes
  BY DEF NothingVanishes, Published
<1> QED
  BY <1>2, <1>3, <1>4, <1>5, <1>6 DEF PipelineInv

LEMMA PrintEventIsAnEvent ==
  ASSUME PrintEvent
  PROVE  Len(log) < MaxEvents /\ \E e \in Event : log' = Append(log, e)
<1>1. PICK a \in Auctions :
        \/ Emit([action |-> "start-auction", auction |-> a])
        \/ \E b \in Bidders, amount \in Bids :
             Emit([action |-> "place-bid", auction |-> a,
                   bidder |-> b, bid |-> amount])
        \/ Emit([action |-> "cancel-auction", auction |-> a])
        \/ Emit([action |-> "end-auction", auction |-> a])
  BY DEF PrintEvent
<1>2. /\ [action |-> "start-auction", auction |-> a] \in Event
      /\ [action |-> "cancel-auction", auction |-> a] \in Event
      /\ [action |-> "end-auction", auction |-> a] \in Event
      /\ \A b \in Bidders, amount \in Bids :
           [action |-> "place-bid", auction |-> a,
            bidder |-> b, bid |-> amount] \in Event
  BY DEF Event
<1>3. Len(log) < MaxEvents
  BY DEF PrintEvent
<1> QED
  BY <1>1, <1>2, <1>3 DEF Emit

(* The positions of the log that are in use stay what they are. *)
LEMMA ChainInv == PipelineInv /\ ChainStep => PipelineInv'
<1> SUFFICES ASSUME PipelineInv, ChainStep PROVE PipelineInv'
  OBVIOUS
<1>1. /\ PrintEvent
      /\ UNCHANGED <<publisherVars, queueVars, process, database, faults>>
  BY DEF ChainStep
<1>2. PICK e \in Event : log' = Append(log, e) /\ Len(log) < MaxEvents
  BY <1>1, PrintEventIsAnEvent
<1>3. log \in Seq(Event) /\ Len(log) \in Nat
  BY LenProperties DEF PipelineInv, LogType
<1>4. /\ log' \in Seq(Event) /\ Len(log') = Len(log) + 1
      /\ \A i \in 1 .. Len(log) : log'[i] = log[i]
  BY <1>2, <1>3, AppendProperties
<1>5. LogType' /\ Positions \subseteq Positions'
  BY <1>2, <1>3, <1>4, EventsAssumption DEF LogType, Positions
<1>6. PublisherType' /\ AheadOfAnswer'
  BY <1>1, <1>3, <1>4 DEF PipelineInv, PublisherType, AheadOfAnswer, publisherVars
<1>7. QueueType'
  <2>1. queue \in Seq(Positions')
    BY <1>5, SeqMonotonic DEF PipelineInv, QueueType
  <2> QED
    BY <1>1, <1>3, <1>4, <1>5, <2>1 DEF PipelineInv, QueueType, queueVars
<1>8. ProcessType'
  BY <1>1, <1>5 DEF PipelineInv, ProcessType, process, session, stopping, Busy
<1>9. DatabaseType' /\ faults' \in 0 .. MaxFaults
  BY <1>1 DEF PipelineInv, DatabaseType, database, Exists
<1>10. OneOutstanding' /\ ChannelIsOfTheSession'
  BY <1>1 DEF PipelineInv, OneOutstanding, ChannelIsOfTheSession, process,
     queueVars, session, stopping, Busy
<1>11. \A i \in Positions : log'[i] = log[i]
  BY <1>4 DEF Positions
<1>12. \A i \in Positions : Visible(log[i]) => Visible(log[i])'
  BY <1>1, <1>11 DEF Visible, database, Exists, HasBid
<1>13. HandledIsCommitted'
  <2>1. loop = "handled" => held \in Positions
    BY DEF PipelineInv, ProcessType, Busy
  <2>2. UNCHANGED <<loop, held>>
    BY <1>1 DEF process
  <2>3. ASSUME loop = "handled" PROVE Visible(log[held])'
    BY <1>12, <2>1, <2>2, <2>3 DEF PipelineInv, HandledIsCommitted
  <2> QED
    BY <2>2, <2>3 DEF HandledIsCommitted
<1>14. NothingVanishes'
  <2>1. Published' = Published /\ Published \subseteq Positions
    BY <1>1, PublishedPositions DEF PipelineInv, Published, publisherVars
  <2>2. UNCHANGED <<lost, InBroker>>
    BY <1>1 DEF queueVars, InBroker
  <2>3. \A i \in Published : i \in lost' \cup InBroker' \/ Visible(log[i])'
    BY <1>12, <2>1, <2>2 DEF PipelineInv, NothingVanishes
  <2> QED
    BY <2>1, <2>3 DEF NothingVanishes
<1> QED
  BY <1>5, <1>6, <1>7, <1>8, <1>9, <1>10, <1>13, <1>14 DEF PipelineInv

LEMMA PublisherInv == PipelineInv /\ PublisherStep => PipelineInv'
<1> SUFFICES ASSUME PipelineInv, PublisherStep PROVE PipelineInv'
  OBVIOUS
<1>1. UNCHANGED <<log, process, database, faults>>
  BY DEF PublisherStep
<1>2. LogType /\ PublisherType /\ QueueType /\ AheadOfAnswer /\ Len(log) \in Nat
  BY PositionsType DEF PipelineInv
<1>3. CASE PublishEvent
  <2>1. /\ upTo # 0 /\ next <= upTo /\ Publish(next)
        /\ next' = next + 1 /\ UNCHANGED <<answered, upTo>>
    BY <1>3 DEF PublishEvent
  <2>2. next \in Positions
    BY <1>2, <2>1 DEF PublisherType, Positions
  <2>3. /\ QueueType' /\ InBroker' = InBroker \cup {next}
        /\ UNCHANGED <<unacked, lost>>
    BY <1>1, <1>2, <2>1, <2>2, PublishKeeps
  <2>4. PublisherType' /\ AheadOfAnswer'
    BY <1>1, <1>2, <2>1 DEF PublisherType, AheadOfAnswer
  <2>5. Published' \subseteq Published \cup {next}
    BY <1>2, <2>1 DEF Published, PublisherType
  <2>6. NothingVanishes'
    BY <1>1, <2>3, <2>5 DEF PipelineInv, NothingVanishes, Visible, Exists,
       HasBid, database
  <2> QED
    BY <1>1, <2>3, <2>4, <2>6, PortalUnchanged DEF PipelineInv
<1>4. ASSUME UNCHANGED queueVars, PublisherType', AheadOfAnswer',
             Published' \subseteq Published
      PROVE  PipelineInv'
  <2>1. UNCHANGED <<unacked, lost, InBroker>> /\ QueueType'
    BY <1>1, <1>2, <1>4 DEF queueVars, InBroker, QueueType, Positions
  <2>2. NothingVanishes'
    BY <1>1, <1>4, <2>1, StillAccounted DEF PipelineInv, database
  <2> QED
    BY <1>1, <1>4, <2>1, <2>2, PortalUnchanged DEF PipelineInv
<1>5. CASE Deliver /\ UNCHANGED queueVars
  <2>1. PICK n \in answered + 1 .. Len(log) :
          /\ upTo = 0 /\ upTo' = n /\ next' = answered + 1
          /\ UNCHANGED <<answered, log>>
    BY <1>1, <1>5 DEF Deliver
  <2>2. answered \in 0 .. Len(log)
    BY <1>2 DEF PublisherType
  <2>3. /\ n \in 0 .. Len(log) /\ n # 0
        /\ answered + 1 \in 1 .. n + 1 /\ answered < answered + 1
    BY <1>2, <2>2
  <2>4. PublisherType' /\ AheadOfAnswer'
    BY <2>1, <2>2, <2>3 DEF PublisherType, AheadOfAnswer
  <2>5. Published' = Published
    BY <2>1, <2>2, <2>3 DEF Published
  <2> QED
    BY <1>4, <1>5, <2>4, <2>5
<1>6. CASE Answer /\ UNCHANGED queueVars
  BY <1>1, <1>2, <1>4, <1>6 DEF Answer, PublisherType, AheadOfAnswer, Published
<1> QED
  BY <1>3, <1>5, <1>6 DEF PublisherStep

-----------------------------------------------------------------------------
(* The portal: a step of the process, which leaves the tables alone *)

LEMMA PortalStepKeeps ==
  ASSUME PipelineInv, UNCHANGED <<log, publisherVars, database>>,
         faults' \in 0 .. MaxFaults,
         QueueType', ProcessType', OneOutstanding', ChannelIsOfTheSession',
         loop' = "handled" => loop = "handled" /\ held' = held,
         \A i \in lost \cup InBroker : i \in lost' \cup InBroker' \/ Visible(log[i])
  PROVE  PipelineInv'
<1>1. LogType' /\ PublisherType' /\ AheadOfAnswer' /\ Published' = Published
  BY PublisherUnchanged
<1>2. DatabaseType'
  BY DEF PipelineInv, DatabaseType, database, Exists
<1>3. HandledIsCommitted'
  BY DEF PipelineInv, HandledIsCommitted, database, Visible, Exists, HasBid
<1>4. NothingVanishes'
  BY <1>1, StillAccounted DEF PipelineInv, database
<1> QED
  BY <1>1, <1>2, <1>3, <1>4 DEF PipelineInv

(* The message of the turn is one of the broker as long as it is held.     *)
LEMMA NextTurnKeeps ==
  ASSUME ProcessType, ChannelIsOfTheSession, UNCHANGED log, NEW open,
         NextTurn(open), channel' \in BOOLEAN, channel' => channel,
         loop \notin {"off", "starting"}
  PROVE  /\ ProcessType' /\ ChannelIsOfTheSession'
         /\ ~ Busy' /\ loop' # "handled"
<1>1. /\ loop' \in {"ended", "polling", "stalled"} /\ held' = 0
      /\ awaited' = FALSE /\ UNCHANGED <<consuming, cancelled, stop>>
  BY DEF NextTurn
<1>2. ~ Busy' /\ loop' # "handled" /\ loop' \notin {"off", "starting"}
  BY <1>1 DEF Busy
<1>3. loop' \in LoopStates
  BY <1>1 DEF LoopStates
<1>4. ProcessType'
  BY <1>1, <1>2, <1>3 DEF ProcessType
<1>5. ChannelIsOfTheSession'
  BY <1>1, <1>2 DEF ChannelIsOfTheSession
<1> QED
  BY <1>2, <1>4, <1>5

LEMMA OffKeeps ==
  ASSUME Off
  PROVE  ProcessType' /\ ChannelIsOfTheSession' /\ ~ Busy' /\ loop' # "handled"
BY DEF Off, ProcessType, ChannelIsOfTheSession, Busy, LoopStates, StopStates

LEMMA QueueUnchanged ==
  ASSUME LogType, QueueType, UNCHANGED <<log, queue, unacked, lost>>
  PROVE  QueueType' /\ InBroker' = InBroker
BY DEF QueueType, Positions, InBroker

(* A turn of the loop.  The only message the broker lets go is the one     *)
(* whose handler has committed; the only step that writes the tables is    *)
(* the commit.                                                             *)
LEMMA LoopInv == PipelineInv /\ LoopStep => PipelineInv'
<1> SUFFICES ASSUME PipelineInv, LoopStep PROVE PipelineInv'
  OBVIOUS
<1>1. UNCHANGED <<log, publisherVars, faults>>
  BY DEF LoopStep
<1>2. /\ LogType /\ PublisherType /\ QueueType /\ ProcessType /\ DatabaseType
      /\ OneOutstanding /\ ChannelIsOfTheSession /\ HandledIsCommitted
      /\ faults' \in 0 .. MaxFaults /\ NothingVanishes /\ AheadOfAnswer
  BY <1>1 DEF PipelineInv
<1>3. CASE GetMessage
  <2>1. /\ loop = "polling" /\ channel /\ Get /\ held' = Head(queue)
        /\ loop' = "handling" /\ UNCHANGED <<session, stopping, database>>
    BY <1>3 DEF GetMessage
  <2>2. unacked = 0
    BY <1>2, <2>1 DEF OneOutstanding, Busy
  <2>3. /\ QueueType' /\ InBroker' = InBroker /\ UNCHANGED lost
        /\ unacked' = Head(queue) /\ unacked' \in Positions
    BY <1>1, <1>2, <2>1, <2>2, GetKeeps
  <2>4. Busy' /\ loop' \in LoopStates
    BY <2>1 DEF Busy, LoopStates
  <2>5. ProcessType'
    <3>1. held' \in Positions'
      BY <1>1, <2>1, <2>3 DEF Positions
    <3> QED
      BY <1>2, <2>1, <2>4, <3>1 DEF ProcessType, session, stopping
  <2>6. OneOutstanding' /\ ChannelIsOfTheSession'
    BY <1>2, <2>1, <2>3, <2>4 DEF OneOutstanding, ChannelIsOfTheSession, session,
       stopping
  <2> QED
    BY <1>1, <1>2, <2>1, <2>3, <2>5, <2>6, PortalStepKeeps
<1>4. CASE GetNothing \/ GetFails
  <2>1. /\ loop = "polling" /\ NextTurn(channel)
        /\ UNCHANGED <<queue, unacked, lost, channel, database>>
    BY <1>4 DEF GetNothing, GetFails
  <2>2. ProcessType' /\ ChannelIsOfTheSession' /\ ~ Busy' /\ loop' # "handled"
    BY <1>1, <1>2, <2>1, NextTurnKeeps DEF ProcessType
  <2>3. OneOutstanding'
    BY <1>2, <2>1, <2>2 DEF OneOutstanding, Busy
  <2>4. QueueType' /\ InBroker' = InBroker
    BY <1>1, <1>2, <2>1, QueueUnchanged
  <2> QED
    BY <1>1, <1>2, <2>1, <2>2, <2>3, <2>4, PortalStepKeeps
<1>5. CASE HandleMessage
  <2>1. /\ loop = "handling" /\ loop' = "handled" /\ Handle(log[held])
        /\ UNCHANGED <<held, session, stopping, queue, unacked, lost>>
    BY <1>5 DEF HandleMessage
  <2>2. held \in Positions /\ log[held] \in Event
    BY <1>2, <2>1, PublishedPositions DEF ProcessType, Busy
  <2>3. /\ DatabaseType' /\ Visible(log[held])'
        /\ \A f \in Event : Visible(f) => Visible(f)'
    BY <1>1, <1>2, <2>1, <2>2, HandleKeeps DEF Visible, HasBid, Exists
  <2>4. QueueType' /\ InBroker' = InBroker
    BY <1>1, <1>2, <2>1, QueueUnchanged
  <2>5. ProcessType' /\ OneOutstanding' /\ ChannelIsOfTheSession'
    BY <1>1, <1>2, <2>1 DEF ProcessType, OneOutstanding, ChannelIsOfTheSession,
       session, stopping, Busy, LoopStates, Positions
  <2>6. HandledIsCommitted'
    BY <2>1, <2>3 DEF HandledIsCommitted
  <2>7. /\ LogType' /\ PublisherType' /\ AheadOfAnswer' /\ Published' = Published
        /\ \A i \in Published : log'[i] = log[i] /\ log[i] \in Event
    BY <1>1, <1>2, PublisherUnchanged, PublishedPositions
  <2>8. NothingVanishes'
    <3>1. ASSUME NEW i \in Published, ~ (i \in lost' \cup InBroker')
          PROVE  Visible(log[i])'
      <4>1. Visible(log[i]) /\ log[i] \in Event
        BY <1>2, <2>1, <2>4, <2>7, <3>1 DEF NothingVanishes
      <4> QED
        BY <2>3, <2>7, <4>1 DEF Visible, HasBid, Exists
    <3> QED
      BY <2>7, <3>1 DEF NothingVanishes
  <2> QED
    BY <1>2, <2>3, <2>4, <2>5, <2>6, <2>7, <2>8 DEF PipelineInv
<1>6. CASE HandlerThrows
  <2>1. /\ loop = "handling" /\ loop' = "failed"
        /\ UNCHANGED <<held, session, stopping, queue, unacked, lost, database>>
    BY <1>6 DEF HandlerThrows, Fails
  <2>2. QueueType' /\ InBroker' = InBroker
    BY <1>1, <1>2, <2>1, QueueUnchanged
  <2>3. ProcessType' /\ OneOutstanding' /\ ChannelIsOfTheSession'
    BY <1>1, <1>2, <2>1 DEF ProcessType, OneOutstanding, ChannelIsOfTheSession,
       session, stopping, Busy, LoopStates, Positions
  <2> QED
    BY <1>1, <1>2, <2>1, <2>2, <2>3, PortalStepKeeps
<1>7. CASE AckMessage
  <2>1. /\ loop = "handled" /\ NextTurn(channel) /\ UNCHANGED <<channel, database>>
        /\ unacked' = 0 /\ UNCHANGED <<queue, lost>>
    BY <1>2, <1>7 DEF AckMessage, Ack, OneOutstanding
  <2>2. ProcessType' /\ ChannelIsOfTheSession' /\ ~ Busy' /\ loop' # "handled"
    BY <1>1, <1>2, <2>1, NextTurnKeeps DEF ProcessType
  <2>3. OneOutstanding'
    BY <2>1, <2>2 DEF OneOutstanding
  <2>4. QueueType'
    <3>1. UNCHANGED Positions /\ unacked' \in 0 .. Len(log')
      BY <1>1, <1>2, <2>1, PositionsType DEF Positions
    <3> QED
      BY <1>2, <2>1, <3>1 DEF QueueType
  <2>5. unacked # 0 => unacked = held /\ Visible(log[held])
    BY <1>2, <2>1 DEF OneOutstanding, HandledIsCommitted
  <2>6. \A i \in InBroker : i \in InBroker' \/ (i = unacked /\ unacked # 0)
    BY <2>1, InBrokerRange, InBrokerRangeNext
  <2> QED
    BY <1>1, <1>2, <2>1, <2>2, <2>3, <2>4, <2>5, <2>6, PortalStepKeeps
<1>8. CASE Reconnect
  <2>1. /\ loop = "failed" /\ Requeue /\ channel' = FALSE /\ NextTurn(FALSE)
        /\ UNCHANGED database
    BY <1>8 DEF Reconnect
  <2>2. ProcessType' /\ ChannelIsOfTheSession' /\ ~ Busy' /\ loop' # "handled"
    BY <1>1, <1>2, <2>1, NextTurnKeeps
  <2>3. QueueType' /\ InBroker' = InBroker /\ unacked' = 0 /\ UNCHANGED lost
    BY <1>1, <1>2, <2>1, RequeueKeeps
  <2>4. OneOutstanding'
    BY <2>1, <2>3 DEF OneOutstanding
  <2> QED
    BY <1>1, <1>2, <2>1, <2>2, <2>3, <2>4, PortalStepKeeps
<1> QED
  BY <1>3, <1>4, <1>5, <1>6, <1>7, <1>8 DEF LoopStep

LEMMA StartInv == PipelineInv /\ StartStep => PipelineInv'
<1> SUFFICES ASSUME PipelineInv, StartStep PROVE PipelineInv'
  OBVIOUS
<1>1. /\ loop = "starting" /\ channel' = TRUE /\ consuming' = TRUE
      /\ loop' = "polling" /\ UNCHANGED <<held, cancelled, stopping>>
      /\ UNCHANGED <<log, publisherVars, queueVars, database, faults>>
  BY DEF StartStep, StartListening
<1>2. /\ LogType /\ QueueType /\ ProcessType /\ OneOutstanding
      /\ ChannelIsOfTheSession /\ faults' \in 0 .. MaxFaults
  BY <1>1 DEF PipelineInv
<1>3. QueueType' /\ InBroker' = InBroker /\ UNCHANGED <<lost, unacked>>
  BY <1>1, <1>2, QueueUnchanged DEF queueVars
<1>4. ~ Busy /\ ~ Busy'
  BY <1>1 DEF Busy
<1>5. ProcessType'
  BY <1>1, <1>2, <1>4 DEF ProcessType, stopping, LoopStates
<1>6. OneOutstanding' /\ ChannelIsOfTheSession'
  BY <1>1, <1>2, <1>3, <1>4 DEF OneOutstanding, ChannelIsOfTheSession, stopping
<1> QED
  BY <1>1, <1>2, <1>3, <1>5, <1>6, PortalStepKeeps

LEMMA StopInv == PipelineInv /\ StopStep => PipelineInv'
<1> SUFFICES ASSUME PipelineInv, StopStep PROVE PipelineInv'
  OBVIOUS
<1>1. UNCHANGED <<log, publisherVars, faults>>
  BY DEF StopStep
<1>2. /\ LogType /\ QueueType /\ ProcessType /\ OneOutstanding
      /\ ChannelIsOfTheSession /\ faults' \in 0 .. MaxFaults
  BY <1>1 DEF PipelineInv
<1>3. ASSUME UNCHANGED <<queueVars, database>>
      PROVE  QueueType' /\ InBroker' = InBroker /\ UNCHANGED <<lost, unacked>>
  BY <1>1, <1>2, <1>3, QueueUnchanged DEF queueVars
<1>4. CASE (PromiseTimesOut \/ StopListening) /\ UNCHANGED <<queueVars, database>>
  <2>1. /\ UNCHANGED <<loop, held, channel>> /\ stop = "waiting"
        /\ stop' \in {"waiting", "stopped"}
        /\ consuming' \in BOOLEAN /\ cancelled' \in BOOLEAN /\ awaited' \in BOOLEAN
    BY <1>2, <1>4 DEF PromiseTimesOut, StopListening, ProcessType
  <2>2. ProcessType'
    BY <1>1, <1>2, <2>1 DEF ProcessType, StopStates, Busy, Positions
  <2>3. OneOutstanding' /\ ChannelIsOfTheSession'
    BY <1>2, <1>3, <1>4, <2>1 DEF OneOutstanding, ChannelIsOfTheSession, Busy
  <2> QED
    BY <1>1, <1>2, <1>3, <1>4, <2>1, <2>2, <2>3, PortalStepKeeps
<1>5. CASE Exit /\ UNCHANGED <<queueVars, database>>
  <2>1. stop = "closed" /\ Off
    BY <1>5 DEF Exit
  <2>2. ProcessType' /\ ChannelIsOfTheSession' /\ ~ Busy' /\ loop' # "handled"
    BY <2>1, OffKeeps
  <2>3. OneOutstanding'
    BY <1>2, <1>3, <1>5, <2>1, <2>2 DEF OneOutstanding, ChannelIsOfTheSession
  <2> QED
    BY <1>1, <1>2, <1>3, <1>5, <2>2, <2>3, PortalStepKeeps
<1>6. CASE CloseConnection
  <2>1. /\ stop = "stopped" /\ stop' = "closed" /\ Requeue /\ channel' = FALSE
        /\ UNCHANGED <<loop, held, consuming, cancelled, awaited, database>>
    BY <1>6 DEF CloseConnection
  <2>2. QueueType' /\ InBroker' = InBroker /\ unacked' = 0 /\ UNCHANGED lost
    BY <1>1, <1>2, <2>1, RequeueKeeps
  <2>3. ProcessType'
    BY <1>1, <1>2, <2>1 DEF ProcessType, StopStates, Busy, Positions
  <2>4. OneOutstanding' /\ ChannelIsOfTheSession'
    BY <1>2, <2>1, <2>2 DEF OneOutstanding, ChannelIsOfTheSession
  <2> QED
    BY <1>1, <1>2, <2>1, <2>2, <2>3, <2>4, PortalStepKeeps
<1> QED
  BY <1>4, <1>5, <1>6 DEF StopStep

LEMMA OperatorInv == PipelineInv /\ OperatorStep => PipelineInv'
<1> SUFFICES ASSUME PipelineInv, OperatorStep PROVE PipelineInv'
  OBVIOUS
<1>1. UNCHANGED <<log, publisherVars, queueVars, database>>
  BY DEF OperatorStep
<1>2. /\ LogType /\ QueueType /\ ProcessType /\ OneOutstanding
      /\ ChannelIsOfTheSession /\ faults \in 0 .. MaxFaults
  BY DEF PipelineInv
<1>3. QueueType' /\ InBroker' = InBroker /\ UNCHANGED <<lost, unacked>>
  BY <1>1, <1>2, QueueUnchanged DEF queueVars
<1>4. faults' \in 0 .. MaxFaults
  BY <1>2, PipelineAssumption DEF OperatorStep
<1>5. CASE Start
  <2>1. /\ loop = "off" /\ loop' = "starting" /\ UNCHANGED <<held, session, stopping>>
    BY <1>5 DEF Start
  <2>2. ProcessType' /\ OneOutstanding' /\ ChannelIsOfTheSession'
    BY <1>1, <1>2, <1>3, <2>1 DEF ProcessType, OneOutstanding,
       ChannelIsOfTheSession, session, stopping, Busy, LoopStates, Positions
  <2> QED
    BY <1>1, <1>3, <1>4, <2>1, <2>2, PortalStepKeeps
<1>6. CASE RequestStop
  <2>1. /\ loop \notin {"off", "starting"} /\ stop = "no" /\ stop' = "waiting"
        /\ consuming' = TRUE /\ UNCHANGED <<loop, held, channel, cancelled>>
        /\ awaited' \in BOOLEAN
    BY <1>6 DEF RequestStop
  <2>2. ProcessType'
    BY <1>1, <1>2, <2>1 DEF ProcessType, Busy, StopStates, Positions
  <2>3. OneOutstanding' /\ ChannelIsOfTheSession'
    BY <1>2, <1>3, <2>1 DEF OneOutstanding, ChannelIsOfTheSession, Busy
  <2> QED
    BY <1>1, <1>3, <1>4, <2>1, <2>2, <2>3, PortalStepKeeps
<1> QED
  BY <1>5, <1>6 DEF OperatorStep

(* What goes wrong: a message that was taken goes back to the queue, or is *)
(* lost with the broker.                                                   *)
LEMMA FaultInv == PipelineInv /\ Fault => PipelineInv'
<1> SUFFICES ASSUME PipelineInv, Fault PROVE PipelineInv'
  OBVIOUS
<1>1. UNCHANGED log
  BY DEF Fault
<1>2. /\ LogType /\ PublisherType /\ QueueType /\ ProcessType /\ DatabaseType
      /\ OneOutstanding /\ ChannelIsOfTheSession /\ AheadOfAnswer
      /\ NothingVanishes /\ faults \in 0 .. MaxFaults
  BY DEF PipelineInv
<1>3. faults' \in 0 .. MaxFaults
  BY <1>2, PipelineAssumption DEF Fault
<1>4. CASE DeliveryFails /\ UNCHANGED <<queueVars, process, database>>
  <2>1. /\ upTo # 0 /\ upTo' = 0 /\ next' = answered + 1 /\ answered' = answered
    BY <1>4 DEF DeliveryFails
  <2>2. PublisherType' /\ AheadOfAnswer'
    BY <1>1, <1>2, <2>1, PositionsType DEF PublisherType, AheadOfAnswer
  <2>3. Published' \subseteq Published
    BY <1>2, <2>1, PositionsType DEF Published, PublisherType, AheadOfAnswer
  <2>4. QueueType' /\ InBroker' = InBroker /\ UNCHANGED <<lost, unacked>>
    BY <1>1, <1>2, <1>4, QueueUnchanged DEF queueVars
  <2>5. NothingVanishes'
    BY <1>1, <1>2, <1>4, <2>3, <2>4, StillAccounted DEF database
  <2>6. LogType' /\ ProcessType' /\ OneOutstanding' /\ ChannelIsOfTheSession'
    BY <1>1, <1>2, <1>4, <2>4 DEF LogType, ProcessType, OneOutstanding,
       ChannelIsOfTheSession, process, session, stopping, Busy, Positions
  <2>7. DatabaseType' /\ HandledIsCommitted'
    BY <1>1, <1>4 DEF PipelineInv, DatabaseType, HandledIsCommitted, process,
       database, Visible, Exists, HasBid
  <2> QED
    BY <1>3, <2>2, <2>4, <2>5, <2>6, <2>7 DEF PipelineInv
<1>5. CASE StartWithoutChannel /\ UNCHANGED <<publisherVars, queueVars, database>>
  <2>1. /\ loop = "starting" /\ loop' = "ended"
        /\ UNCHANGED <<held, channel, consuming, cancelled, stopping>>
    BY <1>5 DEF StartWithoutChannel
  <2>2. QueueType' /\ InBroker' = InBroker /\ UNCHANGED <<lost, unacked>>
    BY <1>1, <1>2, <1>5, QueueUnchanged DEF queueVars
  <2>3. ProcessType' /\ OneOutstanding' /\ ChannelIsOfTheSession'
    BY <1>1, <1>2, <2>1, <2>2 DEF ProcessType, OneOutstanding,
       ChannelIsOfTheSession, stopping, Busy, LoopStates, Positions
  <2> QED
    BY <1>1, <1>3, <1>5, <2>1, <2>2, <2>3, PortalStepKeeps
<1>6. CASE DatabaseFails /\ UNCHANGED publisherVars
  <2>1. /\ loop = "handling" /\ loop' = "failed"
        /\ UNCHANGED <<held, session, stopping, queue, unacked, lost, database>>
    BY <1>6 DEF DatabaseFails, Fails
  <2>2. QueueType' /\ InBroker' = InBroker
    BY <1>1, <1>2, <2>1, QueueUnchanged
  <2>3. ProcessType' /\ OneOutstanding' /\ ChannelIsOfTheSession'
    BY <1>1, <1>2, <2>1 DEF ProcessType, OneOutstanding, ChannelIsOfTheSession,
       session, stopping, Busy, LoopStates, Positions
  <2> QED
    BY <1>1, <1>3, <1>6, <2>1, <2>2, <2>3, PortalStepKeeps
<1>7. CASE Crash /\ UNCHANGED <<publisherVars, database>>
  <2>1. Off /\ Requeue
    BY <1>7 DEF Crash
  <2>2. ProcessType' /\ ChannelIsOfTheSession' /\ ~ Busy' /\ loop' # "handled"
    BY <2>1, OffKeeps
  <2>3. QueueType' /\ InBroker' = InBroker /\ unacked' = 0 /\ UNCHANGED lost
    BY <1>1, <1>2, <2>1, RequeueKeeps
  <2>4. OneOutstanding'
    BY <2>2, <2>3 DEF OneOutstanding
  <2> QED
    BY <1>1, <1>3, <1>7, <2>2, <2>3, <2>4, PortalStepKeeps
<1>8. CASE /\ ConnectionDrops \/ BrokerRestarts
           /\ UNCHANGED <<publisherVars, loop, held, consuming, cancelled,
                          stopping, database>>
  <2>1. channel' = FALSE
    BY <1>8 DEF ConnectionDrops, BrokerRestarts
  <2>2. ProcessType' /\ ChannelIsOfTheSession'
    BY <1>1, <1>2, <1>8, <2>1 DEF ProcessType, ChannelIsOfTheSession, stopping,
       Busy, Positions
  <2>3. /\ QueueType' /\ unacked' = 0
        /\ \A i \in lost \cup InBroker : i \in lost' \cup InBroker'
    <3>1. CASE ConnectionDrops
      BY <1>1, <1>2, <3>1, RequeueKeeps DEF ConnectionDrops
    <3>2. CASE BrokerRestarts
      <4>1. /\ lost' = lost \cup InBroker /\ queue' = <<>> /\ unacked' = 0
        BY <3>2 DEF BrokerRestarts, LoseAll
      <4>2. InBroker \subseteq Positions
        BY <1>2, ElementOfSeq, PositionsType DEF InBroker, QueueType, Positions
      <4>3. QueueType'
        BY <1>1, <1>2, <4>1, <4>2, EmptySeq, PositionsType DEF QueueType, Positions
      <4> QED
        BY <4>1, <4>3
    <3> QED
      BY <1>8, <3>1, <3>2
  <2>4. OneOutstanding'
    BY <2>1, <2>3 DEF OneOutstanding
  <2> QED
    BY <1>1, <1>3, <1>8, <2>2, <2>3, <2>4, PortalStepKeeps
<1> QED
  BY <1>4, <1>5, <1>6, <1>7, <1>8 DEF Fault

LEMMA StutterInv == PipelineInv /\ UNCHANGED vars => PipelineInv'
<1> SUFFICES ASSUME PipelineInv, UNCHANGED vars PROVE PipelineInv'
  OBVIOUS
<1>1. UNCHANGED <<log, publisherVars, queueVars, process, database, faults>>
  BY DEF vars
<1>2. /\ LogType /\ QueueType /\ ProcessType /\ OneOutstanding
      /\ ChannelIsOfTheSession /\ faults' \in 0 .. MaxFaults
  BY <1>1 DEF PipelineInv
<1>3. QueueType' /\ InBroker' = InBroker /\ UNCHANGED <<lost, unacked>>
  BY <1>1, <1>2, QueueUnchanged DEF queueVars
<1>4. /\ ProcessType' /\ OneOutstanding' /\ ChannelIsOfTheSession'
      /\ UNCHANGED <<loop, held>>
  BY <1>1, <1>2, <1>3 DEF ProcessType, OneOutstanding, ChannelIsOfTheSession,
     process, session, stopping, Busy, Positions
<1> QED
  BY <1>1, <1>2, <1>3, <1>4, PortalStepKeeps

-----------------------------------------------------------------------------
(* The theorems *)

(* PipelineInv holds of every state: each step of the chain, of the        *)
(* publisher, of the portal and of what fails preserves it.                *)
THEOREM PipelineInvariant == Spec => []PipelineInv
<1>1. PipelineInv /\ [Next]_vars => PipelineInv'
  BY ChainInv, PublisherInv, LoopInv, StartInv, StopInv, OperatorInv, FaultInv,
     StutterInv DEF Next
<1> QED
  BY <1>1, InitInv, PTL DEF Spec

(* The variables keep their types: the publisher works within the log, and *)
(* a turn of the loop holds a message exactly until it is settled.         *)
THEOREM PipelineTypes == Spec => []TypeOK
<1>1. PipelineInv => TypeOK
  BY DEF PipelineInv, TypeOK, LogType, PublisherType, QueueType, ProcessType,
     DatabaseType, Busy
<1> QED
  BY <1>1, PipelineInvariant, PTL

(* AckMessage never acknowledges a message over another channel than the   *)
(* one its get came by, whenever channels close.                           *)
THEOREM AcksStayOnTheirChannel == Spec => []AckIsOfThisChannel
<1>1. PipelineInv => AckIsOfThisChannel
  BY DEF PipelineInv, AckIsOfThisChannel, OneOutstanding, Busy
<1> QED
  BY <1>1, PipelineInvariant, PTL

(* At least once, for any number of crashes, closing channels, failing     *)
(* transactions and repeated deliveries: what was published is in the      *)
(* broker, was lost with it, or has taken effect in the tables.            *)
THEOREM DeliveredAtLeastOnce == Spec => []NothingVanishes
<1>1. PipelineInv => NothingVanishes
  BY DEF PipelineInv
<1> QED
  BY <1>1, PipelineInvariant, PTL

-----------------------------------------------------------------------------
(* The order in which the events are applied: OrderInv, on top of          *)
(* PipelineInv *)

(* The positions nobody waits for any more: lost, or applied. *)
Gone == lost \cup {i \in Positions : Visible(log[i])}

Before(i) == 1 .. (i - 1)

(* What the chain never prints again, or only with more. *)
Precedes(e, f) ==
  /\ e.action \in {"start-auction", "cancel-auction"} => f.action # e.action
  /\ e.action = "place-bid" /\ f.action = "place-bid" => e.bid < f.bid

LogInOrder ==
  \A j \in Positions : \A i \in Before(j) :
    log[i].auction = log[j].auction => Precedes(log[i], log[j])

(* A row shows nothing that was not printed. *)
BidPrinted(a, bid) ==
  \E i \in Positions : IsBidOn(a, log[i]) /\ bid = BidOf(log[i])

RowsComeFromLog ==
  \A a \in Auctions :
    /\ Exists(a) => Printed("start-auction", a)
    /\ rows[a].status = "CANCELLED" => Printed("cancel-auction", a)
    /\ \A k \in 1 .. Len(rows[a].bids) : BidPrinted(a, rows[a].bids[k])

(* Every message of the queue q comes after what is before it in the log,  *)
(* but for what nobody waits for and for the message u that is taken.      *)
InOrder(q, u, gone) ==
  \A k \in 1 .. Len(q) : \A j \in Before(q[k]) :
    j \in gone \/ j = u \/ \E l \in Before(k) : q[l] = j

QueueInOrder == InOrder(queue, unacked, Gone)

HeldIsNext == Busy => Before(held) \subseteq Gone

AppliedInOrder ==
  \A i \in Positions :
    Visible(log[i]) /\ log[i].action # "end-auction" => Before(i) \subseteq Gone

OrderInv ==
  /\ LogInOrder /\ RowsComeFromLog
  /\ QueueInOrder /\ HeldIsNext /\ AppliedInOrder

-----------------------------------------------------------------------------
(* The operations of the broker keep its messages in order *)

LEMMA InOrderGrows ==
  ASSUME NEW q, NEW u, NEW gone, NEW more, InOrder(q, u, gone),
         gone \subseteq more
  PROVE  InOrder(q, u, more)
BY DEF InOrder

LEMMA InOrderSettled ==
  ASSUME NEW q, NEW u, NEW gone, InOrder(q, u, gone), NEW S, q \in Seq(S),
         S \subseteq Nat, u = 0 \/ u \in gone
  PROVE  InOrder(q, 0, gone)
<1>1. ASSUME NEW k \in 1 .. Len(q), NEW j \in Before(q[k])
      PROVE  j \in gone \/ \E l \in Before(k) : q[l] = j
  <2>1. q[k] \in Nat
    BY ElementOfSeq
  <2>2. j # 0
    BY <2>1 DEF Before
  <2> QED
    BY <2>2 DEF InOrder
<1> QED
  BY <1>1 DEF InOrder

LEMMA InOrderAppend ==
  ASSUME NEW S, NEW q \in Seq(S), NEW m \in S, NEW u, NEW gone,
         InOrder(q, u, gone),
         Before(m) \subseteq gone \cup RangeOf(q) \cup {u}
  PROVE  InOrder(Append(q, m), u, gone)
<1> DEFINE p == Append(q, m)
<1>1. /\ Len(p) = Len(q) + 1 /\ Len(q) \in Nat
      /\ \A i \in 1 .. Len(q) : p[i] = q[i]
      /\ p[Len(q) + 1] = m
  BY AppendProperties, LenProperties
<1> HIDE DEF p
<1>2. ASSUME NEW k \in 1 .. Len(p), NEW j \in Before(p[k])
      PROVE  j \in gone \/ j = u \/ \E l \in Before(k) : p[l] = j
  <2>1. CASE k = Len(q) + 1
    <3>1. ASSUME j \in RangeOf(q)
          PROVE  \E l \in Before(k) : p[l] = j
      <4>1. PICK l \in 1 .. Len(q) : q[l] = j
        BY <3>1 DEF RangeOf
      <4>2. l \in Before(k) /\ p[l] = j
        BY <1>1, <2>1, <4>1 DEF Before
      <4> QED
        BY <4>2
    <3> QED
      BY <1>1, <1>2, <2>1, <3>1
  <2>2. CASE k # Len(q) + 1
    <3>1. k \in 1 .. Len(q) /\ j \in Before(q[k])
      BY <1>1, <1>2, <2>2
    <3>2. \A l \in Before(k) : p[l] = q[l]
      BY <1>1, <3>1 DEF Before
    <3> QED
      BY <3>1, <3>2 DEF InOrder
  <2> QED
    BY <2>1, <2>2
<1>3. InOrder(p, u, gone)
  BY <1>2 DEF InOrder
<1> QED
  BY <1>3 DEF p

(* What is taken is the first, and nothing before it is still to come.     *)
LEMMA InOrderTaken ==
  ASSUME NEW S, NEW q \in Seq(S), q # <<>>, S \subseteq Nat, NEW gone,
         InOrder(q, 0, gone)
  PROVE  /\ Before(Head(q)) \subseteq gone
         /\ InOrder(Tail(q), Head(q), gone)
<1> DEFINE t == Tail(q)
           h == Head(q)
<1>1. /\ h \in S /\ t \in Seq(S) /\ Len(t) = Len(q) - 1
      /\ \A i \in 1 .. Len(t) : t[i] = q[i + 1]
      /\ Len(q) \in Nat \ {0} /\ h = q[1]
  BY HeadTailProperties, EmptySeq
<1> HIDE DEF t, h
<1>2. Before(h) \subseteq gone
  <2>1. ASSUME NEW j \in Before(h) PROVE j \in gone
    <3>1. 1 \in 1 .. Len(q) /\ j # 0 /\ h \in Nat
      BY <1>1 DEF Before
    <3>2. ~ \E l \in Before(1) : q[l] = j
      BY DEF Before
    <3> QED
      BY <1>1, <3>1, <3>2 DEF InOrder
  <2> QED
    BY <2>1
<1>3. ASSUME NEW k \in 1 .. Len(t), NEW j \in Before(t[k])
      PROVE  j \in gone \/ j = h \/ \E l \in Before(k) : t[l] = j
  <2>1. /\ k + 1 \in 1 .. Len(q) /\ t[k] = q[k + 1] /\ k \in Nat
    BY <1>1
  <2>2. q[k + 1] \in Nat
    BY <2>1, ElementOfSeq
  <2>3. j # 0
    BY <2>1, <2>2 DEF Before
  <2>4. SUFFICES ASSUME NEW l \in Before(k + 1), q[l] = j, l # 1
                 PROVE  \E n \in Before(k) : t[n] = j
    BY <1>1, <2>1, <2>3 DEF InOrder
  <2>5. l - 1 \in Before(k) /\ l - 1 \in 1 .. Len(t) /\ (l - 1) + 1 = l
    BY <1>1, <2>1, <2>4 DEF Before
  <2>6. t[l - 1] = j
    BY <1>1, <2>4, <2>5
  <2> QED
    BY <2>5, <2>6
<1>4. InOrder(t, h, gone)
  BY <1>3 DEF InOrder
<1> QED
  BY <1>2, <1>4 DEF t, h

(* What goes back goes back to the head of the queue. *)
LEMMA InOrderBack ==
  ASSUME NEW S, NEW q \in Seq(S), S \subseteq Nat, NEW u \in S, NEW gone,
         InOrder(q, u, gone), Before(u) \subseteq gone
  PROVE  InOrder(<<u>> \o q, 0, gone)
<1> DEFINE c == <<u>> \o q
<1>1. <<u>> \in Seq(S) /\ Len(<<u>>) = 1 /\ <<u>>[1] = u
  OBVIOUS
<1>2. /\ Len(c) = 1 + Len(q) /\ Len(q) \in Nat
      /\ \A i \in 1 .. 1 + Len(q) : c[i] = IF i <= 1 THEN <<u>>[i] ELSE q[i - 1]
  BY <1>1, ConcatProperties, LenProperties
<1> HIDE DEF c
<1>3. c[1] = u /\ \A i \in 1 .. Len(q) : c[i + 1] = q[i]
  BY <1>1, <1>2
<1>4. ASSUME NEW k \in 1 .. Len(c), NEW j \in Before(c[k])
      PROVE  j \in gone \/ \E l \in Before(k) : c[l] = j
  <2>1. CASE k = 1
    BY <1>3, <1>4, <2>1
  <2>2. CASE k # 1
    <3>1. k - 1 \in 1 .. Len(q) /\ c[k] = q[k - 1] /\ k \in Nat
      BY <1>2, <2>2
    <3>2. j \in gone \/ j = u \/ \E l \in Before(k - 1) : q[l] = j
      BY <1>4, <3>1 DEF InOrder
    <3>3. CASE j = u
      <4>1. 1 \in Before(k) /\ c[1] = j
        BY <1>3, <2>2, <3>1, <3>3 DEF Before
      <4> QED
        BY <4>1
    <3>4. ASSUME NEW l \in Before(k - 1), q[l] = j
          PROVE  \E n \in Before(k) : c[n] = j
      <4>1. l + 1 \in Before(k) /\ l \in 1 .. Len(q)
        BY <3>1 DEF Before
      <4>2. c[l + 1] = j
        BY <1>3, <3>4, <4>1
      <4> QED
        BY <4>1, <4>2
    <3> QED
      BY <3>2, <3>3, <3>4
  <2> QED
    BY <2>1, <2>2
<1>5. InOrder(c, 0, gone)
  BY <1>4 DEF InOrder
<1> QED
  BY <1>5 DEF c

-----------------------------------------------------------------------------
(* The steps that neither print nor apply an event *)

Quiet ==
  /\ UNCHANGED <<log, rows, history>>
  /\ lost \subseteq lost'
  /\ InOrder(queue', unacked', Gone)
  /\ Busy' => \/ Busy /\ held' = held
              \/ Before(held') \subseteq Gone

(* The visible events stay visible: what is gone stays gone. *)
LEMMA GoneGrows ==
  ASSUME Positions \subseteq Positions', lost \subseteq lost',
         \A i \in Positions : Visible(log[i]) => Visible(log[i])'
  PROVE  Gone \subseteq Gone'
BY DEF Gone

LEMMA SameRowsSameVisible ==
  ASSUME UNCHANGED rows, NEW e
  PROVE  Visible(e)' = Visible(e)
BY DEF Visible, Exists, HasBid

LEMMA QuietKeepsOrder ==
  ASSUME OrderInv, Quiet
  PROVE  OrderInv'
<1>1. /\ UNCHANGED <<log, rows, Positions>> /\ lost \subseteq lost'
      /\ InOrder(queue', unacked', Gone)
  BY DEF Quiet, Positions
<1>2. \A i \in Positions : Visible(log[i])' = Visible(log[i])
  BY <1>1 DEF Visible, Exists, HasBid
<1>3. Gone \subseteq Gone'
  BY <1>1, <1>2, GoneGrows
<1>4. LogInOrder'
  BY <1>1 DEF OrderInv, LogInOrder
<1>5. RowsComeFromLog'
  <2>1. \A a, bid : BidPrinted(a, bid) => BidPrinted(a, bid)'
    BY <1>1 DEF BidPrinted
  <2>2. \A action, a : Printed(action, a) => Printed(action, a)'
    BY <1>1 DEF Printed
  <2> QED
    BY <1>1, <2>1, <2>2 DEF OrderInv, RowsComeFromLog, Exists
<1>6. QueueInOrder'
  BY <1>1, <1>3, InOrderGrows DEF QueueInOrder
<1>7. HeldIsNext'
  BY <1>3 DEF Quiet, OrderInv, HeldIsNext
<1>8. AppliedInOrder'
  BY <1>1, <1>2, <1>3 DEF OrderInv, AppliedInOrder
<1> QED
  BY <1>4, <1>5, <1>6, <1>7, <1>8 DEF OrderInv

(* The queue after a message went back to it. *)
LEMMA RequeueInOrder ==
  ASSUME PipelineInv, OrderInv, Requeue
  PROVE  InOrder(queue', unacked', Gone) /\ UNCHANGED lost
<1>1. /\ queue' = IF unacked = 0 THEN queue ELSE <<unacked>> \o queue
      /\ unacked' = 0 /\ UNCHANGED lost
  BY DEF Requeue
<1>2. /\ queue \in Seq(Positions) /\ Positions \subseteq Nat
      /\ unacked \in 0 .. Len(log) /\ InOrder(queue, unacked, Gone)
  BY PositionsType DEF PipelineInv, QueueType, OrderInv, QueueInOrder
<1>3. CASE unacked = 0
  BY <1>1, <1>2, <1>3
<1>4. CASE unacked # 0
  <2>1. unacked \in Positions
    BY <1>2, <1>4 DEF Positions
  <2>2. Busy /\ unacked = held
    BY <1>4 DEF PipelineInv, OneOutstanding
  <2>3. Before(unacked) \subseteq Gone
    BY <2>2 DEF OrderInv, HeldIsNext
  <2>4. InOrder(<<unacked>> \o queue, 0, Gone)
    BY <1>2, <2>1, <2>3, InOrderBack
  <2> QED
    BY <1>1, <1>4, <2>4
<1> QED
  BY <1>3, <1>4

LEMMA PublisherIsQuiet ==
  ASSUME PipelineInv, OrderInv, PublisherStep
  PROVE  Quiet
<1>1. UNCHANGED <<log, process, database>>
  BY DEF PublisherStep
<1>2. /\ queue \in Seq(Positions) /\ InOrder(queue, unacked, Gone)
      /\ LogType /\ PublisherType /\ NothingVanishes
  BY DEF PipelineInv, QueueType, OrderInv, QueueInOrder
<1>3. UNCHANGED <<log, rows, history, Busy, held>>
  BY <1>1 DEF database, process, Busy
<1>4. CASE UNCHANGED queueVars
  BY <1>2, <1>3, <1>4 DEF Quiet, queueVars
<1>5. CASE PublishEvent
  <2>1. upTo # 0 /\ next <= upTo /\ Publish(next)
    BY <1>5 DEF PublishEvent
  <2>2. next \in Positions
    BY <1>2, <2>1, PositionsType DEF PublisherType, Positions
  <2>3. queue' = Append(queue, next) /\ UNCHANGED <<unacked, lost>>
    BY <2>1 DEF Publish
  <2>4. Published = Before(next) /\ Published \subseteq Positions
    BY <1>2, <2>1, PublishedPositions DEF Before
  <2>5. Before(next) \subseteq Gone \cup RangeOf(queue) \cup {unacked}
    BY <1>2, <2>4, InBrokerRange DEF NothingVanishes, Gone
  <2>6. InOrder(Append(queue, next), unacked, Gone)
    BY <1>2, <2>2, <2>5, InOrderAppend
  <2> QED
    BY <1>3, <2>3, <2>6 DEF Quiet
<1> QED
  BY <1>4, <1>5 DEF PublisherStep

LEMMA LoopIsQuiet ==
  ASSUME PipelineInv, OrderInv, LoopStep
  PROVE  HandleMessage \/ Quiet
<1>1. UNCHANGED log
  BY DEF LoopStep
<1>2. /\ queue \in Seq(Positions) /\ InOrder(queue, unacked, Gone)
      /\ Positions \subseteq Nat /\ LogType
  BY PositionsType DEF PipelineInv, QueueType, OrderInv, QueueInOrder
<1>3. ASSUME NEW open, NextTurn(open)
      PROVE  ~ Busy'
  BY <1>3 DEF NextTurn, Busy
<1>4. CASE GetMessage
  <2>1. /\ loop = "polling" /\ channel /\ Get /\ held' = Head(queue)
        /\ UNCHANGED <<rows, history>>
    BY <1>4 DEF GetMessage, database
  <2>2. unacked = 0
    BY <2>1 DEF PipelineInv, OneOutstanding, Busy
  <2>3. /\ queue # <<>> /\ queue' = Tail(queue) /\ unacked' = Head(queue)
        /\ UNCHANGED lost
    BY <2>1 DEF Get
  <2>4. /\ Before(Head(queue)) \subseteq Gone
        /\ InOrder(Tail(queue), Head(queue), Gone)
    BY <1>2, <2>2, <2>3, InOrderTaken
  <2> QED
    BY <1>1, <2>1, <2>3, <2>4 DEF Quiet
<1>5. CASE GetNothing \/ GetFails
  BY <1>1, <1>2, <1>3, <1>5 DEF GetNothing, GetFails, database, Quiet
<1>6. CASE HandlerThrows
  BY <1>1, <1>2, <1>6 DEF HandlerThrows, Fails, database, Quiet, Busy
<1>7. CASE AckMessage
  <2>1. /\ loop = "handled" /\ NextTurn(channel) /\ UNCHANGED <<rows, history>>
        /\ unacked' = 0 /\ UNCHANGED <<queue, lost>>
    BY <1>7 DEF AckMessage, Ack, PipelineInv, OneOutstanding, database
  <2>2. unacked = 0 \/ unacked \in Gone
    <3>1. unacked # 0 => unacked = held /\ Visible(log[held]) /\ held \in Positions
      BY <2>1 DEF PipelineInv, OneOutstanding, HandledIsCommitted, ProcessType, Busy
    <3> QED
      BY <3>1 DEF Gone
  <2>3. InOrder(queue, 0, Gone)
    BY <1>2, <2>2, InOrderSettled
  <2> QED
    BY <1>1, <1>3, <2>1, <2>3 DEF Quiet
<1>8. CASE Reconnect
  BY <1>1, <1>3, <1>8, RequeueInOrder DEF Reconnect, database, Quiet
<1> QED
  BY <1>4, <1>5, <1>6, <1>7, <1>8 DEF LoopStep

LEMMA OthersAreQuiet ==
  ASSUME PipelineInv, OrderInv, StartStep \/ StopStep \/ OperatorStep \/ Fault
  PROVE  Quiet
<1>1. UNCHANGED <<log, rows, history>>
  BY DEF StartStep, StopStep, OperatorStep, Fault, database, CloseConnection,
     DatabaseFails, Fails
<1>2. InOrder(queue, unacked, Gone)
  BY DEF OrderInv, QueueInOrder
<1>3. Busy' => Busy /\ held' = held
  <2>1. CASE StartStep
    BY <2>1 DEF StartStep, StartListening, Busy
  <2>2. CASE StopStep
    BY <2>2 DEF StopStep, PromiseTimesOut, StopListening, Exit, Off,
       CloseConnection, Busy
  <2>3. CASE OperatorStep
    BY <2>3 DEF OperatorStep, Start, RequestStop, Busy
  <2>4. CASE Fault
    BY <2>4 DEF Fault, StartWithoutChannel, DatabaseFails, Fails, Crash, Off,
       process, Busy
  <2> QED
    BY <2>1, <2>2, <2>3, <2>4
<1>4. CASE UNCHANGED queueVars
  BY <1>1, <1>2, <1>3, <1>4 DEF Quiet, queueVars
<1>5. CASE Requeue
  BY <1>1, <1>3, <1>5, RequeueInOrder DEF Quiet
<1>6. CASE LoseAll
  <2>1. queue' = <<>> /\ lost \subseteq lost'
    BY <1>6 DEF LoseAll
  <2>2. InOrder(queue', unacked', Gone)
    BY <2>1 DEF InOrder
  <2> QED
    BY <1>1, <1>3, <2>1, <2>2 DEF Quiet
<1>7. UNCHANGED queueVars \/ Requeue \/ LoseAll
  BY DEF StartStep, StopStep, OperatorStep, Fault, CloseConnection, Crash,
     ConnectionDrops, BrokerRestarts, DatabaseFails, Fails, queueVars
<1> QED
  BY <1>4, <1>5, <1>6, <1>7

-----------------------------------------------------------------------------
(* The chain: what it prints is new *)

LEMMA PrintedInOrder ==
  ASSUME PrintEvent, OrderInv
  PROVE  \E e \in Event :
           /\ log' = Append(log, e)
           /\ \A i \in Positions :
                log[i].auction = e.auction => Precedes(log[i], e)
           /\ e.action # "end-auction" => ~ Visible(e)
<1> DEFINE New(e) ==
             /\ e \in Event /\ log' = Append(log, e)
             /\ \A i \in Positions :
                  log[i].auction = e.auction => Precedes(log[i], e)
             /\ e.action # "end-auction" => ~ Visible(e)
<1>1. PICK a \in Auctions :
       \/ /\ ~ Printed("start-auction", a)
          /\ Emit([action |-> "start-auction", auction |-> a])
       \/ \E b \in Bidders, amount \in Bids :
            /\ CanBidOn(a, amount)
            /\ Emit([action |-> "place-bid", auction |-> a,
                     bidder |-> b, bid |-> amount])
       \/ /\ Running(a)
          /\ Emit([action |-> "cancel-auction", auction |-> a])
       \/ /\ Running(a) /\ Printed("place-bid", a)
          /\ Emit([action |-> "end-auction", auction |-> a])
  BY DEF PrintEvent
<1>2. /\ Exists(a) => Printed("start-auction", a)
      /\ rows[a].status = "CANCELLED" => Printed("cancel-auction", a)
      /\ \A k \in 1 .. Len(rows[a].bids) : BidPrinted(a, rows[a].bids[k])
  BY DEF OrderInv, RowsComeFromLog
<1>3. CASE /\ ~ Printed("start-auction", a)
           /\ Emit([action |-> "start-auction", auction |-> a])
  <2> DEFINE e == [action |-> "start-auction", auction |-> a]
  <2>1. e \in Event /\ e.action = "start-auction" /\ e.auction = a
    BY DEF Event
  <2> HIDE DEF e
  <2>2. \A i \in Positions : log[i].auction = a => Precedes(log[i], e)
    BY <1>3, <2>1 DEF Printed, Precedes
  <2>3. ~ Visible(e)
    BY <1>2, <1>3, <2>1 DEF Visible
  <2>4. log' = Append(log, e)
    BY <1>3 DEF Emit, e
  <2> QED
    BY <2>1, <2>2, <2>3, <2>4
<1>4. CASE \E b \in Bidders, amount \in Bids :
             /\ CanBidOn(a, amount)
             /\ Emit([action |-> "place-bid", auction |-> a,
                      bidder |-> b, bid |-> amount])
  <2>1. PICK b \in Bidders, amount \in Bids :
             /\ CanBidOn(a, amount)
             /\ Emit([action |-> "place-bid", auction |-> a,
                      bidder |-> b, bid |-> amount])
    BY <1>4
  <2> DEFINE e == [action |-> "place-bid", auction |-> a,
                   bidder |-> b, bid |-> amount]
  <2>2. /\ e \in Event /\ e.action = "place-bid" /\ e.auction = a
        /\ e.bidder = b /\ e.bid = amount
    BY DEF Event
  <2>3. log' = Append(log, e)
    BY <2>1 DEF Emit, e
  <2> HIDE DEF e
  <2>4. \A i \in Positions : log[i].auction = a => Precedes(log[i], e)
    BY <2>1, <2>2 DEF CanBidOn, IsBidOn, Precedes
  <2>5. ASSUME HasBid(rows[a], e) PROVE FALSE
    <3>1. PICK k \in 1 .. Len(rows[a].bids) : rows[a].bids[k] = BidOf(e)
      BY <2>5 DEF HasBid
    <3>2. PICK i \in Positions : IsBidOn(a, log[i]) /\ BidOf(e) = BidOf(log[i])
      BY <1>2, <3>1 DEF BidPrinted
    <3>3. log[i].bid < amount
      BY <2>1, <3>2 DEF CanBidOn
    <3>4. BidOf(e).amount = amount /\ BidOf(log[i]).amount = log[i].bid
      BY <2>2 DEF BidOf
    <3>5. log[i].bid = amount
      BY <3>2, <3>4
    <3>6. amount \in Nat
      BY EventsAssumption
    <3> QED
      BY <3>3, <3>5, <3>6
  <2>6. ~ Visible(e)
    BY <2>2, <2>5 DEF Visible
  <2> QED
    BY <2>2, <2>3, <2>4, <2>6
<1>5. CASE Running(a) /\ Emit([action |-> "cancel-auction", auction |-> a])
  <2> DEFINE e == [action |-> "cancel-auction", auction |-> a]
  <2>1. e \in Event /\ e.action = "cancel-auction" /\ e.auction = a
    BY DEF Event
  <2> HIDE DEF e
  <2>2. ~ Printed("cancel-auction", a)
    BY <1>5 DEF Running
  <2>3. \A i \in Positions : log[i].auction = a => Precedes(log[i], e)
    BY <2>1, <2>2 DEF Printed, Precedes
  <2>4. ~ Visible(e)
    BY <1>2, <2>1, <2>2 DEF Visible
  <2>5. log' = Append(log, e)
    BY <1>5 DEF Emit, e
  <2> QED
    BY <2>1, <2>3, <2>4, <2>5
<1>6. CASE Emit([action |-> "end-auction", auction |-> a])
  <2> DEFINE e == [action |-> "end-auction", auction |-> a]
  <2>1. e \in Event /\ e.action = "end-auction"
    BY DEF Event
  <2> HIDE DEF e
  <2>2. \A i \in Positions : Precedes(log[i], e)
    BY <2>1 DEF Precedes
  <2>3. log' = Append(log, e)
    BY <1>6 DEF Emit, e
  <2> QED
    BY <2>1, <2>2, <2>3
<1> QED
  BY <1>1, <1>3, <1>4, <1>5, <1>6

LEMMA ChainKeepsOrder ==
  ASSUME PipelineInv, OrderInv, ChainStep
  PROVE  OrderInv'
<1>1. /\ PrintEvent
      /\ UNCHANGED <<queue, unacked, lost, rows, loop, held, Busy>>
  BY DEF ChainStep, queueVars, database, process, Busy
<1>2. PICK e \in Event :
        /\ log' = Append(log, e)
        /\ \A i \in Positions :
             log[i].auction = e.auction => Precedes(log[i], e)
        /\ e.action # "end-auction" => ~ Visible(e)
  BY <1>1, PrintedInOrder
<1>3. /\ log \in Seq(Event) /\ Len(log) \in Nat /\ Positions \subseteq Nat \ {0}
      /\ queue \in Seq(Positions) /\ Busy => held \in Positions
  BY PositionsType DEF PipelineInv, LogType, QueueType, ProcessType
<1>4. /\ Len(log') = Len(log) + 1 /\ log'[Len(log) + 1] = e
      /\ \A i \in Positions : log'[i] = log[i]
  BY <1>2, <1>3, AppendProperties DEF Positions
<1>5. /\ Positions \subseteq Positions'
      /\ \A j \in Positions' : j \in Positions \/ j = Len(log) + 1
      /\ Before(Len(log) + 1) = Positions
      /\ \A j \in Positions : Before(j) \subseteq Positions
  BY <1>3, <1>4 DEF Positions, Before
<1>6. \A i \in Positions : Visible(log[i])' = Visible(log[i])
  BY <1>1, <1>4 DEF Visible, Exists, HasBid
<1>7. Gone \subseteq Gone'
  BY <1>1, <1>5, <1>6, GoneGrows
<1>8. LogInOrder'
  <2>1. ASSUME NEW j \in Positions', NEW i \in Before(j),
               log'[i].auction = log'[j].auction
        PROVE  Precedes(log'[i], log'[j])
    <3>1. CASE j \in Positions
      BY <1>4, <1>5, <2>1, <3>1 DEF OrderInv, LogInOrder
    <3>2. CASE j = Len(log) + 1
      BY <1>2, <1>4, <1>5, <2>1, <3>2
    <3> QED
      BY <1>5, <3>1, <3>2
  <2> QED
    BY <2>1 DEF LogInOrder
<1>9. RowsComeFromLog'
  <2>1. \A a, bid : BidPrinted(a, bid) => BidPrinted(a, bid)'
    BY <1>4, <1>5 DEF BidPrinted
  <2>2. \A action, a : Printed(action, a) => Printed(action, a)'
    BY <1>4, <1>5 DEF Printed
  <2> QED
    BY <1>1, <2>1, <2>2 DEF OrderInv, RowsComeFromLog, Exists
<1>10. QueueInOrder'
  BY <1>1, <1>7, InOrderGrows DEF OrderInv, QueueInOrder
<1>11. HeldIsNext'
  BY <1>1, <1>7 DEF OrderInv, HeldIsNext
<1>12. AppliedInOrder'
  <2>1. ASSUME NEW i \in Positions', Visible(log[i])', log'[i].action # "end-auction"
        PROVE  Before(i) \subseteq Gone'
    <3>1. CASE i \in Positions
      BY <1>4, <1>6, <1>7, <2>1, <3>1 DEF OrderInv, AppliedInOrder
    <3>2. CASE i = Len(log) + 1
      <4>1. Visible(log[i])' = Visible(e)
        BY <1>1, <1>4, <3>2 DEF Visible, Exists, HasBid
      <4> QED
        BY <1>2, <1>4, <2>1, <3>2, <4>1
    <3> QED
      BY <1>5, <3>1, <3>2
  <2> QED
    BY <2>1 DEF AppliedInOrder
<1> QED
  BY <1>8, <1>9, <1>10, <1>11, <1>12 DEF OrderInv

-----------------------------------------------------------------------------
(* The handlers: each writes the effect of one event, which no other shows *)

Cancelled(row) == [row EXCEPT !.status = "CANCELLED"]

Starts(e) ==
  e.action = "start-auction" /\ rows[e.auction] = NoRow /\ Save(e.auction, NewRow)

AddsBid(e) ==
  /\ e.action = "place-bid" /\ rows[e.auction] \in Row
  /\ ~ HasBid(rows[e.auction], e)
  /\ Save(e.auction, RowWithBid(rows[e.auction], e))

Cancels(e) ==
  /\ e.action = "cancel-auction" /\ rows[e.auction] \in Row
  /\ rows[e.auction].status # "CANCELLED"
  /\ Save(e.auction, Cancelled(rows[e.auction]))

Applies(e) == Starts(e) \/ AddsBid(e) \/ Cancels(e)

LEMMA HandlerApplies ==
  ASSUME DatabaseType, NEW e \in Event, Handle(e)
  PROVE  UNCHANGED <<rows, history>> \/ Applies(e)
<1> DEFINE a == e.auction
<1>1. a \in Auctions /\ ~ Throws(e)
  BY DEF Event, Handle
<1>2. rows[a] \in Row \/ rows[a] = NoRow
  BY <1>1 DEF DatabaseType
<1>3. CASE e.action = "start-auction"
  BY <1>3 DEF Handle, StartAuction, Unchanged, Exists, Applies, Starts
<1>4. CASE e.action = "place-bid"
  BY <1>1, <1>2, <1>4 DEF Handle, PlaceBid, SameBid, Throws, Unchanged, Exists,
     Applies, AddsBid
<1>5. CASE e.action = "cancel-auction"
  BY <1>1, <1>2, <1>5 DEF Handle, CancelAuction, Throws, Unchanged, Exists,
     Applies, Cancels, Cancelled
<1>6. CASE e.action \notin {"start-auction", "place-bid", "cancel-auction"}
  BY <1>6 DEF Handle, Unchanged
<1> QED
  BY <1>3, <1>4, <1>5, <1>6

LEMMA AppliesSaves ==
  ASSUME DatabaseType, NEW e \in Event, Applies(e)
  PROVE  /\ e.auction \in Auctions /\ e.action # "end-auction" /\ ~ Visible(e)
         /\ \A b \in Auctions : b # e.auction => rows'[b] = rows[b]
         /\ rows'[e.auction] =
              IF e.action = "start-auction" THEN NewRow
              ELSE IF e.action = "place-bid" THEN RowWithBid(rows[e.auction], e)
              ELSE Cancelled(rows[e.auction])
<1>1. e.auction \in Auctions /\ e.action # "end-auction"
  BY DEF Event, Applies, Starts, AddsBid, Cancels
<1>2. ~ Visible(e)
  BY DEF Applies, Starts, AddsBid, Cancels, Visible, Exists
<1>3. \E row : /\ Save(e.auction, row)
               /\ row = IF e.action = "start-auction" THEN NewRow
                        ELSE IF e.action = "place-bid"
                               THEN RowWithBid(rows[e.auction], e)
                        ELSE Cancelled(rows[e.auction])
  BY DEF Applies, Starts, AddsBid, Cancels
<1> QED
  BY <1>1, <1>2, <1>3 DEF Save, DatabaseType

LEMMA RowWithBidHolds ==
  ASSUME NEW row \in Row, NEW e \in Event, e.action = "place-bid"
  PROVE  /\ RowWithBid(row, e).bids = Append(row.bids, BidOf(e))
         /\ RowWithBid(row, e).status = row.status
         /\ RowWithBid(row, e).highestBid = e.bid
         /\ Len(row.bids) \in Nat
         /\ Len(RowWithBid(row, e).bids) = Len(row.bids) + 1
         /\ \A k \in 1 .. Len(row.bids) + 1 :
              RowWithBid(row, e).bids[k] =
                IF k = Len(row.bids) + 1 THEN BidOf(e) ELSE row.bids[k]
<1> DEFINE Bid == [bidder : Bidders, amount : Bids]
           after == RowWithBid(row, e)
<1>1. row.bids \in Seq(Bid) /\ BidOf(e) \in Bid
  BY RowFields DEF Event, BidOf
<1>2. /\ Len(row.bids) \in Nat
      /\ Len(Append(row.bids, BidOf(e))) = Len(row.bids) + 1
      /\ \A i \in 1 .. Len(row.bids) :
           Append(row.bids, BidOf(e))[i] = row.bids[i]
      /\ Append(row.bids, BidOf(e))[Len(row.bids) + 1] = BidOf(e)
  BY <1>1, AppendProperties, LenProperties
<1>3. /\ after.bids = Append(row.bids, BidOf(e)) /\ after.status = row.status
      /\ after.highestBid = e.bid
  BY DEF RowWithBid, Row
<1> QED
  BY <1>2, <1>3

(* Two events of the log are not the same one twice. *)
SameEvent(e, f) ==
  /\ e.action = f.action /\ e.auction = f.auction
  /\ e.action = "place-bid" => e.bid = f.bid

LEMMA NoEventTwice ==
  ASSUME LogType, LogInOrder, NEW i \in Positions, NEW j \in Positions,
         SameEvent(log[i], log[j]), log[i].action # "end-auction"
  PROVE  i = j
<1>1. ASSUME NEW m \in Positions, NEW n \in Positions, m < n,
             SameEvent(log[m], log[n]), log[m].action # "end-auction"
      PROVE  FALSE
  <2>1. m \in Before(n) /\ log[m] \in Event
    BY <1>1, PositionsType, ElementOfSeq DEF LogType, Positions, Before
  <2>2. Precedes(log[m], log[n])
    BY <1>1, <2>1 DEF LogInOrder, SameEvent
  <2>3. CASE log[m].action = "place-bid"
    <3>1. log[m].bid \in Nat
      BY <2>1, <2>3, EventsAssumption DEF Event
    <3> QED
      BY <1>1, <2>2, <2>3, <3>1 DEF SameEvent, Precedes
  <2>4. CASE log[m].action # "place-bid"
    <3>1. log[m].action \in {"start-auction", "cancel-auction"}
      BY <1>1, <2>1, <2>4 DEF Event
    <3> QED
      BY <1>1, <2>2, <3>1 DEF SameEvent, Precedes
  <2> QED
    BY <2>3, <2>4
<1>2. SameEvent(log[j], log[i]) /\ log[j].action # "end-auction"
  BY DEF SameEvent
<1>3. i \in Nat /\ j \in Nat
  BY PositionsType
<1> QED
  BY <1>1, <1>2, <1>3

(* An event becomes visible only by its own handler. *)
LEMMA OnlyItsHandler ==
  ASSUME DatabaseType, NEW e \in Event, Applies(e),
         NEW f \in Event, Visible(f)', ~ Visible(f)
  PROVE  SameEvent(e, f)
<1> DEFINE a == e.auction
<1>1. f.auction \in Auctions /\ f.action # "end-auction"
  BY DEF Event, Visible
<1>2. f.auction = a
  BY <1>1, AppliesSaves DEF Visible, Exists, HasBid
<1>3. CASE Starts(e)
  <2>1. rows'[a] = NewRow /\ e.action = "start-auction"
    BY <1>3, AppliesSaves DEF Starts
  <2>2. rows'[a].status # "CANCELLED" /\ Len(rows'[a].bids) = 0
    BY <2>1, EmptySeq DEF NewRow, NoRow
  <2>3. f.action \notin {"place-bid", "cancel-auction"}
    BY <1>2, <2>2 DEF Visible, HasBid
  <2>4. f.action = "start-auction"
    BY <1>1, <2>3 DEF Event
  <2> QED
    BY <1>2, <2>1, <2>4 DEF SameEvent
<1>4. CASE AddsBid(e)
  <2>1. /\ rows'[a] = RowWithBid(rows[a], e) /\ e.action = "place-bid"
        /\ rows[a] \in Row
    BY <1>4, AppliesSaves DEF AddsBid
  <2>2. Exists(a) /\ rows'[a].status = rows[a].status
    BY <2>1, RowFields, RowWithBidHolds DEF Exists
  <2>3. f.action \notin {"start-auction", "cancel-auction"}
    BY <1>2, <2>2 DEF Visible
  <2>4. f.action = "place-bid"
    BY <1>1, <2>3 DEF Event
  <2>5. HasBid(rows'[a], f) /\ ~ HasBid(rows[a], f)
    BY <1>2, <2>4 DEF Visible, HasBid
  <2>6. PICK k \in 1 .. Len(rows'[a].bids) : rows'[a].bids[k] = BidOf(f)
    BY <2>5 DEF HasBid
  <2>7. /\ k \in 1 .. Len(rows[a].bids) + 1 /\ Len(rows[a].bids) \in Nat
        /\ BidOf(f) = IF k = Len(rows[a].bids) + 1 THEN BidOf(e) ELSE rows[a].bids[k]
    BY <2>1, <2>6, RowWithBidHolds
  <2>8. BidOf(f) = BidOf(e)
    BY <2>5, <2>7 DEF HasBid
  <2>9. BidOf(f).amount = f.bid /\ BidOf(e).amount = e.bid
    BY DEF BidOf
  <2> QED
    BY <1>2, <2>1, <2>4, <2>8, <2>9 DEF SameEvent
<1>5. CASE Cancels(e)
  <2>1. /\ rows'[a] = Cancelled(rows[a]) /\ e.action = "cancel-auction"
        /\ rows[a] \in Row
    BY <1>5, AppliesSaves DEF Cancels
  <2>2. Exists(a) /\ rows'[a].bids = rows[a].bids
    BY <2>1, RowFields DEF Exists, Cancelled, Row
  <2>3. f.action \notin {"start-auction", "place-bid"}
    BY <1>2, <2>2 DEF Visible, HasBid
  <2>4. f.action = "cancel-auction"
    BY <1>1, <2>3 DEF Event
  <2> QED
    BY <1>2, <2>1, <2>4 DEF SameEvent
<1> QED
  BY <1>3, <1>4, <1>5 DEF Applies

LEMMA HandlerKeepsRowsFromLog ==
  ASSUME DatabaseType, RowsComeFromLog, UNCHANGED log, NEW i \in Positions,
         log[i] \in Event, Applies(log[i])
  PROVE  RowsComeFromLog'
<1>0. PICK e \in Event : e = log[i] /\ Applies(e)
  OBVIOUS
<1> DEFINE a == e.auction
<1>1. /\ \A b, bid : BidPrinted(b, bid)' <=> BidPrinted(b, bid)
      /\ \A action, b : Printed(action, b)' <=> Printed(action, b)
  BY DEF BidPrinted, Printed, Positions
<1>2. SUFFICES /\ Printed("start-auction", a)
               /\ rows'[a].status = "CANCELLED" => Printed("cancel-auction", a)
               /\ \A k \in 1 .. Len(rows'[a].bids) : BidPrinted(a, rows'[a].bids[k])
  BY <1>0, <1>1, AppliesSaves DEF RowsComeFromLog, Exists
<1>3. /\ a \in Auctions
      /\ rows[a] \in Row => Printed("start-auction", a)
      /\ rows[a].status = "CANCELLED" => Printed("cancel-auction", a)
      /\ \A k \in 1 .. Len(rows[a].bids) : BidPrinted(a, rows[a].bids[k])
  BY <1>0, AppliesSaves, RowFields DEF RowsComeFromLog, Exists
<1>4. CASE Starts(e)
  <2>1. rows'[a] = NewRow /\ Printed("start-auction", a)
    BY <1>0, <1>4, AppliesSaves DEF Starts, Printed
  <2>2. rows'[a].status # "CANCELLED" /\ Len(rows'[a].bids) = 0
    BY <2>1, EmptySeq DEF NewRow, NoRow
  <2> QED
    BY <2>1, <2>2
<1>5. CASE AddsBid(e)
  <2>1. /\ rows'[a] = RowWithBid(rows[a], e) /\ e.action = "place-bid"
        /\ rows[a] \in Row
    BY <1>0, <1>5, AppliesSaves DEF AddsBid
  <2>2. rows'[a].status = rows[a].status
    BY <2>1, RowWithBidHolds
  <2>3. BidPrinted(a, BidOf(e))
    BY <1>0, <2>1 DEF BidPrinted, IsBidOn
  <2>4. ASSUME NEW k \in 1 .. Len(rows'[a].bids)
        PROVE  BidPrinted(a, rows'[a].bids[k])
    <3>1. /\ k \in 1 .. Len(rows[a].bids) + 1 /\ Len(rows[a].bids) \in Nat
          /\ rows'[a].bids[k] =
               IF k = Len(rows[a].bids) + 1 THEN BidOf(e) ELSE rows[a].bids[k]
      BY <2>1, <2>4, RowWithBidHolds
    <3> QED
      BY <1>3, <2>3, <3>1
  <2> QED
    BY <1>3, <2>1, <2>2, <2>4
<1>6. CASE Cancels(e)
  <2>1. /\ rows'[a] = Cancelled(rows[a]) /\ Printed("cancel-auction", a)
        /\ rows[a] \in Row
    BY <1>0, <1>6, AppliesSaves DEF Cancels, Printed
  <2>2. rows'[a].bids = rows[a].bids
    BY <2>1 DEF Cancelled, Row
  <2> QED
    BY <1>3, <2>1, <2>2
<1> QED
  BY <1>0, <1>4, <1>5, <1>6 DEF Applies

LEMMA HandlerKeepsOrder ==
  ASSUME PipelineInv, OrderInv, LoopStep, HandleMessage
  PROVE  OrderInv'
<1>1. /\ loop = "handling" /\ loop' = "handled" /\ Handle(log[held])
      /\ UNCHANGED <<log, held, queue, unacked, lost, Positions>>
  BY DEF HandleMessage, LoopStep, Positions
<1>2. /\ LogType /\ DatabaseType /\ held \in Positions
      /\ \A i \in Positions : log[i] \in Event
  BY <1>1, PublishedPositions DEF PipelineInv, ProcessType, Busy
<1>3. \A f \in Event : Visible(f) => Visible(f)'
  BY <1>1, <1>2, HandleKeeps DEF Visible, Exists, HasBid
<1>4. \A i \in Positions : Visible(log[i]) => Visible(log[i])'
  BY <1>1, <1>2, <1>3 DEF Visible, Exists, HasBid
<1>5. Gone \subseteq Gone'
  BY <1>1, <1>4, GoneGrows
<1>6. CASE UNCHANGED <<rows, history>>
  <2>1. InOrder(queue', unacked', Gone) /\ Busy
    BY <1>1 DEF OrderInv, QueueInOrder, Busy
  <2>2. Quiet
    BY <1>1, <1>6, <2>1 DEF Quiet
  <2> QED
    BY <2>2, QuietKeepsOrder
<1>7. CASE Applies(log[held])
  <2>1. LogInOrder' /\ RowsComeFromLog'
    BY <1>1, <1>2, <1>7, HandlerKeepsRowsFromLog DEF OrderInv, LogInOrder
  <2>2. QueueInOrder'
    BY <1>1, <1>5, InOrderGrows DEF OrderInv, QueueInOrder
  <2>3. Before(held) \subseteq Gone
    BY <1>1 DEF OrderInv, HeldIsNext, Busy
  <2>4. HeldIsNext'
    BY <1>1, <1>5, <2>3 DEF HeldIsNext
  <2>5. ASSUME NEW i \in Positions, Visible(log[i])', log[i].action # "end-auction"
        PROVE  Before(i) \subseteq Gone
    <3>1. CASE Visible(log[i])
      BY <2>5, <3>1 DEF OrderInv, AppliedInOrder
    <3>2. CASE ~ Visible(log[i])
      <4>1. SameEvent(log[held], log[i])
        <5> SUFFICES ASSUME NEW f \in Event, f = log[i]
                     PROVE  SameEvent(log[held], f)
          BY <1>2
        <5>1. Visible(f)' /\ ~ Visible(f)
          BY <1>1, <2>5, <3>2 DEF Visible, Exists, HasBid
        <5> QED
          BY <1>2, <1>7, <5>1, OnlyItsHandler
      <4>2. log[held].action # "end-auction" /\ LogInOrder
        BY <1>2, <1>7, AppliesSaves DEF OrderInv
      <4>3. i = held
        BY <1>2, <4>1, <4>2, NoEventTwice
      <4> QED
        BY <2>3, <4>3
    <3> QED
      BY <3>1, <3>2
  <2>6. AppliedInOrder'
    BY <1>1, <1>5, <2>5 DEF AppliedInOrder
  <2> QED
    BY <2>1, <2>2, <2>4, <2>6 DEF OrderInv
<1> QED
  BY <1>1, <1>2, <1>6, <1>7, HandlerApplies

LEMMA InitOrder == Init => OrderInv
<1> SUFFICES ASSUME Init PROVE OrderInv
  OBVIOUS
<1>1. /\ Len(log) = 0 /\ Len(queue) = 0 /\ Positions = {} /\ ~ Busy
      /\ rows = [a \in Auctions |-> NoRow]
  BY EmptySeq DEF Init, QueueInit, ConsumerInit, ProjectionInit, Positions, Busy
<1>2. Len(NoRow.bids) = 0 /\ NoRow.status # "CANCELLED"
  BY EmptySeq DEF NoRow
<1>3. RowsComeFromLog
  <2>1. \A a \in Auctions : rows[a] = NoRow
    BY <1>1
  <2> SUFFICES ASSUME NEW a \in Auctions, NEW row, row = rows[a]
               PROVE  row = NoRow /\ row.status # "CANCELLED" /\ 1 .. Len(row.bids) = {}
    BY <2>1 DEF RowsComeFromLog, Exists
  <2> QED
    BY <1>2, <2>1
<1> QED
  BY <1>1, <1>3 DEF OrderInv, LogInOrder, QueueInOrder, InOrder, HeldIsNext,
     AppliedInOrder

LEMMA StutterIsQuiet ==
  ASSUME OrderInv, UNCHANGED vars
  PROVE  Quiet
BY DEF vars, queueVars, process, database, Quiet, Busy, OrderInv, QueueInOrder

LEMMA NextKeepsOrder ==
  PipelineInv /\ OrderInv /\ [Next]_vars => OrderInv'
BY ChainKeepsOrder, PublisherIsQuiet, LoopIsQuiet, OthersAreQuiet,
   StutterIsQuiet, QuietKeepsOrder, HandlerKeepsOrder DEF Next

(* The messages of the queue, the one in hand and the effects in the       *)
(* tables follow the order of the log, but for what the broker lost; and   *)
(* the tables show nothing that was not printed.                           *)
THEOREM OrderInvariant == Spec => []OrderInv
BY InitOrder, NextKeepsOrder, PipelineInvariant, PTL DEF Spec

-----------------------------------------------------------------------------
(* The highest bid *)

LEMMA HandlerKeepsHighestBid ==
  ASSUME PipelineInv, OrderInv, LoopStep, HandleMessage, HighestBidIsShown
  PROVE  HighestBidIsShown'
<1>1. /\ loop = "handling" /\ Handle(log[held]) /\ UNCHANGED lost
  BY DEF HandleMessage
<1>2. /\ LogType /\ DatabaseType /\ held \in Positions
      /\ \A i \in Positions : log[i] \in Event
  BY <1>1, PublishedPositions DEF PipelineInv, ProcessType, Busy
<1>3. CASE UNCHANGED <<rows, history>>
  BY <1>1, <1>3 DEF HighestBidIsShown
<1>4. CASE Applies(log[held])
  <2>1. SUFFICES ASSUME lost = {}
                 PROVE  \A a \in Auctions : \A k \in DOMAIN rows'[a].bids :
                          rows'[a].bids[k].amount <= rows'[a].highestBid
    BY <1>1 DEF HighestBidIsShown
  <2>2. PICK e \in Event : e = log[held]
    BY <1>2
  <2>3. Applies(e)
    BY <1>4, <2>2
  <2> DEFINE a == e.auction
  <2>4. /\ a \in Auctions /\ ~ Visible(e)
        /\ \A b \in Auctions : b # a => rows'[b] = rows[b]
    BY <1>2, <2>3, AppliesSaves
  <2>5. SUFFICES \A k \in DOMAIN rows'[a].bids :
                   rows'[a].bids[k].amount <= rows'[a].highestBid
    BY <2>1, <2>4 DEF HighestBidIsShown
  <2>6. \A k \in DOMAIN rows[a].bids : rows[a].bids[k].amount <= rows[a].highestBid
    BY <2>1, <2>4 DEF HighestBidIsShown
  <2>7. CASE Starts(e)
    <3>1. rows'[a] = NewRow
      BY <1>2, <2>3, <2>7, AppliesSaves DEF Starts
    <3>2. DOMAIN rows'[a].bids = {}
      BY <3>1 DEF NewRow, NoRow
    <3> QED
      BY <3>2
  <2>8. CASE AddsBid(e)
    <3>1. /\ rows'[a] = RowWithBid(rows[a], e) /\ e.action = "place-bid"
          /\ rows[a] \in Row
      BY <1>2, <2>3, <2>8, AppliesSaves DEF AddsBid
    <3>2. /\ rows'[a].highestBid = e.bid /\ Len(rows[a].bids) \in Nat
          /\ Len(rows'[a].bids) = Len(rows[a].bids) + 1
          /\ \A k \in 1 .. Len(rows[a].bids) + 1 :
               rows'[a].bids[k] =
                 IF k = Len(rows[a].bids) + 1 THEN BidOf(e) ELSE rows[a].bids[k]
      BY <3>1, RowWithBidHolds
    <3>3. DOMAIN rows'[a].bids = 1 .. Len(rows[a].bids) + 1
      <4>1. rows'[a].bids \in Seq([bidder : Bidders, amount : Bids])
        BY <3>1, RowWithBidKeeps, RowFields
      <4> QED
        BY <3>2, <4>1, LenProperties
    <3>4. BidOf(e).amount = e.bid /\ e.bid \in Nat
      BY <3>1, EventsAssumption DEF BidOf, Event
    <3>5. ASSUME NEW k \in 1 .. Len(rows[a].bids)
          PROVE  rows[a].bids[k].amount <= e.bid
      <4>1. PICK i \in Positions : IsBidOn(a, log[i]) /\ rows[a].bids[k] = BidOf(log[i])
        BY <2>4 DEF OrderInv, RowsComeFromLog, BidPrinted
      <4>2. /\ log[i].action = "place-bid" /\ log[i].auction = a
            /\ log[i] \in Event
        BY <1>2, <4>1 DEF IsBidOn
      <4>3. rows[a].bids[k].amount = log[i].bid /\ log[i].bid \in Nat
        <5>1. log[i].bid \in Nat
          BY <4>2, EventsAssumption DEF Event
        <5>2. BidOf(log[i]).amount = log[i].bid
          BY DEF BidOf
        <5> QED
          BY <4>1, <5>1, <5>2
      <4>4. HasBid(rows[a], log[i])
        BY <4>1 DEF HasBid
      <4>5. Visible(log[i])
        BY <4>2, <4>4 DEF Visible
      <4>6. ~ (held \in Before(i))
        BY <1>2, <2>1, <2>2, <2>4, <4>2, <4>5 DEF OrderInv, AppliedInOrder, Gone
      <4>7. i # held
        BY <2>2, <2>4, <4>5
      <4>8. i \in Before(held)
        BY <1>2, <4>6, <4>7, PositionsType DEF Before
      <4>9. Precedes(log[i], e)
        BY <1>2, <2>2, <4>2, <4>8 DEF OrderInv, LogInOrder
      <4> QED
        BY <3>1, <3>4, <4>2, <4>3, <4>9 DEF Precedes
    <3>6. ASSUME NEW k \in 1 .. Len(rows[a].bids) + 1
          PROVE  rows'[a].bids[k].amount <= e.bid
      <4>1. CASE k = Len(rows[a].bids) + 1
        <5>1. rows'[a].bids[k] = BidOf(e)
          BY <3>2, <4>1
        <5> QED
          BY <3>4, <5>1
      <4>2. CASE k # Len(rows[a].bids) + 1
        <5>1. k \in 1 .. Len(rows[a].bids)
          BY <3>2, <4>2
        <5> QED
          BY <3>2, <3>5, <4>2, <5>1
      <4> QED
        BY <4>1, <4>2
    <3> QED
      BY <3>2, <3>3, <3>6
  <2>9. CASE Cancels(e)
    <3>1. rows'[a] = Cancelled(rows[a]) /\ rows[a] \in Row
      BY <1>2, <2>3, <2>9, AppliesSaves DEF Cancels
    <3>2. rows'[a].bids = rows[a].bids /\ rows'[a].highestBid = rows[a].highestBid
      BY <3>1 DEF Cancelled, Row
    <3> QED
      BY <2>6, <3>2
  <2> QED
    BY <2>3, <2>7, <2>8, <2>9 DEF Applies
<1> QED
  BY <1>1, <1>2, <1>3, <1>4, HandlerApplies

(* placeBid compares no amounts, and the highest bid shown is the highest  *)
(* all the same, for any number of repeated deliveries and crashes, as     *)
(* long as the broker loses nothing: bids rise along the log, and the      *)
(* tables follow it.                                                       *)
THEOREM HighestBidAlwaysShown == Spec => []HighestBidIsShown
<1>1. Init => HighestBidIsShown
  <2> SUFFICES ASSUME Init, NEW a \in Auctions PROVE DOMAIN rows[a].bids = {}
    BY DEF HighestBidIsShown
  <2> QED
    BY DEF Init, ProjectionInit, NoRow
<1>2. PipelineInv /\ OrderInv /\ HighestBidIsShown /\ [Next]_vars
        => HighestBidIsShown'
  <2> SUFFICES ASSUME PipelineInv, OrderInv, HighestBidIsShown, [Next]_vars
               PROVE  HighestBidIsShown'
    OBVIOUS
  <2>1. CASE Quiet
    <3>1. UNCHANGED rows /\ (lost' = {} => lost = {})
      BY <2>1 DEF Quiet
    <3> QED
      BY <3>1 DEF HighestBidIsShown
  <2>2. CASE ChainStep
    <3>1. UNCHANGED <<rows, lost>>
      BY <2>2 DEF ChainStep, database, queueVars
    <3> QED
      BY <3>1 DEF HighestBidIsShown
  <2>3. CASE LoopStep /\ HandleMessage
    BY <2>3, HandlerKeepsHighestBid
  <2> QED
    BY <2>1, <2>2, <2>3, PublisherIsQuiet, LoopIsQuiet, OthersAreQuiet,
       StutterIsQuiet DEF Next
<1> QED
  BY <1>1, <1>2, PipelineInvariant, OrderInvariant, PTL DEF Spec

-----------------------------------------------------------------------------
(* The refinement: each step of the pipeline is one of AuctionFeed, or     *)
(* none                                                                    *)

Versions == [a \in Auctions |-> Len(history[a])]

Applied == {i \in Positions : log[i].action # "end-auction" /\ Visible(log[i])}

FeedStep == [Feed!FeedNext]_<<log, rows, Versions, Applied, lost>>

LEMMA QuietLoses ==
  ASSUME PipelineInv', Quiet
  PROVE  FeedStep
<1>1. UNCHANGED <<log, rows, history, Positions>> /\ lost \subseteq lost'
  BY DEF Quiet, Positions
<1>2. UNCHANGED Versions
  BY <1>1 DEF Versions
<1>3. UNCHANGED Applied
  BY <1>1 DEF Applied, Visible, Exists, HasBid
<1>4. lost' \in SUBSET Positions
  BY <1>1 DEF PipelineInv, QueueType
<1>5. Feed!Lose
  BY <1>1, <1>2, <1>3, <1>4 DEF Feed!Lose, Versions, Applied, Feed!Positions,
     Positions
<1> QED
  BY <1>5 DEF FeedStep, Feed!FeedNext

LEMMA SamePrintEvent == PrintEvent => Feed!PrintEvent
<1>1. \A action, a : Feed!Printed(action, a) <=> Printed(action, a)
  BY DEF Feed!Printed, Feed!Positions, Printed, Positions
<1>2. \A a : Feed!Running(a) <=> Running(a)
  BY <1>1 DEF Feed!Running, Running
<1>3. \A a, bid : CanBidOn(a, bid) => Feed!CanBidOn(a, bid)
  BY <1>2 DEF Feed!CanBidOn, Feed!Positions, Feed!IsBidOn, CanBidOn, Positions,
     IsBidOn
<1>4. \A e : Feed!Emit(e) <=> Emit(e)
  BY DEF Feed!Emit, Emit
<1> QED
  BY <1>1, <1>2, <1>3, <1>4 DEF Feed!PrintEvent, PrintEvent

LEMMA ChainPrints ==
  ASSUME PipelineInv, OrderInv, ChainStep
  PROVE  FeedStep
<1>1. PrintEvent /\ UNCHANGED <<rows, history, lost>>
  BY DEF ChainStep, database, queueVars
<1>2. PICK e \in Event :
        log' = Append(log, e) /\ (e.action # "end-auction" => ~ Visible(e))
  BY <1>1, PrintedInOrder
<1>3. /\ Len(log') = Len(log) + 1 /\ log'[Len(log) + 1] = e
      /\ \A i \in Positions : log'[i] = log[i]
      /\ \A i : i \in Positions' <=> i \in Positions \/ i = Len(log) + 1
  BY <1>2, PositionsType, AppendProperties DEF PipelineInv, LogType, Positions
<1>4. UNCHANGED Applied
  <2>1. \A i \in Positions : Visible(log[i])' = Visible(log[i])
    BY <1>1, <1>3 DEF Visible, Exists, HasBid
  <2>2. e.action # "end-auction" => ~ Visible(e)'
    BY <1>1, <1>2 DEF Visible, Exists, HasBid
  <2>3. \A i \in Positions' :
          i \in Applied' <=> i \in Positions /\ i \in Applied
    <3>1. ASSUME NEW i \in Positions PROVE i \in Applied' <=> i \in Applied
      BY <1>3, <2>1, <3>1 DEF Applied
    <3>2. Len(log) + 1 \notin Applied'
      BY <1>3, <2>2 DEF Applied, Visible, Exists, HasBid
    <3>3. Len(log) + 1 \notin Positions
      BY PositionsType DEF PipelineInv, Positions
    <3> QED
      BY <1>3, <3>1, <3>2, <3>3
  <2> QED
    BY <1>3, <2>3 DEF Applied
<1>5. UNCHANGED Versions
  BY <1>1 DEF Versions
<1>6. Feed!PrintEvent
  BY <1>1, SamePrintEvent
<1> QED
  BY <1>1, <1>4, <1>5, <1>6 DEF FeedStep, Feed!FeedNext, Versions, Applied

LEMMA HandlerHasEffect ==
  ASSUME DatabaseType, NEW e \in Event, Applies(e)
  PROVE  /\ Save(e.auction, Feed!Effect(e, rows[e.auction]))
         /\ Feed!Effect(e, rows[e.auction]) \in Row
<1> DEFINE a == e.auction
<1>1. CASE Starts(e)
  <2>1. e.action = "start-auction" /\ Save(a, NewRow)
    BY <1>1 DEF Starts
  <2>2. Feed!Effect(e, rows[a]) = NewRow
    BY <2>1 DEF Feed!Effect, Feed!Nothing, NewRow, NoRow
  <2> QED
    BY <2>1, <2>2, RowFields
<1>2. CASE AddsBid(e)
  <2>1. /\ e.action = "place-bid" /\ rows[a] \in Row
        /\ Save(a, RowWithBid(rows[a], e))
    BY <1>2 DEF AddsBid
  <2>2. Feed!Effect(e, rows[a]) = RowWithBid(rows[a], e)
    BY <2>1 DEF Feed!Effect, RowWithBid, BidOf
  <2> QED
    BY <2>1, <2>2, RowWithBidKeeps
<1>3. CASE Cancels(e)
  <2>1. /\ e.action = "cancel-auction" /\ rows[a] \in Row
        /\ Save(a, Cancelled(rows[a]))
    BY <1>3 DEF Cancels
  <2>2. Feed!Effect(e, rows[a]) = Cancelled(rows[a])
    BY <2>1 DEF Feed!Effect, Cancelled
  <2>3. Cancelled(rows[a]) \in Row
    BY <2>1, RowFields DEF Cancelled
  <2> QED
    BY <2>1, <2>2, <2>3
<1> QED
  BY <1>1, <1>2, <1>3 DEF Applies

LEMMA SaveIsAVersion ==
  ASSUME DatabaseType, NEW a \in Auctions, NEW row \in Row, Save(a, row)
  PROVE  /\ rows' = [rows EXCEPT ![a] = row]
         /\ Versions' = [Versions EXCEPT ![a] = Versions[a] + 1]
<1>1. /\ rows' = [rows EXCEPT ![a] = row]
      /\ history' = [history EXCEPT ![a] = Append(history[a], Snapshot(row))]
      /\ history \in [Auctions -> Seq(Snapshots)]
  BY DEF Save, DatabaseType, Snapshots
<1>2. Len(Append(history[a], Snapshot(row))) = Len(history[a]) + 1
  BY <1>1, AppendProperties DEF Snapshots
<1>3. \A b \in Auctions :
        Len(history'[b]) = IF b = a THEN Len(history[a]) + 1 ELSE Len(history[b])
  BY <1>1, <1>2
<1>4. Versions' = [b \in Auctions |-> Len(history'[b])]
  BY DEF Versions
<1> QED
  BY <1>1, <1>3, <1>4 DEF Versions

LEMMA HandlerIsApplied ==
  ASSUME PipelineInv, OrderInv, LoopStep, HandleMessage, Applies(log[held])
  PROVE  \E i \in Positions : Feed!Apply(i)
<1>1. /\ loop = "handling" /\ Handle(log[held])
      /\ UNCHANGED <<log, lost, Positions>>
  BY DEF HandleMessage, LoopStep, Positions
<1>2. /\ LogType /\ LogInOrder /\ DatabaseType /\ held \in Positions
      /\ \A i \in Positions : log[i] \in Event
  BY <1>1, PublishedPositions DEF PipelineInv, OrderInv, ProcessType, Busy
<1>3. PICK e \in Event, h \in Positions : e = log[h] /\ h = held
  BY <1>2
<1>4. /\ Applies(e) /\ e.auction \in Auctions
      /\ e.action # "end-auction" /\ ~ Visible(e)
  BY <1>2, <1>3, AppliesSaves
<1>5. h \notin Applied \cup Feed!Ignored
  BY <1>3, <1>4 DEF Applied, Feed!Ignored, Feed!Positions, Positions
<1>6. \A j \in 1 .. h - 1 : j \in Applied \cup Feed!Ignored \cup lost
  <2>1. Before(h) \subseteq Gone
    BY <1>1, <1>3 DEF OrderInv, HeldIsNext, Busy
  <2>2. Gone \subseteq Applied \cup Feed!Ignored \cup lost
    BY DEF Gone, Applied, Feed!Ignored, Feed!Positions, Positions
  <2> QED
    BY <2>1, <2>2 DEF Before
<1>7. Applied' = Applied \cup {h}
  <2>1. ASSUME NEW i \in Positions
        PROVE  i \in Applied' <=> i \in Applied \/ i = h
    <3>1. PICK f \in Event : f = log[i]
      BY <1>2
    <3>2. i \in Applied' <=> f.action # "end-auction" /\ Visible(f)'
      BY <1>1, <3>1 DEF Applied, Visible, Exists, HasBid
    <3>3. i \in Applied <=> f.action # "end-auction" /\ Visible(f)
      BY <3>1 DEF Applied
    <3>4. i \in Applied => i \in Applied'
      BY <1>1, <1>2, <1>3, <3>2, <3>3, HandleKeeps
    <3>5. i = h => i \in Applied'
      <4>1. Handle(e)
        BY <1>1, <1>3
      <4>2. Visible(e)'
        BY <1>2, <4>1, HandleKeeps
      <4>3. i = h => f = e
        BY <1>3, <3>1
      <4> QED
        BY <1>4, <3>2, <4>2, <4>3
    <3>6. ASSUME i \in Applied', i \notin Applied
          PROVE  i = h
      <4>1. Visible(f)' /\ ~ Visible(f)
        BY <3>2, <3>3, <3>6
      <4>2. SameEvent(e, f)
        BY <1>2, <1>4, <4>1, OnlyItsHandler
      <4>3. SameEvent(log[h], log[i]) /\ log[h].action # "end-auction"
        BY <1>3, <1>4, <3>1, <4>2
      <4> QED
        BY <1>2, <4>3, NoEventTwice
    <3> QED
      BY <3>4, <3>5, <3>6
  <2>2. Applied \subseteq Positions /\ Applied' \subseteq Positions
    BY <1>1 DEF Applied
  <2> QED
    BY <2>1, <2>2
<1>8. /\ rows' = [rows EXCEPT ![e.auction] = Feed!Effect(e, rows[e.auction])]
      /\ Versions' = [Versions EXCEPT ![e.auction] = Versions[e.auction] + 1]
  BY <1>2, <1>4, HandlerHasEffect, SaveIsAVersion
<1>9. Feed!Apply(h)
  BY <1>1, <1>3, <1>5, <1>6, <1>7, <1>8, Zenon DEF Feed!Apply, Applied, Versions
<1> QED
  BY <1>9

LEMMA NextIsAFeedStep ==
  PipelineInv /\ PipelineInv' /\ OrderInv /\ [Next]_vars => FeedStep
<1> SUFFICES ASSUME PipelineInv, PipelineInv', OrderInv, [Next]_vars
             PROVE  FeedStep
  OBVIOUS
<1>1. CASE Quiet
  BY <1>1, QuietLoses
<1>2. CASE ChainStep
  BY <1>2, ChainPrints
<1>3. CASE LoopStep /\ HandleMessage
  <2>1. /\ loop = "handling" /\ Handle(log[held])
        /\ UNCHANGED <<log, held, queue, unacked, lost>> /\ loop' = "handled"
    BY <1>3 DEF HandleMessage, LoopStep
  <2>2. DatabaseType /\ log[held] \in Event
    BY <2>1, PublishedPositions DEF PipelineInv, ProcessType, Busy
  <2>3. CASE UNCHANGED <<rows, history>>
    <3>1. Quiet
      BY <2>1, <2>3 DEF Quiet, OrderInv, QueueInOrder, Busy
    <3> QED
      BY <3>1, QuietLoses
  <2>4. CASE Applies(log[held])
    <3>1. \E i \in Feed!Positions : Feed!Apply(i)
      <4>1. Feed!Positions = Positions
        BY DEF Feed!Positions, Positions
      <4> QED
        BY <1>3, <2>4, <4>1, HandlerIsApplied
    <3> QED
      BY <3>1 DEF FeedStep, Feed!FeedNext
  <2> QED
    BY <2>1, <2>2, <2>3, <2>4, HandlerApplies
<1> QED
  BY <1>1, <1>2, <1>3, PublisherIsQuiet, LoopIsQuiet, OthersAreQuiet,
     StutterIsQuiet DEF Next

LEMMA InitIsAFeed == Init => Feed!FeedInit
<1> SUFFICES ASSUME Init PROVE Feed!FeedInit
  OBVIOUS
<1>1. log = <<>> /\ Len(log) = 0 /\ lost = {} /\ Positions = {}
  BY EmptySeq DEF Init, QueueInit, Positions
<1>2. rows = [a \in Auctions |-> Feed!Nothing]
  BY DEF Init, ProjectionInit, Feed!Nothing, NoRow
<1>3. \A a \in Auctions : Len(history[a]) = 0
  BY EmptySeq DEF Init, ProjectionInit
<1>4. /\ [a \in Auctions |-> Len(history[a])] = [a \in Auctions |-> 0]
      /\ {i \in Positions : log[i].action # "end-auction" /\ Visible(log[i])} = {}
  BY <1>1, <1>3
<1> QED
  BY <1>1, <1>2, <1>4 DEF Feed!FeedInit

(* The handlers make a feed that delivers at least once one that delivers  *)
(* exactly once and in order: for any number of repeated deliveries,       *)
(* crashes, closing channels and failing transactions, every event takes   *)
(* effect once, leaves one row in the history, and is overtaken only if    *)
(* the broker lost it.                                                     *)
THEOREM PipelineImplementsFeed == Spec => ImplementsFeed
<1>1. PipelineInv /\ PipelineInv' /\ OrderInv /\ [Next]_vars
        => [Feed!FeedNext]_<<log, rows, [a \in Auctions |-> Len(history[a])],
             {i \in Positions : log[i].action # "end-auction" /\ Visible(log[i])},
             lost>>
  BY NextIsAFeedStep DEF FeedStep, Versions, Applied
<1> QED
  BY <1>1, InitIsAFeed, PipelineInvariant, OrderInvariant, PTL
  DEF Spec, ImplementsFeed, Feed!FeedSpec
=============================================================================
