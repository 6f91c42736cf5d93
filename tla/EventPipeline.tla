---------------------------- MODULE EventPipeline ----------------------------
(***************************************************************************)
(* The way of an auction's events from the chain to the portal's tables:   *)
(* the chainhook service publishes them to the queue, the portal's loop    *)
(* takes them off it and hands them to the handlers.                       *)
(*                                                                         *)
(* The programs take their steps in any order, and any of them may stop.   *)
(***************************************************************************)
EXTENDS ChainhookPublisher, PortalConsumer

CONSTANT MaxFaults   \* bound: how often something fails or is stopped

ASSUME PipelineAssumption == MaxFaults \in Nat

VARIABLE faults   \* how often something failed or was stopped

queueVars == <<queue, unacked, lost>>
vars == <<log, publisherVars, queueVars, process, database, faults>>

Init ==
  /\ log = <<>>
  /\ PublisherInit
  /\ QueueInit
  /\ ConsumerInit
  /\ ProjectionInit
  /\ faults = 0

PublisherStep ==
  /\ \/ PublishEvent
     \/ (Deliver \/ Answer) /\ UNCHANGED queueVars
  /\ UNCHANGED <<log, process, database, faults>>

(* A turn of the loop. *)
LoopStep ==
  /\ \/ GetMessage \/ GetNothing \/ GetFails
     \/ HandleMessage \/ HandlerThrows
     \/ AckMessage \/ Reconnect
  /\ UNCHANGED <<log, publisherVars, faults>>

StartStep ==
  /\ StartListening
  /\ UNCHANGED <<log, publisherVars, queueVars, database, faults>>

StopStep ==
  /\ \/ (PromiseTimesOut \/ StopListening \/ Exit) /\ UNCHANGED <<queueVars, database>>
     \/ CloseConnection
  /\ UNCHANGED <<log, publisherVars, faults>>

(* Whoever runs the portal starts and stops it. *)
OperatorStep ==
  /\ \/ Start /\ UNCHANGED faults
     \/ RequestStop /\ faults < MaxFaults /\ faults' = faults + 1
  /\ UNCHANGED <<log, publisherVars, queueVars, database>>

ChainStep ==
  /\ PrintEvent
  /\ UNCHANGED <<publisherVars, queueVars, process, database, faults>>

Fault ==
  /\ faults < MaxFaults /\ faults' = faults + 1
  /\ \/ DeliveryFails /\ UNCHANGED <<queueVars, process, database>>
     \/ StartWithoutChannel /\ UNCHANGED <<publisherVars, queueVars, database>>
     \/ DatabaseFails /\ UNCHANGED publisherVars
     \/ Crash /\ UNCHANGED <<publisherVars, database>>
     \/ /\ ConnectionDrops \/ BrokerRestarts
        /\ UNCHANGED <<publisherVars, loop, held, consuming, cancelled, stopping,
                       database>>
  /\ UNCHANGED log

Next ==
  \/ ChainStep \/ PublisherStep
  \/ LoopStep \/ StartStep \/ StopStep
  \/ OperatorStep \/ Fault

Spec == Init /\ [][Next]_vars

(* The programs run: the event loop of each process takes its next step,   *)
(* the node repeats its deliveries, timers fire.  Nothing makes anybody    *)
(* use the marketplace or start and stop the portal.                       *)
Fairness ==
  /\ WF_vars(PublisherStep)
  /\ WF_vars(StartStep)
  /\ WF_vars(LoopStep)
  /\ WF_vars(StopStep)

FairSpec == Spec /\ Fairness

-----------------------------------------------------------------------------
(* A message is the position of an event that was printed, the publisher   *)
(* works within the log, a turn of the loop holds a message exactly from   *)
(* its get to its settlement, and every row shows one of its own bids.     *)
TypeOK ==
  /\ log \in Seq(Event) /\ Len(log) <= MaxEvents
  /\ answered \in 0 .. Len(log) /\ upTo \in 0 .. Len(log)
  /\ next \in 1 .. (IF upTo = 0 THEN answered ELSE upTo) + 1
  /\ queue \in Seq(Positions) /\ lost \subseteq Positions
  /\ unacked \in 0 .. Len(log)
  /\ loop \in LoopStates /\ stop \in StopStates
  /\ IF loop \in {"handling", "handled", "failed"} THEN held \in Positions
                                                  ELSE held = 0
  /\ {channel, consuming, cancelled, awaited} \subseteq BOOLEAN
  /\ rows \in [Auctions -> Row \cup {NoRow}]
  /\ \A a \in Auctions : Exists(a) => history[a] # <<>>
  /\ faults \in 0 .. MaxFaults
=============================================================================
