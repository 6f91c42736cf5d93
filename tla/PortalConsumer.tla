---------------------------- MODULE PortalConsumer ----------------------------
(***************************************************************************)
(* rabbitmq.service.ts: the loop by which the portal takes the events off  *)
(* the queue, and the way it starts and stops.                             *)
(*                                                                         *)
(* loop is where the only chain of promises stands:                        *)
(*   off        the process does not run                                   *)
(*   starting   onModuleInit runs                                          *)
(*   polling    a get is in flight                                         *)
(*   handling   processMessageAsync runs on the message held               *)
(*   handled    its transaction is committed, the ack is not sent          *)
(*   failed     it threw, reconnect is to be called                        *)
(*   stalled    the promise of a get that was never sent: it has no        *)
(*              channel to be sent over and never settles                  *)
(*   ended      no promise is left: there was no channel to start with, or *)
(*              the loop was stopped                                       *)
(* A signal to stop is taken once the service has started.                 *)
(*                                                                         *)
(* The field connection is left out: once the first channel is open it is  *)
(* read only to be closed.                                                 *)
(*                                                                         *)
(* An operator named X_Op is a faulty variant of Op, kept beside it.       *)
(***************************************************************************)
EXTENDS AuctionProjection, RabbitQueue

VARIABLES
  loop,
  held,        \* the message being processed, 0 if there is none
  channel,     \* the field channel is not null
  consuming,
  cancelled,   \* the promise of the loop was cancelled: nothing follows it
  stop,        \* how far onApplicationShutdown has come
  awaited      \* it waits for the promise that was active when it began

session == <<channel, consuming, cancelled>>
stopping == <<stop, awaited>>
process == <<loop, held, session, stopping>>
database == <<rows, history>>

LoopStates == {"off", "starting", "polling", "handling", "handled", "failed",
               "stalled", "ended"}
StopStates == {"no", "waiting", "stopped", "closed"}

Off ==
  /\ loop' = "off" /\ held' = 0
  /\ channel' = FALSE /\ consuming' = FALSE /\ cancelled' = FALSE
  /\ stop' = "no" /\ awaited' = FALSE

ConsumerInit ==
  /\ loop = "off" /\ held = 0
  /\ channel = FALSE /\ consuming = FALSE /\ cancelled = FALSE
  /\ stop = "no" /\ awaited = FALSE

-----------------------------------------------------------------------------
(* Starting *)

Start ==
  /\ loop = "off"
  /\ loop' = "starting"
  /\ UNCHANGED <<held, session, stopping>>

(* retryConnect and startListening. *)
StartListening ==
  /\ loop = "starting"
  /\ channel' = TRUE /\ consuming' = TRUE
  /\ loop' = "polling"
  /\ UNCHANGED <<held, cancelled, stopping>>

(* Five attempts to connect fail, or the one to open a channel does:       *)
(* startListening returns and is not called again.                         *)
StartWithoutChannel ==
  /\ loop = "starting"
  /\ loop' = "ended"
  /\ UNCHANGED <<held, channel, consuming, cancelled, stopping>>

-----------------------------------------------------------------------------
(* The loop *)

(* The promise of a turn settles, and consumeNextMessage is called.  Only  *)
(* the promises of the moment are waited for when the service stops.       *)
NextTurn(open) ==
  /\ held' = 0
  /\ awaited' = FALSE
  /\ loop' = IF cancelled \/ ~ consuming THEN "ended"
             ELSE IF open THEN "polling" ELSE "stalled"
  /\ UNCHANGED <<consuming, cancelled, stop>>

(* The get returns a message. *)
GetMessage ==
  /\ loop = "polling" /\ channel
  /\ Get
  /\ held' = Head(queue)
  /\ loop' = "handling"
  /\ UNCHANGED <<session, stopping, database>>

(* The get returns false: the queue was empty. *)
GetNothing ==
  /\ loop = "polling" /\ channel /\ queue = <<>>
  /\ NextTurn(channel)
  /\ UNCHANGED <<queue, unacked, lost, channel, database>>

(* The channel closed while the get was in flight: it is rejected, and so  *)
(* is, or is resolved with nothing, the promise of the turn.               *)
GetFails ==
  /\ loop = "polling" /\ ~ channel
  /\ NextTurn(channel)
  /\ UNCHANGED <<queue, unacked, lost, channel, database>>

(* The handler runs and its transaction commits. *)
HandleMessage ==
  /\ loop = "handling"
  /\ Handle(log[held])
  /\ loop' = "handled"
  /\ UNCHANGED <<held, session, stopping, queue, unacked, lost>>

Fails ==
  /\ loop = "handling"
  /\ loop' = "failed"
  /\ UNCHANGED <<held, session, stopping, queue, unacked, lost, database>>

HandlerThrows == Fails /\ Throws(log[held])

(* Any statement of the transaction can fail: nothing of it is committed.  *)
DatabaseFails == Fails

(* processMessage after success: without a channel nothing is sent.        *)
AckMessage ==
  /\ loop = "handled"
  /\ IF channel THEN Ack ELSE UNCHANGED <<queue, unacked, lost>>
  /\ NextTurn(channel)
  /\ UNCHANGED <<channel, database>>

(* processMessage after a failure: reconnect closes the channel, by which  *)
(* the message goes back to the queue, and connects again, which may fail. *)
(* It opens no channel, so that there is none to send the nack over.       *)
Reconnect ==
  /\ loop = "failed"
  /\ Requeue
  /\ channel' = FALSE
  /\ NextTurn(FALSE)
  /\ UNCHANGED database

-----------------------------------------------------------------------------
(* Stopping: onApplicationShutdown *)

HasPromise == loop \in {"polling", "handling", "handled", "failed", "stalled"}

RequestStop ==
  /\ loop \notin {"off", "starting"} /\ stop = "no"
  /\ stop' = "waiting"
  /\ consuming' = TRUE
  /\ awaited' = (HasPromise /\ ~ cancelled)
  /\ UNCHANGED <<loop, held, channel, cancelled>>

Never_PromiseTimesOut == FALSE /\ UNCHANGED process

(* The promise waited for has not settled in five seconds. *)
PromiseTimesOut ==
  /\ stop = "waiting" /\ awaited
  /\ cancelled' = TRUE
  /\ awaited' = FALSE
  /\ UNCHANGED <<loop, held, channel, consuming, stop>>

StopListening ==
  /\ stop = "waiting" /\ ~ awaited
  /\ stop' = "stopped"
  /\ consuming' = (consuming /\ ~ channel)
  /\ UNCHANGED <<loop, held, channel, cancelled, awaited>>

CloseConnection ==
  /\ stop = "stopped"
  /\ stop' = "closed"
  /\ Requeue
  /\ channel' = FALSE
  /\ UNCHANGED <<loop, held, consuming, cancelled, awaited, database>>

(* The process ends when the hooks have run, whatever the loop is at. *)
Exit == stop = "closed" /\ Off

-----------------------------------------------------------------------------
(* What the loop is exposed to *)

(* The process is killed: the transaction it was in is rolled back.        *)
Crash ==
  /\ loop # "off"
  /\ Off
  /\ Requeue

Reopened_ConnectionDrops ==
  /\ channel
  /\ UNCHANGED channel
  /\ Requeue

(* The connection, or the channel, is closed from outside.                 *)
ConnectionDrops ==
  /\ channel
  /\ channel' = FALSE
  /\ Requeue

(* So they do when the broker restarts, and the queue is gone.             *)
BrokerRestarts ==
  /\ InBroker # {}
  /\ channel' = FALSE
  /\ LoseAll
=============================================================================
