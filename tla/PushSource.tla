----------------------------- MODULE PushSource -----------------------------
(***************************************************************************)
(* The connectors whose client library pushes messages into a callback and *)
(* acknowledges them itself (src/internal/mq/connector_mqtt.go, and        *)
(* connector_nats.go without a stream): the broker's side of the           *)
(* subscription, the connector's bounded deliveries channel, and the       *)
(* worker that drains it.  Commit and Nack are no-ops, so whatever has     *)
(* left the broker for good and does not reach the worker is lost; the     *)
(* questions are when that happens, whether the rest keeps its order, and  *)
(* what comes twice.                                                       *)
(*                                                                         *)
(* Messages are numbered as they are published, at most MaxMsgs.  QoS 1    *)
(* stands for 2 as well, whose second handshake may spare some copies.     *)
(***************************************************************************)
EXTENDS Integers, FiniteSets, Sequences, SequencesExt

CONSTANTS PushKinds,     \* of "mqtt" and "nats" (core)
          Cap,           \* capacity of the deliveries channel (256 in the code)
          MaxMsgs,       \* bound on the messages published
          MaxMishaps     \* bound on what goes wrong

ASSUME PushAssumption ==
  /\ PushKinds \subseteq {"mqtt", "nats"}
  /\ Cap \in Nat \ {0} /\ MaxMsgs \in Nat /\ MaxMishaps \in Nat

Message == 1 .. MaxMsgs
NoMessage == 0

VARIABLES transport,   \* the connection's type, which never changes
          qos,         \* MQTT's quality of service, 0 by default; never changes
          stableID,    \* MQTT: ClientID is configured; never changes
          published,   \* number of messages published
          subscribed,  \* the broker has a subscription for this client
          session,     \* messages it holds for that subscription
          inflight,    \* messages delivered, whose PUBACK has not arrived
          client,      \* "none" (client is nil), "up", "retrying" or "down"
          deliveries,  \* the connector's channel
          holds,       \* the worker has the connector, from Pool.Get to release
          hand,        \* processOne's message
          taken,       \* messages handed over, in that order
          dropped,     \* callbacks that met a full channel (history)
          again,       \* messages the broker sent again (history)
          attached,    \* first message of the broker's present session (history)
          mishaps

config == <<transport, qos, stableID>>
brokerVars == <<subscribed, session, inflight, again, attached>>
workerVars == <<holds, hand, taken>>
pushVars == <<config, published, brokerVars, client, deliveries, workerVars, dropped, mishaps>>

PushTypeOK ==
  /\ transport \in PushKinds /\ qos \in {0, 1} /\ stableID \in BOOLEAN
  /\ published \in 0 .. MaxMsgs /\ subscribed \in BOOLEAN
  /\ session \in Seq(Message) /\ inflight \in Seq(Message)
  /\ deliveries \in Seq(Message) /\ taken \in Seq(Message)
  /\ Len(deliveries) <= Cap
  /\ client \in {"none", "up", "retrying", "down"}
  /\ holds \in BOOLEAN /\ hand \in Message \cup {NoMessage}
  /\ dropped \in Nat /\ again \subseteq Message
  /\ attached \in 0 .. MaxMsgs + 1 /\ mishaps \in 0 .. MaxMishaps

PushInit ==
  /\ transport \in PushKinds /\ qos \in {0, 1} /\ stableID \in BOOLEAN
  /\ transport = "nats" => qos = 0 /\ stableID = FALSE
  /\ published = 0 /\ subscribed = FALSE /\ session = <<>> /\ inflight = <<>>
  /\ client = "none" /\ deliveries = <<>> /\ holds = FALSE /\ hand = NoMessage
  /\ taken = <<>> /\ dropped = 0 /\ again = {} /\ attached = MaxMsgs + 1 /\ mishaps = 0

Mishap == mishaps < MaxMishaps /\ mishaps' = mishaps + 1

-----------------------------------------------------------------------------
(* The broker *)

(* With CleanSession=false and QoS 1 or 2 a subscription's messages are    *)
(* kept until they are acknowledged, the client there or not; with QoS 0,  *)
(* the default, and on core NATS nothing is.                               *)
Durable == transport = "mqtt" /\ qos > 0
Keeps == subscribed /\ (Durable \/ client = "up")

(* The connection is over.  What it delivered and was not acknowledged     *)
(* will be sent again, first; or the broker forgets the session, and what  *)
(* is published from here on belongs to another.                           *)
SendAgain ==
  /\ session' = inflight \o session /\ inflight' = <<>>
  /\ again' = again \cup ToSet(inflight)
EndSession(kept) ==
  /\ IF kept THEN SendAgain ELSE session' = <<>> /\ inflight' = <<>> /\ again' = again
  /\ attached' = IF kept THEN attached ELSE MaxMsgs + 1

Publish ==
  /\ published < MaxMsgs
  /\ published' = published + 1
  /\ session' = IF Keeps THEN Append(session, published + 1) ELSE session
  /\ attached' = IF attached > MaxMsgs /\ Keeps THEN published + 1 ELSE attached
  /\ UNCHANGED <<config, subscribed, inflight, again, client, deliveries, workerVars,
                 dropped, mishaps>>

(* The connection breaks.  Both clients reconnect by themselves, for ever  *)
(* (AutoReconnect, MaxReconnects(-1)); an MQTT client may be closed for    *)
(* good.                                                                   *)
ClientLost ==
  /\ client = "up" /\ Mishap
  /\ client' \in IF transport = "mqtt" THEN {"retrying", "down"} ELSE {"retrying"}
  /\ EndSession(Durable)
  /\ UNCHANGED <<config, published, subscribed, deliveries, workerVars, dropped>>

(* mutant: only core NATS reconnects by itself *)
AutoReconnectNats ==
  /\ client = "retrying" /\ transport = "nats" /\ client' = "up"
  /\ UNCHANGED <<config, published, brokerVars, deliveries, workerVars, dropped, mishaps>>
AutoReconnect ==
  /\ client = "retrying" /\ client' = "up"
  /\ UNCHANGED <<config, published, brokerVars, deliveries, workerVars, dropped, mishaps>>

-----------------------------------------------------------------------------
(* The connector *)

(* paho calls a client connected while it reconnects, nats.go does not. *)
IsConnected == client = "up" \/ (transport = "mqtt" /\ client = "retrying")

(* processOne asks the pool for the connector, and has it to itself until  *)
(* it returns.  Connected, it is handed out as it is.                      *)
PushGet ==
  /\ ~holds /\ IsConnected /\ holds' = TRUE
  /\ UNCHANGED <<config, published, brokerVars, client, deliveries, hand, taken, dropped,
                 mishaps>>

(* Otherwise Pool.Get dials anew: a new channel, so what the old one held  *)
(* is gone; with a generated client id a new session too.                  *)
PushConnect ==
  /\ ~holds /\ ~IsConnected /\ holds' = TRUE
  /\ client' = "up" /\ subscribed' = TRUE /\ deliveries' = <<>>
  /\ EndSession(Durable /\ stableID)
  /\ UNCHANGED <<config, published, hand, taken, dropped, mishaps>>

(* A failed dial has thrown the old client and channel away; the pool      *)
(* evicts the connector.                                                   *)
PushConnectErr ==
  /\ ~holds /\ ~IsConnected /\ Mishap
  /\ client' = "none" /\ deliveries' = <<>>
  /\ UNCHANGED <<config, published, brokerVars, workerVars, dropped>>

(* The message leaves the session.  The broker waits for its PUBACK, which *)
(* the library sends whatever becomes of the message.                      *)
Send ==
  /\ client = "up" /\ session # <<>>
  /\ session' = Tail(session)
  /\ inflight' = IF Durable THEN Append(inflight, Head(session)) ELSE inflight

(* mutant: messages are served from the newest *)
DeliverNewestFirst ==
  /\ Send /\ Len(deliveries) < Cap
  /\ deliveries' = <<Head(session)>> \o deliveries
  /\ UNCHANGED <<config, published, subscribed, again, attached, client, workerVars, dropped,
                 mishaps>>
(* mutant: a message is dropped one short of a full channel *)
DeliverShort ==
  /\ Send
  /\ deliveries' = IF Len(deliveries) < Cap - 1 THEN Append(deliveries, Head(session))
                   ELSE deliveries
  /\ dropped' = IF Len(deliveries) < Cap THEN dropped ELSE dropped + 1
  /\ UNCHANGED <<config, published, subscribed, again, attached, client, workerVars, mishaps>>
(* The callback: with a full channel the message is dropped. *)
Deliver ==
  /\ Send
  /\ IF Len(deliveries) < Cap
     THEN deliveries' = Append(deliveries, Head(session)) /\ UNCHANGED dropped
     ELSE dropped' = dropped + 1 /\ UNCHANGED deliveries
  /\ UNCHANGED <<config, published, subscribed, again, attached, client, workerVars, mishaps>>

(* The broker gets the PUBACK. *)
PubAck ==
  /\ client = "up" /\ inflight # <<>> /\ inflight' = Tail(inflight)
  /\ UNCHANGED <<config, published, subscribed, session, again, attached, client, deliveries,
                 workerVars, dropped, mishaps>>

(* ReceiveMessage: it waits for the channel alone, which a lost connection *)
(* does not close.                                                         *)
PushReceive ==
  /\ holds /\ hand = NoMessage /\ deliveries # <<>>
  /\ hand' = Head(deliveries) /\ deliveries' = Tail(deliveries)
  /\ UNCHANGED <<config, published, brokerVars, client, holds, taken, dropped, mishaps>>

(* ... or for the context, which a Reload cancels. *)
PushCancel ==
  /\ holds /\ hand = NoMessage /\ Mishap /\ holds' = FALSE
  /\ UNCHANGED <<config, published, brokerVars, client, deliveries, hand, taken, dropped>>

(* processOne hands the message over and commits, or fails and nacks,      *)
(* neither of which tells the broker anything, and releases the connector. *)
PushHandover ==
  /\ hand # NoMessage /\ taken' = Append(taken, hand) /\ hand' = NoMessage /\ holds' = FALSE
  /\ UNCHANGED <<config, published, brokerVars, client, deliveries, dropped, mishaps>>

PushNack ==
  /\ hand # NoMessage /\ Mishap /\ hand' = NoMessage /\ holds' = FALSE
  /\ UNCHANGED <<config, published, brokerVars, client, deliveries, taken, dropped>>

(* Disconnect, by the pool between two messages: unsubscribe, then close.  *)
(* A broker that has lost the subscription may still send what it held     *)
(* for it.                                                                 *)
Disconnect ==
  /\ ~holds /\ client # "none" /\ Mishap
  /\ subscribed' = (subscribed /\ client # "up")
  /\ \/ EndSession(client # "up")
     \/ client = "up" /\ Durable /\ SendAgain /\ attached' = MaxMsgs + 1
  /\ client' = "none" /\ deliveries' = <<>>
  /\ UNCHANGED <<config, published, workerVars, dropped>>

(* The process dies; a restart begins without a client. *)
PushCrash ==
  /\ client # "none" /\ Mishap
  /\ client' = "none" /\ deliveries' = <<>> /\ holds' = FALSE /\ hand' = NoMessage
  /\ EndSession(Durable)
  /\ UNCHANGED <<config, published, subscribed, taken, dropped>>

-----------------------------------------------------------------------------
PushWorker == PushGet \/ PushConnect \/ PushReceive \/ PushHandover

PushNext ==
  \/ PushWorker \/ PushConnectErr \/ Publish \/ ClientLost \/ AutoReconnect \/ Deliver
  \/ PubAck \/ PushCancel \/ PushNack \/ Disconnect \/ PushCrash

PushSpec == PushInit /\ [][PushNext]_pushVars

(* The worker and the client library run while they can. *)
PushFairSpec ==
  PushSpec /\ WF_pushVars(PushWorker) /\ WF_pushVars(Deliver) /\ WF_pushVars(AutoReconnect)

-----------------------------------------------------------------------------
Hand == IF hand = NoMessage THEN <<>> ELSE <<hand>>
Pipeline == taken \o Hand \o deliveries \o session

(* Over reconnects, crashes and drops the worker takes messages in the     *)
(* order of publication and none twice, but for those whose PUBACK a break *)
(* cut off: the broker sends these again, out of turn, "on its own when no *)
(* PUBACK arrives" (connector_mqtt.go:219-220).  At QoS 0 and on core NATS *)
(* there are none.                                                         *)
InOrder ==
  /\ \A i, j \in 1 .. Len(Pipeline) :
       i < j => Pipeline[i] < Pipeline[j] \/ Pipeline[j] \in again
  /\ ~Durable => again = {}

(* What the broker's present session was given and is not on its way has a *)
(* cause: the channel was full, or a fault threw the channel away, with at *)
(* most Cap messages in it, and the one in the worker's hands.  Faults the *)
(* client library repairs by itself lose nothing it holds.  A session is   *)
(* all that is promised: at QoS 0 and on core NATS it ends with the        *)
(* connection.                                                             *)
Missing == {m \in attached .. published : ~Contains(Pipeline, m)}
LossHasCause == Cardinality(Missing) <= dropped + mishaps * (Cap + 1)

(* The worker waits for an empty channel that nobody fills any more; it    *)
(* has the connector, so neither Connect nor the sweeper can help.         *)
Stalled == holds /\ hand = NoMessage /\ deliveries = <<>> /\ client = "down"

(* No message is stuck: once publishing has come to a halt (at MaxMsgs),   *)
(* all that the broker holds for the connector, or the channel, is handed  *)
(* over or lost to a fault or a full channel, unless the client was closed *)
(* for good under a worker that was waiting.                               *)
Arrives == <>[]Stalled \/ []<>(Pipeline = taken)

(* What comments say, and the code does not do *)

(* "CleanSession=false ... makes the broker hold messages between          *)
(* mqConnector restarts": with a stable client id the subscription,        *)
(* once made, outlives whatever the connector does, a clean shutdown       *)
(* included.                                                               *)
SubscriptionStays == [][transport = "mqtt" /\ stableID /\ subscribed => subscribed']_pushVars

(* "A full buffer drops the oldest message": the newest message delivered  *)
(* by the broker is then in the channel or further.                        *)
KeepsNewest ==
  dropped > 0 /\ client = "up" /\ session = <<>> /\ mishaps = 0 =>
    Pipeline # <<>> /\ Last(Pipeline) = published
=============================================================================
