----------------------------- MODULE AckSource -----------------------------
(***************************************************************************)
(* The connectors whose brokers acknowledge message by message, as sources *)
(* (src/internal/mq/connector_rabbitmq.go, connector_nats.go with a        *)
(* stream, connector_amqp10.go, connector_ibm_on.go): the queue, one       *)
(* connector, and the worker that drives it through processOne -           *)
(* Pool.Get, ReceiveMessage, hand the message over, Commit or Nack.        *)
(*                                                                         *)
(* The connectors differ in what Connect and Ping notice of a connection   *)
(* that went away under them, in who holds deliveries in between (the      *)
(* client library's prefetch, the broker, a unit of work), and in what an  *)
(* idle ReceiveMessage returns; `kind' says which one a behaviour is       *)
(* about.                                                                  *)
(*                                                                         *)
(* A queue is a set: the order of deliveries does not matter here.         *)
(* `faults' counts lost connections, failed dials, crashes, expired acks,  *)
(* settlements cut short and messages that could not be handed over, at    *)
(* most MaxFaults.                                                         *)
(***************************************************************************)
EXTENDS Integers, FiniteSets

CONSTANTS Kinds,         \* of "rabbitmq", "jetstream", "amqp10" and "ibm"
          Msgs,
          NoMsg,         \* nil
          Blank,         \* the empty message of an idle JetStream fetch
          Prefetch,      \* Qos / Credit (16 in the code)
          MaxFaults

ASSUME AckAssumption ==
  /\ Kinds \subseteq {"rabbitmq", "jetstream", "amqp10", "ibm"}
  /\ IsFiniteSet(Msgs) /\ NoMsg \notin Msgs /\ Blank \notin Msgs /\ NoMsg # Blank
  /\ Prefetch \in Nat \ {0} /\ MaxFaults \in Nat

VARIABLES kind,      \* the connection's type, which never changes
          ready,     \* broker: messages to deliver
          unacked,   \* broker: delivered on the connection and not settled
          link,      \* the connection: "none" when the handles are nil, "up",
                     \* "lost", or "half": open, but its channel is closed
          consumer,  \* RabbitMQ: consumeOnce has run
          buffer,    \* deliveries waiting in the client library
          pending,   \* the connector's pending delivery
          cur,       \* processOne's message
          work,      \* where the worker is
          copies,    \* copies[m]: times m was handed over
          blanks,    \* an empty message was handed over
          cut,       \* messages whose settlement was cut short (history)
          faults

broker == <<ready, unacked>>
handles == <<link, consumer, buffer>>
outcome == <<copies, blanks, cut>>
vars == <<kind, broker, handles, pending, cur, work, outcome, faults>>

TypeOK ==
  /\ kind \in Kinds
  /\ ready \subseteq Msgs /\ unacked \subseteq Msgs /\ ready \cap unacked = {}
  /\ link \in {"none", "up", "lost", "half"} /\ consumer \in BOOLEAN
  /\ buffer \subseteq Msgs /\ Cardinality(unacked) <= Prefetch
  /\ pending \in Msgs \cup {NoMsg} /\ cur \in Msgs \cup {NoMsg, Blank}
  /\ work \in {"idle", "receive", "handover", "commit", "nack"}
  /\ copies \in [Msgs -> Nat] /\ blanks \in BOOLEAN /\ cut \subseteq Msgs
  /\ faults \in 0 .. MaxFaults

Init ==
  /\ kind \in Kinds
  /\ ready = Msgs /\ unacked = {}
  /\ link = "none" /\ consumer = FALSE /\ buffer = {}
  /\ pending = NoMsg /\ cur = NoMsg /\ work = "idle"
  /\ copies = [m \in Msgs |-> 0] /\ blanks = FALSE /\ cut = {}
  /\ faults = 0

(* the broker pushes to this connector's client library *)
Consuming == kind = "amqp10" \/ (kind = "rabbitmq" /\ consumer)

Fault == faults < MaxFaults /\ faults' = faults + 1
Goto(label) == work' = label
Requeue == ready' = ready \cup unacked /\ unacked' = {}

-----------------------------------------------------------------------------
(* Connect: which connections it dials anew.  Everything else it takes for *)
(* connected.                                                              *)

(* mutant: a connection that is set is taken for alive *)
RedialsNever == link = "none"
RabbitRedials == link \in {"none", "lost"}        \* conn.IsClosed()
NATSRedials == link \in {"none", "lost"}          \* !nc.IsConnected()
AMQP10Redials == link = "none"                    \* conn == nil
IBMRedials == link = "none"                       \* mgr == nil

Redials ==
  \/ kind = "rabbitmq" /\ RabbitRedials
  \/ kind = "jetstream" /\ NATSRedials
  \/ kind = "amqp10" /\ AMQP10Redials
  \/ kind = "ibm" /\ IBMRedials

(* A dial.  Only RabbitMQ's Connect clears the pending delivery, the       *)
(* others leave it to be overwritten.                                      *)
Connect ==
  /\ work = "idle" /\ Redials
  /\ link' = "up" /\ consumer' = FALSE /\ buffer' = {}
  /\ pending' = IF kind = "rabbitmq" THEN NoMsg ELSE pending
  /\ Goto("receive")
  /\ UNCHANGED <<kind, broker, cur, outcome, faults>>

(* It fails: the pool drops the entry, the next Get makes a new connector *)
ConnectErr ==
  /\ work = "idle" /\ Redials /\ Fault
  /\ link' = "none" /\ consumer' = FALSE /\ buffer' = {} /\ pending' = NoMsg
  /\ UNCHANGED <<kind, broker, cur, work, outcome>>

Reuse ==
  /\ work = "idle" /\ ~Redials
  /\ Goto("receive")
  /\ UNCHANGED <<kind, broker, handles, pending, cur, outcome, faults>>

(* What Ping takes for dead, so that the sweeper evicts the connector *)
PingFails == kind \in {"rabbitmq", "jetstream"} /\ link = "lost"

(* The pool's sweeper, between two uses by the worker: Disconnect *)
Evict ==
  /\ work = "idle" /\ PingFails
  /\ link' = "none" /\ consumer' = FALSE /\ buffer' = {} /\ pending' = NoMsg
  /\ UNCHANGED <<kind, broker, cur, work, outcome, faults>>

-----------------------------------------------------------------------------
(* The broker *)

(* The connection goes away; the broker takes its deliveries back.  What   *)
(* the client library holds may still be returned by ReceiveMessage.       *)
LinkLost ==
  /\ link \in {"up", "half"} /\ Fault
  /\ link' = "lost" /\ Requeue
  /\ buffer' \in {buffer, {}}
  /\ UNCHANGED <<kind, consumer, pending, cur, work, outcome>>

(* The broker closes the channel and keeps the connection: a consumer that *)
(* took longer than its acknowledgement timeout, a queue that is gone.     *)
ChannelClosed ==
  /\ kind = "rabbitmq" /\ link = "up" /\ Fault
  /\ link' = "half" /\ Requeue /\ buffer' = {}
  /\ UNCHANGED <<kind, consumer, pending, cur, work, outcome>>

(* The NATS client reconnects by itself (MaxReconnects(-1)). *)
Reconnects ==
  /\ kind = "jetstream" /\ link = "lost"
  /\ link' = "up"
  /\ UNCHANGED <<kind, broker, consumer, buffer, pending, cur, work, outcome, faults>>

(* A message is pushed to a consumer with room in its window *)
Push(m) ==
  /\ m \in ready /\ link = "up" /\ Cardinality(unacked) < Prefetch
  /\ Consuming
  /\ ready' = ready \ {m} /\ unacked' = unacked \cup {m}
  /\ buffer' = buffer \cup {m}
  /\ UNCHANGED <<kind, link, consumer, pending, cur, work, outcome, faults>>

(* JetStream: AckWait is over, the message will be delivered again *)
AckWaitExpires(m) ==
  /\ kind = "jetstream" /\ m \in unacked /\ Fault
  /\ ready' = ready \cup {m} /\ unacked' = unacked \ {m}
  /\ UNCHANGED <<kind, handles, pending, cur, work, outcome>>

-----------------------------------------------------------------------------
(* The worker *)

(* RabbitMQ: the first ReceiveMessage on a channel starts the consumer *)
Consume ==
  /\ kind = "rabbitmq" /\ work = "receive" /\ link = "up" /\ ~consumer
  /\ consumer' = TRUE
  /\ UNCHANGED <<kind, broker, link, buffer, pending, cur, work, outcome, faults>>

Take(m) == pending' = m /\ cur' = m /\ Goto("handover")

(* ReceiveMessage of the pushed: the next delivery of the library *)
Receive(m) ==
  /\ work = "receive" /\ m \in buffer
  /\ Consuming
  /\ buffer' = buffer \ {m} /\ Take(m)
  /\ UNCHANGED <<kind, broker, link, consumer, outcome, faults>>

(* mutant: the message is settled when it is fetched (MQGMO_NO_SYNCPOINT) *)
FetchAutoAck(m) ==
  /\ work = "receive" /\ m \in ready /\ link = "up"
  /\ kind \in {"jetstream", "ibm"}
  /\ ready' = ready \ {m} /\ UNCHANGED unacked
  /\ Take(m)
  /\ UNCHANGED <<kind, handles, outcome, faults>>
(* ReceiveMessage of the pulled: JetStream's Fetch(1), MQGET in syncpoint. *)
(* IBM has no pending slot: its unit of work is all that is unacked.       *)
Fetch(m) ==
  /\ work = "receive" /\ m \in ready /\ link = "up"
  /\ kind \in {"jetstream", "ibm"}
  /\ ready' = ready \ {m} /\ unacked' = unacked \cup {m}
  /\ Take(m)
  /\ UNCHANGED <<kind, handles, outcome, faults>>

(* Nothing arrives within the fetch's own timeout: ReceiveMessage returns  *)
(* ctx.Err() of a context that is not done - a nil message and no error.   *)
FetchTimeout ==
  /\ kind = "jetstream" /\ work = "receive" /\ link = "up" /\ ready = {}
  /\ cur' = Blank /\ Goto("handover")
  /\ UNCHANGED <<kind, broker, handles, pending, outcome, faults>>

(* The connection is gone and nothing is left in the library: an error,    *)
(* on which runWorker backs off and begins again                           *)
ReceiveErr ==
  /\ work = "receive" /\ link # "up" /\ buffer = {}
  /\ Goto("idle")
  /\ UNCHANGED <<kind, broker, handles, pending, cur, outcome, faults>>

Handover ==
  /\ work = "handover"
  /\ \/ /\ cur # Blank /\ copies' = [copies EXCEPT ![cur] = @ + 1]
        /\ UNCHANGED blanks
     \/ cur = Blank /\ blanks' = TRUE /\ UNCHANGED copies
  /\ Goto("commit")
  /\ UNCHANGED <<kind, broker, handles, pending, cur, cut, faults>>

Refused ==
  /\ work = "handover" /\ Fault
  /\ Goto("nack")
  /\ UNCHANGED <<kind, broker, handles, pending, cur, outcome>>

(* The message a Commit or Nack settles: the pending one while it is       *)
(* unsettled on this connection, IBM's whole unit of work                  *)
Settled ==
  IF kind = "ibm" THEN IF link = "up" THEN unacked ELSE {}
  ELSE {pending} \cap unacked

(* the worker's context is over: AcceptMessage and ReleaseMessage give up  *)
(* at once, the other brokers' calls take no context                       *)
Cancelled ==
  kind = "amqp10" /\ Fault /\ cut' = cut \cup {pending} /\ UNCHANGED broker

Return == pending' = NoMsg /\ cur' = NoMsg /\ Goto("idle")

(* mutant: the pending slot is cleared, nothing is sent *)
CommitForgetsAck ==
  /\ work = "commit"
  /\ UNCHANGED <<kind, broker, faults>>
  /\ Return
  /\ UNCHANGED <<kind, handles, outcome>>
(* Commit: Ack, AcceptMessage, MQCMIT.  On a lost connection it fails and  *)
(* the error is only logged.  JetStream takes an ack for a message whose   *)
(* AckWait is over, if it still waits for its redelivery.                  *)
Commit ==
  /\ work = "commit"
  /\ \/ unacked' = unacked \ Settled /\ UNCHANGED <<ready, cut, faults>>
     \/ /\ kind = "jetstream" /\ pending \in ready /\ link = "up"
        /\ ready' = ready \ {pending} /\ UNCHANGED <<unacked, cut, faults>>
     \/ Cancelled
  /\ Return
  /\ UNCHANGED <<kind, handles, copies, blanks>>

(* Nack with requeue: Nack, Nak, ReleaseMessage, MQBACK *)
Nack ==
  /\ work = "nack"
  /\ \/ /\ unacked' = unacked \ Settled /\ ready' = ready \cup Settled
        /\ UNCHANGED <<cut, faults>>
     \/ Cancelled
  /\ Return
  /\ UNCHANGED <<kind, handles, copies, blanks>>

(* The process dies and starts again; the broker notices. *)
Crash ==
  /\ link # "none" /\ Fault /\ Requeue
  /\ link' = "none" /\ consumer' = FALSE /\ buffer' = {}
  /\ Return
  /\ UNCHANGED <<kind, outcome>>

-----------------------------------------------------------------------------
BrokerPushes == \E m \in Msgs : Push(m)
Worker ==
  \/ Connect \/ Reuse \/ Consume \/ ReceiveErr \/ Handover \/ Commit \/ Nack
  \/ \E m \in Msgs : Receive(m) \/ Fetch(m)

Next ==
  \/ Worker \/ BrokerPushes
  \/ ConnectErr \/ Evict \/ Reconnects \/ LinkLost \/ ChannelClosed \/ FetchTimeout
  \/ Refused \/ Crash
  \/ \E m \in Msgs : AckWaitExpires(m)

Spec == Init /\ [][Next]_vars

(* The worker runs while it can and the broker delivers while it may.      *)
FairSpec == Spec /\ WF_vars(Worker) /\ WF_vars(BrokerPushes)

-----------------------------------------------------------------------------
(* The connector keeps the executor's contract with the source: the broker *)
(* forgets only what was handed over (comment of Connector.Commit).        *)
Contract == INSTANCE Handoff WITH pending <- ready \cup unacked,
                                  owned <- {m \in Msgs : copies[m] > 0}
KeepsContract == Contract!HandoffSpec

(* What the broker regards as delivered is in the library's buffer or in   *)
(* the worker's hands, unless its settlement was cut short.  A delivery    *)
(* that is in neither will not be delivered again while the connection     *)
(* lasts, and takes a place of the prefetch window for ever (Commit and    *)
(* Nack clear the pending slot before they settle it).                     *)
NoneStranded == unacked \subseteq buffer \cup {pending} \cup cut

(* Connectors heal themselves: once faults end, every message is handed    *)
(* over - except that the code never notices some broken connections, and  *)
(* that a settlement cut short leaves the prefetch window smaller.         *)
Unnoticed ==
  (kind \in {"amqp10", "ibm"} /\ link = "lost") \/ (kind = "rabbitmq" /\ link = "half")
Recovers == \A m \in Msgs : <>(copies[m] > 0 \/ Unnoticed \/ cut # {})

(* What comments say, and the code does not do *)

(* Nothing is handed over that the broker did not deliver (ReceiveMessage  *)
(* "blocks until a message is available, ctx is cancelled, or an error     *)
(* occurs").                                                               *)
NoBlanks == ~blanks

(* Connect heals a connection the broker dropped, for every kind. *)
SelfHeals == \A m \in Msgs : <>(copies[m] > 0)
=============================================================================
