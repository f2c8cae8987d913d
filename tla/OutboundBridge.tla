----------------------------- MODULE OutboundBridge -----------------------------
(***************************************************************************)
(* edge_ingest/outbound_bridge.py: one process that reads iot.processed    *)
(* and forwards each event to an MQTT broker, an AMQP exchange, or both.   *)
(*                                                                         *)
(* One partition, whose records are 1, 2, ... in the order in which they   *)
(* are produced; iot.processed holds what decodes.  The group has no       *)
(* offset, for commit() raises a TypeError that _commit passes over, and   *)
(* auto.offset.reset is latest: a process that starts begins at the end of *)
(* the topic.  paho takes a message with QoS 1 whether or not its client   *)
(* is connected, and sends it when the loop thread runs.                   *)
(***************************************************************************)
EXTENDS Integers

CONSTANTS
    Forwarders,     \* what is configured: a set of "mqtt" and "amqp"
    BridgeLogEnd,   \* bound: records produced
    MaxBridgeFaults \* bound: failed calls, lost connections and kills

ASSUME OutboundBridgeAssumption ==
    Forwarders \subseteq {"mqtt", "amqp"} /\ {BridgeLogEnd, MaxBridgeFaults} \subseteq Nat

VARIABLES
    events,        \* records in iot.processed
    bridgePc,      \* down, poll, mqtt, amqp or commit
    nextRecord,    \* the consumer's position
    delivered,     \* the local variable of that name
    mqttClient,    \* _mqtt_client: none, deaf (never connected) or live
    mqttQueue,     \* messages the client has not sent yet
    amqp,          \* _amqp_connection: none, open or lost
    mqttBroker,    \* records at the MQTT broker
    amqpBroker,    \* records published to the exchange
    bridgeFaults

bridgeVars == <<events, bridgePc, nextRecord, delivered, mqttClient, mqttQueue, amqp, mqttBroker,
                amqpBroker, bridgeFaults>>

Forwarded == 1..BridgeLogEnd

BridgeTypeOK ==
    /\ events \in 0..BridgeLogEnd
    /\ bridgePc \in {"down", "poll", "mqtt", "amqp", "commit"}
    /\ nextRecord \in 1..(BridgeLogEnd + 1)
    /\ delivered \in BOOLEAN
    /\ mqttClient \in {"none", "deaf", "live"} /\ amqp \in {"none", "open", "lost"}
    /\ mqttQueue \subseteq Forwarded
    /\ mqttBroker \subseteq Forwarded /\ amqpBroker \subseteq Forwarded
    /\ bridgeFaults \in 0..MaxBridgeFaults

BridgeInit ==
    /\ events = 0 /\ nextRecord = 1
    /\ bridgePc = "poll" /\ delivered = TRUE
    /\ mqttClient = "none" /\ amqp = "none"
    /\ mqttQueue = {} /\ mqttBroker = {} /\ amqpBroker = {}
    /\ bridgeFaults = 0

BridgeFault == bridgeFaults < MaxBridgeFaults /\ bridgeFaults' = bridgeFaults + 1

\* Where _handle_message goes on when a forwarder has been dealt with.
AfterMqtt == IF "amqp" \in Forwarders THEN "amqp" ELSE "commit"
-----------------------------------------------------------------------------
ProduceProcessed ==
    /\ events < BridgeLogEnd
    /\ events' = events + 1
    /\ UNCHANGED <<bridgePc, nextRecord, delivered, mqttClient, mqttQueue, amqp, mqttBroker,
                   amqpBroker, bridgeFaults>>

\* poll returns the record at the position, which moves on whatever becomes of the record.
PollRecord ==
    /\ bridgePc = "poll" /\ nextRecord <= events
    /\ nextRecord' = nextRecord + 1
    /\ delivered' = TRUE
    /\ bridgePc' = IF "mqtt" \in Forwarders THEN "mqtt" ELSE AfterMqtt
    /\ UNCHANGED <<events, mqttClient, mqttQueue, amqp, mqttBroker, amqpBroker,
                   bridgeFaults>>

Polled == nextRecord - 1

\* _forward_mqtt with a client, new or old: connect succeeded now, or nothing asks whether it did.
ForwardMqtt ==
    /\ bridgePc = "mqtt"
    /\ mqttClient' = IF mqttClient = "none" THEN "live" ELSE mqttClient
    /\ mqttQueue' = mqttQueue \cup {Polled}
    /\ bridgePc' = AfterMqtt
    /\ UNCHANGED <<events, nextRecord, delivered, amqp, mqttBroker, amqpBroker, bridgeFaults>>

\* connect raises: the client it was called on is kept, and its loop is never started.
MqttConnectFails ==
    /\ bridgePc = "mqtt" /\ mqttClient = "none"
    /\ BridgeFault
    /\ mqttClient' = "deaf"
    /\ delivered' = FALSE
    /\ bridgePc' = AfterMqtt
    /\ UNCHANGED <<events, nextRecord, mqttQueue, amqp, mqttBroker, amqpBroker>>

\* The loop thread sends what the client holds, over as many connections as it takes.
SendMqtt ==
    /\ mqttClient = "live" /\ mqttQueue # {}
    /\ \E r \in mqttQueue : mqttQueue' = mqttQueue \ {r} /\ mqttBroker' = mqttBroker \cup {r}
    /\ UNCHANGED <<events, bridgePc, nextRecord, delivered, amqp, mqttClient, amqpBroker,
                   bridgeFaults>>

\* Mutant of ForwardAmqp: delivered is assigned, where the code takes the conjunction.
ForwardAmqpOverwrites ==
    /\ bridgePc = "amqp" /\ amqp # "lost"
    /\ amqp' = "open"
    /\ IF amqp = "none"
       THEN amqpBroker' = amqpBroker \cup {Polled} /\ delivered' = TRUE
       ELSE delivered' = FALSE /\ UNCHANGED amqpBroker
    /\ bridgePc' = "commit"
    /\ UNCHANGED <<events, nextRecord, mqttClient, mqttQueue, mqttBroker, bridgeFaults>>

\* _forward_amqp: the import that binds the local name pika is made in the call that connects, so
\* that in every later call of an open connection its use raises, inside the try.
ForwardAmqp ==
    /\ bridgePc = "amqp" /\ amqp # "lost"
    /\ amqp' = "open"
    /\ IF amqp = "none"
       THEN amqpBroker' = amqpBroker \cup {Polled} /\ UNCHANGED delivered
       ELSE delivered' = FALSE /\ UNCHANGED amqpBroker
    /\ bridgePc' = "commit"
    /\ UNCHANGED <<events, nextRecord, mqttClient, mqttQueue, mqttBroker, bridgeFaults>>

\* BlockingConnection raises, and is tried again with the next record; or basic_publish does.
AmqpFails ==
    /\ bridgePc = "amqp" /\ amqp # "lost"
    /\ BridgeFault
    /\ amqp' \in {amqp, "open"}
    /\ delivered' = FALSE
    /\ bridgePc' = "commit"
    /\ UNCHANGED <<events, nextRecord, mqttClient, mqttQueue, mqttBroker, amqpBroker>>

AmqpConnectionLost ==
    /\ amqp = "open"
    /\ BridgeFault
    /\ amqp' = "lost"
    /\ UNCHANGED <<events, bridgePc, nextRecord, delivered, mqttClient, mqttQueue, mqttBroker,
                   amqpBroker>>

\* _commit, or nothing: the group's offset is the same either way.
AfterForwarding ==
    /\ bridgePc = "commit"
    /\ bridgePc' = "poll"
    /\ UNCHANGED <<events, nextRecord, delivered, mqttClient, mqttQueue, amqp, mqttBroker,
                   amqpBroker, bridgeFaults>>

\* The process ends: what its MQTT client holds goes with it.
End ==
    /\ bridgePc' = "down"
    /\ mqttClient' = "none" /\ mqttQueue' = {} /\ amqp' = "none"
    /\ UNCHANGED <<events, nextRecord, delivered, mqttBroker, amqpBroker>>

\* channel() raises on a lost connection outside the try: run goes to its finally block and stop.
ChannelRaises == bridgePc = "amqp" /\ amqp = "lost" /\ End /\ UNCHANGED bridgeFaults

\* poll returns an error other than the end of the partition, or the process is killed.
BridgeDies == bridgePc # "down" /\ BridgeFault /\ End

\* _start_consumer of a group without an offset.
StartConsumer ==
    /\ bridgePc = "down"
    /\ bridgePc' = "poll"
    /\ nextRecord' = events + 1
    /\ delivered' = TRUE
    /\ UNCHANGED <<events, mqttClient, mqttQueue, amqp, mqttBroker, amqpBroker,
                   bridgeFaults>>

BridgeNext ==
    \/ ProduceProcessed \/ PollRecord \/ ForwardMqtt \/ MqttConnectFails \/ SendMqtt
    \/ ForwardAmqp \/ AmqpFails \/ AmqpConnectionLost \/ AfterForwarding
    \/ ChannelRaises \/ BridgeDies \/ StartConsumer

BridgeSpec == BridgeInit /\ [][BridgeNext]_bridgeVars
-----------------------------------------------------------------------------
(* _handle_message goes to commit an offset only when each forwarder that is configured has taken
   the event, however the one before it fared: the MQTT client holds it or has sent it, the exchange
   has it ("committed synchronously" "if every configured forwarder reports success",
   outbound_bridge.py:118-119). *)
ForwardedBeforeCommit ==
    bridgePc = "commit" /\ delivered =>
        /\ "mqtt" \in Forwarders => Polled \in mqttQueue \cup mqttBroker
        /\ "amqp" \in Forwarders => Polled \in amqpBroker

(* "If a forward fails the commit is skipped and the message is re-delivered on the next poll"
   (outbound_bridge.py:119-121): what the loop handles after a failed forward is the same event.
   It is not, for poll has moved the position on and nothing seeks back; and a process that is
   started again has no offset to go back to. *)
RedeliveredOnNextPoll ==
    [][bridgePc = "poll" /\ ~delivered /\ bridgePc' \in {"mqtt", "amqp", "commit"}
          => Polled' = Polled]_bridgeVars
=============================================================================
