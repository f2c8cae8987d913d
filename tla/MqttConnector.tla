------------------------------ MODULE MqttConnector ------------------------------
(***************************************************************************)
(* One MQTT source of the edge (edge_ingest/connectors/mqtt.py): paho's    *)
(* network thread puts each message into a bounded asyncio.Queue, and a    *)
(* task of the event loop, the drainer, publishes them in an executor.     *)
(* asyncio.Queue is made for one thread: get looks whether the queue is    *)
(* empty and then registers to be woken, and a put of the other thread may *)
(* come in between.                                                        *)
(*                                                                         *)
(* Messages are numbered as they arrive; paho acknowledges one when        *)
(* on_message has returned.  Payload is what each carries: a JSON object,  *)
(* a JSON value of another kind, or what does not decode.                  *)
(***************************************************************************)
EXTENDS Naturals, Sequences

CONSTANTS
    Payload,       \* a sequence of "object", "value" and "undecodable"
    QueueSize,     \* EDGE_MQTT_QUEUE_SIZE
    MaxMqttFaults  \* bound: failed connects and publications that raise

ASSUME MqttConnectorAssumption ==
    /\ Payload \in Seq({"object", "value", "undecodable"})
    /\ QueueSize \in Nat \ {0, 1} /\ MaxMqttFaults \in Nat

VARIABLES
    connector,   \* run_mqtt: connecting, running, putting, joining, ended
    network,     \* paho's thread: off, on, dead
    received,    \* messages on_message was called with
    queue,       \* the queue; 0 is the None that ends the drainer
    drainer,     \* look, empty, waiting, publishing, failed, done, dead, cancelled
    item,        \* the message it holds, or 0
    published,   \* messages published as events, in order
    deadLetters, \* messages published as bad records
    mqttFaults

mqttVars == <<connector, network, received, queue, drainer, item, published, deadLetters, mqttFaults>>

Arriving == 1..Len(Payload)

MqttTypeOK ==
    /\ connector \in {"connecting", "running", "putting", "joining", "ended"}
    /\ network \in {"off", "on", "dead"}
    /\ received \in 0..Len(Payload) /\ item \in 0..received
    /\ queue \in Seq(0..received) /\ Len(queue) <= QueueSize
    /\ drainer \in {"look", "empty", "waiting", "publishing", "failed", "done", "dead", "cancelled"}
    /\ published \in Seq(1..received) /\ deadLetters \subseteq 1..received
    /\ mqttFaults \in 0..MaxMqttFaults

MqttInit ==
    /\ connector = "connecting" /\ network = "off"
    /\ received = 0 /\ queue = <<>>
    /\ drainer = "look" /\ item = 0
    /\ published = <<>> /\ deadLetters = {}
    /\ mqttFaults = 0

MqttFault == mqttFaults < MaxMqttFaults /\ mqttFaults' = mqttFaults + 1

Entries(q) == {q[i] : i \in DOMAIN q}
-----------------------------------------------------------------------------
(* The connector and the network thread. *)

Connect ==
    /\ connector = "connecting"
    /\ connector' = "running" /\ network' = "on"
    /\ UNCHANGED <<received, queue, drainer, item, published, deadLetters, mqttFaults>>

\* Mutant of Put: the queue has no bound.
PutUnbounded(x) ==
    /\ queue' = Append(queue, x)
    /\ drainer' = IF drainer = "waiting" THEN "look" ELSE drainer

\* Queue.put_nowait, which wakes the drainer if it has registered.
Put(x) ==
    /\ Len(queue) < QueueSize
    /\ queue' = Append(queue, x)
    /\ drainer' = IF drainer = "waiting" THEN "look" ELSE drainer

Arrive == network = "on" /\ received < Len(Payload) /\ received' = received + 1

\* on_message of an object: map_event_with_status and enqueue_mqtt_message.
Enqueue ==
    /\ Arrive /\ Payload[received'] = "object"
    /\ Put(received')
    /\ UNCHANGED <<connector, network, item, published, deadLetters, mqttFaults>>

\* Mutant of DeadLetter: a full queue drops the message.
DeadLetterUndecodable ==
    /\ Arrive
    /\ IF Payload[received'] = "undecodable"
       THEN deadLetters' = deadLetters \cup {received'}
       ELSE Payload[received'] = "object" /\ Len(queue) = QueueSize /\ UNCHANGED deadLetters
    /\ UNCHANGED <<connector, network, queue, drainer, item, published, mqttFaults>>

\* on_message of what does not decode, and enqueue_mqtt_message into a full queue.
DeadLetter ==
    /\ Arrive
    /\ \/ Payload[received'] = "undecodable"
       \/ Payload[received'] = "object" /\ Len(queue) = QueueSize
    /\ deadLetters' = deadLetters \cup {received'}
    /\ UNCHANGED <<connector, network, queue, drainer, item, published, mqttFaults>>

\* An exception in on_message ends paho's thread, with the message not acknowledged: dict() of a
\* value that is no object raises, and so may the publication of a bad record.
OnMessageRaises ==
    /\ Arrive
    /\ \/ Payload[received'] = "value" /\ UNCHANGED mqttFaults
       \/ /\ Payload[received'] = "undecodable" \/ (Payload[received'] = "object" /\ Len(queue) = QueueSize)
          /\ MqttFault
    /\ network' = "dead"
    /\ UNCHANGED <<connector, queue, drainer, item, published, deadLetters>>

\* stop_event is set or the task cancelled: loop_stop joins the network thread.
StopConnector ==
    /\ connector \in {"connecting", "running"}
    /\ connector' = "putting" /\ network' = "off"
    /\ UNCHANGED <<received, queue, drainer, item, published, deadLetters, mqttFaults>>

PutNone ==
    /\ connector = "putting"
    /\ Put(0)
    /\ connector' = "joining"
    /\ UNCHANGED <<network, received, item, published, deadLetters, mqttFaults>>

JoinDrainer ==
    /\ connector = "joining" /\ drainer \in {"done", "dead"}
    /\ connector' = "ended"
    /\ UNCHANGED <<network, received, queue, drainer, item, published, deadLetters, mqttFaults>>

\* The drainer is cancelled; the call in the executor goes on without it.
CancelDrainer ==
    /\ drainer' = IF drainer \in {"done", "dead"} THEN drainer ELSE "cancelled"
    /\ IF drainer = "publishing"
       THEN published' = Append(published, item) /\ item' = 0
       ELSE UNCHANGED <<published, item>>

\* wait_for gives up after ten seconds, or its task is cancelled: on SIGTERM main cancels every
\* connector right after the event is set (main.py:86).
GiveUpDrainer ==
    /\ connector = "joining"
    /\ CancelDrainer
    /\ connector' = "ended"
    /\ UNCHANGED <<network, received, queue, deadLetters, mqttFaults>>

\* A second cancellation while put waits for a place: the drainer goes on until the loop ends.
CancelledAgain ==
    /\ connector = "putting"
    /\ connector' = "ended"
    /\ UNCHANGED <<network, received, queue, drainer, item, published, deadLetters, mqttFaults>>

LoopEnds ==
    /\ connector = "ended" /\ drainer \notin {"done", "dead", "cancelled"}
    /\ CancelDrainer
    /\ UNCHANGED <<connector, network, received, queue, deadLetters, mqttFaults>>
-----------------------------------------------------------------------------
(* The drainer. *)

LookEmpty ==
    /\ drainer = "look" /\ queue = <<>>
    /\ drainer' = "empty"
    /\ UNCHANGED <<connector, network, received, queue, item, published, deadLetters, mqttFaults>>

\* The getter is registered, whatever has been put since.
RegisterGetter ==
    /\ drainer = "empty"
    /\ drainer' = "waiting"
    /\ UNCHANGED <<connector, network, received, queue, item, published, deadLetters, mqttFaults>>

Get ==
    /\ drainer = "look" /\ queue # <<>>
    /\ queue' = Tail(queue) /\ item' = Head(queue)
    /\ drainer' = IF Head(queue) = 0 THEN "done" ELSE "publishing"
    /\ UNCHANGED <<connector, network, received, published, deadLetters, mqttFaults>>

\* Mutant of PublishItem: it waits for the next put without another look.
PublishItemAndWait ==
    /\ drainer = "publishing"
    /\ published' = Append(published, item) /\ item' = 0
    /\ drainer' = "waiting"
    /\ UNCHANGED <<connector, network, received, queue, deadLetters, mqttFaults>>

PublishItem ==
    /\ drainer = "publishing"
    /\ published' = Append(published, item) /\ item' = 0
    /\ drainer' = "look"
    /\ UNCHANGED <<connector, network, received, queue, deadLetters, mqttFaults>>

\* publish_event raises, before or after it has buffered the event.
PublishItemRaises ==
    /\ drainer = "publishing" /\ MqttFault
    /\ published' \in {published, Append(published, item)}
    /\ drainer' = "failed"
    /\ UNCHANGED <<connector, network, received, queue, item, deadLetters>>

\* The bad record is published on the event loop; an exception here ends the drainer.
DeadLetterItem ==
    /\ drainer = "failed"
    /\ \/ /\ deadLetters' = deadLetters \cup {item} /\ item' = 0
          /\ drainer' = "look"
          /\ UNCHANGED mqttFaults
       \/ MqttFault /\ drainer' = "dead" /\ UNCHANGED <<deadLetters, item>>
    /\ UNCHANGED <<connector, network, received, queue, published>>

Drain == LookEmpty \/ RegisterGetter \/ Get \/ PublishItem \/ DeadLetterItem

MqttNext ==
    \/ Connect \/ Enqueue \/ DeadLetter \/ OnMessageRaises \/ StopConnector \/ PutNone
    \/ JoinDrainer \/ GiveUpDrainer \/ CancelledAgain \/ LoopEnds
    \/ Drain \/ PublishItemRaises

\* The event loop runs its tasks.
MqttSpec == MqttInit /\ [][MqttNext]_mqttVars /\ WF_mqttVars(Drain)
-----------------------------------------------------------------------------
Working == connector \in {"connecting", "running"} /\ drainer # "dead"

(* Until the connector is told to stop, no message is lost between the threads whatever raises:
   one on_message has dealt with is queued, held by the drainer, published, or a dead letter. *)
AcknowledgedIsKept ==
    Working =>
        \A m \in 1..received :
            Payload[m] # "value" /\ ~(network = "dead" /\ m = received) =>
                m \in Entries(queue) \cup Entries(published) \cup deadLetters \cup {item}

(* A put is missed only between a look at an empty queue and the registration: in every other
   state a queue that holds messages is emptied. *)
WokenQueueDrains ==
    queue # <<>> /\ drainer \notin {"empty", "waiting"} ~> queue = <<>> \/ ~Working
=============================================================================
