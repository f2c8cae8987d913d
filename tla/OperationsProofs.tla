---------------------------- MODULE OperationsProofs ----------------------------
(***************************************************************************)
(* What runs beside the operational path (MCOperations): a worker builds   *)
(* a dataset at most once (ClaimedOnce), what was acknowledged or answered *)
(* is kept but where a write of the file failed (AnsweredIsKept),          *)
(* a supervision that ends leaves nothing running (EndedLeavesNothing),    *)
(* restores are sound (RestoresAreSound) and so are the datasets that      *)
(* succeeded (SucceededIsWhole) and the consumers of the normalized        *)
(* fan-out and the bridge (ConsumersAreSound), for every number of         *)
(* members, records, services, tables, alerts, workers, directories and    *)
(* failures; and all of it is well typed.                                  *)
(*                                                                         *)
(* Each part has its inductive invariant, of its own variables only, that  *)
(* of the group from ReleasingFanoutProofs, and the last section composes  *)
(* them.                                                                   *)
(***************************************************************************)
EXTENDS MCOperations, ReleasingFanoutProofs, FiniteSetTheorems

-----------------------------------------------------------------------------
(* The bridge to the brokers: while no forwarder has failed, the ones asked so far have the event. *)

\* A record in hand has been polled.
PositionInLog ==
    /\ nextRecord <= events + 1
    /\ bridgePc \in {"mqtt", "amqp", "commit"} => nextRecord > 1

\* What the forwarders asked so far have taken; nobody asks one that is not configured.
TakenSoFar ==
    /\ bridgePc = "amqp" /\ delivered /\ "mqtt" \in Forwarders => Polled \in mqttQueue \cup mqttBroker
    /\ bridgePc = "mqtt" => "mqtt" \in Forwarders

BridgeIInv == BridgeTypeOK /\ PositionInLog /\ TakenSoFar /\ ForwardedBeforeCommit

LEMMA BridgeInitInv == BridgeInit => BridgeIInv
  BY OutboundBridgeAssumption
  DEF BridgeInit, BridgeIInv, BridgeTypeOK, PositionInLog, TakenSoFar, ForwardedBeforeCommit

LEMMA BridgeTypes == BridgeTypeOK /\ PositionInLog /\ [BridgeNext]_bridgeVars => BridgeTypeOK' /\ PositionInLog'
<1> SUFFICES ASSUME BridgeTypeOK, PositionInLog, [BridgeNext]_bridgeVars
             PROVE  BridgeTypeOK' /\ PositionInLog'
  OBVIOUS
<1>0. /\ events \in Nat /\ nextRecord \in Nat /\ BridgeLogEnd \in Nat /\ MaxBridgeFaults \in Nat
      /\ BridgeFault => bridgeFaults' \in 0..MaxBridgeFaults
      /\ bridgePc \in {"mqtt", "amqp", "commit"} => Polled \in Forwarded
  BY OutboundBridgeAssumption DEF BridgeTypeOK, PositionInLog, BridgeFault, Polled, Forwarded
<1> USE DEF BridgeTypeOK, PositionInLog
<1>1. CASE ProduceProcessed
  BY <1>0, <1>1 DEF ProduceProcessed
<1>2. CASE PollRecord
  BY <1>0, <1>2, OutboundBridgeAssumption DEF PollRecord, AfterMqtt
<1>3. CASE ForwardMqtt
  BY <1>0, <1>3 DEF ForwardMqtt, AfterMqtt
<1>4. CASE MqttConnectFails
  BY <1>0, <1>4 DEF MqttConnectFails, AfterMqtt
<1>5. CASE SendMqtt
  BY <1>0, <1>5 DEF SendMqtt
<1>6. CASE ForwardAmqp
  BY <1>0, <1>6 DEF ForwardAmqp
<1>7. CASE AmqpFails \/ AmqpConnectionLost
  BY <1>0, <1>7 DEF AmqpFails, AmqpConnectionLost
<1>8. CASE ChannelRaises \/ BridgeDies
  BY <1>0, <1>8 DEF ChannelRaises, BridgeDies, End
<1>9. CASE AfterForwarding \/ UNCHANGED bridgeVars
  BY <1>0, <1>9 DEF AfterForwarding, bridgeVars
<1>10. CASE StartConsumer
  BY <1>0, <1>10 DEF StartConsumer
<1> QED
  BY <1>1, <1>2, <1>3, <1>4, <1>5, <1>6, <1>7, <1>8, <1>9, <1>10 DEF BridgeNext

LEMMA BridgeStepInv == BridgeIInv /\ [BridgeNext]_bridgeVars => BridgeIInv'
<1> SUFFICES ASSUME BridgeIInv, [BridgeNext]_bridgeVars PROVE BridgeIInv'
  OBVIOUS
<1>0. TakenSoFar /\ ForwardedBeforeCommit
  BY DEF BridgeIInv
<1>1. BridgeTypeOK' /\ PositionInLog'
  BY BridgeTypes DEF BridgeIInv
<1>2. SUFFICES TakenSoFar' /\ ForwardedBeforeCommit'
  BY <1>1 DEF BridgeIInv
<1> USE DEF TakenSoFar, ForwardedBeforeCommit
<1>3. CASE PollRecord
  BY <1>3 DEF PollRecord, AfterMqtt
<1>4. CASE ForwardMqtt
  BY <1>0, <1>4 DEF ForwardMqtt, AfterMqtt, Polled
<1>5. CASE MqttConnectFails
  BY <1>5 DEF MqttConnectFails, AfterMqtt
<1>6. CASE SendMqtt
  BY <1>0, <1>6 DEF SendMqtt, Polled
<1>7. CASE ForwardAmqp \/ AmqpFails
  BY <1>0, <1>7 DEF ForwardAmqp, AmqpFails, Polled
<1>8. CASE ProduceProcessed \/ AmqpConnectionLost \/ UNCHANGED bridgeVars
  BY <1>0, <1>8 DEF ProduceProcessed, AmqpConnectionLost, bridgeVars, Polled
<1>9. CASE ChannelRaises \/ BridgeDies \/ AfterForwarding \/ StartConsumer
  BY <1>9 DEF ChannelRaises, BridgeDies, End, AfterForwarding, StartConsumer
<1> QED
  BY <1>3, <1>4, <1>5, <1>6, <1>7, <1>8, <1>9 DEF BridgeNext

-----------------------------------------------------------------------------
(* An MQTT source: between the two threads a message has a place at every step. *)

\* The drainer holds a message while it publishes it, and none while it looks for one; paho's
\* thread has not run before the connector is connected.
DrainerHolds ==
    /\ drainer \in {"publishing", "failed"} => item # 0
    /\ drainer \in {"look", "empty", "waiting", "done"} => item = 0
    /\ connector = "connecting" => network = "off"

MqttIInv == MqttTypeOK /\ DrainerHolds /\ AcknowledgedIsKept

LEMMA MqttSizes == Len(Payload) \in Nat /\ QueueSize \in Nat /\ MaxMqttFaults \in Nat /\ QueueSize > 1
  BY MqttConnectorAssumption

LEMMA EntriesAppend ==
    ASSUME NEW S, NEW q \in Seq(S), NEW x \in S
    PROVE  Entries(Append(q, x)) = Entries(q) \cup {x}
<1>1. /\ DOMAIN q = 1..Len(q) /\ Len(q) \in Nat
      /\ DOMAIN Append(q, x) = 1..Len(q) + 1 /\ Append(q, x)[Len(q) + 1] = x
      /\ \A i \in 1..Len(q) : Append(q, x)[i] = q[i]
  OBVIOUS
<1> QED
  BY <1>1 DEF Entries

LEMMA AppendInSeq ==
    ASSUME NEW S, NEW q \in Seq(S), NEW x \in S
    PROVE  Append(q, x) \in Seq(S)
  OBVIOUS

LEMMA EntriesTail ==
    ASSUME NEW S, NEW q \in Seq(S), q # <<>>
    PROVE  Entries(q) = Entries(Tail(q)) \cup {Head(q)}
<1>1. /\ DOMAIN q = 1..Len(q) /\ Len(q) \in Nat \ {0} /\ Head(q) = q[1]
      /\ DOMAIN Tail(q) = 1..Len(q) - 1
      /\ \A i \in 1..Len(q) - 1 : Tail(q)[i] = q[i + 1]
  OBVIOUS
<1>2. ASSUME NEW i \in DOMAIN q PROVE q[i] \in Entries(Tail(q)) \cup {Head(q)}
  <2>1. CASE i = 1
    BY <1>1, <2>1
  <2>2. CASE i # 1
    <3>1. i - 1 \in DOMAIN Tail(q) /\ Tail(q)[i - 1] = q[i]
      BY <1>1, <2>2
    <3> QED
      BY <3>1 DEF Entries
  <2> QED
    BY <2>1, <2>2
<1>3. ASSUME NEW i \in DOMAIN Tail(q) PROVE Tail(q)[i] \in Entries(q)
  BY <1>1 DEF Entries
<1>4. Head(q) \in Entries(q)
  BY <1>1 DEF Entries
<1> QED
  BY <1>2, <1>3, <1>4 DEF Entries

LEMMA SeqWiden ==
    ASSUME NEW S, NEW T, S \subseteq T, NEW q \in Seq(S)
    PROVE  q \in Seq(T)
  OBVIOUS

LEMMA MqttInitInv == MqttInit => MqttIInv
<1> SUFFICES ASSUME MqttInit PROVE MqttIInv
  OBVIOUS
<1>1. MqttTypeOK
  BY MqttSizes DEF MqttInit, MqttTypeOK
<1>2. DrainerHolds /\ AcknowledgedIsKept
  BY DEF MqttInit, DrainerHolds, AcknowledgedIsKept
<1> QED
  BY <1>1, <1>2 DEF MqttIInv

\* on_message: the message is put into the queue or is a dead letter, or paho's thread has ended.
LEMMA MqttArrived ==
    ASSUME MqttIInv, Enqueue \/ DeadLetter \/ OnMessageRaises
    PROVE  MqttIInv'
<1>0. MqttTypeOK /\ DrainerHolds /\ AcknowledgedIsKept
  BY DEF MqttIInv
<1>1. /\ network = "on" /\ received' = received + 1 /\ received \in Nat /\ received' \in 0..Len(Payload)
      /\ received' \in 0..received' /\ 0..received \subseteq 0..received' /\ 1..received \subseteq 1..received'
      /\ received' \in 1..received'
      /\ UNCHANGED <<connector, item, published>>
  BY <1>0, MqttSizes DEF Enqueue, DeadLetter, OnMessageRaises, Arrive, MqttTypeOK
<1>2. /\ queue \in Seq(0..received') /\ published' \in Seq(1..received')
      /\ item' \in 0..received' /\ deadLetters \subseteq 1..received'
  BY <1>0, <1>1, SeqWiden DEF MqttTypeOK
<1>3. /\ queue' \in Seq(0..received') /\ Len(queue') <= QueueSize
      /\ Entries(queue) \subseteq Entries(queue') /\ (Enqueue => received' \in Entries(queue'))
      /\ drainer' = drainer \/ (drainer = "waiting" /\ drainer' = "look")
  <2>1. CASE Enqueue
    <3>1. queue' = Append(queue, received') /\ Len(queue) < QueueSize
      BY <2>1 DEF Enqueue, Put
    <3>2. Entries(queue') = Entries(queue) \cup {received'}
      <4>1. PICK q \in Seq(0..received'), x \in 0..received' : q = queue /\ x = received' /\ queue' = Append(q, x)
        BY <1>1, <1>2, <3>1
      <4>2. Entries(Append(q, x)) = Entries(q) \cup {x}
        BY <4>1, EntriesAppend
      <4> QED
        BY <4>1, <4>2
    <3> QED
      BY <1>1, <1>2, <2>1, <3>1, <3>2, MqttSizes DEF Enqueue, Put
  <2>2. CASE ~Enqueue
    BY <1>0, <1>2, <2>2 DEF DeadLetter, OnMessageRaises, MqttTypeOK
  <2> QED
    BY <2>1, <2>2
<1>4. MqttTypeOK'
  <2>1. network' \in {"on", "dead"} /\ mqttFaults' \in 0..MaxMqttFaults /\ deadLetters' \subseteq 1..received'
    <3>1. CASE Enqueue \/ DeadLetter
      BY <1>0, <1>1, <1>2, <3>1 DEF Enqueue, DeadLetter, MqttTypeOK
    <3>2. CASE OnMessageRaises
      BY <1>0, <1>1, <1>2, <3>2, MqttSizes DEF OnMessageRaises, MqttTypeOK, MqttFault
    <3> QED
      BY <3>1, <3>2
  <2> QED
    BY <1>0, <1>1, <1>2, <1>3, <2>1 DEF MqttTypeOK
<1>5. DrainerHolds'
  BY <1>0, <1>1, <1>3 DEF DrainerHolds, Enqueue, DeadLetter
<1>6. Working' => Working
  BY <1>1, <1>3 DEF Working
<1>7. ASSUME Working', NEW m \in 1..received', Payload[m] # "value", ~(network' = "dead" /\ m = received')
      PROVE  m \in Entries(queue') \cup Entries(published') \cup deadLetters' \cup {item'}
  <2>1. CASE m = received'
    <3>1. CASE Enqueue
      BY <1>3, <2>1, <3>1
    <3>2. CASE DeadLetter
      BY <2>1, <3>2 DEF DeadLetter
    <3>3. CASE OnMessageRaises
      BY <1>7, <2>1, <3>3 DEF OnMessageRaises
    <3> QED
      BY <3>1, <3>2, <3>3
  <2>2. CASE m # received'
    <3>1. m \in Entries(queue) \cup Entries(published) \cup deadLetters \cup {item}
      BY <1>0, <1>1, <1>6, <1>7, <2>2 DEF AcknowledgedIsKept
    <3>2. deadLetters \subseteq deadLetters'
      BY DEF Enqueue, DeadLetter, OnMessageRaises
    <3> QED
      BY <1>1, <1>3, <3>1, <3>2
  <2> QED
    BY <2>1, <2>2
<1>8. AcknowledgedIsKept'
  BY <1>7 DEF AcknowledgedIsKept
<1> QED
  BY <1>4, <1>5, <1>8 DEF MqttIInv

\* run_mqtt: it connects, and once it is told to stop nothing is owed any more.
LEMMA MqttConnected ==
    ASSUME MqttIInv,
           Connect \/ StopConnector \/ PutNone \/ JoinDrainer \/ CancelledAgain
    PROVE  MqttIInv'
<1>0. MqttTypeOK /\ DrainerHolds /\ AcknowledgedIsKept
  BY DEF MqttIInv
<1>1. CASE Connect
  BY <1>0, <1>1 DEF Connect, MqttIInv, MqttTypeOK, DrainerHolds, AcknowledgedIsKept, Working
<1>2. CASE StopConnector \/ JoinDrainer \/ CancelledAgain
  BY <1>0, <1>2 DEF StopConnector, JoinDrainer, CancelledAgain, MqttIInv, MqttTypeOK, DrainerHolds,
                    AcknowledgedIsKept, Working
<1>3. CASE PutNone
  <2>1. queue' \in Seq(0..received) /\ Len(queue') <= QueueSize
    BY <1>0, <1>3, MqttSizes DEF PutNone, Put, MqttTypeOK
  <2> QED
    BY <1>0, <1>3, <2>1 DEF PutNone, Put, MqttIInv, MqttTypeOK, DrainerHolds, AcknowledgedIsKept, Working
<1> QED
  BY <1>1, <1>2, <1>3

LEMMA MqttCancelled ==
    ASSUME MqttIInv, GiveUpDrainer \/ LoopEnds
    PROVE  MqttIInv'
<1>0. MqttTypeOK /\ DrainerHolds /\ AcknowledgedIsKept
  BY DEF MqttIInv
<1>1. CancelDrainer /\ connector' = "ended" /\ UNCHANGED <<network, received, queue, deadLetters, mqttFaults>>
  BY DEF GiveUpDrainer, LoopEnds
<1>2. published' \in Seq(1..received) /\ item' \in 0..received
  <2>1. CASE drainer = "publishing"
    <3>1. item \in 1..received /\ 0 \in 0..received
      BY <1>0, <2>1 DEF DrainerHolds, MqttTypeOK
    <3>2. published \in Seq(1..received) /\ published' = Append(published, item) /\ item' = 0
      BY <1>0, <1>1, <2>1 DEF CancelDrainer, MqttTypeOK
    <3> QED
      BY <3>1, <3>2, AppendInSeq
  <2>2. CASE drainer # "publishing"
    BY <1>0, <1>1, <2>2 DEF CancelDrainer, MqttTypeOK
  <2> QED
    BY <2>1, <2>2
<1>3. MqttTypeOK'
  BY <1>0, <1>1, <1>2 DEF MqttTypeOK, CancelDrainer
<1>4. DrainerHolds' /\ AcknowledgedIsKept'
  BY <1>0, <1>1 DEF DrainerHolds, AcknowledgedIsKept, Working, CancelDrainer
<1> QED
  BY <1>3, <1>4 DEF MqttIInv

\* The drainer: what it takes from the queue it holds, publishes, or makes a dead letter.
LEMMA MqttDrained ==
    ASSUME MqttIInv, Drain \/ PublishItemRaises
    PROVE  MqttIInv'
<1>0. MqttTypeOK /\ DrainerHolds /\ AcknowledgedIsKept
  BY DEF MqttIInv
<1>1. CASE LookEmpty \/ RegisterGetter
  BY <1>0, <1>1 DEF LookEmpty, RegisterGetter, MqttIInv, MqttTypeOK, DrainerHolds, AcknowledgedIsKept, Working
<1>2. CASE Get
  <2>1. /\ queue \in Seq(0..received) /\ queue # <<>> /\ queue' = Tail(queue) /\ item' = Head(queue)
        /\ Head(queue) \in 0..received /\ queue' \in Seq(0..received) /\ Len(queue') <= QueueSize
        /\ drainer = "look" /\ item = 0
        /\ UNCHANGED <<connector, network, received, published, deadLetters, mqttFaults>>
    BY <1>0, <1>2, MqttSizes DEF Get, MqttTypeOK, DrainerHolds
  <2>2. Entries(queue) = Entries(queue') \cup {item'}
    BY <2>1, EntriesTail
  <2>3. MqttTypeOK'
    BY <1>0, <1>2, <2>1 DEF Get, MqttTypeOK
  <2>4. DrainerHolds'
    BY <1>0, <1>2, <2>1 DEF Get, DrainerHolds
  <2>5. AcknowledgedIsKept'
    BY <1>0, <1>2, <2>1, <2>2 DEF Get, AcknowledgedIsKept, Working
  <2> QED
    BY <2>3, <2>4, <2>5 DEF MqttIInv
<1>3. CASE PublishItem \/ PublishItemRaises
  <2>1. /\ item \in 1..received /\ 0 \in 0..received /\ drainer = "publishing"
        /\ UNCHANGED <<connector, network, received, queue, deadLetters>>
    BY <1>0, <1>3 DEF PublishItem, PublishItemRaises, DrainerHolds, MqttTypeOK
  <2>2. /\ published' \in Seq(1..received) /\ Entries(published) \subseteq Entries(published')
        /\ item \in Entries(published') \/ item' = item
    <3>1. published \in Seq(1..received)
      BY <1>0 DEF MqttTypeOK
    <3>2. Append(published, item) \in Seq(1..received)
      BY <2>1, <3>1, AppendInSeq
    <3>3. Entries(Append(published, item)) = Entries(published) \cup {item}
      <4> DEFINE S == 1..received
      <4>1. published \in Seq(S) /\ item \in S
        BY <2>1, <3>1
      <4> HIDE DEF S
      <4> QED
        BY <4>1, EntriesAppend
    <3> QED
      BY <1>3, <3>1, <3>2, <3>3 DEF PublishItem, PublishItemRaises
  <2>3. /\ \/ drainer' = "look" /\ item' = 0
           \/ drainer' = "failed" /\ item' = item
        /\ mqttFaults' \in 0..MaxMqttFaults
    <3>1. CASE PublishItem
      BY <1>0, <3>1 DEF PublishItem, MqttTypeOK
    <3>2. CASE PublishItemRaises
      BY <1>0, <3>2, MqttSizes DEF PublishItemRaises, MqttFault, MqttTypeOK
    <3> QED
      BY <1>3, <3>1, <3>2
  <2>4. MqttTypeOK'
    BY <1>0, <2>1, <2>2, <2>3 DEF MqttTypeOK
  <2>5. DrainerHolds'
    BY <1>0, <2>1, <2>3 DEF DrainerHolds
  <2>6. AcknowledgedIsKept'
    BY <1>0, <2>1, <2>2 DEF AcknowledgedIsKept, Working
  <2> QED
    BY <2>4, <2>5, <2>6 DEF MqttIInv
<1>4. CASE DeadLetterItem
  <2>1. /\ item \in 1..received /\ 0 \in 0..received /\ drainer = "failed"
        /\ UNCHANGED <<connector, network, received, queue, published>>
    BY <1>0, <1>4 DEF DeadLetterItem, DrainerHolds, MqttTypeOK
  <2>2. \/ deadLetters' = deadLetters \cup {item} /\ item' = 0 /\ drainer' = "look" /\ UNCHANGED mqttFaults
        \/ drainer' = "dead" /\ mqttFaults' \in 0..MaxMqttFaults /\ UNCHANGED <<deadLetters, item>>
    BY <1>0, <1>4, MqttSizes DEF DeadLetterItem, MqttFault, MqttTypeOK
  <2>3. MqttTypeOK'
    BY <1>0, <2>1, <2>2 DEF MqttTypeOK
  <2>4. DrainerHolds'
    BY <1>0, <2>1, <2>2 DEF DrainerHolds
  <2>5. AcknowledgedIsKept'
    BY <1>0, <2>1, <2>2 DEF AcknowledgedIsKept, Working
  <2> QED
    BY <2>3, <2>4, <2>5 DEF MqttIInv
<1> QED
  BY <1>1, <1>2, <1>3, <1>4 DEF Drain

LEMMA MqttStepInv == MqttIInv /\ [MqttNext]_mqttVars => MqttIInv'
<1> SUFFICES ASSUME MqttIInv, [MqttNext]_mqttVars PROVE MqttIInv'
  OBVIOUS
<1>1. CASE UNCHANGED mqttVars
  BY <1>1 DEF mqttVars, MqttIInv, MqttTypeOK, DrainerHolds, AcknowledgedIsKept, Working, Entries
<1> QED
  BY <1>1, MqttArrived, MqttConnected, MqttCancelled, MqttDrained DEF MqttNext

-----------------------------------------------------------------------------
(* The supervisor: what it has launched and is alive is a child of its. *)

\* A process supervise has launched is one, and as long as it is alive it is the child of its place.
SupervisedIsChild ==
    \A i \in Places, k \in Copies :
        <<i, k>> \in supervised => process[i][k] # "none" /\ (Alive(i, k) => children[i] = k)

\* Places without a child: those not launched yet, the one in its pause, and all at the end.
FreePlaces ==
    /\ supPc \in {"off", "launch"} => \A j \in Places : j >= launching => children[j] = 0
    /\ supPc = "backoff" => children[launching] = 0
    /\ supPc = "ended" => children = NoRecords

\* A service that has used up its restarts ends the supervision.
WithinBudget ==
    supPc \in {"off", "launch", "poll", "backoff"} => \A i \in Places : exitHistory[i] <= MaxRestarts

SupIInv == SupTypeOK /\ SupervisedIsChild /\ FreePlaces /\ WithinBudget

LEMMA PlacesOrdered ==
    /\ Len(Order) \in Nat \ {0} /\ Places = 1..Len(Order)
    /\ MaxRestarts \in Nat /\ MaxExits \in Nat /\ MaxCommands \in Nat /\ MaxSupFaults \in Nat
<1>1. Len(Order) \in Nat /\ DOMAIN Order = 1..Len(Order) /\ Order # <<>>
  BY ProcessSupervisorAssumption
<1>2. Len(Order) # 0
  BY ProcessSupervisorAssumption
<1> QED
  BY <1>1, <1>2, ProcessSupervisorAssumption DEF Places

LEMMA SupInitInv == SupInit => SupIInv
<1> SUFFICES ASSUME SupInit PROVE SupIInv
  OBVIOUS
<1>1. SupTypeOK
  <2>1. NoRecords \in Copied
    BY DEF NoRecords, Copied
  <2>2. upPc \in 0..(Len(Order) + 1) /\ launching \in Places /\ exitHistory \in [Places -> 0..(MaxRestarts + 1)]
    BY PlacesOrdered DEF SupInit
  <2>3. exits \in 0..MaxExits /\ commands \in 0..MaxCommands /\ supFaults \in 0..MaxSupFaults
    BY PlacesOrdered DEF SupInit
  <2>4. process \in [Places -> [Copies -> {"none", "live", "stopping", "dead"}]]
    BY DEF SupInit
  <2> QED
    BY <2>1, <2>2, <2>3, <2>4 DEF SupInit, SupTypeOK
<1>2. SupervisedIsChild /\ FreePlaces /\ WithinBudget
  BY PlacesOrdered DEF SupInit, SupervisedIsChild, FreePlaces, WithinBudget, NoRecords
<1> QED
  BY <1>1, <1>2 DEF SupIInv

LEMMA NoRecordsAreCopied == NoRecords \in Copied
  BY DEF NoRecords, Copied

\* A process that is started: the next of its service, which was none before.
LEMMA Spawned ==
    ASSUME SupTypeOK, NEW i \in Places, NEW k \in Copies, Spawn(i, k)
    PROVE  /\ process' \in [Places -> [Copies -> {"none", "live", "stopping", "dead"}]]
           /\ process[i][k] = "none" /\ process'[i][k] = "live"
           /\ \A j \in Places, m \in Copies : <<j, m>> # <<i, k>> => process'[j][m] = process[j][m]
  BY DEF Spawn, SupTypeOK

\* Steps that leave the children alone, and in which no process comes back to life.
LEMMA ChildrenKept ==
    ASSUME SupIInv, UNCHANGED <<children, supervised>>,
           \A i \in Places, k \in Copies :
               /\ process[i][k] # "none" => process'[i][k] # "none"
               /\ process'[i][k] \in {"live", "stopping"} => process[i][k] \in {"none", "live", "stopping"}
    PROVE  SupervisedIsChild'
  BY DEF SupIInv, SupervisedIsChild, Alive

LEMMA Launched ==
    ASSUME SupIInv, NEW i \in Places, children[i] = 0, Launch(i)
    PROVE  /\ process' \in [Places -> [Copies -> {"none", "live", "stopping", "dead"}]]
           /\ records' \in Copied /\ children' \in Copied
           /\ \A j \in Places \ {i} : children'[j] = children[j]
           /\ supervised' \subseteq Places \X Copies
           /\ SupervisedIsChild'
<1> PICK k \in Copies : /\ Spawn(i, k)
                        /\ children' = [children EXCEPT ![i] = k]
                        /\ supervised' = supervised \cup {<<i, k>>}
  BY DEF Launch
<1>1. SupTypeOK /\ SupervisedIsChild /\ records' = children'
  BY DEF SupIInv, Launch
<1>2. /\ process' \in [Places -> [Copies -> {"none", "live", "stopping", "dead"}]]
      /\ process[i][k] = "none" /\ process'[i][k] = "live"
      /\ \A j \in Places, m \in Copies : <<j, m>> # <<i, k>> => process'[j][m] = process[j][m]
  BY <1>1, Spawned
<1>3. /\ children' \in Copied /\ children'[i] = k
      /\ \A j \in Places \ {i} : children'[j] = children[j]
  BY <1>1 DEF SupTypeOK, Copied
<1>4. SupervisedIsChild'
  <2> SUFFICES ASSUME NEW j \in Places, NEW m \in Copies, <<j, m>> \in supervised'
               PROVE  process'[j][m] # "none" /\ (Alive(j, m)' => children'[j] = m)
    BY DEF SupervisedIsChild
  <2>1. CASE <<j, m>> = <<i, k>>
    BY <1>2, <1>3, <2>1
  <2>2. CASE <<j, m>> # <<i, k>>
    <3>1. <<j, m>> \in supervised /\ process'[j][m] = process[j][m]
      BY <1>2, <2>2
    <3>2. process[j][m] # "none" /\ (Alive(j, m) => children[j] = m)
      BY <1>1, <3>1 DEF SupervisedIsChild
    <3>3. 0 \notin Copies
      BY DEF Copies
    <3> QED
      BY <1>3, <3>1, <3>2, <3>3 DEF Alive
  <2> QED
    BY <2>1, <2>2
<1> QED
  BY <1>1, <1>2, <1>3, <1>4 DEF SupTypeOK

\* Steps of supervise that start and end no process.
LEMMA SupKept ==
    ASSUME SupIInv,
           StartSupervise \/ EndRound \/ RequestStop \/ LaunchFails \/ EndSupervise
    PROVE  SupIInv'
<1> USE DEF StartSupervise, EndRound, RequestStop, LaunchFails, EndSupervise, operatorVars, SupFault
<1>0. SupTypeOK /\ SupervisedIsChild /\ FreePlaces /\ WithinBudget
  BY DEF SupIInv
<1>1. UNCHANGED <<process, children, supervised, launching, exitHistory, operatorVars>>
  OBVIOUS
<1>2. SupTypeOK'
  <2>1. records' \in Copied /\ stopRequested' \in BOOLEAN
    BY <1>0, NoRecordsAreCopied DEF SupTypeOK
  <2>2. supPc' \in {"off", "launch", "poll", "backoff", "finally", "ended", "raised"}
    BY <1>0 DEF SupTypeOK
  <2>3. supFaults' \in 0..MaxSupFaults
    BY <1>0, PlacesOrdered DEF SupTypeOK
  <2> QED
    BY <1>0, <1>1, <2>1, <2>2, <2>3 DEF SupTypeOK
<1>3. SupervisedIsChild'
  BY <1>0, <1>1 DEF SupervisedIsChild, Alive
<1>4. FreePlaces' /\ WithinBudget'
  BY <1>0, <1>1 DEF FreePlaces, WithinBudget
<1> QED
  BY <1>2, <1>3, <1>4 DEF SupIInv

LEMMA SupLaunched ==
    ASSUME SupIInv, LaunchNext \/ Relaunch
    PROVE  SupIInv'
<1>0. SupTypeOK /\ SupervisedIsChild /\ FreePlaces /\ WithinBudget
  BY DEF SupIInv
<1>1. CASE LaunchNext
  <2>1. supPc = "launch" /\ Launch(launching) /\ children[launching] = 0 /\ launching \in Places
    <3>1. supPc = "launch" /\ Launch(launching) /\ launching \in Places
      BY <1>0, <1>1 DEF LaunchNext, SupTypeOK
    <3> QED
      BY <1>0, <3>1, PlacesOrdered DEF FreePlaces
  <2>2. /\ process' \in [Places -> [Copies -> {"none", "live", "stopping", "dead"}]]
        /\ records' \in Copied /\ children' \in Copied
        /\ \A j \in Places \ {launching} : children'[j] = children[j]
        /\ supervised' \subseteq Places \X Copies
        /\ SupervisedIsChild'
    BY <2>1, Launched
  <2>3. launching' \in Places /\ supPc' \in {"launch", "poll"}
        /\ (supPc' = "launch" => launching' = launching + 1)
    BY <1>1, <2>1, PlacesOrdered DEF LaunchNext
  <2>4. SupTypeOK'
    BY <1>0, <1>1, <2>2, <2>3 DEF LaunchNext, operatorVars, SupTypeOK
  <2>5. FreePlaces' /\ WithinBudget'
    <3>1. \A j \in Places : j >= launching => children[j] = 0
      BY <1>0, <2>1 DEF FreePlaces
    <3>2. ASSUME supPc' = "launch", NEW j \in Places, j >= launching' PROVE children'[j] = 0
      <4>1. j >= launching /\ j # launching
        BY <2>1, <2>3, <3>2, PlacesOrdered
      <4> QED
        BY <2>2, <3>1, <4>1
    <3>3. FreePlaces'
      BY <2>3, <3>2 DEF FreePlaces
    <3>4. exitHistory' = exitHistory
      BY <1>1 DEF LaunchNext
    <3> QED
      BY <1>0, <2>1, <3>3, <3>4 DEF WithinBudget
  <2> QED
    BY <2>2, <2>4, <2>5 DEF SupIInv
<1>2. CASE Relaunch
  <2>1. launching \in Places /\ supPc = "backoff" /\ children[launching] = 0 /\ supPc' = "poll"
    BY <1>0, <1>2 DEF Relaunch, FreePlaces, SupTypeOK
  <2>2. /\ process' \in [Places -> [Copies -> {"none", "live", "stopping", "dead"}]]
        /\ records' \in Copied /\ children' \in Copied
        /\ supervised' \subseteq Places \X Copies
        /\ SupervisedIsChild'
    <3>1. CASE stopRequested
      BY <1>0, <1>2, <3>1 DEF Relaunch, SupTypeOK, SupervisedIsChild, Alive
    <3>2. CASE ~stopRequested
      BY <1>2, <2>1, <3>2, Launched DEF Relaunch
    <3> QED
      BY <3>1, <3>2
  <2>3. SupTypeOK'
    BY <1>0, <1>2, <2>1, <2>2 DEF Relaunch, operatorVars, SupTypeOK
  <2>4. FreePlaces' /\ WithinBudget'
    BY <1>0, <1>2, <2>1 DEF Relaunch, FreePlaces, WithinBudget
  <2> QED
    BY <2>2, <2>3, <2>4 DEF SupIInv
<1> QED
  BY <1>1, <1>2

\* The exits of a service are counted, and forgotten.
LEMMA SupExited ==
    ASSUME SupIInv, NEW i \in Places, ChildExited(i) \/ ForgetExit(i)
    PROVE  SupIInv'
<1>0. SupTypeOK /\ SupervisedIsChild /\ FreePlaces /\ WithinBudget
  BY DEF SupIInv
<1>1. CASE ChildExited(i)
  <2>1. /\ supPc = "poll" /\ children[i] \in Copies /\ process[i][children[i]] = "dead"
        /\ children' = [children EXCEPT ![i] = 0]
        /\ exitHistory' = [exitHistory EXCEPT ![i] = @ + 1]
        /\ launching' = i
        /\ UNCHANGED <<process, supervised, operatorVars, supFaults>>
    BY <1>0, <1>1 DEF ChildExited, SupTypeOK, Copied
  <2>2. /\ children' \in Copied /\ children'[i] = 0
        /\ \A j \in Places \ {i} : children'[j] = children[j]
    BY <1>0, <2>1 DEF SupTypeOK, Copied
  <2>3. /\ exitHistory' \in [Places -> 0..(MaxRestarts + 1)]
        /\ exitHistory'[i] = exitHistory[i] + 1
        /\ \A j \in Places \ {i} : exitHistory'[j] = exitHistory[j]
    <3>1. exitHistory \in [Places -> 0..(MaxRestarts + 1)]
      BY <1>0 DEF SupTypeOK
    <3>2. exitHistory[i] <= MaxRestarts
      BY <1>0, <2>1 DEF WithinBudget
    <3>3. exitHistory[i] + 1 \in 0..(MaxRestarts + 1)
      BY <3>1, <3>2, PlacesOrdered
    <3> QED
      BY <2>1, <3>1, <3>3
  <2>4. /\ supPc' \in {"finally", "backoff"}
        /\ supPc' = "backoff" => exitHistory'[i] <= MaxRestarts
        /\ stopRequested' \in BOOLEAN /\ records' \in Copied
    <3>1. CASE exitHistory[i] + 1 > MaxRestarts
      BY <1>1, <2>2, <3>1 DEF ChildExited
    <3>2. CASE ~(exitHistory[i] + 1 > MaxRestarts)
      <4>1. exitHistory'[i] <= MaxRestarts
        <5>1. exitHistory[i] \in Nat /\ MaxRestarts \in Nat
          BY <1>0, PlacesOrdered DEF SupTypeOK
        <5> QED
          BY <2>3, <3>2, <5>1
      <4> QED
        BY <1>0, <1>1, <3>2, <4>1 DEF ChildExited, SupTypeOK
    <3> QED
      BY <3>1, <3>2
  <2>5. SupTypeOK'
    BY <1>0, <2>1, <2>2, <2>3, <2>4 DEF operatorVars, SupTypeOK
  <2>6. SupervisedIsChild'
    BY <1>0, <2>1, <2>2 DEF SupervisedIsChild, Alive
  <2>7. FreePlaces' /\ WithinBudget'
    BY <1>0, <2>1, <2>2, <2>3, <2>4 DEF FreePlaces, WithinBudget
  <2> QED
    BY <2>5, <2>6, <2>7 DEF SupIInv
<1>2. CASE ForgetExit(i)
  <2>1. /\ exitHistory' \in [Places -> 0..(MaxRestarts + 1)]
        /\ \A j \in Places : exitHistory'[j] <= exitHistory[j]
    <3>1. exitHistory \in [Places -> 0..(MaxRestarts + 1)]
      BY <1>0 DEF SupTypeOK
    <3>2. exitHistory[i] > 0 /\ exitHistory' = [exitHistory EXCEPT ![i] = @ - 1]
      BY <1>2 DEF ForgetExit
    <3>3. exitHistory[i] - 1 \in 0..(MaxRestarts + 1) /\ exitHistory[i] - 1 <= exitHistory[i]
      BY <3>1, <3>2, PlacesOrdered
    <3>4. \A j \in Places : exitHistory[j] <= exitHistory[j]
      BY <3>1, PlacesOrdered
    <3> QED
      BY <3>1, <3>2, <3>3, <3>4
  <2>2. SupTypeOK'
    BY <1>0, <1>2, <2>1 DEF ForgetExit, operatorVars, SupTypeOK
  <2>3. SupervisedIsChild' /\ FreePlaces'
    BY <1>0, <1>2 DEF ForgetExit, SupervisedIsChild, Alive, FreePlaces
  <2>4. WithinBudget'
    BY <1>0, <1>2, <2>1, PlacesOrdered DEF ForgetExit, WithinBudget, SupTypeOK
  <2> QED
    BY <2>2, <2>3, <2>4 DEF SupIInv
<1> QED
  BY <1>1, <1>2

\* finally: a child is signalled, killed, or taken from the children when it is dead.
LEMMA SupTerminated ==
    ASSUME SupIInv, NEW i \in Places, Terminate(i) \/ Kill(i) \/ KillTimesOut(i)
    PROVE  SupIInv'
<1> DEFINE k == children[i]
<1>0. SupTypeOK /\ SupervisedIsChild /\ FreePlaces /\ WithinBudget
  BY DEF SupIInv
<1>1. /\ supPc = "finally" /\ k \in Copies /\ supPc' \in {"finally", "raised"}
      /\ UNCHANGED <<records, launching, exitHistory, stopRequested, supervised, operatorVars>>
      /\ supFaults' \in 0..MaxSupFaults
  BY <1>0, PlacesOrdered DEF Terminate, Kill, KillTimesOut, Terminating, SupTypeOK, Copied, SupFault
<1>2. \/ /\ process[i][k] \in {"live", "stopping"} /\ UNCHANGED children
         /\ \E s \in {"stopping", "dead"} : process' = [process EXCEPT ![i][k] = s]
      \/ process[i][k] = "dead" /\ UNCHANGED process /\ children' = [children EXCEPT ![i] = 0]
      \/ UNCHANGED <<process, children>>
  BY DEF Terminate, Kill, KillTimesOut, Signal
<1>3. /\ process' \in [Places -> [Copies -> {"none", "live", "stopping", "dead"}]]
      /\ \A j \in Places, m \in Copies :
            /\ process[j][m] # "none" => process'[j][m] # "none"
            /\ process'[j][m] \in {"live", "stopping"} => process[j][m] \in {"live", "stopping"}
  <2>1. ASSUME NEW s \in {"stopping", "dead"}, process' = [process EXCEPT ![i][k] = s],
               process[i][k] \in {"live", "stopping"}
        PROVE  /\ process' \in [Places -> [Copies -> {"none", "live", "stopping", "dead"}]]
               /\ \A j \in Places, m \in Copies :
                     /\ process[j][m] # "none" => process'[j][m] # "none"
                     /\ process'[j][m] \in {"live", "stopping"} => process[j][m] \in {"live", "stopping"}
    <3> HIDE DEF k
    <3>1. /\ process' \in [Places -> [Copies -> {"none", "live", "stopping", "dead"}]]
          /\ process'[i][k] = s
          /\ \A j \in Places, m \in Copies : <<j, m>> # <<i, k>> => process'[j][m] = process[j][m]
      BY <1>0, <1>1, <2>1 DEF SupTypeOK
    <3>2. ASSUME NEW j \in Places, NEW m \in Copies
          PROVE  /\ process[j][m] # "none" => process'[j][m] # "none"
                 /\ process'[j][m] \in {"live", "stopping"} => process[j][m] \in {"live", "stopping"}
      <4>1. CASE j = i /\ m = k
        BY <2>1, <3>1, <4>1
      <4>2. CASE <<j, m>> # <<i, k>>
        BY <3>1, <4>2
      <4> QED
        BY <4>1, <4>2
    <3> QED
      BY <3>1, <3>2
  <2>2. CASE UNCHANGED process
    BY <1>0, <2>2 DEF SupTypeOK
  <2> QED
    BY <1>2, <2>1, <2>2
<1>4. /\ children' \in Copied
      /\ \A j \in Places : children'[j] = children[j] \/ process[j][children[j]] = "dead"
  BY <1>0, <1>1, <1>2 DEF SupTypeOK, Copied
<1>5. SupTypeOK'
  BY <1>0, <1>1, <1>3, <1>4 DEF operatorVars, SupTypeOK
<1>6. SupervisedIsChild'
  <2> SUFFICES ASSUME NEW j \in Places, NEW m \in Copies, <<j, m>> \in supervised
               PROVE  process'[j][m] # "none" /\ (Alive(j, m)' => children'[j] = m)
    BY <1>1 DEF SupervisedIsChild
  <2>1. process[j][m] # "none" /\ (Alive(j, m) => children[j] = m)
    BY <1>0 DEF SupervisedIsChild
  <2>2. Alive(j, m)' => Alive(j, m)
    BY <1>3 DEF Alive
  <2>3. Alive(j, m) => children'[j] = children[j]
    BY <1>4, <2>1 DEF Alive
  <2>4. process'[j][m] # "none"
    BY <1>3, <2>1
  <2>5. Alive(j, m)' => children'[j] = m
    BY <2>1, <2>2, <2>3 DEF Alive
  <2> QED
    BY <2>4, <2>5
<1>7. FreePlaces' /\ WithinBudget'
  BY <1>1 DEF FreePlaces, WithinBudget
<1> QED
  BY <1>5, <1>6, <1>7 DEF SupIInv

\* The commands, which start and signal processes and write the file.
LEMMA SupOperated ==
    ASSUME SupIInv, UNCHANGED <<supervisionVars, exits>>,
           process' \in [Places -> [Copies -> {"none", "live", "stopping", "dead"}]],
           \A i \in Places, k \in Copies :
               /\ process[i][k] # "none" => process'[i][k] # "none"
               /\ process'[i][k] \in {"live", "stopping"} => process[i][k] \in {"none", "live", "stopping"},
           records' \in Copied, upRecords' \in Copied, upPc' \in 0..(Len(Order) + 1),
           upNames' \subseteq Places, stopRequested' \in BOOLEAN,
           commands' \in 0..MaxCommands, supFaults' \in 0..MaxSupFaults
    PROVE  SupIInv'
<1>1. SupTypeOK /\ SupervisedIsChild /\ FreePlaces /\ WithinBudget
  BY DEF SupIInv
<1>2. SupTypeOK'
  BY <1>1 DEF SupTypeOK, supervisionVars
<1>3. SupervisedIsChild'
  BY ChildrenKept DEF supervisionVars
<1>4. FreePlaces' /\ WithinBudget'
  BY <1>1 DEF FreePlaces, WithinBudget, supervisionVars
<1> QED
  BY <1>2, <1>3, <1>4 DEF SupIInv

LEMMA SupCommanded ==
    ASSUME SupIInv, NEW names \in (SUBSET Places) \ {{}}, Up(names) \/ Down(names) \/ Restart(names)
    PROVE  SupIInv'
<1>0. SupTypeOK
  BY DEF SupIInv
<1>1. Loaded \in Copied
  BY <1>0 DEF Loaded, Copied, SupTypeOK
<1>2. commands' \in 0..MaxCommands /\ UNCHANGED <<supervisionVars, exits>>
  <2>1. commands' = commands + 1 /\ commands < MaxCommands /\ UNCHANGED <<supervisionVars, exits>>
    BY DEF Up, Down, Restart, StopServices, Command
  <2> QED
    BY <1>0, <2>1, PlacesOrdered DEF SupTypeOK
<1>3. CASE Up(names)
  <2>1. /\ upRecords' \in Copied /\ upPc' \in 0..(Len(Order) + 1) /\ supFaults' \in 0..MaxSupFaults
        /\ upNames' = names /\ UNCHANGED <<process, records, stopRequested>>
    BY <1>0, <1>1, <1>3, PlacesOrdered, NoRecordsAreCopied DEF Up, SupTypeOK, SupFault
  <2> QED
    BY <1>0, <1>2, <2>1, SupOperated DEF SupTypeOK
<1>4. CASE Down(names) \/ Restart(names)
  <2>0. StopServices(names)
    BY <1>4 DEF Down, Restart
  <2>1. /\ process' \in [Places -> [Copies -> {"none", "live", "stopping", "dead"}]]
        /\ \A i \in Places, k \in Copies :
               /\ process[i][k] # "none" => process'[i][k] # "none"
               /\ process'[i][k] \in {"live", "stopping"} => process[i][k] \in {"none", "live", "stopping"}
    <3>1. /\ process' \in [Places -> [Copies -> {"none", "live", "stopping", "dead"}]]
          /\ \A i \in Places, k \in Copies :
                process'[i][k] = process[i][k] \/ (process[i][k] = "live" /\ process'[i][k] = "stopping")
      BY <1>0, <2>0 DEF StopServices, SupTypeOK
    <3> QED
      BY <1>0, <3>1 DEF SupTypeOK
  <2>2. records' \in Copied
    BY <1>0, <2>0 DEF StopServices, Copied, SupTypeOK
  <2>3. stopRequested' \in BOOLEAN
    BY <1>0, <2>0 DEF StopServices, SupTypeOK
  <2>4. supFaults' \in 0..MaxSupFaults
    BY <1>0, <2>0 DEF StopServices, SupTypeOK
  <2>5. upRecords' \in Copied
    BY <1>0, <1>1, <1>4 DEF Down, Restart, SupTypeOK, Copied
  <2>6. upPc' \in 0..(Len(Order) + 1) /\ upNames' \subseteq Places
    <3>1. CASE Down(names)
      BY <1>0, <3>1 DEF Down, SupTypeOK
    <3>2. CASE Restart(names)
      BY <3>2, PlacesOrdered DEF Restart
    <3> QED
      BY <1>4, <3>1, <3>2
  <2> QED
    BY <1>2, <2>1, <2>2, <2>3, <2>4, <2>5, <2>6, SupOperated
<1> QED
  BY <1>3, <1>4

LEMMA SupUp ==
    ASSUME SupIInv, UpService \/ UpSave \/ UpInterrupted
    PROVE  SupIInv'
<1>0. SupTypeOK
  BY DEF SupIInv
<1>1. CASE UpService
  <2>1. /\ UNCHANGED <<records, supervisionVars, stopRequested, upNames, exits, commands>>
        /\ upPc' = upPc + 1 /\ upPc \in Places
    BY <1>1 DEF UpService
  <2>2. CASE UNCHANGED <<process, upRecords>>
    <3>1. supFaults' \in 0..MaxSupFaults
      BY <1>0, <1>1, PlacesOrdered DEF UpService, SupFault, SupTypeOK
    <3>2. upPc' \in 0..(Len(Order) + 1)
      BY <1>1, PlacesOrdered DEF UpService
    <3> QED
      BY <1>0, <2>1, <2>2, <3>1, <3>2, SupOperated DEF SupTypeOK
  <2>3. CASE UNCHANGED supFaults /\ \E k \in Copies : Spawn(upPc, k) /\ upRecords' = [upRecords EXCEPT ![upPc] = k]
    <3>1. PICK k \in Copies : Spawn(upPc, k) /\ upRecords' = [upRecords EXCEPT ![upPc] = k]
      BY <2>3
    <3>2. /\ process' \in [Places -> [Copies -> {"none", "live", "stopping", "dead"}]]
          /\ process[upPc][k] = "none" /\ process'[upPc][k] = "live"
          /\ \A j \in Places, m \in Copies : <<j, m>> # <<upPc, k>> => process'[j][m] = process[j][m]
      BY <1>0, <2>1, <3>1, Spawned
    <3>3. upRecords' \in Copied
      BY <1>0, <3>1 DEF SupTypeOK, Copied
    <3>4. upPc' \in 0..(Len(Order) + 1)
      BY <2>1, PlacesOrdered
    <3>5. ASSUME NEW i \in Places, NEW m \in Copies
          PROVE  /\ process[i][m] # "none" => process'[i][m] # "none"
                 /\ process'[i][m] \in {"live", "stopping"} => process[i][m] \in {"none", "live", "stopping"}
      BY <3>2
    <3> QED
      BY <1>0, <2>1, <2>3, <3>2, <3>3, <3>4, <3>5, SupOperated DEF SupTypeOK
  <2> QED
    BY <1>1, <2>2, <2>3 DEF UpService
<1>2. CASE UpSave \/ UpInterrupted
  <2>1. /\ upPc' = 0 /\ UNCHANGED <<process, supervisionVars, stopRequested, upRecords, upNames, exits, commands>>
        /\ records' \in Copied /\ supFaults' \in 0..MaxSupFaults
    BY <1>0, <1>2, PlacesOrdered DEF UpSave, UpInterrupted, SupFault, SupTypeOK
  <2> QED
    BY <1>0, <2>1, PlacesOrdered, SupOperated DEF SupTypeOK
<1> QED
  BY <1>1, <1>2

LEMMA SupEnds ==
    ASSUME SupIInv, NEW i \in Places, NEW k \in Copies, ProcessEnds(i, k)
    PROVE  SupIInv'
<1>0. SupTypeOK /\ SupervisedIsChild /\ FreePlaces /\ WithinBudget
  BY DEF SupIInv
<1>1. /\ process[i][k] \in {"live", "stopping"} /\ process' = [process EXCEPT ![i][k] = "dead"]
      /\ UNCHANGED <<records, supervisionVars, stopRequested, upPc, upRecords, upNames, commands, supFaults>>
  BY DEF ProcessEnds, Alive
<1>2. /\ process' \in [Places -> [Copies -> {"none", "live", "stopping", "dead"}]]
      /\ process'[i][k] = "dead"
      /\ \A j \in Places, m \in Copies : <<j, m>> # <<i, k>> => process'[j][m] = process[j][m]
  BY <1>0, <1>1 DEF SupTypeOK
<1>3. exits' \in 0..MaxExits
  BY <1>0, PlacesOrdered DEF ProcessEnds, SupTypeOK
<1>4. SupTypeOK'
  BY <1>0, <1>1, <1>2, <1>3 DEF SupTypeOK, supervisionVars
<1>5. ASSUME NEW j \in Places, NEW m \in Copies
      PROVE  /\ process[j][m] # "none" => process'[j][m] # "none"
             /\ process'[j][m] \in {"live", "stopping"} => process[j][m] \in {"none", "live", "stopping"}
  BY <1>1, <1>2
<1>6. SupervisedIsChild'
  BY <1>1, <1>5, ChildrenKept DEF supervisionVars
<1>7. FreePlaces' /\ WithinBudget'
  BY <1>0, <1>1 DEF FreePlaces, WithinBudget, supervisionVars
<1> QED
  BY <1>4, <1>6, <1>7 DEF SupIInv

LEMMA SupStepInv == SupIInv /\ [SupNext]_supVars => SupIInv'
<1> SUFFICES ASSUME SupIInv, [SupNext]_supVars PROVE SupIInv'
  OBVIOUS
<1>1. CASE StartSupervise \/ EndRound \/ RequestStop \/ LaunchFails \/ EndSupervise
  BY <1>1, SupKept
<1>2. CASE LaunchNext \/ Relaunch
  BY <1>2, SupLaunched
<1>3. ASSUME NEW i \in Places, ChildExited(i) \/ ForgetExit(i) PROVE SupIInv'
  BY <1>3, SupExited
<1>4. ASSUME NEW i \in Places, Terminate(i) \/ Kill(i) \/ KillTimesOut(i) PROVE SupIInv'
  BY <1>4, SupTerminated
<1>5. ASSUME NEW names \in (SUBSET Places) \ {{}}, Up(names) \/ Down(names) \/ Restart(names) PROVE SupIInv'
  BY <1>5, SupCommanded
<1>6. CASE UpService \/ UpSave \/ UpInterrupted
  BY <1>6, SupUp
<1>7. ASSUME NEW i \in Places, NEW k \in Copies, ProcessEnds(i, k) PROVE SupIInv'
  BY <1>7, SupEnds
<1>8. CASE UNCHANGED supVars
  BY <1>8 DEF supVars, SupIInv, SupTypeOK, SupervisedIsChild, FreePlaces, WithinBudget, Alive
<1> QED
  BY <1>1, <1>2, <1>3, <1>4, <1>5, <1>6, <1>7, <1>8 DEF SupNext, Supervision

\* At the end there are no children, so that nothing supervise has launched is alive.
LEMMA SupEndedLeavesNothing == SupIInv => EndedLeavesNothing
<1> SUFFICES ASSUME SupIInv, supPc = "ended", NEW c \in supervised, Alive(c[1], c[2]) PROVE FALSE
  BY DEF EndedLeavesNothing
<1>1. c[1] \in Places /\ c[2] \in Copies /\ c = <<c[1], c[2]>>
  BY DEF SupIInv, SupTypeOK
<1>2. children[c[1]] = c[2] /\ children = NoRecords
  BY <1>1 DEF SupIInv, SupervisedIsChild, FreePlaces
<1> QED
  BY <1>1, <1>2 DEF NoRecords, Copies

-----------------------------------------------------------------------------
(* Backup, restore and the drill: which database a restore is at work on. *)

\* The bounds a dump and a restore keep to, and the file of a restore.
JobIsSet ==
    /\ backupPc = "dump" => Len(files) < MaxDumps
    /\ backupPc \in {"dump", "drop", "create"} /\ job.drill => restores < MaxRestores
    /\ backupPc \in {"drop", "create", "pre", "restore", "post", "after"} => job.file \in DOMAIN files
    /\ backupPc \in {"drop", "create", "after"} => job.drill

\* A drill restores into the test database, which it has emptied.
DrillIsWhole ==
    job.drill =>
        /\ job.database = "test"
        /\ backupPc \in {"create", "pre", "restore"} => rows["test"] = NoTables
        /\ backupPc \in {"post", "after"} => rows["test"] = Content

\* Until a restore ends, its database may be in the restoring mode.
RestoringIsKnown ==
    restoring \subseteq failed \cup (IF backupPc \in {"restore", "post"} THEN {job.database} ELSE {})

BackupIInv == BackupTypeOK /\ JobIsSet /\ DrillIsWhole /\ RestoringIsKnown

LEMMA BackupSound == BackupIInv => RestoresAreSound
  BY DEF BackupIInv, JobIsSet, DrillIsWhole, RestoringIsKnown, RestoresAreSound, MatchedIsRestored,
         RestoringIsFailed

LEMMA ContentsAre ==
    \A c : c \in Contents <=> /\ DOMAIN c \subseteq Tables /\ c = [t \in DOMAIN c |-> c[t]]
                              /\ \A t \in DOMAIN c : c[t] \in 0..MaxRows
  BY DEF Contents

LEMMA BackupBounds == /\ MaxRows \in Nat /\ MaxDumps \in Nat /\ MaxRestores \in Nat
                      /\ MaxBackupFaults \in Nat
  BY HistorianBackupAssumption

LEMMA TablesThere == Tables \in (SUBSET Tables) \ {{}}
<1>1. Tables # {}
  BY HistorianBackupAssumption
<1>2. ASSUME NEW S, S # {} PROVE S \in (SUBSET S) \ {{}}
  BY <1>2
<1> QED
  BY <1>1, <1>2

\* The parameters of a command.
LEMMA JobsAre ==
    ASSUME NEW drill \in BOOLEAN, NEW d \in Databases, NEW T \in (SUBSET Tables) \ {{}}, NEW f \in 0..MaxDumps,
           NEW docker \in BOOLEAN
    PROVE  [drill |-> drill, database |-> d, tables |-> T, file |-> f, docker |-> docker] \in Jobs
  BY DEF Jobs

LEMMA BackupInitInv == BackupInit => BackupIInv
<1> SUFFICES ASSUME BackupInit PROVE BackupIInv
  OBVIOUS
<1>1. NoTables \in Contents /\ [t \in Tables |-> 0] \in Contents /\ 0 \in 0..MaxRows
  <2>1. DOMAIN NoTables = {} /\ NoTables = [t \in DOMAIN NoTables |-> NoTables[t]]
    BY DEF NoTables
  <2>2. NoTables \in Contents
    BY <2>1, ContentsAre
  <2>3. 0 \in 0..MaxRows
    BY BackupBounds
  <2>4. [t \in Tables |-> 0] \in [Tables -> 0..MaxRows] /\ Tables \in SUBSET Tables
    BY <2>3
  <2> QED
    BY <2>2, <2>3, <2>4 DEF Contents
<1>2. NoJobYet \in Jobs /\ NoJobYet.drill = FALSE
  <2>1. Tables \in (SUBSET Tables) \ {{}} /\ 0 \in 0..MaxDumps /\ "test" \in Databases
    BY TablesThere, BackupBounds DEF Databases
  <2>2. NoJobYet \in Jobs
    BY <2>1, JobsAre DEF NoJobYet
  <2> QED
    BY <2>2 DEF NoJobYet
<1>3. BackupTypeOK
  <2>1. rows \in [Databases -> Contents]
    BY <1>1 DEF BackupInit
  <2> QED
    BY <1>1, <1>2, <2>1, HistorianBackupAssumption DEF BackupInit, BackupTypeOK
<1>4. JobIsSet /\ DrillIsWhole /\ RestoringIsKnown
  BY <1>2 DEF BackupInit, JobIsSet, DrillIsWhole, RestoringIsKnown
<1> QED
  BY <1>3, <1>4 DEF BackupIInv

LEMMA BackupIngested ==
    ASSUME BackupIInv, NEW t \in Tables, Ingest(t)
    PROVE  BackupIInv'
<1>0. BackupTypeOK /\ JobIsSet /\ DrillIsWhole /\ RestoringIsKnown
  BY DEF BackupIInv
<1>1. /\ t \in DOMAIN rows["live"] /\ rows["live"][t] < MaxRows
      /\ rows' = [rows EXCEPT !["live"] = [rows["live"] EXCEPT ![t] = @ + 1]]
      /\ UNCHANGED <<restoring, failed, files, backupPc, job, before, restores, backupFaults>>
  BY DEF Ingest
<1>2. rows["live"] \in Contents
  BY <1>0 DEF BackupTypeOK, Databases
<1>3. [rows["live"] EXCEPT ![t] = @ + 1] \in Contents
  BY <1>1, <1>2, BackupBounds, ContentsAre
<1>4. rows' \in [Databases -> Contents] /\ rows'["test"] = rows["test"]
  BY <1>0, <1>1, <1>3 DEF BackupTypeOK, Databases
<1>5. BackupTypeOK'
  BY <1>0, <1>1, <1>4 DEF BackupTypeOK
<1>6. JobIsSet' /\ RestoringIsKnown' /\ DrillIsWhole'
  BY <1>0, <1>1, <1>4 DEF JobIsSet, RestoringIsKnown, DrillIsWhole, Content
<1> QED
  BY <1>5, <1>6 DEF BackupIInv

LEMMA BackupAccepted ==
    ASSUME BackupIInv, NEW T \in (SUBSET Tables) \ {{}}, NEW docker \in BOOLEAN,
           CreateBackup(T, docker) \/ BeginDrill(T, docker)
    PROVE  BackupIInv'
<1>0. BackupTypeOK /\ JobIsSet /\ DrillIsWhole /\ RestoringIsKnown
  BY DEF BackupIInv
<1>1. /\ job' \in Jobs /\ job'.database = "test" /\ backupPc = "idle" /\ backupPc' = "dump"
      /\ Len(files) < MaxDumps /\ (job'.drill => restores < MaxRestores)
      /\ UNCHANGED <<rows, restoring, failed, files, restores, backupFaults>>
  <2>1. PICK drill \in BOOLEAN :
           /\ job' = [drill |-> drill, database |-> "test", tables |-> T, file |-> 0, docker |-> docker]
           /\ drill => restores < MaxRestores
    BY DEF CreateBackup, BeginDrill, Accept, NoJobYet
  <2>2. job' \in Jobs
    BY <2>1, BackupBounds, JobsAre DEF Databases
  <2> QED
    BY <2>1, <2>2 DEF CreateBackup, BeginDrill, Accept, Then
<1>2. before' \in [Tables -> 0..MaxRows]
  <2>1. rows["live"] \in Contents
    BY <1>0 DEF BackupTypeOK, Databases
  <2>2. CASE before' = before
    BY <1>0, <2>2 DEF BackupTypeOK
  <2>3. CASE before' = rows["live"] /\ DOMAIN rows["live"] = Tables
    BY <2>1, <2>3, ContentsAre
  <2> QED
    BY <2>2, <2>3 DEF CreateBackup, BeginDrill
<1>3. BackupTypeOK'
  BY <1>0, <1>1, <1>2 DEF BackupTypeOK
<1>4. JobIsSet' /\ DrillIsWhole' /\ RestoringIsKnown'
  BY <1>0, <1>1 DEF JobIsSet, DrillIsWhole, RestoringIsKnown
<1> QED
  BY <1>3, <1>4 DEF BackupIInv

LEMMA BackupRestoreBegins ==
    ASSUME BackupIInv, NEW f \in DOMAIN files, NEW d \in Databases, NEW docker \in BOOLEAN,
           RestoreBackup(f, d, docker)
    PROVE  BackupIInv'
<1>0. BackupTypeOK /\ JobIsSet /\ DrillIsWhole /\ RestoringIsKnown
  BY DEF BackupIInv
<1>1. f \in 0..MaxDumps
  BY <1>0, BackupBounds DEF BackupTypeOK
<1>2. /\ job' \in Jobs /\ job'.drill = FALSE /\ job'.file = f /\ backupPc = "idle"
      /\ backupPc' \in {"pre", "restore"}
      /\ UNCHANGED <<rows, restoring, failed, files, before, backupFaults>>
  <2>1. job' = [drill |-> FALSE, database |-> d, tables |-> Tables, file |-> f, docker |-> docker]
    BY DEF RestoreBackup, Accept, NoJobYet
  <2>2. Tables \in (SUBSET Tables) \ {{}}
    BY TablesThere
  <2>3. job' \in Jobs
    BY <1>1, <2>1, <2>2, JobsAre
  <2>4. job'.drill = FALSE /\ job'.file = f
    BY <2>1
  <2> QED
    BY <2>3, <2>4 DEF RestoreBackup, Accept, Then
<1>3. restores' \in 0..MaxRestores
  BY <1>0, BackupBounds DEF RestoreBackup, BackupTypeOK
<1>4. BackupTypeOK'
  BY <1>0, <1>2, <1>3 DEF BackupTypeOK
<1>5. JobIsSet' /\ DrillIsWhole' /\ RestoringIsKnown'
  BY <1>0, <1>2 DEF JobIsSet, DrillIsWhole, RestoringIsKnown
<1> QED
  BY <1>4, <1>5 DEF BackupIInv

\* pg_dump, which has seen the tables or failed.
LEMMA BackupDumped ==
    ASSUME BackupIInv, Dump \/ DumpFails
    PROVE  BackupIInv'
<1>0. BackupTypeOK /\ JobIsSet /\ DrillIsWhole /\ RestoringIsKnown
  BY DEF BackupIInv
<1>1. /\ backupPc = "dump" /\ Len(files) < MaxDumps /\ files \in Seq(Contents \cup {Partial}) /\ Len(files) \in Nat
  BY <1>0 DEF Dump, DumpFails, Fails, JobIsSet, BackupTypeOK
<1>2. PICK c \in Contents \cup {Partial} : files' = Append(files, c)
  <2>1. CASE Dump
    <3> DEFINE c == [t \in job.tables \cap DOMAIN rows["live"] |-> rows["live"][t]]
    <3>1. rows["live"] \in Contents
      BY <1>0 DEF BackupTypeOK, Databases
    <3>2. c \in Contents
      BY <3>1, ContentsAre
    <3> QED
      BY <2>1, <3>2 DEF Dump
  <2>2. CASE DumpFails
    BY <2>2 DEF DumpFails
  <2> QED
    BY <2>1, <2>2
<1>3. /\ files' \in Seq(Contents \cup {Partial}) /\ Len(files') = Len(files) + 1
      /\ Len(files') <= MaxDumps /\ Len(files') \in DOMAIN files' /\ Len(files') \in 0..MaxDumps
  BY <1>1, <1>2, BackupBounds
<1>4. CASE Dump
  <2>1. /\ job' \in Jobs /\ job'.drill = job.drill /\ job'.database = job.database
        /\ job'.file = Len(files')
    BY <1>0, <1>3, <1>4 DEF Dump, BackupTypeOK, Jobs
  <2>2. backupPc' = (IF job.drill THEN "drop" ELSE "idle")
        /\ UNCHANGED <<rows, restoring, failed, before, restores, backupFaults>>
    BY <1>4 DEF Dump, Then
  <2>3. BackupTypeOK'
    BY <1>0, <1>3, <2>1, <2>2 DEF BackupTypeOK
  <2>4. JobIsSet' /\ DrillIsWhole' /\ RestoringIsKnown'
    BY <1>0, <1>1, <1>3, <2>1, <2>2 DEF JobIsSet, DrillIsWhole, RestoringIsKnown
  <2> QED
    BY <2>3, <2>4 DEF BackupIInv
<1>5. CASE DumpFails
  <2>1. /\ backupPc' = "idle" /\ backupFaults' \in 0..MaxBackupFaults
        /\ UNCHANGED <<rows, restoring, failed, job, before, restores>>
    BY <1>0, <1>5, BackupBounds DEF DumpFails, Fails, Then, BackupFault, BackupTypeOK
  <2>2. BackupTypeOK'
    BY <1>0, <1>3, <2>1 DEF BackupTypeOK
  <2>3. JobIsSet' /\ DrillIsWhole' /\ RestoringIsKnown'
    BY <1>0, <1>1, <2>1 DEF JobIsSet, DrillIsWhole, RestoringIsKnown
  <2> QED
    BY <2>2, <2>3 DEF BackupIInv
<1> QED
  BY <1>4, <1>5

LEMMA BackupReset ==
    ASSUME BackupIInv, DropTarget \/ CreateTarget \/ ResetFails
    PROVE  BackupIInv'
<1>0. BackupTypeOK /\ JobIsSet /\ DrillIsWhole /\ RestoringIsKnown
  BY DEF BackupIInv
<1>1. /\ backupPc \in {"drop", "create"} /\ job.drill /\ job.database = "test" /\ job.file \in DOMAIN files
      /\ restores < MaxRestores /\ UNCHANGED <<files, job, before>>
  BY <1>0 DEF DropTarget, CreateTarget, ResetFails, Fails, JobIsSet, DrillIsWhole
<1>2. CASE DropTarget
  <2>1. rows' \in [Databases -> Contents] /\ rows'["test"] = NoTables
    <3>1. NoTables \in Contents
      BY DEF NoTables, Contents
    <3> QED
      BY <1>0, <1>1, <1>2, <3>1 DEF DropTarget, BackupTypeOK, Databases
  <2>2. BackupTypeOK'
    BY <1>0, <1>2, <2>1 DEF DropTarget, Then, BackupTypeOK
  <2>3. JobIsSet' /\ DrillIsWhole' /\ RestoringIsKnown'
    BY <1>0, <1>1, <1>2, <2>1 DEF DropTarget, Then, JobIsSet, DrillIsWhole, RestoringIsKnown
  <2> QED
    BY <2>2, <2>3 DEF BackupIInv
<1>3. CASE CreateTarget
  <2>1. restores' \in 0..MaxRestores /\ backupPc' \in {"pre", "restore"}
    BY <1>0, <1>1, <1>3, BackupBounds DEF CreateTarget, Then, BackupTypeOK
  <2>2. BackupTypeOK'
    BY <1>0, <1>3, <2>1 DEF CreateTarget, BackupTypeOK
  <2>3. JobIsSet' /\ DrillIsWhole' /\ RestoringIsKnown'
    BY <1>0, <1>1, <1>3, <2>1 DEF CreateTarget, JobIsSet, DrillIsWhole, RestoringIsKnown
  <2> QED
    BY <2>2, <2>3 DEF BackupIInv
<1>4. CASE ResetFails
  <2>1. /\ backupPc' = "idle" /\ backupFaults' \in 0..MaxBackupFaults
        /\ UNCHANGED <<rows, restoring, failed, files, job, before, restores>>
    BY <1>0, <1>4, BackupBounds DEF ResetFails, Fails, Then, BackupFault, BackupTypeOK
  <2>2. BackupTypeOK'
    BY <1>0, <2>1 DEF BackupTypeOK
  <2>3. JobIsSet' /\ DrillIsWhole' /\ RestoringIsKnown'
    BY <1>0, <1>1, <2>1 DEF JobIsSet, DrillIsWhole, RestoringIsKnown
  <2> QED
    BY <2>2, <2>3 DEF BackupIInv
<1> QED
  BY <1>2, <1>3, <1>4

\* The commands around the restore of the tables, which leave the tables alone.
LEMMA BackupHooked ==
    ASSUME BackupIInv, PreRestore \/ PostRestore \/ HooksFail \/ CompareSnapshots
    PROVE  BackupIInv'
<1> USE DEF PreRestore, PostRestore, HooksFail, CompareSnapshots, Fails, Then, BackupFault
<1>0. BackupTypeOK /\ JobIsSet /\ DrillIsWhole /\ RestoringIsKnown
  BY DEF BackupIInv
<1>1. UNCHANGED <<rows, files, job, before, restores>>
  OBVIOUS
<1>2. BackupTypeOK'
  <2>1. restoring' \subseteq Databases /\ failed' \subseteq Databases
    <3>1. job.database \in Databases
      BY <1>0 DEF BackupTypeOK, Jobs
    <3> QED
      BY <1>0, <3>1 DEF BackupTypeOK
  <2>2. backupFaults' \in 0..MaxBackupFaults
    BY <1>0, BackupBounds DEF BackupTypeOK
  <2>3. backupPc' \in {"idle", "restore", "after"}
    OBVIOUS
  <2> QED
    BY <1>0, <1>1, <2>1, <2>2, <2>3 DEF BackupTypeOK
<1>3. JobIsSet' /\ DrillIsWhole'
  BY <1>0, <1>1 DEF JobIsSet, DrillIsWhole, Content
<1>4. RestoringIsKnown'
  BY <1>0, <1>1 DEF RestoringIsKnown
<1> QED
  BY <1>2, <1>3, <1>4 DEF BackupIInv

\* pg_restore into a database without tables leaves the tables of the file.
LEMMA BackupRestored ==
    ASSUME BackupIInv, RestoreTables \/ RestoreFails
    PROVE  BackupIInv'
<1>0. BackupTypeOK /\ JobIsSet /\ DrillIsWhole /\ RestoringIsKnown
  BY DEF BackupIInv
<1>1. /\ job.file \in DOMAIN files /\ job.database \in Databases /\ rows[job.database] \in Contents
      /\ Content \in Contents \cup {Partial} /\ backupPc = "restore"
  BY <1>0 DEF RestoreTables, RestoreFails, JobIsSet, BackupTypeOK, Jobs, Content
<1>2. CASE RestoreTables
  <2> DEFINE new == Replaced(Content)
  <2>1. Content \in Contents
    BY <1>1, <1>2 DEF RestoreTables
  <2>2. new \in Contents
    BY <1>1, <2>1, ContentsAre DEF Replaced
  <2>3. rows[job.database] = NoTables => new = Content
    <3> SUFFICES ASSUME rows[job.database] = NoTables PROVE new = Content
      OBVIOUS
    <3>1. DOMAIN rows[job.database] = {}
      BY DEF NoTables
    <3>2. new = [t \in DOMAIN Content |-> Content[t]]
      BY <3>1 DEF Replaced
    <3> QED
      BY <2>1, <3>2, ContentsAre
  <2> HIDE DEF new
  <2>4. /\ rows' \in [Databases -> Contents] /\ rows'[job.database] = new
        /\ UNCHANGED <<restoring, failed, files, job, before, restores, backupFaults>>
        /\ backupPc' = "post"
    BY <1>0, <1>1, <1>2, <2>2 DEF RestoreTables, Then, BackupTypeOK, new
  <2>5. BackupTypeOK'
    BY <1>0, <2>4 DEF BackupTypeOK
  <2>6. DrillIsWhole'
    BY <1>0, <1>1, <2>3, <2>4 DEF DrillIsWhole, Content
  <2>7. JobIsSet' /\ RestoringIsKnown'
    BY <1>0, <1>1, <2>4 DEF JobIsSet, RestoringIsKnown
  <2> QED
    BY <2>5, <2>6, <2>7 DEF BackupIInv
<1>3. CASE RestoreFails
  <2>1. /\ rows' \in [Databases -> Contents] /\ backupPc' = "idle"
        /\ failed' = failed \cup {job.database} /\ backupFaults' \in 0..MaxBackupFaults
        /\ UNCHANGED <<restoring, files, job, before, restores>>
    BY <1>0, <1>1, <1>3, BackupBounds DEF RestoreFails, Then, BackupTypeOK, BackupFault, LeftBehind
  <2>2. BackupTypeOK'
    BY <1>0, <1>1, <2>1 DEF BackupTypeOK
  <2>3. JobIsSet' /\ DrillIsWhole' /\ RestoringIsKnown'
    BY <1>0, <1>1, <2>1 DEF JobIsSet, DrillIsWhole, RestoringIsKnown
  <2> QED
    BY <2>2, <2>3 DEF BackupIInv
<1> QED
  BY <1>2, <1>3

LEMMA BackupStepInv == BackupIInv /\ [BackupNext]_backupVars => BackupIInv'
<1> SUFFICES ASSUME BackupIInv, [BackupNext]_backupVars PROVE BackupIInv'
  OBVIOUS
<1>1. ASSUME NEW t \in Tables, Ingest(t) PROVE BackupIInv'
  BY <1>1, BackupIngested
<1>2. ASSUME NEW T \in (SUBSET Tables) \ {{}}, NEW docker \in BOOLEAN, CreateBackup(T, docker) \/ BeginDrill(T, docker)
      PROVE  BackupIInv'
  BY <1>2, BackupAccepted
<1>3. ASSUME NEW f \in DOMAIN files, NEW d \in Databases, NEW docker \in BOOLEAN, RestoreBackup(f, d, docker)
      PROVE  BackupIInv'
  BY <1>3, BackupRestoreBegins
<1>4. CASE Dump \/ DumpFails \/ DropTarget \/ CreateTarget \/ ResetFails
  BY <1>4, BackupDumped, BackupReset
<1>5. CASE PreRestore \/ RestoreTables \/ RestoreFails \/ PostRestore \/ HooksFail \/ CompareSnapshots
  BY <1>5, BackupHooked, BackupRestored
<1>6. CASE UNCHANGED backupVars
  BY <1>6 DEF backupVars, BackupIInv, BackupTypeOK, JobIsSet, DrillIsWhole, RestoringIsKnown, Content
<1> QED
  BY <1>1, <1>2, <1>3, <1>4, <1>5, <1>6 DEF BackupNext

-----------------------------------------------------------------------------
(* Alerts: what is in memory, what is in the file, and what a client was told. *)

\* The part of AlertTypeOK the argument needs.
StoresAreSound ==
    /\ alerts \in Stores /\ alertFile \in Stores
    /\ created \in 0..MaxAlerts
    /\ alertPc \in {"idle", "notify", "check"}

\* An alert whose client is about to be told of it is in memory.
AboutToTell == alertPc = "notify" => created \in DOMAIN alerts

\* The file has what is in memory of every alert but those whose last change was not written.
FileIsCurrent ==
    \A i \in AlertIds \ unwritten :
        /\ i \in DOMAIN alertFile <=> i \in DOMAIN alerts
        /\ i \in DOMAIN alerts => alertFile[i] = alerts[i]

\* What a client was last told of an alert is so in memory.
ToldIsShown == \A i \in DOMAIN told : i \in DOMAIN alerts /\ alerts[i].state = told[i]

AlertIInv == StoresAreSound /\ AboutToTell /\ FileIsCurrent /\ ToldIsShown

LEMMA StoresAre ==
    \A c : c \in Stores <=> /\ DOMAIN c \subseteq AlertIds /\ c = [i \in DOMAIN c |-> c[i]]
                            /\ \A i \in DOMAIN c : c[i] \in [state : AlertStates, severity : Severities]
  BY DEF Stores

LEMMA AlertInitInv == AlertInit => AlertIInv
<1> SUFFICES ASSUME AlertInit PROVE AlertIInv
  OBVIOUS
<1>1. alerts = [i \in DOMAIN alerts |-> alerts[i]] /\ DOMAIN alerts = {}
  BY DEF AlertInit
<1>2. alerts \in Stores
  BY <1>1, StoresAre
<1>3. StoresAreSound
  BY <1>2, AlertsAssumption DEF AlertInit, StoresAreSound
<1>4. AboutToTell /\ FileIsCurrent /\ ToldIsShown
  BY DEF AlertInit, AboutToTell, FileIsCurrent, ToldIsShown
<1> QED
  BY <1>3, <1>4 DEF AlertIInv

\* A store in which the state of an alert is set.
LEMMA StateSet ==
    ASSUME NEW c \in Stores, NEW i, NEW s \in AlertStates, NEW e, e = [c EXCEPT ![i].state = s]
    PROVE  /\ e \in Stores /\ DOMAIN e = DOMAIN c
           /\ i \in DOMAIN c => e[i].state = s
           /\ \A k \in DOMAIN c : k # i => e[k] = c[k]
<1>1. \A k \in DOMAIN c : c[k] \in [state : AlertStates, severity : Severities]
  BY StoresAre
<1>2. /\ DOMAIN e = DOMAIN c /\ e = [k \in DOMAIN e |-> e[k]]
      /\ \A k \in DOMAIN c : k # i => e[k] = c[k]
      /\ i \in DOMAIN c => e[i] = [c[i] EXCEPT !.state = s]
  OBVIOUS
<1>3. i \in DOMAIN c => e[i] \in [state : AlertStates, severity : Severities] /\ e[i].state = s
  BY <1>1, <1>2
<1>4. DOMAIN c \subseteq AlertIds
  BY StoresAre
<1> QED
  BY <1>1, <1>2, <1>3, <1>4, StoresAre

LEMMA ToldIsWritten == AlertIInv => ToldIsStored
<1> SUFFICES ASSUME AlertIInv PROVE ToldIsStored
  OBVIOUS
<1>1. DOMAIN alerts \subseteq AlertIds
  BY StoresAre DEF AlertIInv, StoresAreSound
<1> QED
  BY <1>1 DEF AlertIInv, FileIsCurrent, ToldIsShown, ToldIsStored

\* What becomes of the histories when one alert is changed, and written or not.
LEMMA AlertChanged ==
    ASSUME AlertIInv, NEW i, NEW ok \in BOOLEAN, PersistState(i, ok), alerts' \in Stores,
           \A k : k # i => (k \in DOMAIN alerts' <=> k \in DOMAIN alerts),
           \A k \in DOMAIN alerts : k # i => alerts'[k] = alerts[k],
           TellNobody({i}) \/ (Tell(i) /\ i \in DOMAIN alerts')
    PROVE  alertFile' \in Stores /\ FileIsCurrent' /\ ToldIsShown'
<1>0. StoresAreSound /\ FileIsCurrent /\ ToldIsShown
  BY DEF AlertIInv
<1>1. \/ alertFile' = alerts' /\ unwritten' = {}
      \/ alertFile' = alertFile /\ unwritten' = unwritten \cup {i}
  BY DEF PersistState
<1>2. alertFile' \in Stores /\ FileIsCurrent'
  BY <1>0, <1>1 DEF StoresAreSound, FileIsCurrent
<1>3. CASE TellNobody({i})
  <2>1. DOMAIN told' = DOMAIN told \ {i} /\ \A k \in DOMAIN told' : told'[k] = told[k]
    BY <1>3 DEF TellNobody
  <2> QED
    BY <1>0, <1>2, <2>1 DEF ToldIsShown
<1>4. CASE Tell(i) /\ i \in DOMAIN alerts'
  <2>1. /\ DOMAIN told' = DOMAIN told \cup {i} /\ told'[i] = alerts'[i].state
        /\ \A k \in DOMAIN told : k # i => told'[k] = told[k]
    BY <1>4 DEF Tell
  <2> QED
    BY <1>0, <1>2, <1>4, <2>1 DEF ToldIsShown
<1> QED
  BY <1>3, <1>4

LEMMA AlertCreated ==
    ASSUME AlertIInv, NEW severity \in Severities, CreateAlert(severity)
    PROVE  AlertIInv'
<1>0. StoresAreSound /\ AboutToTell
  BY DEF AlertIInv
<1>1. PICK ok \in BOOLEAN : PersistState(created', ok) /\ alertPc' = IF ok THEN "notify" ELSE "idle"
  BY DEF CreateAlert
<1>2. /\ created' = created + 1 /\ created' \in AlertIds
      /\ DOMAIN alerts' = DOMAIN alerts \cup {created'}
      /\ alerts' = [i \in DOMAIN alerts' |-> alerts'[i]]
      /\ alerts'[created'] = [state |-> "active", severity |-> severity]
      /\ \A i \in DOMAIN alerts : i # created' => alerts'[i] = alerts[i]
      /\ TellNobody({created'})
  BY <1>0, AlertsAssumption DEF CreateAlert, StoresAreSound, AlertIds
<1>3. alerts' \in Stores
  <2>1. [state |-> "active", severity |-> severity] \in [state : AlertStates, severity : Severities]
    BY DEF AlertStates
  <2> QED
    BY <1>0, <1>2, <2>1, StoresAre DEF StoresAreSound
<1>4. alertFile' \in Stores /\ FileIsCurrent' /\ ToldIsShown'
  BY <1>1, <1>2, <1>3, AlertChanged
<1>5. StoresAreSound' /\ AboutToTell'
  BY <1>0, <1>1, <1>2, <1>3, <1>4 DEF StoresAreSound, AboutToTell, AlertIds
<1> QED
  BY <1>4, <1>5 DEF AlertIInv

\* A client is told what is in memory, and nothing else changes.
LEMMA AlertAnswered ==
    ASSUME AlertIInv, NEW i \in DOMAIN alerts, Tell(i), alertPc' \in {"idle", "check"},
           UNCHANGED <<alerts, alertFile, created, unwritten>>
    PROVE  AlertIInv'
<1>0. StoresAreSound /\ FileIsCurrent /\ ToldIsShown
  BY DEF AlertIInv
<1>1. /\ DOMAIN told' = DOMAIN told \cup {i} /\ told'[i] = alerts[i].state
      /\ \A k \in DOMAIN told : k # i => told'[k] = told[k]
  BY DEF Tell
<1>2. StoresAreSound' /\ AboutToTell' /\ FileIsCurrent'
  BY <1>0 DEF StoresAreSound, AboutToTell, FileIsCurrent
<1>3. ToldIsShown'
  BY <1>0, <1>1 DEF ToldIsShown
<1> QED
  BY <1>2, <1>3 DEF AlertIInv

\* The state of an alert is set by a request, which tells its client so, or by a check.
LEMMA AlertSet ==
    ASSUME AlertIInv, alertPc # "notify", NEW i, NEW s \in AlertStates, SetState(i, s),
           NEW ok \in BOOLEAN, PersistState(i, ok),
           TellNobody({i}) \/ (Tell(i) /\ i \in DOMAIN alerts),
           created' = created, alertPc' \in {"idle", "check"}
    PROVE  AlertIInv'
<1>0. StoresAreSound
  BY DEF AlertIInv
<1>1. /\ alerts' \in Stores /\ DOMAIN alerts' = DOMAIN alerts
      /\ \A k \in DOMAIN alerts : k # i => alerts'[k] = alerts[k]
  BY <1>0, StateSet DEF SetState, StoresAreSound
<1>2. alertFile' \in Stores /\ FileIsCurrent' /\ ToldIsShown'
  BY <1>1, AlertChanged
<1>3. StoresAreSound' /\ AboutToTell'
  BY <1>0, <1>1, <1>2 DEF StoresAreSound, AboutToTell
<1> QED
  BY <1>2, <1>3 DEF AlertIInv

LEMMA AlertProcessed ==
    ASSUME AlertIInv, ProcessAlert
    PROVE  AlertIInv'
<1>0. StoresAreSound /\ AboutToTell /\ FileIsCurrent /\ ToldIsShown
  BY DEF AlertIInv
<1> DEFINE i == Head(toCheck)
<1>1. PICK raises \in BOOLEAN : ExecuteEscalation(i, raises) \/ PassOver(raises)
  BY DEF ProcessAlert, MayRaise
<1>2. alertPc = "check" /\ created' = created /\ "escalated" \in AlertStates
  BY DEF ProcessAlert, AlertStates
<1>3. CASE ExecuteEscalation(i, raises)
  <2>1. PICK ok \in BOOLEAN : PersistState(i, ok) /\ GoOn(ok /\ ~raises)
    BY <1>3 DEF ExecuteEscalation
  <2>2. SetState(i, "escalated") /\ TellNobody({i}) /\ alertPc' \in {"idle", "check"}
    BY <1>3, <2>1 DEF ExecuteEscalation, GoOn
  <2> QED
    BY <1>2, <2>1, <2>2, AlertSet
<1>4. CASE PassOver(raises)
  BY <1>0, <1>2, <1>4
  DEF PassOver, GoOn, AlertIInv, StoresAreSound, AboutToTell, FileIsCurrent, ToldIsShown
<1> QED
  BY <1>1, <1>3, <1>4

LEMMA AlertStepInv == AlertIInv /\ [AlertNext]_alertVars => AlertIInv'
<1> SUFFICES ASSUME AlertIInv, [AlertNext]_alertVars PROVE AlertIInv'
  OBVIOUS
<1>0. StoresAreSound /\ AboutToTell /\ FileIsCurrent /\ ToldIsShown
  BY DEF AlertIInv
<1>1. ASSUME NEW i \in AlertIds, NEW state \in AlertStates \ {"active"}, ChangeAlert(i, state) PROVE AlertIInv'
  <2>1. PICK ok \in BOOLEAN : PersistState(i, ok) /\ IF ok THEN Tell(i) ELSE TellNobody({i})
    BY <1>1 DEF ChangeAlert
  <2> QED
    BY <1>1, <2>1, AlertSet DEF ChangeAlert
<1>2. ASSUME NEW i \in AlertIds, RefuseAcknowledge(i) \/ ReadAlert(i) PROVE AlertIInv'
  BY <1>2, AlertAnswered DEF RefuseAcknowledge, ReadAlert, Answer
<1>3. CASE Notify
  BY <1>0, <1>3, AlertAnswered DEF Notify, AboutToTell
<1>4. CASE CheckPending \/ EndCheck
  BY <1>0, <1>4
  DEF CheckPending, EndCheck, AlertIInv, StoresAreSound, AboutToTell, FileIsCurrent, ToldIsShown
<1>5. CASE ApiKilled
  <2>1. /\ alerts' = alertFile /\ alertFile' = alertFile /\ unwritten' = {}
        /\ alertPc' = "idle" /\ created' = created
        /\ DOMAIN told' = DOMAIN told \ unwritten /\ \A i \in DOMAIN told' : told'[i] = told[i]
    BY <1>5 DEF ApiKilled, TellNobody
  <2>2. StoresAreSound' /\ AboutToTell' /\ FileIsCurrent'
    BY <1>0, <2>1 DEF StoresAreSound, AboutToTell, FileIsCurrent
  <2>3. DOMAIN alerts \subseteq AlertIds
    BY <1>0, StoresAre DEF StoresAreSound
  <2>4. ToldIsShown'
    BY <1>0, <2>1, <2>3 DEF ToldIsShown, FileIsCurrent
  <2> QED
    BY <2>2, <2>4 DEF AlertIInv
<1>6. ASSUME NEW severities, NEW faulty, ChangeRules(severities, faulty) PROVE AlertIInv'
  BY <1>0, <1>6 DEF ChangeRules, AlertIInv, StoresAreSound, AboutToTell, FileIsCurrent, ToldIsShown
<1>7. ASSUME NEW i, Age(i) PROVE AlertIInv'
  BY <1>0, <1>7 DEF Age, AlertIInv, StoresAreSound, AboutToTell, FileIsCurrent, ToldIsShown
<1>8. CASE UNCHANGED alertVars
  BY <1>0, <1>8 DEF alertVars, AlertIInv, StoresAreSound, AboutToTell, FileIsCurrent, ToldIsShown
<1> QED
  BY <1>1, <1>2, <1>3, <1>4, <1>5, <1>6, <1>7, <1>8, AlertCreated, AlertProcessed DEF AlertNext

-----------------------------------------------------------------------------
(* Dataset builds: who has which job in hand, and whose the files are. *)

InHand == {"claim", "build", "fail"}

\* A worker has a job in hand that is there: one it selected is queued still, one it builds runs,
\* and one it is to mark as failed runs or has been marked as succeeded.
HeldRow ==
    \A w \in BuildWorkers :
        /\ workerPc[w] \in InHand => held[w] \in DOMAIN builds
        /\ workerPc[w] = "claim" => builds[held[w]].status = "queued"
        /\ workerPc[w] = "build" => builds[held[w]].status = "running"
        /\ workerPc[w] = "fail" => builds[held[w]].status \in {"running", "succeeded"}

\* No two workers have the same job in hand.
OneWorker ==
    \A v, w \in BuildWorkers :
        workerPc[v] \in InHand /\ workerPc[w] \in InHand /\ held[v] = held[w] => v = w

\* A job is claimed when it leaves the queue other than by a cancellation.
ClaimedFirst ==
    \A j \in BuildIds :
        /\ j \in DOMAIN builds => claims[j] = (IF builds[j].status \in {"queued", "cancelled"} THEN 0 ELSE 1)
        /\ j \notin DOMAIN builds => claims[j] = 0

\* A file was last written by a job of its directory that has been claimed.
WrittenByClaimed ==
    \A d \in Directories, f \in Files :
        contents[d][f] # 0 =>
            /\ contents[d][f] \in DOMAIN builds /\ builds[contents[d][f]].directory = d
            /\ claims[contents[d][f]] > 0

\* What a worker has written so far is there, and is its own unless another build was made there.
WrittenBy(w) ==
    LET order == WriteOrder(builds[held[w]].version)
        d == builds[held[w]].directory
    IN  /\ written[w] <= Len(order)
        /\ \A n \in 1..written[w] :
              /\ contents[d][order[n]] # 0
              /\ Others(held[w]) = {} => contents[d][order[n]] = held[w]
WrittenIsThere == \A w \in BuildWorkers : workerPc[w] = "build" => WrittenBy(w)

BuildIInv ==
    BuildTypeOK /\ HeldRow /\ OneWorker /\ ClaimedFirst /\ WrittenByClaimed /\ WrittenIsThere /\ SucceededIsWhole

LEMMA WrittenKept ==
    ASSUME HeldRow, WrittenIsThere, NEW v \in BuildWorkers, workerPc[v] = "build",
           held'[v] = held[v], written'[v] = written[v], contents' = contents,
           \A k \in DOMAIN builds : /\ builds'[k].version = builds[k].version
                                    /\ builds'[k].directory = builds[k].directory
                                    /\ Others(k) \subseteq Others(k)'
    PROVE  WrittenBy(v)'
<1>1. PICK k \in DOMAIN builds : held[v] = k /\ held'[v] = k
  BY DEF HeldRow, InHand
<1>2. /\ builds'[k].version = builds[k].version /\ builds'[k].directory = builds[k].directory
      /\ Others(k)' = {} => Others(k) = {}
  BY <1>1
<1>3. WrittenBy(v)
  BY DEF WrittenIsThere
<1> QED
  BY <1>1, <1>2, <1>3 DEF WrittenBy

LEMMA BuildInitInv == BuildInit => BuildIInv
<1> SUFFICES ASSUME BuildInit PROVE BuildIInv
  OBVIOUS
<1>1. BuildTypeOK
  BY DatasetBuildsAssumption DEF BuildInit, BuildTypeOK, BuildIds
<1>2. HeldRow /\ OneWorker /\ ClaimedFirst
  BY DEF BuildInit, HeldRow, OneWorker, ClaimedFirst, InHand
<1>3. WrittenByClaimed /\ WrittenIsThere /\ SucceededIsWhole
  BY DEF BuildInit, WrittenByClaimed, WrittenIsThere, SucceededIsWhole
<1> QED
  BY <1>1, <1>2, <1>3 DEF BuildIInv

\* The three files of a build, in the order in which it writes them.
LEMMA OrderOfFiles ==
    ASSUME NEW version \in {1, 3}
    PROVE  /\ Len(WriteOrder(version)) \in {2, 3} /\ (Len(WriteOrder(version)) = 3 <=> version = 3)
           /\ \A n \in 1..Len(WriteOrder(version)) : WriteOrder(version)[n] \in Files
           /\ \A m, n \in 1..Len(WriteOrder(version)) :
                 WriteOrder(version)[m] = WriteOrder(version)[n] => m = n
           /\ \A n \in 1..Len(WriteOrder(version)) : WriteOrder(version)[n] = "_SUCCESS" => n = 3
           /\ version = 3 => /\ \A f \in Files : \E n \in 1..3 : WriteOrder(version)[n] = f
                             /\ WriteOrder(version)[3] = "_SUCCESS"
  BY DEF WriteOrder, Files

\* The row of a job whose status a statement sets.
LEMMA StatusSet ==
    ASSUME builds \in Seq(BuildRows), NEW j \in DOMAIN builds,
           NEW s \in {"queued", "running", "succeeded", "failed", "cancelled"},
           builds' = [builds EXCEPT ![j].status = s]
    PROVE  /\ builds' \in Seq(BuildRows) /\ Len(builds') = Len(builds) /\ DOMAIN builds' = DOMAIN builds
           /\ builds'[j].status = s
           /\ \A k \in DOMAIN builds : /\ builds'[k].directory = builds[k].directory
                                       /\ builds'[k].version = builds[k].version
                                       /\ k # j => builds'[k].status = builds[k].status
<1>1. builds[j] \in BuildRows
  OBVIOUS
<1>2. [builds[j] EXCEPT !.status = s] \in BuildRows
  BY <1>1 DEF BuildRows
<1>3. builds' = [builds EXCEPT ![j] = [builds[j] EXCEPT !.status = s]]
  OBVIOUS
<1>4. builds' \in Seq(BuildRows) /\ Len(builds') = Len(builds) /\ DOMAIN builds' = DOMAIN builds
  BY <1>2, <1>3
<1>5. builds'[j] = [builds[j] EXCEPT !.status = s] /\ \A k \in DOMAIN builds : k # j => builds'[k] = builds[k]
  BY <1>3
<1>6. /\ builds'[j].status = s /\ builds'[j].directory = builds[j].directory
      /\ builds'[j].version = builds[j].version
  BY <1>1, <1>5 DEF BuildRows
<1> QED
  BY <1>4, <1>5, <1>6

\* Another build made in a directory stays another build made there.
LEMMA OthersGrow ==
    ASSUME BuildTypeOK, NEW j \in DOMAIN builds,
           DOMAIN builds \subseteq DOMAIN builds', DOMAIN builds \subseteq BuildIds,
           \A k \in DOMAIN builds : builds'[k].directory = builds[k].directory,
           \A k \in BuildIds : claims'[k] \in Nat /\ claims'[k] >= claims[k]
    PROVE  Others(j) \subseteq Others(j)'
  BY DEF Others, BuildTypeOK

\* The jobs that are there are numbered from 1.
LEMMA BuildIdsThere ==
    ASSUME BuildTypeOK
    PROVE  /\ DOMAIN builds = 1..Len(builds) /\ DOMAIN builds \subseteq BuildIds /\ Len(builds) \in Nat
           /\ \A j \in DOMAIN builds : builds[j] \in BuildRows
           /\ MaxBuilds \in Nat /\ MaxBuildFaults \in Nat
  BY DatasetBuildsAssumption DEF BuildTypeOK, BuildIds

LEMMA BuildCreated ==
    ASSUME BuildIInv, NEW d \in Directories, NEW version \in {1, 3}, CreateBuildJob(d, version)
    PROVE  BuildIInv'
<1> DEFINE row == [status |-> "queued", directory |-> d, version |-> version]
           new == Len(builds) + 1
<1>0. BuildTypeOK /\ HeldRow /\ OneWorker /\ ClaimedFirst /\ WrittenByClaimed /\ WrittenIsThere /\ SucceededIsWhole
  BY DEF BuildIInv
<1>1. row \in BuildRows /\ row.status = "queued"
  BY DEF BuildRows
<1>2. builds' = Append(builds, row) /\ Len(builds) < MaxBuilds
      /\ UNCHANGED <<artifacts, contents, workerPc, held, written, claims, buildFaults>>
  BY DEF CreateBuildJob
<1> HIDE DEF row
<1>3. /\ builds' \in Seq(BuildRows) /\ Len(builds') = new
      /\ DOMAIN builds = 1..Len(builds) /\ DOMAIN builds' = 1..new
      /\ builds'[new] = row /\ \A j \in DOMAIN builds : builds'[j] = builds[j]
  BY <1>0, <1>1, <1>2, BuildIdsThere DEF BuildTypeOK
<1>4. /\ new \notin DOMAIN builds /\ new \in BuildIds /\ DOMAIN builds' = DOMAIN builds \cup {new}
      /\ DOMAIN builds \subseteq BuildIds
  BY <1>0, <1>2, <1>3, BuildIdsThere DEF BuildIds
<1>5. claims[new] = 0
  BY <1>0, <1>4 DEF ClaimedFirst
<1> HIDE DEF new
<1>6. BuildTypeOK'
  BY <1>0, <1>2, <1>3, BuildIdsThere DEF BuildTypeOK, new
<1>7. HeldRow' /\ OneWorker'
  BY <1>0, <1>2, <1>3, <1>4 DEF HeldRow, OneWorker, InHand
<1>8. ClaimedFirst'
  BY <1>0, <1>1, <1>2, <1>3, <1>4, <1>5 DEF ClaimedFirst
<1>9. WrittenByClaimed'
  BY <1>0, <1>2, <1>3, <1>4 DEF WrittenByClaimed
<1>10. \A j \in DOMAIN builds : Others(j)' = Others(j)
  BY <1>0, <1>2, <1>3, <1>4, <1>5 DEF Others
<1>11. WrittenIsThere'
  <2>1. ASSUME NEW v \in BuildWorkers, workerPc'[v] = "build" PROVE WrittenBy(v)'
    BY <1>0, <1>2, <1>3, <1>10, <2>1, WrittenKept
  <2> QED
    BY <2>1 DEF WrittenIsThere
<1>12. SucceededIsWhole'
  <2> SUFFICES ASSUME NEW j \in DOMAIN builds'
               PROVE /\ contents[builds'[j].directory]["_SUCCESS"] = j /\ Others(j)' = {}
                          => \A f \in Files : contents[builds'[j].directory][f] = j
                     /\ builds'[j].status = "succeeded" /\ builds'[j].version = 3
                          => /\ artifacts[j] = Files
                             /\ Others(j)' = {} => contents[builds'[j].directory]["_SUCCESS"] = j
    BY <1>2 DEF SucceededIsWhole
  <2>1. CASE j \in DOMAIN builds
    BY <1>0, <1>2, <1>3, <1>10, <2>1 DEF SucceededIsWhole
  <2>2. CASE j = new
    <3>1. builds'[j].status = "queued" /\ builds'[j].directory \in Directories
      BY <1>1, <1>3, <2>2 DEF BuildRows
    <3>2. contents[builds'[j].directory]["_SUCCESS"] # j
      BY <1>0, <1>4, <1>5, <2>2, <3>1 DEF WrittenByClaimed, BuildIds, Files
    <3> QED
      BY <3>1, <3>2
  <2> QED
    BY <1>4, <2>1, <2>2
<1> QED
  BY <1>6, <1>7, <1>8, <1>9, <1>11, <1>12 DEF BuildIInv

\* The steps in which only a worker's place changes, to one where it builds nothing, or from a build
\* to the mark of its failure.
LEMMA BuildAbandoned ==
    ASSUME BuildIInv, NEW w \in BuildWorkers, NEW place \in {"poll", "fail", "ended"}, At(w, place),
           UNCHANGED <<builds, artifacts, contents, held, written, claims>>,
           buildFaults' \in 0..MaxBuildFaults, place = "fail" => workerPc[w] = "build"
    PROVE  BuildIInv'
<1>0. BuildTypeOK /\ HeldRow /\ OneWorker /\ ClaimedFirst /\ WrittenByClaimed /\ WrittenIsThere /\ SucceededIsWhole
  BY DEF BuildIInv
<1>1. /\ workerPc' \in [BuildWorkers -> {"poll", "claim", "build", "fail", "ended"}]
      /\ workerPc'[w] = place /\ \A v \in BuildWorkers \ {w} : workerPc'[v] = workerPc[v]
  BY <1>0 DEF At, BuildTypeOK
<1>2. BuildTypeOK'
  BY <1>0, <1>1 DEF BuildTypeOK
<1>3. HeldRow' /\ OneWorker'
  BY <1>0, <1>1 DEF HeldRow, OneWorker, InHand
<1>4. ClaimedFirst' /\ WrittenByClaimed'
  BY <1>0 DEF ClaimedFirst, WrittenByClaimed
<1>5. \A j \in DOMAIN builds : Others(j)' = Others(j)
  BY DEF Others
<1>6. SucceededIsWhole'
  BY <1>0, <1>5 DEF SucceededIsWhole
<1>7. WrittenIsThere'
  <2>1. ASSUME NEW v \in BuildWorkers, workerPc'[v] = "build" PROVE WrittenBy(v)'
    BY <1>0, <1>1, <1>5, <2>1, WrittenKept
  <2> QED
    BY <2>1 DEF WrittenIsThere
<1> QED
  BY <1>2, <1>3, <1>4, <1>6, <1>7 DEF BuildIInv

LEMMA BuildSelected ==
    ASSUME BuildIInv, NEW w \in BuildWorkers, SelectBuild(w)
    PROVE  BuildIInv'
<1>0. BuildTypeOK /\ HeldRow /\ OneWorker /\ ClaimedFirst /\ WrittenByClaimed /\ WrittenIsThere /\ SucceededIsWhole
  BY DEF BuildIInv
<1>1. PICK j \in DOMAIN builds : Free(j) /\ held' = [held EXCEPT ![w] = j]
  BY DEF SelectBuild
<1>2. UNCHANGED <<builds, artifacts, contents, written, claims, buildFaults>>
      /\ workerPc' = [workerPc EXCEPT ![w] = "claim"]
  BY DEF SelectBuild, At
<1>3. /\ workerPc' \in [BuildWorkers -> {"poll", "claim", "build", "fail", "ended"}]
      /\ workerPc'[w] = "claim" /\ \A v \in BuildWorkers \ {w} : workerPc'[v] = workerPc[v]
      /\ held' \in [BuildWorkers -> BuildIds \cup {0}]
      /\ held'[w] = j /\ \A v \in BuildWorkers \ {w} : held'[v] = held[v]
  BY <1>0, <1>1, <1>2, BuildIdsThere DEF BuildTypeOK
<1>4. BuildTypeOK'
  BY <1>0, <1>2, <1>3 DEF BuildTypeOK
<1>5. builds[j].status = "queued" /\ \A v \in BuildWorkers : workerPc[v] = "claim" => held[v] # j
  BY <1>1 DEF Free, Locked
<1>6. HeldRow'
  BY <1>0, <1>2, <1>3, <1>5 DEF HeldRow, InHand
<1>7. OneWorker'
  BY <1>0, <1>3, <1>5 DEF OneWorker, HeldRow, InHand
<1>8. ClaimedFirst' /\ WrittenByClaimed'
  BY <1>0, <1>2 DEF ClaimedFirst, WrittenByClaimed
<1>9. \A k \in DOMAIN builds : Others(k)' = Others(k)
  BY <1>2 DEF Others
<1>10. SucceededIsWhole'
  BY <1>0, <1>2, <1>9 DEF SucceededIsWhole
<1>11. WrittenIsThere'
  <2>1. ASSUME NEW v \in BuildWorkers, workerPc'[v] = "build" PROVE WrittenBy(v)'
    BY <1>0, <1>2, <1>3, <1>9, <2>1, WrittenKept
  <2> QED
    BY <2>1 DEF WrittenIsThere
<1> QED
  BY <1>4, <1>6, <1>7, <1>8, <1>10, <1>11 DEF BuildIInv

LEMMA BuildCancelled ==
    ASSUME BuildIInv, NEW j \in DOMAIN builds, CancelBuildJob(j)
    PROVE  BuildIInv'
<1>0. BuildTypeOK /\ HeldRow /\ OneWorker /\ ClaimedFirst /\ WrittenByClaimed /\ WrittenIsThere /\ SucceededIsWhole
  BY DEF BuildIInv
<1>1. /\ builds[j].status = "queued" /\ builds' = [builds EXCEPT ![j].status = "cancelled"]
      /\ \A v \in BuildWorkers : workerPc[v] = "claim" => held[v] # j
      /\ UNCHANGED <<artifacts, contents, workerPc, held, written, claims, buildFaults>>
  BY DEF CancelBuildJob, Locked
<1>2. /\ builds' \in Seq(BuildRows) /\ Len(builds') = Len(builds) /\ DOMAIN builds' = DOMAIN builds
      /\ builds'[j].status = "cancelled"
      /\ \A k \in DOMAIN builds : /\ builds'[k].directory = builds[k].directory
                                  /\ builds'[k].version = builds[k].version
                                  /\ k # j => builds'[k].status = builds[k].status
  BY <1>0, <1>1, StatusSet DEF BuildTypeOK
<1>3. BuildTypeOK'
  BY <1>0, <1>1, <1>2 DEF BuildTypeOK
<1>4. HeldRow' /\ OneWorker'
  BY <1>0, <1>1, <1>2 DEF HeldRow, OneWorker, InHand
<1>5. ClaimedFirst' /\ WrittenByClaimed'
  BY <1>0, <1>1, <1>2 DEF ClaimedFirst, WrittenByClaimed
<1>6. \A k \in DOMAIN builds : Others(k)' = Others(k)
  BY <1>1, <1>2 DEF Others
<1>7. WrittenIsThere'
  <2>1. ASSUME NEW v \in BuildWorkers, workerPc'[v] = "build" PROVE WrittenBy(v)'
    BY <1>0, <1>1, <1>2, <1>6, <2>1, WrittenKept
  <2> QED
    BY <2>1 DEF WrittenIsThere
<1>8. SucceededIsWhole'
  BY <1>0, <1>1, <1>2, <1>6 DEF SucceededIsWhole
<1> QED
  BY <1>3, <1>4, <1>5, <1>7, <1>8 DEF BuildIInv

LEMMA BuildClaimed ==
    ASSUME BuildIInv, NEW w \in BuildWorkers, ClaimBuild(w)
    PROVE  BuildIInv'
<1> DEFINE j == held[w]
<1>0. BuildTypeOK /\ HeldRow /\ OneWorker /\ ClaimedFirst /\ WrittenByClaimed /\ WrittenIsThere /\ SucceededIsWhole
  BY DEF BuildIInv
<1>1. /\ workerPc[w] = "claim" /\ builds' = [builds EXCEPT ![j].status = "running"]
      /\ claims' = [claims EXCEPT ![j] = @ + 1] /\ written' = [written EXCEPT ![w] = 0]
      /\ workerPc' = [workerPc EXCEPT ![w] = "build"]
      /\ UNCHANGED <<artifacts, contents, held, buildFaults>>
  BY DEF ClaimBuild, At
<1>2. j \in DOMAIN builds /\ j \in BuildIds /\ builds[j].status = "queued" /\ claims[j] = 0
      /\ DOMAIN builds \subseteq BuildIds
  BY <1>0, <1>1, BuildIdsThere DEF HeldRow, InHand, ClaimedFirst
<1> HIDE DEF j
<1>3. /\ builds' \in Seq(BuildRows) /\ Len(builds') = Len(builds) /\ DOMAIN builds' = DOMAIN builds
      /\ builds'[j].status = "running"
      /\ \A k \in DOMAIN builds : /\ builds'[k].directory = builds[k].directory
                                  /\ builds'[k].version = builds[k].version
                                  /\ k # j => builds'[k].status = builds[k].status
  BY <1>0, <1>1, <1>2, StatusSet DEF BuildTypeOK
<1>4. /\ claims' \in [BuildIds -> Nat] /\ claims'[j] = 1
      /\ \A k \in BuildIds \ {j} : claims'[k] = claims[k]
  BY <1>0, <1>1, <1>2 DEF BuildTypeOK
<1>5. /\ workerPc' \in [BuildWorkers -> {"poll", "claim", "build", "fail", "ended"}]
      /\ workerPc'[w] = "build" /\ \A v \in BuildWorkers \ {w} : workerPc'[v] = workerPc[v]
      /\ written' \in [BuildWorkers -> Nat]
      /\ written'[w] = 0 /\ \A v \in BuildWorkers \ {w} : written'[v] = written[v]
  BY <1>0, <1>1 DEF BuildTypeOK
<1>6. BuildTypeOK'
  BY <1>0, <1>1, <1>3, <1>4, <1>5 DEF BuildTypeOK
<1>7. \A v \in BuildWorkers \ {w} : workerPc[v] \in InHand => held[v] # j
  BY <1>0, <1>1 DEF OneWorker, InHand, j
<1>8. HeldRow'
  BY <1>0, <1>1, <1>3, <1>5, <1>7, <1>2 DEF HeldRow, InHand, j
<1>9. OneWorker'
  BY <1>0, <1>1, <1>5 DEF OneWorker, InHand
<1>10. ClaimedFirst' /\ WrittenByClaimed'
  BY <1>0, <1>1, <1>2, <1>3, <1>4 DEF ClaimedFirst, WrittenByClaimed
<1>11. \A k \in DOMAIN builds : Others(k) \subseteq Others(k)'
  <2>1. ASSUME NEW k \in BuildIds PROVE claims'[k] \in Nat /\ claims'[k] >= claims[k]
    <3>1. claims[k] \in Nat /\ claims'[k] \in Nat
      BY <1>0, <1>4 DEF BuildTypeOK
    <3> QED
      BY <1>2, <1>4, <3>1
  <2> QED
    BY <1>0, <1>2, <1>3, <2>1, OthersGrow
<1>12. WrittenIsThere'
  <2>1. /\ workerPc'[w] = "build" /\ written'[w] = 0 /\ held'[w] = j
        /\ builds'[j].version \in {1, 3}
    BY <1>1, <1>2, <1>3, <1>5 DEF BuildRows, j
  <2>2. Len(WriteOrder(builds'[j].version)) >= 0
    BY <2>1, OrderOfFiles
  <2>3. WrittenBy(w)'
    BY <2>1, <2>2 DEF WrittenBy
  <2>4. ASSUME NEW v \in BuildWorkers, v # w, workerPc'[v] = "build" PROVE WrittenBy(v)'
    BY <1>0, <1>1, <1>3, <1>5, <1>11, <2>4, WrittenKept
  <2> QED
    BY <2>3, <2>4 DEF WrittenIsThere
<1>13. SucceededIsWhole'
  BY <1>0, <1>1, <1>2, <1>3, <1>11 DEF SucceededIsWhole
<1> QED
  BY <1>6, <1>8, <1>9, <1>10, <1>12, <1>13 DEF BuildIInv

\* A build that is done is marked as succeeded, and one that failed as failed; the worker goes on,
\* or has lost the answer and marks the job once more.
LEMMA BuildMarked ==
    ASSUME BuildIInv, NEW w \in BuildWorkers, FinishBuild(w) \/ FailBuild(w)
    PROVE  BuildIInv'
<1> DEFINE j == held[w]
<1>0. BuildTypeOK /\ HeldRow /\ OneWorker /\ ClaimedFirst /\ WrittenByClaimed /\ WrittenIsThere /\ SucceededIsWhole
  BY DEF BuildIInv
<1>1. PICK s \in {"succeeded", "failed"}, place \in {"poll", "fail"} :
         /\ builds' = [builds EXCEPT ![j].status = s]
         /\ workerPc' = [workerPc EXCEPT ![w] = place]
         /\ s = "failed" => workerPc[w] = "fail" /\ place = "poll" /\ UNCHANGED artifacts
         /\ s = "succeeded" => /\ workerPc[w] = "build" /\ written[w] = Len(WriteOrder(builds[j].version))
                               /\ artifacts' = [artifacts EXCEPT ![j] = Listed(builds[j].directory)]
         /\ buildFaults' \in 0..MaxBuildFaults
         /\ UNCHANGED <<contents, held, written, claims>>
  <2>1. CASE FinishBuild(w)
    BY <1>0, <2>1, BuildIdsThere DEF FinishBuild, Row, At, BuildFault, BuildTypeOK
  <2>2. CASE FailBuild(w)
    BY <1>0, <2>2 DEF FailBuild, At, BuildTypeOK
  <2> QED
    BY <2>1, <2>2
<1>2. /\ j \in DOMAIN builds /\ j \in BuildIds /\ builds[j].status \in {"running", "succeeded"}
      /\ builds[j].directory \in Directories /\ builds[j].version \in {1, 3} /\ claims[j] = 1
      /\ DOMAIN builds \subseteq BuildIds
  BY <1>0, <1>1, BuildIdsThere DEF HeldRow, InHand, ClaimedFirst, BuildRows
<1> HIDE DEF j
<1>3. /\ builds' \in Seq(BuildRows) /\ Len(builds') = Len(builds) /\ DOMAIN builds' = DOMAIN builds
      /\ builds'[j].status = s
      /\ \A k \in DOMAIN builds : /\ builds'[k].directory = builds[k].directory
                                  /\ builds'[k].version = builds[k].version
                                  /\ k # j => builds'[k].status = builds[k].status
  BY <1>0, <1>1, <1>2, StatusSet DEF BuildTypeOK
<1>4. /\ workerPc' \in [BuildWorkers -> {"poll", "claim", "build", "fail", "ended"}]
      /\ workerPc'[w] = place /\ \A v \in BuildWorkers \ {w} : workerPc'[v] = workerPc[v]
  BY <1>0, <1>1 DEF BuildTypeOK
<1>5. /\ artifacts' \in [BuildIds -> SUBSET Files]
      /\ s = "succeeded" => artifacts'[j] = Listed(builds[j].directory)
      /\ \A k \in BuildIds \ {j} : artifacts'[k] = artifacts[k]
  BY <1>0, <1>1, <1>2 DEF BuildTypeOK, Listed
<1>6. BuildTypeOK'
  BY <1>0, <1>1, <1>3, <1>4, <1>5 DEF BuildTypeOK
<1>7. \A v \in BuildWorkers \ {w} : workerPc[v] \in InHand => held[v] # j
  BY <1>0, <1>1 DEF OneWorker, InHand, j
<1>8. HeldRow'
  BY <1>0, <1>1, <1>2, <1>3, <1>4, <1>7 DEF HeldRow, InHand, j
<1>9. OneWorker'
  BY <1>0, <1>1, <1>4 DEF OneWorker, InHand
<1>10. ClaimedFirst' /\ WrittenByClaimed'
  BY <1>0, <1>1, <1>2, <1>3 DEF ClaimedFirst, WrittenByClaimed
<1>11. \A k \in DOMAIN builds : Others(k)' = Others(k)
  BY <1>1, <1>3 DEF Others
<1>12. WrittenIsThere'
  <2>1. ASSUME NEW v \in BuildWorkers, workerPc'[v] = "build" PROVE WrittenBy(v)'
    BY <1>0, <1>1, <1>3, <1>4, <1>11, <2>1, WrittenKept
  <2> QED
    BY <2>1 DEF WrittenIsThere
<1>13. s = "succeeded" /\ builds[j].version = 3
         => /\ artifacts'[j] = Files
            /\ Others(j) = {} => contents[builds[j].directory]["_SUCCESS"] = j
  <2> SUFFICES ASSUME s = "succeeded", builds[j].version = 3
               PROVE  /\ artifacts'[j] = Files
                      /\ Others(j) = {} => contents[builds[j].directory]["_SUCCESS"] = j
    OBVIOUS
  <2>1. workerPc[w] = "build" /\ written[w] = 3 /\ Len(WriteOrder(3)) = 3
    BY <1>1, OrderOfFiles
  <2>2. \A n \in 1..3 : /\ contents[builds[j].directory][WriteOrder(3)[n]] # 0
                        /\ Others(j) = {} => contents[builds[j].directory][WriteOrder(3)[n]] = j
    BY <1>0, <2>1 DEF WrittenIsThere, WrittenBy, j
  <2>3. (\A f \in Files : \E n \in 1..3 : WriteOrder(3)[n] = f) /\ WriteOrder(3)[3] = "_SUCCESS"
    BY OrderOfFiles
  <2>4. Listed(builds[j].directory) = Files
    BY <2>2, <2>3 DEF Listed
  <2> QED
    BY <1>5, <2>2, <2>3, <2>4
<1>14. SucceededIsWhole'
  <2> SUFFICES ASSUME NEW k \in DOMAIN builds
               PROVE /\ contents[builds'[k].directory]["_SUCCESS"] = k /\ Others(k)' = {}
                          => \A f \in Files : contents[builds'[k].directory][f] = k
                     /\ builds'[k].status = "succeeded" /\ builds'[k].version = 3
                          => /\ artifacts'[k] = Files
                             /\ Others(k)' = {} => contents[builds'[k].directory]["_SUCCESS"] = k
    BY <1>1, <1>3 DEF SucceededIsWhole
  <2>1. CASE k # j
    BY <1>0, <1>1, <1>2, <1>3, <1>5, <1>11, <2>1 DEF SucceededIsWhole
  <2>2. CASE k = j
    <3>1. /\ builds'[k].directory = builds[j].directory /\ builds'[k].version = builds[j].version
          /\ builds'[k].status = s /\ Others(k)' = Others(j)
      BY <1>3, <1>11, <2>2
    <3>2. contents[builds[j].directory]["_SUCCESS"] = j /\ Others(j) = {}
             => \A f \in Files : contents[builds[j].directory][f] = j
      BY <1>0, <1>2 DEF SucceededIsWhole
    <3> QED
      BY <1>13, <2>2, <3>1, <3>2
  <2> QED
    BY <2>1, <2>2
<1> QED
  BY <1>6, <1>8, <1>9, <1>10, <1>12, <1>14 DEF BuildIInv

LEMMA BuildWritten ==
    ASSUME BuildIInv, NEW w \in BuildWorkers, WriteFile(w)
    PROVE  BuildIInv'
<1> DEFINE j == held[w]
           d == builds[j].directory
           order == WriteOrder(builds[j].version)
           n == written[w] + 1
<1>0. BuildTypeOK /\ HeldRow /\ OneWorker /\ ClaimedFirst /\ WrittenByClaimed /\ WrittenIsThere /\ SucceededIsWhole
  BY DEF BuildIInv
<1>1. /\ workerPc[w] = "build" /\ written[w] < Len(order)
      /\ contents' = [contents EXCEPT ![d][order[n]] = j]
      /\ written' = [written EXCEPT ![w] = @ + 1]
      /\ UNCHANGED <<builds, artifacts, workerPc, held, claims, buildFaults>>
  BY DEF WriteFile, Row
<1>2. /\ j \in DOMAIN builds /\ j \in BuildIds /\ j # 0 /\ builds[j].status = "running"
      /\ d \in Directories /\ builds[j].version \in {1, 3} /\ claims[j] = 1
      /\ DOMAIN builds \subseteq BuildIds
  BY <1>0, <1>1, BuildIdsThere DEF HeldRow, InHand, ClaimedFirst, BuildRows, BuildIds
<1>3. /\ n \in 1..Len(order) /\ Len(order) \in {2, 3} /\ written[w] \in Nat
      /\ \A m \in 1..Len(order) : order[m] \in Files /\ (order[m] = order[n] => m = n)
      /\ order[n] = "_SUCCESS" => n = 3 /\ Len(order) = 3
  <2>1. written[w] \in Nat /\ Len(order) \in {2, 3} /\ n \in 1..Len(order)
    BY <1>0, <1>1, <1>2, OrderOfFiles DEF BuildTypeOK
  <2> QED
    BY <1>2, <2>1, OrderOfFiles
<1>4. /\ \A m \in 1..written[w] : contents[d][order[m]] # 0
      /\ Others(j) = {} => \A m \in 1..written[w] : contents[d][order[m]] = j
  BY <1>0, <1>1 DEF WrittenIsThere, WrittenBy
<1>5. order[n] = "_SUCCESS" => \A f \in Files : \E m \in 1..n : order[m] = f
  BY <1>2, <1>3, OrderOfFiles
<1> HIDE DEF j, d, order, n
<1>6. /\ contents' \in [Directories -> [Files -> BuildIds \cup {0}]]
      /\ contents'[d][order[n]] = j
      /\ \A c \in Directories, f \in Files : c # d \/ f # order[n] => contents'[c][f] = contents[c][f]
  BY <1>0, <1>1, <1>2, <1>3 DEF BuildTypeOK
<1>7. /\ written' \in [BuildWorkers -> Nat]
      /\ written'[w] = n /\ \A v \in BuildWorkers \ {w} : written'[v] = written[v]
  BY <1>0, <1>1 DEF BuildTypeOK, n
<1>8. BuildTypeOK'
  BY <1>0, <1>1, <1>6, <1>7 DEF BuildTypeOK
<1>9. HeldRow' /\ OneWorker' /\ ClaimedFirst'
  BY <1>0, <1>1 DEF HeldRow, OneWorker, ClaimedFirst
<1>10. WrittenByClaimed'
  BY <1>0, <1>1, <1>2, <1>6 DEF WrittenByClaimed, d
<1>11. \A k \in DOMAIN builds : Others(k)' = Others(k)
  BY <1>1 DEF Others
<1>12. \A k \in DOMAIN builds : k # j /\ builds[k].directory = d => Others(k) # {}
  BY <1>2 DEF Others, d
<1>13. WrittenIsThere'
  <2> SUFFICES ASSUME NEW v \in BuildWorkers, workerPc[v] = "build" PROVE WrittenBy(v)'
    BY <1>1 DEF WrittenIsThere
  <2>1. CASE v = w
    <3>1. \A m \in 1..n : contents'[d][order[m]] # 0 /\ (Others(j) = {} => contents'[d][order[m]] = j)
      <4> SUFFICES ASSUME NEW m \in 1..n
                   PROVE  contents'[d][order[m]] # 0 /\ (Others(j) = {} => contents'[d][order[m]] = j)
        OBVIOUS
      <4>1. CASE m = n
        BY <1>2, <1>6, <4>1
      <4>2. CASE m # n
        <5>1. m \in 1..written[w] /\ m \in 1..Len(order)
          BY <1>3, <4>2 DEF n
        <5>2. contents'[d][order[m]] = contents[d][order[m]]
          BY <1>2, <1>3, <1>6, <4>2, <5>1
        <5> QED
          BY <1>4, <5>1, <5>2
      <4> QED
        BY <4>1, <4>2
    <3> QED
      <4>1. PICK k \in DOMAIN builds : k = j /\ held'[v] = k
        BY <1>1, <1>2, <2>1 DEF j
      <4>2. /\ builds'[k].directory = d /\ WriteOrder(builds'[k].version) = order
            /\ written'[v] = n /\ n <= Len(order) /\ Others(k)' = Others(k)
        BY <1>1, <1>3, <1>7, <1>11, <2>1, <4>1 DEF d, order
      <4>3. Others(k) = {} => \A m \in 1..n : contents'[d][order[m]] = k
        BY <3>1, <4>1
      <4> QED
        BY <3>1, <4>1, <4>2, <4>3 DEF WrittenBy
  <2>2. CASE v # w
    <3>0. PICK k \in DOMAIN builds : held[v] = k
      BY <1>0, <1>1 DEF HeldRow, InHand
    <3>1. /\ k \in DOMAIN builds /\ k # j /\ builds[k].directory \in Directories
          /\ builds[k].version \in {1, 3} /\ k \in BuildIds
      BY <1>0, <1>1, <1>2, <2>2, <3>0, BuildIdsThere DEF HeldRow, OneWorker, InHand, BuildRows, j
    <3>2. written'[v] = written[v] /\ written[v] \in Nat
      BY <1>0, <1>7, <2>2 DEF BuildTypeOK
    <3>3. /\ written[v] <= Len(WriteOrder(builds[k].version))
          /\ \A m \in 1..written[v] :
                /\ contents[builds[k].directory][WriteOrder(builds[k].version)[m]] # 0
                /\ Others(k) = {} => contents[builds[k].directory][WriteOrder(builds[k].version)[m]] = k
      BY <1>0, <3>0 DEF WrittenIsThere, WrittenBy
    <3>4. \A m \in 1..written[v] : WriteOrder(builds[k].version)[m] \in Files
      BY <3>1, <3>2, <3>3, OrderOfFiles
    <3>5. \A m \in 1..written[v] :
             /\ contents'[builds[k].directory][WriteOrder(builds[k].version)[m]] # 0
             /\ Others(k) = {} => contents'[builds[k].directory][WriteOrder(builds[k].version)[m]] = k
      BY <1>2, <1>6, <1>12, <3>1, <3>3, <3>4
    <3>6. held'[v] = k /\ builds' = builds /\ Others(k)' = Others(k)
      BY <1>1, <1>11, <3>0
    <3> QED
      BY <3>2, <3>3, <3>5, <3>6 DEF WrittenBy
  <2> QED
    BY <2>1, <2>2
<1>14. SucceededIsWhole'
  <2> SUFFICES ASSUME NEW k \in DOMAIN builds
               PROVE /\ contents'[builds[k].directory]["_SUCCESS"] = k /\ Others(k) = {}
                          => \A f \in Files : contents'[builds[k].directory][f] = k
                     /\ builds[k].status = "succeeded" /\ builds[k].version = 3
                          => /\ artifacts[k] = Files
                             /\ Others(k) = {} => contents'[builds[k].directory]["_SUCCESS"] = k
    BY <1>1, <1>11 DEF SucceededIsWhole
  <2>1. /\ contents[builds[k].directory]["_SUCCESS"] = k /\ Others(k) = {}
              => \A f \in Files : contents[builds[k].directory][f] = k
        /\ builds[k].status = "succeeded" /\ builds[k].version = 3
              => /\ artifacts[k] = Files
                 /\ Others(k) = {} => contents[builds[k].directory]["_SUCCESS"] = k
    BY <1>0 DEF SucceededIsWhole
  <2>2. builds[k].directory \in Directories /\ "_SUCCESS" \in Files
    BY <1>0, BuildIdsThere DEF BuildRows, Files
  <2>3. CASE k # j
    BY <1>6, <1>12, <2>1, <2>2, <2>3
  <2>4. CASE k = j
    <3>1. Others(j) = {} /\ order[n] = "_SUCCESS" => \A f \in Files : contents'[d][f] = j
      BY <1>2, <1>3, <1>4, <1>5, <1>6 DEF n
    <3>2. Others(j) = {} /\ order[n] # "_SUCCESS" /\ contents[d]["_SUCCESS"] = j
             => \A f \in Files : contents'[d][f] = j
      BY <1>2, <1>6, <2>1, <2>4 DEF d
    <3>3. order[n] # "_SUCCESS" => contents'[d]["_SUCCESS"] = contents[d]["_SUCCESS"]
      BY <1>2, <1>6, <2>2
    <3> QED
      BY <1>2, <2>4, <3>1, <3>2, <3>3 DEF d
  <2> QED
    BY <2>3, <2>4
<1> QED
  BY <1>8, <1>9, <1>10, <1>13, <1>14 DEF BuildIInv

LEMMA BuildStepInv == BuildIInv /\ [BuildNext]_buildVars => BuildIInv'
<1> SUFFICES ASSUME BuildIInv, [BuildNext]_buildVars PROVE BuildIInv'
  OBVIOUS
<1>0. buildFaults \in 0..MaxBuildFaults /\ MaxBuildFaults \in Nat
  BY DatasetBuildsAssumption DEF BuildIInv, BuildTypeOK
<1>1. CASE \E d \in Directories, version \in {1, 3} : CreateBuildJob(d, version)
  BY <1>1, BuildCreated
<1>2. CASE \E j \in DOMAIN builds : CancelBuildJob(j)
  BY <1>2, BuildCancelled
<1>3. ASSUME NEW w \in BuildWorkers, WorkerStep(w) PROVE BuildIInv'
  BY <1>3, BuildSelected, BuildClaimed, BuildWritten, BuildMarked DEF WorkerStep
<1>4. ASSUME NEW w \in BuildWorkers,
             BuildRaises(w) \/ StatementFails(w) \/ WorkerKilled(w) \/ WorkerStarted(w)
      PROVE  BuildIInv'
  <2>1. /\ UNCHANGED <<builds, artifacts, contents, held, written, claims>>
        /\ buildFaults' \in 0..MaxBuildFaults
    BY <1>0, <1>4 DEF BuildRaises, StatementFails, WorkerKilled, WorkerStarted, BuildFault
  <2>2. \E place \in {"poll", "fail", "ended"} : At(w, place) /\ (place = "fail" => workerPc[w] = "build")
    BY <1>4 DEF BuildRaises, StatementFails, WorkerKilled, WorkerStarted
  <2> QED
    BY <2>1, <2>2, BuildAbandoned
<1>5. CASE UNCHANGED buildVars
  <2>1. BuildTypeOK' /\ HeldRow' /\ OneWorker' /\ ClaimedFirst' /\ WrittenByClaimed'
    BY <1>5 DEF buildVars, BuildIInv, BuildTypeOK, HeldRow, OneWorker, ClaimedFirst, WrittenByClaimed
  <2>2. \A j : Others(j)' = Others(j)
    BY <1>5 DEF buildVars, Others
  <2>3. WrittenIsThere'
    <3>1. /\ WrittenIsThere /\ HeldRow
          /\ UNCHANGED <<builds, contents, held, written, workerPc>>
      BY <1>5 DEF buildVars, BuildIInv
    <3>2. ASSUME NEW v \in BuildWorkers, workerPc'[v] = "build" PROVE WrittenBy(v)'
      BY <2>2, <3>1, <3>2, WrittenKept
    <3> QED
      BY <3>2 DEF WrittenIsThere
  <2>4. SucceededIsWhole'
    BY <1>5, <2>2 DEF buildVars, BuildIInv, SucceededIsWhole
  <2> QED
    BY <2>1, <2>3, <2>4 DEF BuildIInv
<1> QED
  BY <1>1, <1>2, <1>3, <1>4, <1>5 DEF BuildNext

LEMMA BuildsClaimedOnce == BuildIInv => ClaimedOnce
  BY BuildIdsThere DEF BuildIInv, ClaimedFirst, ClaimedOnce

-----------------------------------------------------------------------------
(* The list of pending alerts, and what is kept of them. *)

\* The elements of a finite set of numbers, the greatest first: an element is at the place its
\* number of greater ones gives it.
LEMMA GreatestFirst ==
    ASSUME NEW S \in SUBSET Nat, IsFiniteSet(S)
    PROVE  \E s \in [1..Cardinality(S) -> S] : \A j, k \in DOMAIN s : j < k => s[j] > s[k]
<1> DEFINE n == Cardinality(S)
           above(i) == {j \in S : j > i}
           rank == [i \in S |-> Cardinality(above(i)) + 1]
<1>1. n \in Nat /\ \A i \in S : i \in Nat
  BY FS_CardinalityType
<1>2. ASSUME NEW i \in S, NEW T \in SUBSET S, above(i) \subseteq T, i \in T
      PROVE  /\ Cardinality(above(i)) \in Nat /\ Cardinality(T) \in Nat
             /\ Cardinality(above(i)) < Cardinality(T) /\ Cardinality(T) <= n
  <2>1. IsFiniteSet(T) /\ Cardinality(T) <= n
    BY FS_Subset
  <2>2. above(i) \in SUBSET T /\ above(i) # T
    BY <1>2
  <2>3. /\ IsFiniteSet(above(i)) /\ Cardinality(above(i)) <= Cardinality(T)
        /\ Cardinality(T) # Cardinality(above(i))
    BY <2>1, <2>2, FS_Subset
  <2> QED
    BY <2>1, <2>3, FS_CardinalityType
<1>3. rank \in [S -> 1..n]
  BY <1>1, <1>2
<1>4. \A i, j \in S : i < j => rank[j] < rank[i]
  <2> SUFFICES ASSUME NEW i \in S, NEW j \in S, i < j PROVE rank[j] < rank[i]
    OBVIOUS
  <2>1. above(i) \in SUBSET S /\ above(j) \subseteq above(i) /\ j \in above(i)
    <3>1. ASSUME NEW x \in above(j) PROVE x \in above(i)
      <4>1. x \in Nat /\ i \in Nat /\ j \in Nat /\ x > j
        BY <1>1, <3>1
      <4> QED
        BY <4>1, <3>1
    <3> QED
      BY <1>1, <3>1
  <2>2. Cardinality(above(j)) \in Nat /\ Cardinality(above(i)) \in Nat
        /\ Cardinality(above(j)) < Cardinality(above(i))
    BY <1>2, <2>1
  <2> QED
    BY <2>2
<1>5. rank \in Injection(S, 1..n)
  <2> HIDE DEF rank
  <2>1. ASSUME NEW i \in S, NEW j \in S, rank[i] = rank[j] PROVE i = j
    <3>1. i \in Nat /\ j \in Nat /\ rank[i] \in Nat
      BY <1>1, <1>3
    <3>2. ~(i < j) /\ ~(j < i)
      BY <1>4, <2>1, <3>1
    <3> QED
      BY <3>1, <3>2
  <2> QED
    BY <1>3, <2>1 DEF Injection, IsInjective
<1>6. rank \in Surjection(S, 1..n)
  <2>1. IsFiniteSet(1..n) /\ Cardinality(1..n) = n
    BY <1>1, FS_Interval
  <2> QED
    BY <1>5, <2>1, FS_Injection
<1> DEFINE s == [k \in 1..n |-> CHOOSE i \in S : rank[i] = k]
<1> HIDE DEF rank
<1>7. \A k \in 1..n : s[k] \in S /\ rank[s[k]] = k
  BY <1>6 DEF Surjection
<1> HIDE DEF s, n
<1>8. \A j, k \in 1..n : j < k => s[j] > s[k]
  <2> SUFFICES ASSUME NEW j \in 1..n, NEW k \in 1..n, j < k, ~(s[j] > s[k]) PROVE FALSE
    OBVIOUS
  <2>1. s[j] \in Nat /\ s[k] \in Nat
    <3>1. s[j] \in S /\ s[k] \in S
      BY <1>7
    <3> QED
      BY <1>1, <3>1
  <2>2. s[j] < s[k] \/ s[j] = s[k]
    BY <2>1
  <2> QED
    BY <1>4, <1>7, <2>1, <2>2
<1>9. s \in [1..n -> S] /\ DOMAIN s = 1..n
  BY <1>7 DEF s
<1> QED
  BY <1>8, <1>9 DEF n

LEMMA PendingAreAlerts == AlertIInv => Pending \in Seq(AlertIds)
<1> SUFFICES ASSUME AlertIInv PROVE Pending \in Seq(AlertIds)
  OBVIOUS
<1> DEFINE listed == {i \in DOMAIN alerts : Active(i) /\ Cardinality(Newer(i)) < Page}
<1>1. listed \in SUBSET AlertIds /\ listed \in SUBSET Nat
  BY StoresAre DEF AlertIInv, StoresAreSound, AlertIds
<1>2. IsFiniteSet(AlertIds)
  BY AlertsAssumption, FS_Interval DEF AlertIds
<1>3. IsFiniteSet(listed) /\ Cardinality(listed) \in Nat
  BY <1>1, <1>2, FS_Subset, FS_CardinalityType
<1> HIDE DEF listed
<1>4. \E s \in [1..Cardinality(listed) -> listed] : \A j, k \in DOMAIN s : j < k => s[j] > s[k]
  BY <1>1, <1>3, GreatestFirst
<1>5. Pending = CHOOSE s \in [1..Cardinality(listed) -> listed] : \A j, k \in DOMAIN s : j < k => s[j] > s[k]
  BY DEF Pending, listed
<1>6. Pending \in [1..Cardinality(listed) -> listed]
  BY <1>4, <1>5
<1>7. Pending \in [1..Cardinality(listed) -> AlertIds]
  BY <1>1, <1>6
<1> QED
  BY <1>3, <1>7

LEMMA AlertTypes == AlertInit => AlertTypeOK
<1> SUFFICES ASSUME AlertInit PROVE AlertTypeOK
  OBVIOUS
<1>1. StoresAreSound
  BY AlertInitInv DEF AlertIInv
<1>2. DOMAIN told = {}
  BY DEF AlertInit
<1> QED
  BY <1>1, <1>2, AlertsAssumption DEF AlertInit, AlertTypeOK, StoresAreSound, DefaultRules, Severities

LEMMA AlertTypesStep == AlertIInv /\ AlertTypeOK /\ [AlertNext]_alertVars => AlertTypeOK'
<1> SUFFICES ASSUME AlertIInv, AlertTypeOK, [AlertNext]_alertVars PROVE AlertTypeOK'
  OBVIOUS
<1>0. AlertIInv' /\ StoresAreSound' /\ StoresAreSound
  BY AlertStepInv DEF AlertIInv
<1>1. DOMAIN alerts \subseteq AlertIds /\ \A i \in DOMAIN alerts : alerts[i].state \in AlertStates
  BY <1>0, StoresAre DEF StoresAreSound
<1>2. DOMAIN alerts' \subseteq AlertIds /\ \A i \in DOMAIN alerts' : alerts'[i].state \in AlertStates
  BY <1>0, StoresAre DEF StoresAreSound
\* What is left of the type when the stores are sound.
<1>3. ASSUME due' \subseteq AlertIds, unwritten' \subseteq AlertIds,
             rules' \subseteq Severities, broken' \subseteq Severities, toCheck' \in Seq(AlertIds),
             DOMAIN told' \subseteq AlertIds, \A i \in DOMAIN told' : told'[i] \in AlertStates,
             changes' \in 0..MaxChanges, alertFaults' \in 0..MaxAlertFaults
      PROVE  AlertTypeOK'
  BY <1>0, <1>3 DEF AlertTypeOK, StoresAreSound
<1>4. ASSUME NEW i \in AlertIds, NEW ok \in BOOLEAN, PersistState(i, ok)
      PROVE  unwritten' \subseteq AlertIds /\ alertFaults' \in 0..MaxAlertFaults
  BY <1>4, AlertsAssumption DEF PersistState, AlertFault, AlertTypeOK
\* What was told is of alerts in memory.
<1>5. DOMAIN told' \subseteq AlertIds /\ \A i \in DOMAIN told' : told'[i] \in AlertStates
  BY <1>0, <1>2 DEF AlertIInv, ToldIsShown
<1>6. ASSUME NEW severity \in Severities, CreateAlert(severity) PROVE AlertTypeOK'
  <2>1. created' \in AlertIds
    BY <1>0, <1>6, AlertsAssumption DEF CreateAlert, StoresAreSound, AlertIds
  <2>2. \E ok \in BOOLEAN : PersistState(created', ok)
    BY <1>6 DEF CreateAlert
  <2> QED
    BY <1>3, <1>4, <1>5, <1>6, <2>1, <2>2 DEF CreateAlert, AlertTypeOK
<1>7. ASSUME NEW i \in AlertIds, NEW state \in AlertStates \ {"active"}, ChangeAlert(i, state)
      PROVE  AlertTypeOK'
  <2>1. \E ok \in BOOLEAN : PersistState(i, ok)
    BY <1>7 DEF ChangeAlert
  <2>2. changes' \in 0..MaxChanges
    BY <1>7, AlertsAssumption DEF ChangeAlert, Change, AlertTypeOK
  <2> QED
    BY <1>3, <1>4, <1>5, <1>7, <2>1, <2>2 DEF ChangeAlert, AlertTypeOK
<1>8. ASSUME Notify \/ \E i \in AlertIds : RefuseAcknowledge(i) \/ ReadAlert(i) PROVE AlertTypeOK'
  BY <1>3, <1>5, <1>8 DEF Notify, RefuseAcknowledge, ReadAlert, Answer, AlertTypeOK
<1>9. CASE CheckPending
  BY <1>3, <1>5, <1>9, PendingAreAlerts DEF CheckPending, AlertTypeOK
<1>10. CASE ProcessAlert
  <2>1. Head(toCheck) \in AlertIds /\ Tail(toCheck) \in Seq(AlertIds) /\ <<>> \in Seq(AlertIds)
    BY <1>10 DEF ProcessAlert, AlertTypeOK
  <2>2. PICK raises \in BOOLEAN : ExecuteEscalation(Head(toCheck), raises) \/ PassOver(raises)
    BY <1>10 DEF ProcessAlert, MayRaise
  <2>3. /\ toCheck' \in Seq(AlertIds)
        /\ unwritten' \subseteq AlertIds /\ alertFaults' \in 0..MaxAlertFaults
    <3>1. CASE ExecuteEscalation(Head(toCheck), raises)
      <4>1. PICK ok \in BOOLEAN : PersistState(Head(toCheck), ok) /\ GoOn(ok /\ ~raises)
        BY <3>1 DEF ExecuteEscalation
      <4> QED
        BY <1>4, <2>1, <4>1 DEF GoOn
    <3>2. CASE PassOver(raises)
      BY <2>1, <3>2 DEF PassOver, GoOn, AlertTypeOK
    <3> QED
      BY <2>2, <3>1, <3>2
  <2> QED
    BY <1>3, <1>5, <1>10, <2>3 DEF ProcessAlert, AlertTypeOK
<1>11. CASE EndCheck
  BY <1>3, <1>5, <1>11 DEF EndCheck, AlertTypeOK
<1>12. CASE ApiKilled
  BY <1>3, <1>5, <1>12, AlertsAssumption DEF ApiKilled, AlertFault, AlertTypeOK, DefaultRules, Severities
<1>13. ASSUME NEW severities \in SUBSET Severities, NEW faulty \in SUBSET Severities,
             ChangeRules(severities, faulty)
       PROVE AlertTypeOK'
  BY <1>3, <1>5, <1>13, AlertsAssumption DEF ChangeRules, Change, AlertTypeOK
<1>14. ASSUME NEW i \in AlertIds, Age(i) PROVE AlertTypeOK'
  BY <1>3, <1>5, <1>14 DEF Age, AlertTypeOK
<1>15. CASE UNCHANGED alertVars
  BY <1>3, <1>5, <1>15 DEF alertVars, AlertTypeOK
<1> QED
  BY <1>6, <1>7, <1>8, <1>9, <1>10, <1>11, <1>12, <1>13, <1>14, <1>15 DEF AlertNext

-----------------------------------------------------------------------------
(* The feeds. *)

LEMMA FeedTypes == FeedInit => FeedTypeOK
  BY RealtimeFeedAssumption DEF FeedInit, FeedTypeOK, Versions

LEMMA FeedTypesStep == FeedTypeOK /\ [FeedNext]_feedVars => FeedTypeOK'
<1> SUFFICES ASSUME FeedTypeOK, [FeedNext]_feedVars PROVE FeedTypeOK'
  OBVIOUS
<1> USE RealtimeFeedAssumption DEF FeedTypeOK, Versions, feedState, clientState
<1>1. CASE Insert \/ Heartbeat
  BY <1>1 DEF Insert, Heartbeat
<1>2. CASE Wake \/ Compare \/ EndBroadcast
  BY <1>2 DEF Wake, Compare, EndBroadcast
<1>3. CASE QueryFeed
  BY <1>3 DEF QueryFeed, FeedFault
<1>4. ASSUME NEW s \in Sockets, BroadcastTo(s) PROVE FeedTypeOK'
  BY <1>4 DEF BroadcastTo, SendTo
<1>5. ASSUME NEW s \in Sockets, ClientLeaves(s) PROVE FeedTypeOK'
  BY <1>5 DEF ClientLeaves
<1>6. ASSUME NEW s \in Sockets, OpenSocket(s) \/ QueryInit(s) \/ Subscribe(s) \/ Disconnect(s)
      PROVE  FeedTypeOK'
  BY <1>6 DEF OpenSocket, QueryInit, Subscribe, Disconnect, Continue
<1>7. ASSUME NEW s \in Sockets, SendInit(s) PROVE FeedTypeOK'
  BY <1>7 DEF SendInit, SendTo, Continue
<1>8. ASSUME NEW s \in Sockets, QueryInitFails(s) \/ SendInitFails(s) \/ ReceiveRaises(s)
      PROVE  FeedTypeOK'
  BY <1>8 DEF QueryInitFails, SendInitFails, ReceiveRaises, HandlerRaises, FeedFault, Continue
<1>9. CASE UNCHANGED feedVars
  BY <1>9 DEF feedVars
<1> QED
  BY <1>1, <1>2, <1>3, <1>4, <1>5, <1>6, <1>7, <1>8, <1>9 DEF FeedNext, Broadcaster, Handler

-----------------------------------------------------------------------------
(* The parts together: a step of one leaves the others as they were. *)

LEMMA PartSteps ==
    ASSUME [OperationsNext]_operationsVars
    PROVE  /\ [Next]_vars /\ [BridgeNext]_bridgeVars /\ [MqttNext]_mqttVars /\ [SupNext]_supVars
           /\ [BackupNext]_backupVars /\ [AlertNext]_alertVars /\ [BuildNext]_buildVars
           /\ [FeedNext]_feedVars
<1>1. CASE UNCHANGED operationsVars
  BY <1>1 DEF operationsVars
<1>2. CASE RunGroup \/ RunFeed
  BY <1>2 DEF RunGroup, RunFeed, OthersIdle
<1>3. CASE RunBridge \/ RunMqtt \/ RunSupervisor
  BY <1>3 DEF RunBridge, RunMqtt, RunSupervisor, OthersIdle
<1>4. CASE RunBackup \/ RunAlerts \/ RunBuilds
  BY <1>4 DEF RunBackup, RunAlerts, RunBuilds, OthersIdle
<1> QED
  BY <1>1, <1>2, <1>3, <1>4 DEF OperationsNext

LEMMA PartInits ==
    ASSUME OperationsInit
    PROVE  Init /\ BridgeInit /\ MqttInit /\ SupInit /\ BackupInit /\ AlertInit /\ BuildInit /\ FeedInit
  BY DEF OperationsInit

\* A dataset build is claimed at most once, and never when it was cancelled (dataset_registry.py), in
\* every order of the workers' steps and whatever fails or is killed.
THEOREM ClaimedOnceAlways == OperationsSpec => []ClaimedOnce
<1>1. OperationsInit => BuildIInv
  BY PartInits, BuildInitInv
<1>2. BuildIInv /\ [OperationsNext]_operationsVars => BuildIInv'
  BY PartSteps, BuildStepInv
<1>3. BuildIInv => ClaimedOnce
  BY BuildsClaimedOnce
<1> QED
  BY <1>1, <1>2, <1>3, PTL DEF OperationsSpec

\* A message paho has acknowledged is in the queue, with the drainer, published or a dead letter
\* (connectors/mqtt.py), whichever thread runs and whatever raises.  What a client was last told of an
\* alert, by the answer to its change, by a refusal or by a read, is in memory, and in the state file
\* as well unless the write of that change failed and none was made since (alert_manager.py).
THEOREM AnsweredIsKeptAlways == OperationsSpec => []AnsweredIsKept
<1>1. OperationsInit => MqttIInv /\ AlertIInv
  BY PartInits, MqttInitInv, AlertInitInv
<1>2. MqttIInv /\ AlertIInv /\ [OperationsNext]_operationsVars => (MqttIInv /\ AlertIInv)'
  BY PartSteps, MqttStepInv, AlertStepInv
<1>3. MqttIInv /\ AlertIInv => AnsweredIsKept
  BY ToldIsWritten DEF MqttIInv, AnsweredIsKept
<1> QED
  BY <1>1, <1>2, <1>3, PTL DEF OperationsSpec

\* A supervision that ends, and does not raise, leaves no process it has launched alive
\* (datastreamd.py), whatever the operator's commands do beside it.
THEOREM EndedLeavesNothingAlways == OperationsSpec => []EndedLeavesNothing
<1>1. OperationsInit => SupIInv
  BY PartInits, SupInitInv
<1>2. SupIInv /\ [OperationsNext]_operationsVars => SupIInv'
  BY PartSteps, SupStepInv
<1> QED
  BY <1>1, <1>2, SupEndedLeavesNothing, PTL DEF OperationsSpec

\* A drill that reports a match has restored its backup whole, and only a failed restore leaves a
\* database in the restoring mode (backup.py), whatever is ingested meanwhile.
THEOREM RestoresAreSoundAlways == OperationsSpec => []RestoresAreSound
<1>1. OperationsInit => BackupIInv
  BY PartInits, BackupInitInv
<1>2. BackupIInv /\ [OperationsNext]_operationsVars => BackupIInv'
  BY PartSteps, BackupStepInv
<1> QED
  BY <1>1, <1>2, BackupSound, PTL DEF OperationsSpec

\* A dataset build that succeeded has its files, and a marker that is there is the last of them
\* (model_dataset.py), whatever other builds write.
THEOREM SucceededIsWholeAlways == OperationsSpec => []SucceededIsWhole
<1>1. OperationsInit => BuildIInv
  BY PartInits, BuildInitInv
<1>2. BuildIInv /\ [OperationsNext]_operationsVars => BuildIInv'
  BY PartSteps, BuildStepInv
<1>3. BuildIInv => SucceededIsWhole
  BY DEF BuildIInv
<1> QED
  BY <1>1, <1>2, <1>3, PTL DEF OperationsSpec

\* A group of the normalized fan-out commits only up to a record it has delivered, a route reload
\* closes sinks that hold nothing (normalized_fanout.py), and the bridge goes to commit an event only
\* when every forwarder has taken it, in any order of their failures (outbound_bridge.py).
THEOREM ConsumersAreSoundAlways == OperationsSpec => []ConsumersAreSound
<1>1. OperationsInit => UInv /\ BridgeIInv
  BY PartInits, UInit, BridgeInitInv
<1>2. UInv /\ BridgeIInv /\ [OperationsNext]_operationsVars => (UInv /\ BridgeIInv)'
  BY PartSteps, UStep, BridgeStepInv
<1>3. UInv /\ BridgeIInv => ConsumersAreSound
  BY DEF UInv, SinksOf, ReloadLosesNothing, BridgeIInv, ConsumersAreSound
<1> QED
  BY <1>1, <1>2, <1>3, PTL DEF OperationsSpec

\* Every reachable state of each part is well typed.
THEOREM OperationsTypeCorrect == OperationsSpec => []OperationsTypeOK
<1> DEFINE IInv == /\ UInv /\ BridgeIInv /\ MqttIInv /\ SupIInv /\ BackupIInv
                   /\ AlertIInv /\ AlertTypeOK /\ BuildIInv /\ FeedTypeOK /\ part \in Parts
<1>1. OperationsInit => IInv
  <2> SUFFICES ASSUME OperationsInit PROVE IInv
    OBVIOUS
  <2>1. UInv /\ BridgeIInv /\ MqttIInv /\ SupIInv /\ BackupIInv /\ AlertIInv /\ BuildIInv
    BY PartInits, UInit, BridgeInitInv, MqttInitInv, SupInitInv, BackupInitInv, AlertInitInv, BuildInitInv
  <2>2. AlertTypeOK /\ FeedTypeOK /\ part \in Parts
    BY PartInits, AlertTypes, FeedTypes DEF OperationsInit
  <2> QED
    BY <2>1, <2>2
<1>2. IInv /\ [OperationsNext]_operationsVars => IInv'
  <2> SUFFICES ASSUME IInv, [OperationsNext]_operationsVars PROVE IInv'
    OBVIOUS
  <2>1. UInv' /\ BridgeIInv' /\ MqttIInv' /\ SupIInv' /\ BackupIInv' /\ AlertIInv' /\ BuildIInv'
    BY PartSteps, UStep, BridgeStepInv, MqttStepInv, SupStepInv, BackupStepInv, AlertStepInv, BuildStepInv
  <2>2. AlertTypeOK' /\ FeedTypeOK'
    BY PartSteps, AlertTypesStep, FeedTypesStep
  <2>3. part' = part
    BY DEF OperationsNext, RunGroup, RunBridge, RunMqtt, RunSupervisor, RunBackup, RunAlerts, RunBuilds,
           RunFeed, OthersIdle, operationsVars
  <2> QED
    BY <2>1, <2>2, <2>3
<1>3. IInv => OperationsTypeOK
  <2> SUFFICES ASSUME IInv PROVE OperationsTypeOK
    OBVIOUS
  <2>1. TypeOK /\ BridgeTypeOK /\ MqttTypeOK /\ SupTypeOK /\ BackupTypeOK /\ BuildTypeOK
    BY DEF UInv, BridgeIInv, MqttIInv, SupIInv, BackupIInv, BuildIInv
  <2> QED
    BY <2>1 DEF OperationsTypeOK, Parts
<1> HIDE DEF IInv
<1> QED
  BY <1>1, <1>2, <1>3, PTL DEF OperationsSpec
=============================================================================
