----------------------------- MODULE MCOperations -----------------------------
(* Instances of what runs beside the operational path: a behaviour is one   *)
(* of one part, and the others stay as they were at the start.              *)
EXTENDS ReleasingFanout, OutboundBridge, MqttConnector, ProcessSupervisor, HistorianBackup, Alerts,
        DatasetBuilds, RealtimeFeed

VARIABLE part

\* Two members of the normalized group, a Kafka sink and a lakehouse, and a malformed record that
\* may meet another in the buffer; a group that has committed nothing starts at the end.
GroupKind == [s \in Sinks |-> s]
GroupMalformed == {<<p, 1>> : p \in Partitions}

\* Two objects fill the queue; then each kind of message, with a full queue and without.
Messages == <<"object", "undecodable", "object", "object", "value", "object">>

\* Two services of a site.
Services == <<"processor", "api">>
-----------------------------------------------------------------------------
Parts == {"group", "bridge", "mqtt", "supervisor", "backup", "alerts", "builds", "feed"}

operationsVars == <<part, vars, bridgeVars, mqttVars, supVars, backupVars, alertVars, buildVars,
                    feedVars>>

OthersIdle ==
    /\ UNCHANGED part
    /\ IF part = "group" THEN TRUE ELSE UNCHANGED vars
    /\ IF part = "bridge" THEN TRUE ELSE UNCHANGED bridgeVars
    /\ IF part = "mqtt" THEN TRUE ELSE UNCHANGED mqttVars
    /\ IF part = "supervisor" THEN TRUE ELSE UNCHANGED supVars
    /\ IF part = "backup" THEN TRUE ELSE UNCHANGED backupVars
    /\ IF part = "alerts" THEN TRUE ELSE UNCHANGED alertVars
    /\ IF part = "builds" THEN TRUE ELSE UNCHANGED buildVars
    /\ IF part = "feed" THEN TRUE ELSE UNCHANGED feedVars

OperationsInit ==
    /\ part \in Parts
    /\ Init /\ BridgeInit /\ MqttInit /\ SupInit /\ BackupInit /\ AlertInit /\ BuildInit /\ FeedInit
    \* what does not matter for the part of the behaviour
    /\ part # "group" => \A p \in Partitions : produced[p] = 0

\* Bound: beside a supervision the operator gives one command, and two without one.
CommandBound == supPc' # "off" => commands' <= 1

\* Bounds: alerts come due in the order in which they were created, and a rule whose pattern does not
\* compile is one for critical alerts.
AlertBound ==
    /\ \A i \in due' : 1..i \subseteq due'
    /\ broken' \subseteq DefaultRules

RunGroup == part = "group" /\ Next /\ OthersIdle
RunBridge == part = "bridge" /\ BridgeNext /\ OthersIdle
RunMqtt == part = "mqtt" /\ MqttNext /\ OthersIdle
RunSupervisor == part = "supervisor" /\ SupNext /\ CommandBound /\ OthersIdle
RunBackup == part = "backup" /\ BackupNext /\ OthersIdle
RunAlerts == part = "alerts" /\ AlertNext /\ AlertBound /\ OthersIdle
RunBuilds == part = "builds" /\ BuildNext /\ OthersIdle
RunFeed == part = "feed" /\ FeedNext /\ OthersIdle

OperationsNext ==
    RunGroup \/ RunBridge \/ RunMqtt \/ RunSupervisor \/ RunBackup \/ RunAlerts \/ RunBuilds \/ RunFeed

\* What a process of a behaviour does when its event loop or its thread is run.
Running ==
    /\ WF_mqttVars(part = "mqtt" /\ Drain)
    /\ WF_supVars(part = "supervisor" /\ Supervision)
    /\ \A w \in BuildWorkers : WF_buildVars(part = "builds" /\ WorkerStep(w))
    /\ WF_feedVars(part = "feed" /\ Broadcaster) /\ WF_feedVars(part = "feed" /\ Heartbeat)
    /\ \A s \in Sockets : WF_feedVars(part = "feed" /\ Handler(s))

OperationsSpec == OperationsInit /\ [][OperationsNext]_operationsVars /\ Running

OperationsTypeOK ==
    CASE part = "group" -> TypeOK
      [] part = "bridge" -> BridgeTypeOK
      [] part = "mqtt" -> MqttTypeOK
      [] part = "supervisor" -> SupTypeOK
      [] part = "backup" -> BackupTypeOK
      [] part = "alerts" -> AlertTypeOK
      [] part = "builds" -> BuildTypeOK
      [] part = "feed" -> FeedTypeOK

\* A commit of the normalized group is only made for a delivered record, a route reload throws away
\* nothing, and the bridge goes to commit only what each of its forwarders has taken.
ConsumersAreSound == CommitPointIsDelivered /\ ReloadLosesNothing /\ ForwardedBeforeCommit

\* What has been acknowledged or answered is kept: a message of the broker, a change of an alert.
AnsweredIsKept == AcknowledgedIsKept /\ ToldIsStored

\* What the parts owe: the queue that was woken for is drained, a stop ends the supervision and a
\* child that exits is replaced, pending alerts are escalated, builds are taken, and the clients of
\* the feed see what is there.
OperationsProgress ==
    /\ part = "mqtt" => WokenQueueDrains
    /\ part = "supervisor" => StopIsFinal /\ ExitedIsReplaced
    /\ part = "alerts" => PendingIsEscalated
    /\ part = "builds" => QueuedIsTaken
    /\ part = "feed" => ViewsConverge /\ ClosedIsForgotten
=============================================================================
