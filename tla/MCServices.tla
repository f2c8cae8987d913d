----------------------------- MODULE MCServices -----------------------------
(* Instances of the services that share no state with one another: a       *)
(* behaviour is one of one of them, `part`, and the others stay as they    *)
(* were at the start.                                                      *)
EXTENDS RuntimeProcessor, SourceConnections, HttpPush, ModelLifecycle, ReplayJob,
        AssistantTurns, AssistantActions, HistorianClient

VARIABLES
    part,
    \* the state of OperationalFanout
    fanoutOwner, fanoutPosition, fanoutCommitted, fanoutFenced, fanoutBuffer, fanoutStaged,
    fanoutStored, fanoutRejected, fanoutPc, fanoutWhy, fanoutCurrent

fanoutVars == <<fanoutOwner, fanoutPosition, fanoutCommitted, fanoutFenced, fanoutBuffer, fanoutStaged,
                fanoutStored, fanoutRejected, fanoutPc, fanoutWhy, fanoutCurrent>>

\* One member of the operational group, a Kafka sink, and a record that does not decode.
Fanout == INSTANCE OperationalFanout WITH
    Members <- {"m1"}, Partitions <- {"p1"}, LogEnd <- 3, Sinks <- {"kafka"},
    Kind <- [s \in {"kafka"} |-> "kafka"], Malformed <- {<<"p1", 1>>}, Dlq <- "dlq",
    owner <- fanoutOwner, position <- fanoutPosition, committed <- fanoutCommitted,
    fenced <- fanoutFenced, buffer <- fanoutBuffer, staged <- fanoutStaged, stored <- fanoutStored,
    rejected <- fanoutRejected, pc <- fanoutPc, why <- fanoutWhy, current <- fanoutCurrent
-----------------------------------------------------------------------------
(* Instances of RuntimeProcessor. *)

On(k, levels) == [i \in DOMAIN levels |-> [stream |-> k, level |-> levels[i]]]

Quietly(t, gaps) == [topic |-> t, persist |-> TRUE, maxDevices |-> 0, maxIdle |-> 0,
                     gaps |-> gaps, faulty |-> FALSE]

\* Every signal of five values, one a second.
Signals == {Quietly(On("a", levels), {1}) : levels \in [1..5 -> Levels]}

\* Three streams for two places, and streams that fall silent.
Rotation == On("a", <<"warning">>) \o On("b", <<"warning">>) \o On("c", <<"critical">>)
            \o On("a", <<"warning">>) \o On("b", <<"warning", "normal", "normal">>)

Crowded == {[Quietly(Rotation, {0, 3}) EXCEPT !.maxDevices = 2],
            [Quietly(Rotation, {1, 3}) EXCEPT !.maxIdle = 2]}

\* Two streams and a record that does not decode, with everything that can fail.
Failing == {[Quietly(On("a", <<"warning", "critical">>) \o On("b", <<"normal", "poison", "normal">>), {1})
                EXCEPT !.faulty = TRUE, !.persist = p] : p \in BOOLEAN}

AllInstances == Signals \cup Crowded \cup Failing

\* Two versions of one model and a version of another.
Families == [v \in Versions |-> IF v = "other" THEN "othermodel" ELSE "model"]
-----------------------------------------------------------------------------
Parts == {"processor", "fanout", "connections", "push", "models", "replay", "turns", "actions",
          "historian"}

allVars == <<part, vars, fanoutVars, connectionVars, pushVars, lifecycleVars, replayVars, turnVars,
             actionVars, historianVars>>

OthersIdle ==
    /\ UNCHANGED part
    /\ IF part = "processor" THEN TRUE ELSE UNCHANGED vars
    /\ IF part = "fanout" THEN TRUE ELSE UNCHANGED fanoutVars
    /\ IF part = "connections" THEN TRUE ELSE UNCHANGED connectionVars
    /\ IF part = "push" THEN TRUE ELSE UNCHANGED pushVars
    /\ IF part = "models" THEN TRUE ELSE UNCHANGED lifecycleVars
    /\ IF part = "replay" THEN TRUE ELSE UNCHANGED replayVars
    /\ IF part = "turns" THEN TRUE ELSE UNCHANGED turnVars
    /\ IF part = "actions" THEN TRUE ELSE UNCHANGED actionVars
    /\ IF part = "historian" THEN TRUE ELSE UNCHANGED historianVars

AnyInstance == CHOOSE i \in Instances : TRUE

ServicesInit ==
    /\ part \in Parts
    /\ Init /\ Fanout!Init /\ ConnectionsInit /\ PushInit /\ LifecycleInit /\ ReplayInit
    /\ AssistantInit /\ ActionsInit /\ HistorianInit
    \* what does not matter for the part of the behaviour
    /\ part # "processor" => instance = AnyInstance
    /\ part # "push" => pushing = [r \in Replicas |-> CHOOSE k \in Keys : TRUE]

RunProcessor == part = "processor" /\ Next /\ OthersIdle
RunFanout == part = "fanout" /\ Fanout!Next /\ OthersIdle
RunConnections == part = "connections" /\ ConnectionsNext /\ OthersIdle
RunPush == part = "push" /\ PushNext /\ OthersIdle
RunModels == part = "models" /\ LifecycleNext /\ OthersIdle
RunReplay == part = "replay" /\ ReplayNext /\ OthersIdle
RunTurns == part = "turns" /\ AssistantNext /\ OthersIdle
RunActions == part = "actions" /\ ActionsNext /\ OthersIdle
RunHistorian == part = "historian" /\ HistorianNext /\ OthersIdle

ServicesNext ==
    \/ RunProcessor \/ RunFanout \/ RunConnections \/ RunPush
    \/ RunModels \/ RunReplay \/ RunTurns \/ RunActions \/ RunHistorian

\* What the process of a behaviour, and what its surroundings, do when nothing fails.
Forward ==
    /\ OthersIdle
    /\ \/ part = "processor" /\ Work
       \/ part = "fanout" /\ Fanout!Step("m1")
       \/ part = "connections" /\ Reconcile
       \/ part = "turns" /\ (WriteThread \/ \E t \in Turns : Proceed(t))

Around ==
    /\ OthersIdle
    /\ \/ part = "processor" /\ Deliver
       \/ part = "fanout" /\ Fanout!Deliver("m1", "kafka")
       \/ part = "fanout" /\ fanoutOwner["p1"] = None /\ Fanout!Assign("m1", "p1")
       \/ part = "turns" /\ \E w \in Workers : Loop(w)

ServicesSpec == ServicesInit /\ [][ServicesNext]_allVars /\ WF_allVars(Forward) /\ WF_allVars(Around)

\* The types of the fan-out, whose instance here is a small one, are checked where it runs by itself.
ServicesTypeOK ==
    /\ TypeOK /\ ConnectionsTypeOK /\ HttpPushTypeOK /\ LifecycleTypeOK
    /\ ReplayTypeOK /\ AssistantTypeOK /\ ActionsTypeOK /\ HistorianTypeOK

\* What the parts owe, each while nothing fails for good: records are processed and delivered, the
\* connectors follow the registry, and no turn of the assistant stays under way.
ServicesProgress ==
    /\ part = "processor" => EventuallyProcessed
    /\ part = "fanout" => Fanout!EventuallyDelivered
    /\ part = "connections" => EdgeFollowsRegistry
    /\ part = "turns" => TurnsAreSettled
=============================================================================
