----------------------------- MODULE MCConsumers -----------------------------
(* Instances of the consumers that commit although a step before has       *)
(* failed: the fan-outs that let go of a batch, and the loop of the AI     *)
(* gateway with its report jobs.  A behaviour is one of one of them,       *)
(* `part`, and the other stays as it was at the start.                     *)
EXTENDS ReleasingFanout, AIReportJobs

CONSTANTS w1, w2

VARIABLE part

\* A historian, which is the only sink of two of the three programs.  Nothing can be buffered
\* ahead of the first record, the one that does not decode.
HistorianKind == [s \in Sinks |-> "historian"]
FirstMalformed == {<<p, 0>> : p \in Partitions}

C == "critical"
W == "warning"
N == "normal"

Instance(events, slots, maxScheduled, maxFaults) ==
    [stream |-> events, workers |-> slots, scheduled |-> maxScheduled, faults |-> maxFaults]

\* Incidents followed while the workers are slow: one a warning interrupts, one that ends and comes
\* back, one that never sustains.  Jobs worked on: of one incident, of the interval.
FollowedAndWorked ==
    {Instance(<<C, C, W, W, C, C>>, {}, 0, 2), Instance(<<C, C, N, N, C, C>>, {}, 0, 2),
     Instance(<<C, W, C, N, C, C, C>>, {}, 0, 2),
     Instance(<<C, C, N, N>>, {w1}, 0, 2), Instance(<<N>>, {w1}, 1, 3),
     Instance(<<C>>, {w1, w2}, 1, 3), Instance(<<C, C>>, {w1, w2}, 1, 1)}
-----------------------------------------------------------------------------
consumersVars == <<part, vars, reportVars>>

ConsumersInit ==
    /\ part \in {"fanout", "gateway"}
    /\ Init /\ ReportInit
    \* what does not matter for the part of the behaviour
    /\ part = "fanout" => instance = CHOOSE i \in Instances : TRUE
    /\ part = "gateway" => program = CHOOSE p \in Programs : TRUE
    /\ part = "gateway" => \A p \in Partitions : produced[p] = 0

RunFanout == part = "fanout" /\ Next /\ UNCHANGED <<part, reportVars>>
RunGateway == part = "gateway" /\ ReportNext /\ UNCHANGED <<part, vars>>

ConsumersNext == RunFanout \/ RunGateway

\* The fairness of FairSpec and of ReportFairSpec, each in the behaviours of its part.
FanoutRuns ==
    /\ \A m \in Members : WF_vars(part = "fanout" /\ Step(m))
    /\ \A p \in Partitions :
          WF_vars(part = "fanout" /\ Covers(p)) /\ WF_vars(part = "fanout" /\ Produce(p))
    /\ \A m \in Members, s \in Sinks : WF_vars(part = "fanout" /\ Deliver(m, s))

GatewayRuns ==
    /\ \A w \in Workers :
          SF_reportVars(part = "gateway" /\ Claims(w)) /\ WF_reportVars(part = "gateway" /\ Works(w))
    /\ \A x \in 1..MaxJobs : WF_reportVars(part = "gateway" /\ Expires(x))

ConsumersSpec == ConsumersInit /\ [][ConsumersNext]_consumersVars /\ FanoutRuns /\ GatewayRuns

\* The group of fan-outs owes delivery in the behaviours that are its own.
FanoutDelivers == part = "fanout" => EventuallyDelivered
=============================================================================
