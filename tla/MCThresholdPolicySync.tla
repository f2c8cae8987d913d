------------------------ MODULE MCThresholdPolicySync ------------------------
(* Instances of ThresholdPolicySync for TLC. *)
EXTENDS ThresholdPolicySync

CONSTANTS a1, a2, p1, p2, k1, k2

Deployed(processes, samePid, maxUpserts, maxFaults) ==
    [processes |-> processes, samePid |-> samePid, upserts |-> maxUpserts, faults |-> maxFaults]

\* On a host every process has a pid of its own; in containers every replica has pid 1.
HostAndContainers ==
    {Deployed({a1, p1}, FALSE, 2, 1), Deployed({a1, a2}, FALSE, 2, 0),
     Deployed({a1, a2}, TRUE, 2, 0), Deployed({a1, a2}, TRUE, 1, 1)}

OneOfEach == {Deployed({a1, p1}, FALSE, 2, 0)}
=============================================================================
