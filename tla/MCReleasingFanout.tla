-------------------------- MODULE MCReleasingFanout --------------------------
(* Instances of ReleasingFanout for TLC. *)
EXTENDS ReleasingFanout

CONSTANTS m1, m2, p1, historian, lakehouse, kafka

KindOf == [s \in Sinks |-> CASE s = historian -> "historian"
                             [] s = lakehouse -> "lakehouse"
                             [] OTHER -> "kafka"]
MiddleMalformed == {<<p1, 1>>}
=============================================================================
