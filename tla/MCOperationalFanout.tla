------------------------ MODULE MCOperationalFanout ------------------------
(* An instance of OperationalFanout for TLC. *)
EXTENDS OperationalFanout, TLC

CONSTANTS m1, m2, p1, historian, kafka

KindOf == [s \in Sinks |-> IF s = historian THEN "historian" ELSE "kafka"]

\* The record in the middle of p1 does not decode.
MiddleMalformed == {<<p1, 1>>}

MemberSymmetry == Permutations({m1, m2})
=============================================================================
