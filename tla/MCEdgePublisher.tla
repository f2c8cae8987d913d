--------------------------- MODULE MCEdgePublisher ---------------------------
(* Instances of EdgePublisher for TLC. *)
EXTENDS EdgePublisher

CONSTANTS e1, e2, loop, worker

NoneOversize == {}
OneOversize == {<<"raw", e2>>, <<"body", e2>>}
=============================================================================
