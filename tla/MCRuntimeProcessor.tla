------------------------- MODULE MCRuntimeProcessor -------------------------
(* An instance of RuntimeProcessor for TLC. *)
EXTENDS RuntimeProcessor

\* One stream of three values, with calls that fail and kills.
ThreeRecords ==
    {[topic |-> [i \in 1..3 |-> [stream |-> "a", level |-> "warning"]], persist |-> TRUE,
      maxDevices |-> 0, maxIdle |-> 0, gaps |-> {1}, faulty |-> TRUE]}
=============================================================================
