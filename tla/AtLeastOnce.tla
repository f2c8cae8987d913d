----------------------------- MODULE AtLeastOnce -----------------------------
(***************************************************************************)
(* What a consumer that persists a topic promises, whatever it is made of: *)
(* a record may be delivered at any time and as often as one likes, and an *)
(* offset is committed only over records that have been delivered.  A      *)
(* commit may move an offset back (the records are then read again), never *)
(* over an undelivered record.                                             *)
(***************************************************************************)
EXTENDS Integers

CONSTANTS
    Partitions,  \* partitions of the topic
    LogEnd       \* number of records in each partition

VARIABLES
    committed,  \* the consumer group's offset in each partition
    settled     \* the records delivered to every endpoint they are due at

vars == <<committed, settled>>

Records == Partitions \X (0..LogEnd - 1)

\* A record that is due nowhere is settled from the start.
Init ==
    /\ committed = [p \in Partitions |-> 0]
    /\ settled \in SUBSET Records

Deliver ==
    /\ settled' \in SUBSET Records
    /\ settled \subseteq settled'
    /\ UNCHANGED committed

Commit ==
    /\ committed' \in [Partitions -> 0..LogEnd]
    /\ \A p \in Partitions, o \in 0..LogEnd - 1 :
          o < committed'[p] => <<p, o>> \in settled
    /\ UNCHANGED settled

Next == Deliver \/ Commit

Spec == Init /\ [][Next]_vars
=============================================================================
