--------------------------- MODULE FanoutDelivery ---------------------------
(***************************************************************************)
(* What every fan-out consumer of services/processor shares: one Kafka     *)
(* topic with its consumer-group offsets, the members of the group, and    *)
(* the endpoints of services/sinks a CompositeSink writes to.              *)
(*                                                                         *)
(* The topic is an immutable log read through a position (one per          *)
(* partition, kept by the member that owns it).  A record is <<p, o>>, its *)
(* partition and offset.  Its bytes only matter in one way: whether they   *)
(* decode to a JSON object.                                                *)
(***************************************************************************)
EXTENDS Integers, Sequences, FiniteSets

CONSTANTS
    Members,     \* processes of the consumer group
    Partitions,  \* partitions of the topic
    LogEnd,      \* number of records in each partition
    Malformed,   \* the records the consumer cannot decode
    Sinks,       \* the sinks SinkRegistry could build
    Kind,        \* Kind[s]: which of the three classes sink s is
    Dlq,         \* the dead-letter topic, an endpoint like the sinks
    BatchSize,   \* *_FANOUT_BATCH_SIZE
    None         \* no member, no record

Records == Partitions \X (0..LogEnd - 1)
Offsets == 0..LogEnd
Endpoints == Sinks \cup {Dlq}

ASSUME FanoutAssumption ==
    /\ LogEnd \in Nat
    /\ BatchSize \in Nat \ {0}
    /\ Malformed \subseteq Records
    /\ Kind \in [Sinks -> {"historian", "lakehouse", "kafka"}]
    /\ Dlq \notin Sinks
    /\ None \notin Members /\ None \notin Records

VARIABLES
    owner,      \* owner[p]: the member partition p is assigned to
    position,   \* position[p]: offset its owner's next poll returns
    committed,  \* committed[p]: the group's offset at the broker
    fenced,     \* live members the coordinator has removed from the group
    buffer,     \* buffer[m]: the records m has polled and not yet committed
    staged,     \* staged[m][s]: records inside m's sink object, not yet at the endpoint
    stored,     \* stored[e]: records the endpoint holds durably
    rejected    \* rejected[e]: records whose Kafka delivery failed for good

groupVars == <<owner, position, committed, fenced>>
sinkVars == <<staged, stored, rejected>>

Batch(m) == {buffer[m][i] : i \in DOMAIN buffer[m]}

-----------------------------------------------------------------------------
(* The three sinks.  An outcome says whether the call reported success,    *)
(* what reached the endpoint and what is left inside the sink object.      *)

\* TimescaleHistorianSink.write_batch: one batch insert, else one insert per
\* event; what was inserted is counted, and a short count is a failure.
HistorianWrite(batch) ==
    {[ok |-> took = batch, store |-> took, stage |-> {}] : took \in SUBSET batch}

\* KafkaSink.write_batch: produce() only queues; it raises on a full queue, or
\* when the flush it runs every batch_size records leaves records undelivered.
KafkaWrite(batch, pending) ==
    {[ok |-> FALSE, store |-> {}, stage |-> pending \cup took] : took \in SUBSET batch}
    \cup {[ok |-> TRUE, store |-> {}, stage |-> pending \cup batch]}

\* LakehouseSink.write_batch: always accepts; its own flush appends site by
\* site, swallows errors and drops the buffer only after the last site.
LakehouseWrite(batch, pending) ==
    LET all == pending \cup batch IN
    {[ok |-> TRUE, store |-> done, stage |-> IF done = all THEN {} ELSE all]
        : done \in SUBSET all}

WriteOutcomes(s, batch, pending) ==
    CASE Kind[s] = "historian" -> HistorianWrite(batch)
      [] Kind[s] = "kafka"     -> KafkaWrite(batch, pending)
      [] Kind[s] = "lakehouse" -> LakehouseWrite(batch, pending)

\* LakehouseSink.flush_strict: append site by site, raise on the first error.
LakehouseFlush(pending) ==
    {[ok |-> TRUE, store |-> pending, stage |-> {}]}
    \cup IF pending = {} THEN {}
         ELSE {[ok |-> FALSE, store |-> done, stage |-> pending] : done \in SUBSET pending}

\* KafkaSink.flush: raises when librdkafka still holds records after 10 s.
KafkaFlush(pending) == {[ok |-> pending = {}, store |-> {}, stage |-> pending]}

FlushOutcomes(s, pending) ==
    CASE Kind[s] = "historian" -> {[ok |-> TRUE, store |-> {}, stage |-> {}]}
      [] Kind[s] = "kafka"     -> KafkaFlush(pending)
      [] Kind[s] = "lakehouse" -> LakehouseFlush(pending)

\* CompositeSink.write_batch_strict and flush_strict try every sink, and fail
\* when any of them failed.
AllOk(outcome) == \A s \in Sinks : outcome[s].ok

\* The outcomes of write_batch_strict and of flush_strict on member m's sinks.
CompositeWrite(m) ==
    {outcome \in [Sinks -> UNION {WriteOutcomes(s, Batch(m), staged[m][s]) : s \in Sinks}] :
        \A s \in Sinks : outcome[s] \in WriteOutcomes(s, Batch(m), staged[m][s])}

CompositeFlush(m) ==
    {outcome \in [Sinks -> UNION {FlushOutcomes(s, staged[m][s]) : s \in Sinks}] :
        \A s \in Sinks : outcome[s] \in FlushOutcomes(s, staged[m][s])}

ApplyOutcome(m, outcome) ==
    /\ stored' = [e \in Endpoints |-> IF e \in Sinks THEN stored[e] \cup outcome[e].store
                                                    ELSE stored[e]]
    /\ staged' = [staged EXCEPT ![m] = [s \in Sinks |-> outcome[s].stage]]
    /\ UNCHANGED rejected

\* librdkafka's background thread: a queued record is acknowledged by the
\* broker, or its delivery fails for good; KafkaSink has no delivery callback,
\* so the failure only takes the record out of the queue.
KafkaDelivery(m, s) ==
    /\ Kind[s] = "kafka"
    /\ \E r \in staged[m][s] :
          /\ staged' = [staged EXCEPT ![m][s] = @ \ {r}]
          /\ \/ /\ stored' = [stored EXCEPT ![s] = @ \cup {r}]
                /\ UNCHANGED rejected
             \/ /\ rejected' = [rejected EXCEPT ![s] = @ \cup {r}]
                /\ UNCHANGED stored

\* publish_malformed_record returns normally when the queue is empty after
\* flush(10): the dead letter was delivered, or its delivery failed for good.
DeadLetterReturns(r) ==
    /\ \/ /\ stored' = [stored EXCEPT ![Dlq] = @ \cup {r}]
          /\ UNCHANGED rejected
       \/ /\ rejected' = [rejected EXCEPT ![Dlq] = @ \cup {r}]
          /\ UNCHANGED stored
    /\ UNCHANGED staged

\* ... and raises when it is still queued; it may be delivered all the same.
DeadLetterRaises(r) ==
    /\ \/ stored' = [stored EXCEPT ![Dlq] = @ \cup {r}]
       \/ UNCHANGED stored
    /\ UNCHANGED <<staged, rejected>>

-----------------------------------------------------------------------------
(* The consumer group.                                                     *)

\* The offsets a synchronous commit of the pending list `recs` leaves at the
\* broker: for each partition in it, one past the entry listed last.
CommitsTo(recs, offsets) ==
    \A p \in Partitions :
        IF \E i \in DOMAIN recs : recs[i][1] = p
        THEN \E i \in DOMAIN recs :
                /\ recs[i][1] = p
                /\ \A j \in DOMAIN recs : recs[j][1] = p => j <= i
                /\ offsets[p] = recs[i][2] + 1
        ELSE offsets[p] = committed[p]

\* The process of member m is gone: what it held in memory is lost and its
\* partitions are free.
Vanish(m) ==
    /\ buffer' = [buffer EXCEPT ![m] = <<>>]
    /\ staged' = [staged EXCEPT ![m] = [s \in Sinks |-> {}]]
    /\ owner' = [p \in Partitions |-> IF owner[p] = m THEN None ELSE owner[p]]
    /\ fenced' = fenced \ {m}
    /\ UNCHANGED <<position, committed, stored, rejected>>

-----------------------------------------------------------------------------
(* What delivery means.                                                    *)

\* The endpoints a record has to reach.
Due(r) == IF r \in Malformed THEN {Dlq} ELSE Sinks

\* The record is at every endpoint it is due at, or that endpoint's broker has
\* refused it for good.
Settled(r) == \A e \in Due(r) : r \in stored[e] \cup rejected[e]

FanoutInit ==
    /\ owner = [p \in Partitions |-> None]
    /\ position = [p \in Partitions |-> 0]
    /\ committed = [p \in Partitions |-> 0]
    /\ fenced = {}
    /\ buffer = [m \in Members |-> <<>>]
    /\ staged = [m \in Members |-> [s \in Sinks |-> {}]]
    /\ stored = [e \in Endpoints |-> {}]
    /\ rejected = [e \in Endpoints |-> {}]

FanoutTypeOK ==
    /\ owner \in [Partitions -> Members \cup {None}]
    /\ position \in [Partitions -> Offsets]
    /\ committed \in [Partitions -> Offsets]
    /\ fenced \subseteq Members
    /\ buffer \in [Members -> Seq(Records)]
    /\ staged \in [Members -> [Sinks -> SUBSET Records]]
    /\ stored \in [Endpoints -> SUBSET Records]
    /\ rejected \in [Endpoints -> SUBSET Records]
=============================================================================
