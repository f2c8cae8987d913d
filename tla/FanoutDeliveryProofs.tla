------------------------- MODULE FanoutDeliveryProofs -------------------------
(***************************************************************************)
(* Lemmas about the consumers' common ground (FanoutDelivery): what a call *)
(* of a composite sink can do, that it keeps the types, and that delivery  *)
(* only ever grows.  The proofs of the fan-outs rest on them.              *)
(***************************************************************************)
EXTENDS FanoutDelivery, TLAPS

-----------------------------------------------------------------------------
(* The sinks.                                                              *)

\* A write keeps what the sink already held, takes nothing but the batch, and
\* reports success only when the whole batch is stored or held.
LEMMA WriteOutcomeShape ==
    ASSUME NEW s \in Sinks, NEW batch, NEW pending,
           NEW out \in WriteOutcomes(s, batch, pending)
    PROVE  /\ out.store \subseteq batch \cup pending
           /\ out.stage \subseteq batch \cup pending
           /\ out.ok => batch \subseteq out.store \cup out.stage
           /\ Kind[s] = "historian" => out.stage = {}
<1>1. Kind[s] \in {"historian", "lakehouse", "kafka"}
    BY FanoutAssumption
<1>2. CASE Kind[s] = "historian"
    <2>1. PICK took \in SUBSET batch : out = [ok |-> took = batch, store |-> took, stage |-> {}]
        BY <1>2 DEF WriteOutcomes, HistorianWrite
    <2> QED BY <2>1, <1>2
<1>3. CASE Kind[s] = "kafka"
    <2>1. \/ \E took \in SUBSET batch :
                out = [ok |-> FALSE, store |-> {}, stage |-> pending \cup took]
          \/ out = [ok |-> TRUE, store |-> {}, stage |-> pending \cup batch]
        BY <1>3 DEF WriteOutcomes, KafkaWrite
    <2> QED BY <2>1, <1>3
<1>4. CASE Kind[s] = "lakehouse"
    <2> DEFINE all == pending \cup batch
    <2>1. PICK done \in SUBSET all :
              out = [ok |-> TRUE, store |-> done, stage |-> IF done = all THEN {} ELSE all]
        BY <1>4 DEF WriteOutcomes, LakehouseWrite
    <2>2. CASE done = all
        BY <2>1, <2>2, <1>4
    <2>3. CASE done # all
        BY <2>1, <2>3, <1>4
    <2> QED BY <2>2, <2>3
<1> QED BY <1>1, <1>2, <1>3, <1>4

\* A flush stores nothing but what the sink held, and reports success only when
\* it leaves nothing behind that was not stored.
LEMMA FlushOutcomeShape ==
    ASSUME NEW s \in Sinks, NEW pending,
           NEW out \in FlushOutcomes(s, pending)
    PROVE  /\ out.store \subseteq pending
           /\ out.stage \subseteq pending
           /\ out.ok => out.stage = {}
           /\ out.ok /\ (Kind[s] = "historian" => pending = {}) => pending \subseteq out.store
           /\ Kind[s] = "historian" => out.stage = {}
<1>1. Kind[s] \in {"historian", "lakehouse", "kafka"}
    BY FanoutAssumption
<1>2. CASE Kind[s] = "historian"
    BY <1>2 DEF FlushOutcomes
<1>3. CASE Kind[s] = "kafka"
    <2>1. out = [ok |-> pending = {}, store |-> {}, stage |-> pending]
        BY <1>3 DEF FlushOutcomes, KafkaFlush
    <2> QED BY <2>1, <1>3
<1>4. CASE Kind[s] = "lakehouse"
    <2>1. \/ out = [ok |-> TRUE, store |-> pending, stage |-> {}]
          \/ \E done \in SUBSET pending : out = [ok |-> FALSE, store |-> done, stage |-> pending]
        BY <1>4 DEF FlushOutcomes, LakehouseFlush
    <2> QED BY <2>1, <1>4
<1> QED BY <1>1, <1>2, <1>3, <1>4

-----------------------------------------------------------------------------
(* Types.                                                                  *)

\* What a member has polled are records of the topic.
LEMMA BatchType ==
    ASSUME FanoutTypeOK, NEW m \in Members
    PROVE  Batch(m) \subseteq Records
BY DEF FanoutTypeOK, Batch

\* What a composite write, or a composite flush, stores and holds are records.
LEMMA WriteType ==
    ASSUME FanoutTypeOK, NEW m \in Members, NEW outcome \in CompositeWrite(m)
    PROVE  \A s \in Sinks : outcome[s].store \in SUBSET Records /\ outcome[s].stage \in SUBSET Records
<1> SUFFICES ASSUME NEW s \in Sinks
             PROVE  outcome[s].store \subseteq Records /\ outcome[s].stage \subseteq Records
    OBVIOUS
<1>1. outcome[s] \in WriteOutcomes(s, Batch(m), staged[m][s])
    BY DEF CompositeWrite
<1>2. staged[m][s] \subseteq Records
    BY DEF FanoutTypeOK
<1> QED BY <1>1, <1>2, BatchType, WriteOutcomeShape

LEMMA FlushType ==
    ASSUME FanoutTypeOK, NEW m \in Members, NEW outcome \in CompositeFlush(m)
    PROVE  \A s \in Sinks : outcome[s].store \in SUBSET Records /\ outcome[s].stage \in SUBSET Records
<1> SUFFICES ASSUME NEW s \in Sinks
             PROVE  outcome[s].store \subseteq Records /\ outcome[s].stage \subseteq Records
    OBVIOUS
<1>1. outcome[s] \in FlushOutcomes(s, staged[m][s])
    BY DEF CompositeFlush
<1>2. staged[m][s] \subseteq Records
    BY DEF FanoutTypeOK
<1> QED BY <1>1, <1>2, FlushOutcomeShape

\* Recording an outcome keeps the sinks and the endpoints well typed.
LEMMA ApplyType ==
    ASSUME FanoutTypeOK, NEW m \in Members, NEW outcome, ApplyOutcome(m, outcome),
           \A s \in Sinks : outcome[s].store \in SUBSET Records /\ outcome[s].stage \in SUBSET Records
    PROVE  /\ staged' \in [Members -> [Sinks -> SUBSET Records]]
           /\ stored' \in [Endpoints -> SUBSET Records]
           /\ rejected' \in [Endpoints -> SUBSET Records]
BY DEF FanoutTypeOK, ApplyOutcome, Endpoints

-----------------------------------------------------------------------------
(* Growth.                                                                 *)

\* A step takes nothing back from an endpoint.
Growth == \A e \in Endpoints : stored[e] \subseteq stored'[e] /\ rejected[e] \subseteq rejected'[e]

\* An outcome only adds to what the endpoints hold.
LEMMA ApplyGrows ==
    ASSUME FanoutTypeOK, NEW m \in Members, NEW outcome, ApplyOutcome(m, outcome)
    PROVE  Growth
BY DEF FanoutTypeOK, ApplyOutcome, Growth

\* Delivery is never undone.
LEMMA SettledGrows ==
    ASSUME Growth, NEW r, Settled(r)
    PROVE  Settled(r)'
BY DEF Growth, Settled, Due, Endpoints

\* librdkafka delivers, or gives up, a record a sink had queued.
LEMMA KafkaDeliveryShape ==
    ASSUME FanoutTypeOK, NEW m \in Members, NEW s \in Sinks, KafkaDelivery(m, s)
    PROVE  /\ staged' \in [Members -> [Sinks -> SUBSET Records]]
           /\ stored' \in [Endpoints -> SUBSET Records]
           /\ rejected' \in [Endpoints -> SUBSET Records]
           /\ Growth
           /\ \A z \in Sinks :
                 /\ staged'[m][z] \subseteq staged[m][z]
                 /\ staged[m][z] \subseteq staged'[m][z] \cup stored'[z] \cup rejected'[z]
           /\ \A n \in Members \ {m} : staged'[n] = staged[n]
<1>1. PICK r \in staged[m][s] :
         /\ staged' = [staged EXCEPT ![m][s] = @ \ {r}]
         /\ \/ /\ stored' = [stored EXCEPT ![s] = @ \cup {r}]
               /\ UNCHANGED rejected
            \/ /\ rejected' = [rejected EXCEPT ![s] = @ \cup {r}]
               /\ UNCHANGED stored
    BY DEF KafkaDelivery
<1>2. r \in Records /\ s \in Endpoints
    BY DEF FanoutTypeOK, Endpoints
<1>3. staged' \in [Members -> [Sinks -> SUBSET Records]]
    BY <1>1 DEF FanoutTypeOK
<1>4. stored' \in [Endpoints -> SUBSET Records] /\ rejected' \in [Endpoints -> SUBSET Records]
    <2>1. CASE stored' = [stored EXCEPT ![s] = @ \cup {r}] /\ UNCHANGED rejected
        BY <1>2, <2>1 DEF FanoutTypeOK
    <2>2. CASE rejected' = [rejected EXCEPT ![s] = @ \cup {r}] /\ UNCHANGED stored
        BY <1>2, <2>2 DEF FanoutTypeOK
    <2> QED BY <1>1, <2>1, <2>2
<1>5. Growth
    BY <1>1 DEF FanoutTypeOK, Growth
<1>6. r \in stored'[s] \cup rejected'[s]
    BY <1>1, <1>2 DEF FanoutTypeOK
<1>7. /\ staged'[m][s] = staged[m][s] \ {r}
      /\ \A z \in Sinks \ {s} : staged'[m][z] = staged[m][z]
      /\ \A n \in Members \ {m} : staged'[n] = staged[n]
    BY <1>1 DEF FanoutTypeOK
<1>8. ASSUME NEW z \in Sinks
      PROVE  /\ staged'[m][z] \subseteq staged[m][z]
             /\ staged[m][z] \subseteq staged'[m][z] \cup stored'[z] \cup rejected'[z]
    BY <1>6, <1>7
<1> QED BY <1>3, <1>4, <1>5, <1>7, <1>8

\* The dead letter was published, or may have been: nothing else changes.
LEMMA DeadLetterShape ==
    ASSUME FanoutTypeOK, NEW r \in Records, DeadLetterReturns(r) \/ DeadLetterRaises(r)
    PROVE  /\ staged' = staged
           /\ stored' \in [Endpoints -> SUBSET Records]
           /\ rejected' \in [Endpoints -> SUBSET Records]
           /\ Growth
           /\ DeadLetterReturns(r) => r \in stored'[Dlq] \cup rejected'[Dlq]
BY DEF FanoutTypeOK, DeadLetterReturns, DeadLetterRaises, Growth, Endpoints

\* A synchronous commit installs, per partition, one past a record of its list or
\* leaves the offset alone.
LEMMA CommitsToShape ==
    ASSUME NEW recs, NEW p \in Partitions, CommitsTo(recs, committed'),
           \A i \in DOMAIN recs : recs[i] \in Records
    PROVE  \/ committed'[p] = committed[p]
           \/ \E i \in DOMAIN recs : /\ recs[i] = <<p, committed'[p] - 1>>
                                     /\ committed'[p] = recs[i][2] + 1
<1>1. CASE \E i \in DOMAIN recs : recs[i][1] = p
    <2>1. PICK i \in DOMAIN recs : recs[i][1] = p /\ committed'[p] = recs[i][2] + 1
        BY <1>1 DEF CommitsTo
    <2>2. recs[i][2] \in Int /\ recs[i] = <<recs[i][1], recs[i][2]>>
        BY FanoutAssumption DEF Records
    <2> QED BY <2>1, <2>2
<1>2. CASE ~ \E i \in DOMAIN recs : recs[i][1] = p
    BY <1>2 DEF CommitsTo
<1> QED BY <1>1, <1>2

-----------------------------------------------------------------------------
(* What a member has polled.                                               *)

\* A batch with no record in it, and a batch that gains one.
LEMMA BatchEmpty ==
    ASSUME NEW m \in Members, buffer[m] = <<>>
    PROVE  Batch(m) = {}
BY DEF Batch

LEMMA BatchAppend ==
    ASSUME FanoutTypeOK, NEW m \in Members, NEW r \in Records,
           buffer' = [buffer EXCEPT ![m] = Append(@, r)]
    PROVE  Batch(m)' = Batch(m) \cup {r}
<1>1. buffer[m] \in Seq(Records) /\ buffer'[m] = Append(buffer[m], r)
    BY DEF FanoutTypeOK
<1>2. /\ DOMAIN buffer'[m] = DOMAIN buffer[m] \cup {Len(buffer[m]) + 1}
      /\ \A i \in DOMAIN buffer[m] : buffer'[m][i] = buffer[m][i]
      /\ buffer'[m][Len(buffer[m]) + 1] = r
    BY <1>1
<1> QED BY <1>2 DEF Batch
=============================================================================
