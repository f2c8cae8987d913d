----------------------- MODULE OperationalFanoutProofs -----------------------
(***************************************************************************)
(* Proofs about OperationalFanout, for every group, topic, set of sinks    *)
(* and batch size.  The argument is the inductive invariant IInv: no       *)
(* member's position, buffer or record in hand leaves an undelivered       *)
(* record behind, so that whichever offset a commit installs, the records  *)
(* below it are delivered, even when the partition has moved meanwhile.    *)
(***************************************************************************)
EXTENDS OperationalFanout, FanoutDeliveryProofs

-----------------------------------------------------------------------------
(* Type correctness.                                                       *)

LEMMA RaiseType ==
    ASSUME TypeOK, NEW m \in Members, Raise(m)
    PROVE  /\ pc' \in [Members -> {"down", "poll", "write", "flush", "commit", "dlq", "ack", "close", "exit"}]
           /\ why' \in [Members -> {"loop", "malformed", "final"}]
BY DEF TypeOK, Raise

LEMMA EndType ==
    ASSUME TypeOK, NEW m \in Members, EndOfProcess(m)
    PROVE  TypeOK'
<1>1. /\ buffer' \in [Members -> Seq(Records)]
      /\ staged' \in [Members -> [Sinks -> SUBSET Records]]
      /\ owner' \in [Partitions -> Members \cup {None}]
      /\ fenced' \subseteq Members
      /\ UNCHANGED <<position, committed, stored, rejected>>
    <2> <<>> \in Seq(Records)
        OBVIOUS
    <2> QED BY DEF TypeOK, FanoutTypeOK, EndOfProcess, Vanish
<1>2. /\ pc' \in [Members -> {"down", "poll", "write", "flush", "commit", "dlq", "ack", "close", "exit"}]
      /\ why' \in [Members -> {"loop", "malformed", "final"}]
      /\ current' \in [Members -> Records \cup {None}]
    BY DEF TypeOK, EndOfProcess
<1> QED BY <1>1, <1>2 DEF TypeOK, FanoutTypeOK

\* Every step keeps the types; that a dead letter is a record needs Progress.
LEMMA TypeStep == IInv /\ [Next]_vars => TypeOK'
<1> SUFFICES ASSUME IInv, [Next]_vars PROVE TypeOK'
    OBVIOUS
<1> USE DEF groupVars, sinkVars
<1>t. TypeOK /\ FanoutTypeOK
    BY DEF IInv, TypeOK
<1>1. ASSUME NEW m \in Members, NEW p \in Partitions, FetchRecord(m, p) PROVE TypeOK'
    <2>1. position[p] + 1 \in Offsets /\ <<p, position[p]>> \in Records
        BY <1>1, <1>t, FanoutAssumption DEF FetchRecord, FanoutTypeOK, Offsets, Records
    <2>2. Append(buffer[m], <<p, position[p]>>) \in Seq(Records)
        BY <2>1, <1>t DEF FanoutTypeOK
    <2> QED BY <1>1, <2>1, <2>2, <1>t DEF FetchRecord, TypeOK, FanoutTypeOK
<1>2. ASSUME NEW m \in Members, NEW p \in Partitions, FetchMalformed(m, p) PROVE TypeOK'
    <2>1. position[p] + 1 \in Offsets /\ <<p, position[p]>> \in Records
        BY <1>2, <1>t, FanoutAssumption DEF FetchMalformed, FanoutTypeOK, Offsets, Records
    <2> QED BY <1>2, <2>1, <1>t DEF FetchMalformed, TypeOK, FanoutTypeOK
<1>3. ASSUME NEW m \in Members, FlushIdle(m) \/ Stop(m) \/ Start(m) PROVE TypeOK'
    BY <1>3, <1>t DEF FlushIdle, Stop, Start, TypeOK, FanoutTypeOK
<1>4. ASSUME NEW m \in Members, WriteBatchStrict(m) PROVE TypeOK'
    <2>1. PICK outcome \in CompositeWrite(m) :
             /\ ApplyOutcome(m, outcome)
             /\ (pc' = [pc EXCEPT ![m] = "flush"] /\ UNCHANGED why) \/ Raise(m)
        BY <1>4 DEF WriteBatchStrict
    <2>2. /\ staged' \in [Members -> [Sinks -> SUBSET Records]]
          /\ stored' \in [Endpoints -> SUBSET Records]
          /\ rejected' \in [Endpoints -> SUBSET Records]
        BY <2>1, <1>t, WriteType, ApplyType
    <2> QED BY <1>4, <2>1, <2>2, <1>t, RaiseType DEF WriteBatchStrict, TypeOK, FanoutTypeOK
<1>5. ASSUME NEW m \in Members, FlushStrict(m) PROVE TypeOK'
    <2>1. PICK outcome \in CompositeFlush(m) :
             /\ ApplyOutcome(m, outcome)
             /\ (pc' = [pc EXCEPT ![m] = "commit"] /\ UNCHANGED why) \/ Raise(m)
        BY <1>5 DEF FlushStrict
    <2>2. /\ staged' \in [Members -> [Sinks -> SUBSET Records]]
          /\ stored' \in [Endpoints -> SUBSET Records]
          /\ rejected' \in [Endpoints -> SUBSET Records]
        BY <2>1, <1>t, FlushType, ApplyType
    <2> QED BY <1>5, <2>1, <2>2, <1>t, RaiseType DEF FlushStrict, TypeOK, FanoutTypeOK
<1>6. ASSUME NEW m \in Members, CommitBatch(m) PROVE TypeOK'
    <2>1. <<>> \in Seq(Records)
        OBVIOUS
    <2>2. pc' \in [Members -> {"down", "poll", "write", "flush", "commit", "dlq", "ack", "close", "exit"}]
        <3>1. why[m] \in {"loop", "malformed", "final"}
            BY <1>t DEF TypeOK
        <3> QED BY <1>6, <1>t, <3>1 DEF CommitBatch, Return, TypeOK
    <2> QED BY <1>6, <2>1, <2>2, <1>t DEF CommitBatch, TypeOK, FanoutTypeOK
<1>7. ASSUME NEW m \in Members, CommitBatchFails(m) PROVE TypeOK'
    BY <1>7, <1>t, RaiseType DEF CommitBatchFails, TypeOK, FanoutTypeOK
<1>8. ASSUME NEW m \in Members, PublishMalformedRecord(m) PROVE TypeOK'
    <2>1. current[m] \in Records
        BY <1>8 DEF PublishMalformedRecord, IInv, MemberInv, Progress, TypeOK
    <2>2. /\ staged' = staged
          /\ stored' \in [Endpoints -> SUBSET Records]
          /\ rejected' \in [Endpoints -> SUBSET Records]
        BY <1>8, <2>1, <1>t DEF PublishMalformedRecord, DeadLetterReturns, DeadLetterRaises, FanoutTypeOK
    <2>3. (pc' = [pc EXCEPT ![m] = "ack"] /\ UNCHANGED why) \/ Raise(m)
        BY <1>8 DEF PublishMalformedRecord
    <2> QED BY <1>8, <2>2, <2>3, <1>t, RaiseType DEF PublishMalformedRecord, TypeOK, FanoutTypeOK
<1>9. ASSUME NEW m \in Members, CommitMalformed(m) PROVE TypeOK'
    BY <1>9, <1>t DEF CommitMalformed, TypeOK, FanoutTypeOK
<1>10. ASSUME NEW m \in Members, CommitMalformedFails(m) PROVE TypeOK'
    BY <1>10, <1>t, RaiseType DEF CommitMalformedFails, TypeOK, FanoutTypeOK
<1>11. ASSUME NEW m \in Members, Close(m) \/ Crash(m) PROVE TypeOK'
    BY <1>11, <1>t, EndType DEF Close, Crash
<1>12. ASSUME NEW m \in Members, Fence(m) PROVE TypeOK'
    BY <1>12, <1>t DEF Fence, TypeOK, FanoutTypeOK
<1>13. ASSUME NEW m \in Members, NEW p \in Partitions, Assign(m, p) PROVE TypeOK'
    BY <1>13, <1>t DEF Assign, TypeOK, FanoutTypeOK
<1>14. ASSUME NEW m \in Members, NEW s \in Sinks, Deliver(m, s) PROVE TypeOK'
    <2>1. /\ staged' \in [Members -> [Sinks -> SUBSET Records]]
          /\ stored' \in [Endpoints -> SUBSET Records]
          /\ rejected' \in [Endpoints -> SUBSET Records]
        <3>1. PICK r \in staged[m][s] :
                 /\ staged' = [staged EXCEPT ![m][s] = @ \ {r}]
                 /\ \/ /\ stored' = [stored EXCEPT ![s] = @ \cup {r}]
                       /\ UNCHANGED rejected
                    \/ /\ rejected' = [rejected EXCEPT ![s] = @ \cup {r}]
                       /\ UNCHANGED stored
            BY <1>14 DEF Deliver, KafkaDelivery
        <3>2. r \in Records /\ s \in Endpoints
            BY <1>t DEF FanoutTypeOK, Endpoints
        <3>3. staged' \in [Members -> [Sinks -> SUBSET Records]]
            BY <3>1, <1>t DEF FanoutTypeOK
        <3>4. stored' \in [Endpoints -> SUBSET Records] /\ rejected' \in [Endpoints -> SUBSET Records]
            <4>1. CASE stored' = [stored EXCEPT ![s] = @ \cup {r}] /\ UNCHANGED rejected
                BY <3>2, <1>t, <4>1 DEF FanoutTypeOK
            <4>2. CASE rejected' = [rejected EXCEPT ![s] = @ \cup {r}] /\ UNCHANGED stored
                BY <3>2, <1>t, <4>2 DEF FanoutTypeOK
            <4> QED BY <3>1, <4>1, <4>2
        <3> QED BY <3>3, <3>4
    <2> QED BY <1>14, <2>1, <1>t DEF Deliver, TypeOK, FanoutTypeOK
<1>15. CASE UNCHANGED vars
    BY <1>15, <1>t DEF vars, TypeOK, FanoutTypeOK
<1> QED BY <1>1, <1>2, <1>3, <1>4, <1>5, <1>6, <1>7, <1>8, <1>9, <1>10, <1>11, <1>12,
           <1>13, <1>14, <1>15 DEF Next, Step, Environment

-----------------------------------------------------------------------------
(* Delivery is never undone.                                               *)

LEMMA GrowthStep == IInv /\ [Next]_vars => Growth
<1> SUFFICES ASSUME IInv, [Next]_vars PROVE Growth
    OBVIOUS
<1> USE DEF groupVars, sinkVars, Growth
<1>t. FanoutTypeOK
    BY DEF IInv, TypeOK
<1>1. ASSUME NEW m \in Members, WriteBatchStrict(m) \/ FlushStrict(m) PROVE Growth
    BY <1>1, <1>t, ApplyGrows DEF WriteBatchStrict, FlushStrict
<1>2. ASSUME NEW m \in Members, PublishMalformedRecord(m) PROVE Growth
    BY <1>2, <1>t DEF PublishMalformedRecord, DeadLetterReturns, DeadLetterRaises, FanoutTypeOK
<1>3. ASSUME NEW m \in Members, NEW s \in Sinks, Deliver(m, s) PROVE Growth
    <2>1. PICK r : /\ stored' \in {stored, [stored EXCEPT ![s] = @ \cup {r}]}
                   /\ rejected' \in {rejected, [rejected EXCEPT ![s] = @ \cup {r}]}
        BY <1>3 DEF Deliver, KafkaDelivery
    <2>2. DOMAIN stored = Endpoints /\ DOMAIN rejected = Endpoints
        BY <1>t DEF FanoutTypeOK
    <2> QED BY <2>1, <2>2
<1>4. ASSUME NEW m \in Members,
             \/ \E p \in Partitions : FetchRecord(m, p) \/ FetchMalformed(m, p) \/ Assign(m, p)
             \/ FlushIdle(m) \/ CommitBatch(m) \/ CommitBatchFails(m) \/ CommitMalformed(m)
             \/ CommitMalformedFails(m) \/ Close(m) \/ Start(m) \/ Stop(m) \/ Crash(m) \/ Fence(m)
      PROVE  Growth
    BY <1>4 DEF FetchRecord, FetchMalformed, Assign, FlushIdle, CommitBatch, CommitBatchFails,
                CommitMalformed, CommitMalformedFails, Close, Start, Stop, Crash, Fence,
                EndOfProcess, Vanish
<1>5. CASE UNCHANGED vars
    BY <1>5 DEF vars
<1> QED BY <1>1, <1>2, <1>3, <1>4, <1>5 DEF Next, Step, Environment

-----------------------------------------------------------------------------
(* What a step leaves alone keeps its part of the invariant.               *)

\* A member that takes no part in a step.
LEMMA Bystander ==
    ASSUME IInv, Growth, NEW n \in Members,
           UNCHANGED <<buffer[n], staged[n], pc[n], why[n], current[n]>>,
           n \in fenced' => n \in fenced
    PROVE  MemberInv(n)'
<1> USE SettledGrows
<1>1. MemberInv(n)
    BY DEF IInv
<1>2. Batch(n)' = Batch(n)
    BY DEF Batch
<1>3. BufferInOrder(n)'
    BY <1>1, <1>2 DEF MemberInv, BufferInOrder, Accounted
<1>4. CurrentInOrder(n)'
    BY <1>1, <1>2 DEF MemberInv, CurrentInOrder, Accounted
<1>5. Progress(n)'
    <2>1. \A s \in Sinks : s \in Endpoints
        BY DEF Endpoints
    <2> QED BY <1>1, <1>2, <2>1 DEF MemberInv, Progress, Growth
<1>6. SinksInOrder(n)'
    BY <1>1, <1>2 DEF MemberInv, SinksInOrder
<1> QED BY <1>3, <1>4, <1>5, <1>6 DEF MemberInv

\* A partition that stays with its owner, who loses no record unsettled.
LEMMA OwnershipKept ==
    ASSUME IInv, Growth,
           \A p \in Partitions : owner'[p] # None =>
              /\ owner'[p] = owner[p] /\ position'[p] = position[p]
              /\ pc'[owner[p]] # "down" /\ owner[p] \notin fenced'
              /\ \A r \in Batch(owner[p]) : r \in Batch(owner[p])' \/ Settled(r)'
              /\ \A r : r = current[owner[p]] => current'[owner[p]] = r \/ Settled(r)'
    PROVE  OwnershipInv'
<1> SUFFICES ASSUME NEW p \in Partitions, owner'[p] # None,
                    NEW o \in 0..LogEnd - 1, o < position'[p]
             PROVE  (Accounted(owner[p], <<p, o>>) \/ current[owner[p]] = <<p, o>>)'
    BY DEF OwnershipInv, NoGapBelow
<1>1. Accounted(owner[p], <<p, o>>) \/ current[owner[p]] = <<p, o>>
    BY DEF IInv, OwnershipInv, NoGapBelow
<1>2. owner'[p] = owner[p]
    OBVIOUS
<1>3. CASE Settled(<<p, o>>)
    BY <1>3, SettledGrows DEF Accounted
<1>4. CASE <<p, o>> \in Batch(owner[p])
    BY <1>4, <1>2 DEF Accounted
<1>5. CASE current[owner[p]] = <<p, o>>
    BY <1>5, <1>2 DEF Accounted
<1> QED BY <1>1, <1>3, <1>4, <1>5 DEF Accounted

\* Offsets nobody moves.
LEMMA CommittedKept ==
    ASSUME IInv, Growth, UNCHANGED committed
    PROVE  CommittedIsDelivered'
BY SettledGrows DEF IInv, CommittedIsDelivered

\* A commit of a list of settled records with nothing unsettled below any of them.
LEMMA CommitSafe ==
    ASSUME IInv, Growth, committed' \in [Partitions -> Offsets],
           NEW recs, CommitsTo(recs, committed'),
           \A i \in DOMAIN recs :
              /\ recs[i] \in Records
              /\ Settled(recs[i])
              /\ \A o \in 0..LogEnd - 1 : o < recs[i][2] => Settled(<<recs[i][1], o>>)
    PROVE  CommittedIsDelivered'
<1> SUFFICES ASSUME NEW p \in Partitions, NEW o \in 0..LogEnd - 1, o < committed'[p]
             PROVE  Settled(<<p, o>>)'
    BY DEF CommittedIsDelivered
<1>1. CASE \E i \in DOMAIN recs : recs[i][1] = p
    <2>1. PICK i \in DOMAIN recs : recs[i][1] = p /\ committed'[p] = recs[i][2] + 1
        BY <1>1 DEF CommitsTo
    <2>2. recs[i][2] \in 0..LogEnd - 1 /\ recs[i] = <<recs[i][1], recs[i][2]>>
        BY DEF Records
    <2>3. o < recs[i][2] \/ o = recs[i][2]
        BY <2>1, <2>2, FanoutAssumption
    <2>4. Settled(<<p, o>>)
        BY <2>1, <2>2, <2>3
    <2> QED BY <2>4, SettledGrows
<1>2. CASE ~ \E i \in DOMAIN recs : recs[i][1] = p
    <2>1. committed'[p] = committed[p]
        BY <1>2 DEF CommitsTo
    <2> QED BY <2>1, SettledGrows DEF IInv, CommittedIsDelivered
<1> QED BY <1>1, <1>2

-----------------------------------------------------------------------------
(* Member m's own steps.                                                   *)

\* A member that neither gains nor drops a record.
LEMMA OrderKept ==
    ASSUME IInv, Growth, NEW m \in Members, buffer'[m] = buffer[m],
           current'[m] \in {current[m], None}
    PROVE  BufferInOrder(m)' /\ CurrentInOrder(m)' /\ Batch(m)' = Batch(m)
<1>1. BufferInOrder(m) /\ CurrentInOrder(m)
    BY DEF IInv, MemberInv
<1>2. Batch(m)' = Batch(m)
    BY DEF Batch
<1>3. BufferInOrder(m)'
    BY <1>1, <1>2, SettledGrows DEF BufferInOrder, Accounted
<1>4. CurrentInOrder(m)'
    BY <1>1, <1>2, SettledGrows DEF CurrentInOrder, Accounted
<1> QED BY <1>2, <1>3, <1>4

\* The others, when only member m takes part.
LEMMA OthersKept ==
    ASSUME IInv, Growth, NEW m \in Members,
           \A n \in Members \ {m} :
              /\ UNCHANGED <<buffer[n], staged[n], pc[n], why[n], current[n]>>
              /\ n \in fenced' => n \in fenced
    PROVE  \A n \in Members \ {m} : MemberInv(n)'
BY Bystander

\* Raising leaves a member in finally, or on its way out.
LEMMA RaiseControl ==
    ASSUME TypeOK, NEW m \in Members, Raise(m)
    PROVE  /\ pc'[m] \in {"write", "close", "exit"}
           /\ pc'[m] = "write" => why'[m] = "final"
           /\ \A n \in Members \ {m} : pc'[n] = pc[n] /\ why'[n] = why[n]
BY DEF TypeOK, Raise

\* A commit that fails, or a write, or a flush: control moves, the buffer stays.
LEMMA RaiseProgress ==
    ASSUME IInv, NEW m \in Members, Raise(m)
    PROVE  Progress(m)'
<1>1. pc'[m] \in {"write", "close", "exit"} /\ (pc'[m] = "write" => why'[m] = "final")
    BY RaiseControl DEF IInv
<1> QED BY <1>1 DEF Progress

-----------------------------------------------------------------------------
(* One lemma per step of a member.  Each assumes what TypeStep and         *)
(* GrowthStep give for every step.                                         *)

LEMMA FetchRecordInv ==
    ASSUME IInv, TypeOK', Growth, NEW m \in Members, NEW p \in Partitions, FetchRecord(m, p)
    PROVE  IInv'
<1> DEFINE new == <<p, position[p]>>
<1> USE DEF sinkVars
<1>t. FanoutTypeOK /\ TypeOK /\ MemberInv(m)
    BY DEF IInv, TypeOK
<1>1. /\ pc[m] = "poll" /\ owner[p] = m /\ new \notin Malformed /\ current[m] = None
      /\ new \in Records /\ position'[p] = position[p] + 1 /\ m \notin fenced
    BY <1>t, FanoutAssumption DEF FetchRecord, MemberInv, Progress, FanoutTypeOK, Offsets, Records
<1>2. Batch(m)' = Batch(m) \cup {new}
    BY <1>1, <1>t, BatchAppend DEF FetchRecord
<1>3. \A n \in Members \ {m} : MemberInv(n)'
    <2>1. /\ \A n \in Members \ {m} : UNCHANGED <<buffer[n], staged[n], pc[n], why[n], current[n]>>
          /\ fenced' = fenced
        BY <1>t DEF FetchRecord, TypeOK, FanoutTypeOK
    <2> QED BY <2>1, OthersKept
<1>4. BufferInOrder(m)'
    <2>1. \A o \in 0..LogEnd - 1 : o < position[p] => Accounted(m, <<p, o>>)
        <3>1. owner[p] = m /\ m # None /\ NoGapBelow(m, p, position[p])
            BY <1>1, FanoutAssumption DEF IInv, OwnershipInv
        <3>2. \A o \in 0..LogEnd - 1 : current[m] # <<p, o>>
            BY <1>1, FanoutAssumption DEF Records
        <3> QED BY <3>1, <3>2 DEF NoGapBelow
    <2>2. \A r \in Batch(m)', o \in 0..LogEnd - 1 : o < r[2] => Accounted(m, <<r[1], o>>)
        BY <1>2, <2>1, <1>t DEF MemberInv, BufferInOrder
    <2>3. \A r : Accounted(m, r) => Accounted(m, r)'
        BY <1>2, SettledGrows DEF Accounted
    <2> QED BY <1>1, <1>2, <2>2, <2>3, <1>t DEF MemberInv, BufferInOrder
<1>5. CurrentInOrder(m)'
    BY <1>1 DEF CurrentInOrder, FetchRecord
<1>6. Progress(m)'
    BY <1>1, <1>t DEF Progress, FetchRecord, TypeOK
<1>7. SinksInOrder(m)'
    BY <1>2, <1>t DEF MemberInv, SinksInOrder, FetchRecord
<1>8. OwnershipInv'
    <2> SUFFICES ASSUME NEW q \in Partitions, owner[q] # None
                 PROVE  /\ pc'[owner[q]] # "down" /\ owner[q] \notin fenced
                        /\ \A o \in 0..LogEnd - 1 : o < position'[q] =>
                              (Accounted(owner[q], <<q, o>>) \/ current[owner[q]] = <<q, o>>)'
        BY DEF OwnershipInv, NoGapBelow, FetchRecord
    <2>1. pc'[owner[q]] # "down" /\ owner[q] \notin fenced
        BY <1>1, <1>t DEF IInv, OwnershipInv, FetchRecord, TypeOK, FanoutTypeOK
    <2>2. ASSUME NEW o \in 0..LogEnd - 1, o < position'[q]
          PROVE  (Accounted(owner[q], <<q, o>>) \/ current[owner[q]] = <<q, o>>)'
        <3>1. UNCHANGED <<owner, current>>
            BY DEF FetchRecord
        <3>2. \A n \in Members : Batch(n) \subseteq Batch(n)'
            <4>1. \A n \in Members \ {m} : Batch(n)' = Batch(n)
                BY <1>t DEF FetchRecord, FanoutTypeOK, Batch
            <4> QED BY <4>1, <1>2
        <3>3. CASE o < position[q]
            <4>1. Accounted(owner[q], <<q, o>>) \/ current[owner[q]] = <<q, o>>
                BY <3>3 DEF IInv, OwnershipInv, NoGapBelow
            <4> QED BY <4>1, <3>1, <3>2, SettledGrows, <1>t DEF Accounted, FanoutTypeOK
        <3>4. CASE ~(o < position[q])
            <4>1. q = p /\ o = position[p]
                BY <3>4, <2>2, <1>1, <1>t DEF FetchRecord, FanoutTypeOK, Offsets
            <4> QED BY <4>1, <3>1, <1>1, <1>2 DEF Accounted
        <3> QED BY <3>3, <3>4
    <2> QED BY <2>1, <2>2
<1>9. CommittedIsDelivered'
    BY CommittedKept DEF FetchRecord
<1> QED BY <1>3, <1>4, <1>5, <1>6, <1>7, <1>8, <1>9 DEF IInv, MemberInv

LEMMA FetchMalformedInv ==
    ASSUME IInv, TypeOK', Growth, NEW m \in Members, NEW p \in Partitions, FetchMalformed(m, p)
    PROVE  IInv'
<1> DEFINE new == <<p, position[p]>>
<1> USE DEF sinkVars
<1>t. FanoutTypeOK /\ TypeOK /\ MemberInv(m)
    BY DEF IInv, TypeOK
<1>1. /\ pc[m] = "poll" /\ owner[p] = m /\ new \in Malformed /\ current[m] = None
      /\ new \in Records /\ position'[p] = position[p] + 1 /\ m \notin fenced
      /\ current'[m] = new /\ new # None
    BY <1>t, FanoutAssumption DEF FetchMalformed, MemberInv, Progress, TypeOK, FanoutTypeOK, Offsets, Records
<1>2. \A n \in Members : Batch(n)' = Batch(n)
    BY DEF Batch, FetchMalformed
<1>3. \A n \in Members \ {m} : MemberInv(n)'
    BY <1>t, OthersKept DEF FetchMalformed, TypeOK, FanoutTypeOK
<1>4. BufferInOrder(m)'
    BY <1>2, <1>t, SettledGrows DEF MemberInv, BufferInOrder, Accounted
<1>5. CurrentInOrder(m)'
    <2>1. \A o \in 0..LogEnd - 1 : o < position[p] => Accounted(m, <<p, o>>)
        <3>1. owner[p] = m /\ m # None /\ NoGapBelow(m, p, position[p])
            BY <1>1, FanoutAssumption DEF IInv, OwnershipInv
        <3>2. \A o \in 0..LogEnd - 1 : current[m] # <<p, o>>
            BY <1>1, FanoutAssumption DEF Records
        <3> QED BY <3>1, <3>2 DEF NoGapBelow
    <2> QED BY <1>1, <1>2, <2>1, SettledGrows DEF CurrentInOrder, Accounted
<1>6. Progress(m)'
    BY <1>1, <1>t DEF Progress, FetchMalformed, TypeOK
<1>7. SinksInOrder(m)'
    BY <1>2, <1>t DEF MemberInv, SinksInOrder, FetchMalformed
<1>8. OwnershipInv'
    <2> SUFFICES ASSUME NEW q \in Partitions, owner[q] # None
                 PROVE  /\ pc'[owner[q]] # "down" /\ owner[q] \notin fenced
                        /\ \A o \in 0..LogEnd - 1 : o < position'[q] =>
                              (Accounted(owner[q], <<q, o>>) \/ current[owner[q]] = <<q, o>>)'
        BY DEF OwnershipInv, NoGapBelow, FetchMalformed
    <2>1. pc'[owner[q]] # "down" /\ owner[q] \notin fenced
        BY <1>1, <1>t DEF IInv, OwnershipInv, FetchMalformed, TypeOK, FanoutTypeOK
    <2>2. ASSUME NEW o \in 0..LogEnd - 1, o < position'[q]
          PROVE  (Accounted(owner[q], <<q, o>>) \/ current[owner[q]] = <<q, o>>)'
        <3>1. UNCHANGED owner
            BY DEF FetchMalformed
        <3>2. CASE o < position[q]
            <4>1. Accounted(owner[q], <<q, o>>) \/ current[owner[q]] = <<q, o>>
                BY <3>2 DEF IInv, OwnershipInv, NoGapBelow
            <4>2. current[owner[q]] = <<q, o>> => current'[owner[q]] = <<q, o>>
                <5>1. <<q, o>> # None
                    BY FanoutAssumption DEF Records
                <5>2. current[m] = None /\ \A n \in Members \ {m} : current'[n] = current[n]
                    BY <1>1, <1>t DEF FetchMalformed, TypeOK, FanoutTypeOK
                <5> QED BY <5>1, <5>2, <1>t DEF FetchMalformed
            <4> QED BY <4>1, <4>2, <3>1, <1>2, SettledGrows, <1>t DEF Accounted, FanoutTypeOK
        <3>3. CASE ~(o < position[q])
            <4>1. q = p /\ o = position[p]
                BY <3>3, <2>2, <1>1, <1>t DEF FetchMalformed, FanoutTypeOK, Offsets
            <4> QED BY <4>1, <3>1, <1>1
        <3> QED BY <3>2, <3>3
    <2> QED BY <2>1, <2>2
<1>9. CommittedIsDelivered'
    BY CommittedKept DEF FetchMalformed
<1> QED BY <1>3, <1>4, <1>5, <1>6, <1>7, <1>8, <1>9 DEF IInv, MemberInv

\* The loop decides to flush, is told to stop, or starts.
LEMMA ControlInv ==
    ASSUME IInv, TypeOK', Growth, NEW m \in Members, FlushIdle(m) \/ Stop(m) \/ Start(m)
    PROVE  IInv'
<1> USE DEF sinkVars, groupVars
<1>t. FanoutTypeOK /\ TypeOK /\ MemberInv(m)
    BY DEF IInv, TypeOK
<1>1. UNCHANGED <<owner, position, committed, fenced, buffer, staged, stored, rejected, current>>
    BY DEF FlushIdle, Stop, Start
<1>2. \A n \in Members : Batch(n)' = Batch(n)
    BY <1>1 DEF Batch
<1>3. \A n \in Members \ {m} : MemberInv(n)'
    BY <1>t, <1>1, OthersKept DEF FlushIdle, Stop, Start, TypeOK
<1>4. BufferInOrder(m)' /\ CurrentInOrder(m)'
    BY <1>1, OrderKept
<1>5. Progress(m)'
    <2>1. CASE Start(m)
        <3>1. current[m] = None /\ m \notin fenced
            BY <2>1, <1>t DEF Start, MemberInv, Progress
        <3> QED BY <2>1, <1>1, <3>1, <1>t DEF Start, MemberInv, Progress, TypeOK
    <2>2. CASE FlushIdle(m) \/ Stop(m)
        BY <2>2, <1>1, <1>t DEF FlushIdle, Stop, MemberInv, Progress, TypeOK
    <2> QED BY <2>1, <2>2
<1>6. SinksInOrder(m)'
    BY <1>1, <1>2, <1>t DEF MemberInv, SinksInOrder
<1>7. OwnershipInv'
    <2>1. \A p \in Partitions : owner[p] # None => pc'[owner[p]] # "down"
        BY <1>t DEF IInv, OwnershipInv, FlushIdle, Stop, Start, TypeOK, FanoutTypeOK
    <2> QED BY <1>1, <1>2, <1>t, <2>1, OwnershipKept DEF IInv, OwnershipInv, FanoutTypeOK
<1>8. CommittedIsDelivered'
    BY <1>1, CommittedKept
<1> QED BY <1>3, <1>4, <1>5, <1>6, <1>7, <1>8 DEF IInv, MemberInv

\* Writing and flushing the sinks.
LEMMA SinkCallInv ==
    ASSUME IInv, TypeOK', Growth, NEW m \in Members, WriteBatchStrict(m) \/ FlushStrict(m),
           Progress(m)', SinksInOrder(m)'
    PROVE  IInv'
<1> USE DEF groupVars
<1>t. FanoutTypeOK /\ TypeOK /\ MemberInv(m)
    BY DEF IInv, TypeOK
<1>1. UNCHANGED <<owner, position, committed, fenced, buffer, current>>
    BY DEF WriteBatchStrict, FlushStrict
<1>2. \A n \in Members : Batch(n)' = Batch(n)
    BY <1>1 DEF Batch
<1>3. \A n \in Members \ {m} : pc'[n] = pc[n] /\ why'[n] = why[n] /\ staged'[n] = staged[n]
    BY <1>t, RaiseControl DEF WriteBatchStrict, FlushStrict, ApplyOutcome, TypeOK, FanoutTypeOK
<1>4. \A n \in Members \ {m} : MemberInv(n)'
    BY <1>1, <1>3, OthersKept
<1>5. BufferInOrder(m)' /\ CurrentInOrder(m)'
    BY <1>1, OrderKept
<1>6. pc'[m] # "down"
    BY <1>t, RaiseControl DEF WriteBatchStrict, FlushStrict, TypeOK
<1>7. OwnershipInv'
    <2>1. \A p \in Partitions : owner[p] # None => pc'[owner[p]] # "down"
        BY <1>t, <1>3, <1>6 DEF IInv, OwnershipInv, FanoutTypeOK
    <2> QED BY <1>1, <1>2, <1>t, <2>1, OwnershipKept DEF IInv, OwnershipInv, FanoutTypeOK
<1>8. CommittedIsDelivered'
    BY <1>1, CommittedKept
<1> QED BY <1>4, <1>5, <1>7, <1>8 DEF IInv, MemberInv

LEMMA WriteBatchStrictInv ==
    ASSUME IInv, TypeOK', Growth, NEW m \in Members, WriteBatchStrict(m)
    PROVE  IInv'
<1> USE DEF groupVars
<1>t. FanoutTypeOK /\ TypeOK /\ MemberInv(m)
    BY DEF IInv, TypeOK
<1>1. PICK outcome \in CompositeWrite(m) :
         /\ ApplyOutcome(m, outcome)
         /\ \/ AllOk(outcome) /\ pc' = [pc EXCEPT ![m] = "flush"] /\ UNCHANGED why
            \/ Raise(m)
    BY DEF WriteBatchStrict
<1>2. Batch(m)' = Batch(m) /\ buffer' = buffer /\ pc[m] = "write"
    BY DEF WriteBatchStrict, Batch
<1>3. \A s \in Sinks : /\ outcome[s] \in WriteOutcomes(s, Batch(m), staged[m][s])
                       /\ staged'[m][s] = outcome[s].stage
                       /\ stored'[s] = stored[s] \cup outcome[s].store
    BY <1>1, <1>t DEF CompositeWrite, ApplyOutcome, FanoutTypeOK, Endpoints
<1>4. SinksInOrder(m)'
    <2> SUFFICES ASSUME NEW s \in Sinks
                 PROVE  staged'[m][s] \subseteq Batch(m) /\ (Kind[s] = "historian" => staged'[m][s] = {})
        BY <1>2 DEF SinksInOrder
    <2>1. staged[m][s] \subseteq Batch(m)
        BY <1>t DEF MemberInv, SinksInOrder
    <2> QED BY <1>3, <2>1, WriteOutcomeShape
<1>5. Progress(m)'
    <2>1. CASE Raise(m)
        BY <2>1, RaiseProgress
    <2>2. CASE AllOk(outcome) /\ pc' = [pc EXCEPT ![m] = "flush"] /\ UNCHANGED why
        <3>1. \A s \in Sinks : Batch(m) \subseteq stored'[s] \cup staged'[m][s]
            BY <1>3, <2>2, WriteOutcomeShape DEF AllOk
        <3>2. pc'[m] = "flush"
            BY <2>2, <1>t DEF TypeOK
        <3>3. why'[m] = why[m] /\ current'[m] = current[m]
            BY <2>2 DEF WriteBatchStrict
        <3> QED BY <1>2, <3>1, <3>2, <3>3, <1>t DEF MemberInv, Progress
    <2> QED BY <1>1, <2>1, <2>2
<1> QED BY <1>4, <1>5, SinkCallInv

LEMMA FlushStrictInv ==
    ASSUME IInv, TypeOK', Growth, NEW m \in Members, FlushStrict(m)
    PROVE  IInv'
<1> USE DEF groupVars
<1>t. FanoutTypeOK /\ TypeOK /\ MemberInv(m)
    BY DEF IInv, TypeOK
<1>1. PICK outcome \in CompositeFlush(m) :
         /\ ApplyOutcome(m, outcome)
         /\ \/ AllOk(outcome) /\ pc' = [pc EXCEPT ![m] = "commit"] /\ UNCHANGED why
            \/ Raise(m)
    BY DEF FlushStrict
<1>2. Batch(m)' = Batch(m) /\ buffer' = buffer /\ pc[m] = "flush" /\ UNCHANGED rejected
    BY <1>1 DEF FlushStrict, Batch, ApplyOutcome
<1>3. \A s \in Sinks : /\ outcome[s] \in FlushOutcomes(s, staged[m][s])
                       /\ staged'[m][s] = outcome[s].stage
                       /\ stored'[s] = stored[s] \cup outcome[s].store
    BY <1>1, <1>t DEF CompositeFlush, ApplyOutcome, FanoutTypeOK, Endpoints
<1>4. \A s \in Sinks : staged[m][s] \subseteq Batch(m) /\ (Kind[s] = "historian" => staged[m][s] = {})
    BY <1>t DEF MemberInv, SinksInOrder
<1>5. SinksInOrder(m)'
    <2> SUFFICES ASSUME NEW s \in Sinks
                 PROVE  staged'[m][s] \subseteq Batch(m) /\ (Kind[s] = "historian" => staged'[m][s] = {})
        BY <1>2 DEF SinksInOrder
    <2> QED BY <1>3, <1>4, FlushOutcomeShape
<1>6. Progress(m)'
    <2>1. CASE Raise(m)
        BY <2>1, RaiseProgress
    <2>2. CASE AllOk(outcome) /\ pc' = [pc EXCEPT ![m] = "commit"] /\ UNCHANGED why
        <3>1. \A s \in Sinks : /\ Batch(m) \subseteq stored[s] \cup rejected[s] \cup staged[m][s]
                               /\ staged[m][s] \subseteq outcome[s].store /\ outcome[s].stage = {}
            BY <1>2, <1>3, <1>4, <2>2, <1>t, FlushOutcomeShape DEF AllOk, MemberInv, Progress
        <3>2. \A s \in Sinks : Batch(m) \subseteq stored'[s] \cup rejected'[s] /\ staged'[m][s] = {}
            BY <1>2, <1>3, <3>1
        <3>3. pc'[m] = "commit"
            BY <2>2, <1>t DEF TypeOK
        <3>4. why'[m] = why[m] /\ current'[m] = current[m]
            BY <2>2 DEF FlushStrict
        <3> QED BY <1>2, <3>2, <3>3, <3>4, <1>t DEF MemberInv, Progress
    <2> QED BY <1>1, <2>1, <2>2
<1> QED BY <1>5, <1>6, SinkCallInv

\* What has been flushed may be committed.
LEMMA BatchCommitSafe ==
    ASSUME IInv, Growth, NEW m \in Members, pc[m] = "commit",
           committed' \in [Partitions -> Offsets], CommitsTo(buffer[m], committed')
    PROVE  CommittedIsDelivered' /\ \A r \in Batch(m) : Settled(r)
<1>t. FanoutTypeOK /\ TypeOK /\ MemberInv(m)
    BY DEF IInv, TypeOK
<1>1. \A r \in Batch(m) : Settled(r)
    BY <1>t DEF MemberInv, Progress, BufferInOrder, Settled, Due
<1>2. \A i \in DOMAIN buffer[m] : buffer[m][i] \in Batch(m) /\ buffer[m][i] \in Records
    BY <1>t DEF Batch, FanoutTypeOK
<1>3. \A r \in Batch(m), o \in 0..LogEnd - 1 : o < r[2] => Settled(<<r[1], o>>)
    BY <1>1, <1>t DEF MemberInv, BufferInOrder, Accounted
<1> QED BY <1>1, <1>2, <1>3, CommitSafe

LEMMA CommitBatchInv ==
    ASSUME IInv, TypeOK', Growth, NEW m \in Members, CommitBatch(m)
    PROVE  IInv'
<1> USE DEF sinkVars
<1>t. FanoutTypeOK /\ TypeOK /\ MemberInv(m)
    BY DEF IInv, TypeOK
<1>1. CommittedIsDelivered' /\ \A r \in Batch(m) : Settled(r)
    BY BatchCommitSafe DEF CommitBatch
<1>2. /\ buffer'[m] = <<>> /\ Batch(m)' = {}
      /\ UNCHANGED <<owner, position, fenced, staged, stored, rejected, why, current>>
    BY <1>t DEF CommitBatch, FanoutTypeOK, Batch
<1>3. \A n \in Members \ {m} : Batch(n)' = Batch(n) /\ buffer'[n] = buffer[n] /\ pc'[n] = pc[n]
    BY <1>t DEF CommitBatch, Return, Batch, FanoutTypeOK, TypeOK
<1>4. \A n \in Members \ {m} : MemberInv(n)'
    BY <1>2, <1>3, OthersKept
<1>5. BufferInOrder(m)'
    BY <1>2 DEF BufferInOrder
<1>6. CurrentInOrder(m)'
    BY <1>1, <1>2, <1>t, SettledGrows DEF MemberInv, CurrentInOrder, Accounted
<1>7. /\ pc[m] = "commit" /\ m \notin fenced
      /\ why[m] = "loop" => pc'[m] = "poll"
      /\ why[m] = "malformed" => pc'[m] = "dlq"
      /\ why[m] = "final" => pc'[m] = "close"
      /\ why[m] \in {"loop", "malformed", "final"}
    BY <1>t DEF CommitBatch, Return, TypeOK
<1>8. Progress(m)'
    BY <1>2, <1>7, <1>t DEF MemberInv, Progress
<1>9. SinksInOrder(m)'
    BY <1>2, <1>7, <1>t DEF MemberInv, SinksInOrder, Progress
<1>10. OwnershipInv'
    <2>1. \A p \in Partitions : owner[p] # None => pc'[owner[p]] # "down"
        BY <1>t, <1>3, <1>7 DEF IInv, OwnershipInv, FanoutTypeOK
    <2>2. \A p \in Partitions : owner[p] # None =>
            \A r \in Batch(owner[p]) : r \in Batch(owner[p])' \/ Settled(r)'
        BY <1>t, <1>1, <1>2, <1>3, SettledGrows DEF FanoutTypeOK
    <2> QED BY <1>2, <1>t, <2>1, <2>2, OwnershipKept DEF IInv, OwnershipInv, FanoutTypeOK
<1> QED BY <1>1, <1>4, <1>5, <1>6, <1>8, <1>9, <1>10 DEF IInv, MemberInv

\* A step of member m after which only the offsets, the sinks and the place
\* control has reached have changed.
LEMMA BufferKeptInv ==
    ASSUME IInv, TypeOK', Growth, NEW m \in Members,
           UNCHANGED <<owner, position, fenced, buffer, staged>>,
           \A n \in Members \ {m} : UNCHANGED <<pc[n], why[n], current[n]>>,
           current'[m] = current[m] \/ (current'[m] = None /\ Settled(current[m])),
           pc'[m] # "down", Progress(m)', CommittedIsDelivered'
    PROVE  IInv'
<1>t. FanoutTypeOK /\ TypeOK /\ MemberInv(m)
    BY DEF IInv, TypeOK
<1>1. \A n \in Members : Batch(n)' = Batch(n)
    BY DEF Batch
<1>2. \A n \in Members \ {m} : MemberInv(n)'
    BY OthersKept
<1>3. BufferInOrder(m)' /\ CurrentInOrder(m)'
    BY OrderKept
<1>4. SinksInOrder(m)'
    BY <1>1, <1>t DEF MemberInv, SinksInOrder
<1>5. OwnershipInv'
    <2>1. \A p \in Partitions : owner[p] # None => pc'[owner[p]] # "down"
        BY <1>t DEF IInv, OwnershipInv, FanoutTypeOK
    <2>2. ASSUME NEW p \in Partitions, owner[p] # None, NEW r, r = current[owner[p]]
          PROVE  current'[owner[p]] = r \/ Settled(r)'
        <3>1. owner[p] \in Members
            BY <1>t, <2>2 DEF FanoutTypeOK
        <3>2. CASE owner[p] = m /\ Settled(current[m])
            BY <2>2, <3>2, SettledGrows
        <3>3. CASE current'[owner[p]] = current[owner[p]]
            BY <2>2, <3>3
        <3> QED BY <3>1, <3>2, <3>3
    <2> QED BY <1>1, <1>t, <2>1, <2>2, OwnershipKept DEF IInv, OwnershipInv, FanoutTypeOK
<1> QED BY <1>2, <1>3, <1>4, <1>5 DEF IInv, MemberInv

LEMMA CommitBatchFailsInv ==
    ASSUME IInv, TypeOK', Growth, NEW m \in Members, CommitBatchFails(m)
    PROVE  IInv'
<1> USE DEF sinkVars
<1>1. CommittedIsDelivered'
    BY BatchCommitSafe, CommittedKept DEF CommitBatchFails
<1>2. Progress(m)'
    BY RaiseProgress DEF CommitBatchFails
<1> QED BY <1>1, <1>2, RaiseControl, BufferKeptInv DEF CommitBatchFails, IInv

\* A dead letter that was published settles the record in hand.
LEMMA PublishMalformedRecordInv ==
    ASSUME IInv, TypeOK', Growth, NEW m \in Members, PublishMalformedRecord(m)
    PROVE  IInv'
<1> USE DEF groupVars
<1>t. FanoutTypeOK /\ TypeOK /\ MemberInv(m)
    BY DEF IInv, TypeOK
<1>1. CommittedIsDelivered'
    BY CommittedKept DEF PublishMalformedRecord
<1>2. UNCHANGED <<owner, position, fenced, buffer, staged, current>>
    BY DEF PublishMalformedRecord, DeadLetterReturns, DeadLetterRaises
<1>3. CASE Raise(m)
    <2>1. Progress(m)'
        BY <1>3, RaiseProgress
    <2> QED BY <1>1, <1>2, <1>3, <2>1, <1>t, RaiseControl, BufferKeptInv
<1>4. CASE DeadLetterReturns(current[m]) /\ pc' = [pc EXCEPT ![m] = "ack"] /\ UNCHANGED why
    <2>1. /\ pc[m] = "dlq" /\ buffer[m] = <<>> /\ current[m] # None /\ current[m] \in Malformed
        BY <1>t DEF PublishMalformedRecord, MemberInv, Progress, CurrentInOrder
    <2>2. current[m] \in stored'[Dlq] \cup rejected'[Dlq]
        BY <1>4, <1>t DEF DeadLetterReturns, FanoutTypeOK, Endpoints
    <2>3. Settled(current[m])'
        BY <2>1, <2>2, <1>2 DEF Settled, Due
    <2>4. pc'[m] = "ack"
        BY <1>4, <1>t DEF TypeOK
    <2>5. Progress(m)'
        BY <1>2, <2>1, <2>3, <2>4 DEF Progress
    <2>6. \A n \in Members \ {m} : UNCHANGED <<pc[n], why[n], current[n]>>
        BY <1>2, <1>4, <1>t DEF TypeOK
    <2> QED BY <1>1, <1>2, <2>4, <2>5, <2>6, BufferKeptInv
<1> QED BY <1>3, <1>4 DEF PublishMalformedRecord

\* With an empty buffer, what lies below the record in hand is settled.
LEMMA MalformedCommitSafe ==
    ASSUME IInv, Growth, NEW m \in Members, pc[m] = "ack",
           committed' \in [Partitions -> Offsets], CommitsTo(<<current[m]>>, committed')
    PROVE  CommittedIsDelivered'
<1>t. FanoutTypeOK /\ TypeOK /\ MemberInv(m)
    BY DEF IInv, TypeOK
<1>1. /\ current[m] \in Records /\ Settled(current[m]) /\ Batch(m) = {}
    BY <1>t, BatchEmpty DEF MemberInv, Progress, TypeOK
<1>2. \A o \in 0..LogEnd - 1 : o < current[m][2] => Settled(<<current[m][1], o>>)
    BY <1>1, <1>t DEF MemberInv, CurrentInOrder, Progress, Accounted
<1> DEFINE recs == <<current[m]>>
<1>3. \A i \in DOMAIN recs : recs[i] = current[m]
    OBVIOUS
<1> HIDE DEF recs
<1>4. CommitsTo(recs, committed')
    BY DEF recs
<1> QED BY <1>1, <1>2, <1>3, <1>4, CommitSafe

LEMMA CommitMalformedInv ==
    ASSUME IInv, TypeOK', Growth, NEW m \in Members, CommitMalformed(m)
    PROVE  IInv'
<1> USE DEF sinkVars
<1>t. FanoutTypeOK /\ TypeOK /\ MemberInv(m)
    BY DEF IInv, TypeOK
<1>1. CommittedIsDelivered'
    BY MalformedCommitSafe DEF CommitMalformed
<1>2. /\ pc'[m] = "poll" /\ current'[m] = None /\ m \notin fenced'
      /\ \A n \in Members \ {m} : UNCHANGED <<pc[n], why[n], current[n]>>
      /\ UNCHANGED <<owner, position, fenced, buffer, staged>>
    BY <1>t DEF CommitMalformed, TypeOK
<1>3. Progress(m)'
    BY <1>2 DEF Progress
<1>4. Settled(current[m])
    BY <1>t DEF CommitMalformed, MemberInv, Progress
<1> QED BY <1>1, <1>2, <1>3, <1>4, BufferKeptInv

LEMMA CommitMalformedFailsInv ==
    ASSUME IInv, TypeOK', Growth, NEW m \in Members, CommitMalformedFails(m)
    PROVE  IInv'
<1> USE DEF sinkVars
<1>1. CommittedIsDelivered'
    BY MalformedCommitSafe, CommittedKept DEF CommitMalformedFails
<1>2. Progress(m)'
    BY RaiseProgress DEF CommitMalformedFails
<1> QED BY <1>1, <1>2, RaiseControl, BufferKeptInv DEF CommitMalformedFails, IInv

\* The end of a process drops its buffer, and with it its partitions.
LEMMA EndOfProcessInv ==
    ASSUME IInv, TypeOK', Growth, NEW m \in Members, EndOfProcess(m)
    PROVE  IInv'
<1>t. FanoutTypeOK /\ TypeOK /\ MemberInv(m)
    BY DEF IInv, TypeOK
<1>1. /\ buffer'[m] = <<>> /\ Batch(m)' = {} /\ staged'[m] = [s \in Sinks |-> {}]
      /\ pc'[m] = "down" /\ current'[m] = None /\ m \notin fenced'
    BY <1>t DEF EndOfProcess, Vanish, TypeOK, FanoutTypeOK, Batch
<1>2. \A n \in Members \ {m} :
         /\ UNCHANGED <<buffer[n], staged[n], pc[n], why[n], current[n]>>
         /\ n \in fenced' => n \in fenced
         /\ Batch(n)' = Batch(n)
    BY <1>t DEF EndOfProcess, Vanish, TypeOK, FanoutTypeOK, Batch
<1>3. \A n \in Members \ {m} : MemberInv(n)'
    BY <1>2, OthersKept
<1>4. MemberInv(m)'
    BY <1>1 DEF MemberInv, BufferInOrder, CurrentInOrder, Progress, SinksInOrder
<1>5. OwnershipInv'
    <2>1. \A p \in Partitions : owner'[p] # None => owner'[p] = owner[p] /\ owner[p] \in Members \ {m}
        BY <1>t DEF EndOfProcess, Vanish, FanoutTypeOK
    <2>2. \A p \in Partitions : owner[p] # None => pc[owner[p]] # "down" /\ owner[p] \notin fenced
        BY DEF IInv, OwnershipInv
    <2>3. UNCHANGED position
        BY DEF EndOfProcess, Vanish
    <2> QED BY <1>2, <2>1, <2>2, <2>3, OwnershipKept
<1>6. CommittedIsDelivered'
    BY CommittedKept DEF EndOfProcess, Vanish
<1> QED BY <1>3, <1>4, <1>5, <1>6 DEF IInv

\* A member removed from the group owns nothing.
LEMMA FenceInv ==
    ASSUME IInv, TypeOK', Growth, NEW m \in Members, Fence(m)
    PROVE  IInv'
<1> USE DEF sinkVars
<1>t. FanoutTypeOK /\ TypeOK /\ MemberInv(m)
    BY DEF IInv, TypeOK
<1>1. UNCHANGED <<position, committed, buffer, staged, stored, rejected, pc, why, current>>
    BY DEF Fence
<1>2. \A n \in Members : Batch(n)' = Batch(n)
    BY <1>1 DEF Batch
<1>3. \A n \in Members \ {m} : MemberInv(n)'
    BY <1>1, OthersKept DEF Fence
<1>4. BufferInOrder(m)' /\ CurrentInOrder(m)'
    BY <1>1, OrderKept
<1>5. Progress(m)' /\ SinksInOrder(m)'
    <2>1. pc[m] # "poll" /\ pc[m] # "down"
        BY DEF Fence
    <2>2. Settled(current[m]) => Settled(current[m])'
        BY <1>1, SettledGrows
    <2> QED BY <1>1, <1>2, <1>t, <2>1, <2>2 DEF MemberInv, Progress, SinksInOrder
<1>6. OwnershipInv'
    <2>1. \A p \in Partitions : owner'[p] # None => owner'[p] = owner[p] /\ owner[p] # m
        BY DEF Fence
    <2>2. \A p \in Partitions : owner[p] # None => pc[owner[p]] # "down" /\ owner[p] \notin fenced
        BY DEF IInv, OwnershipInv
    <2>3. fenced' = fenced \cup {m}
        BY DEF Fence
    <2>4. \A p \in Partitions : owner[p] # None => owner[p] \in Members
        BY <1>t DEF FanoutTypeOK
    <2> QED BY <1>1, <1>2, <2>1, <2>2, <2>3, <2>4, OwnershipKept
<1>7. CommittedIsDelivered'
    BY <1>1, CommittedKept
<1> QED BY <1>3, <1>4, <1>5, <1>6, <1>7 DEF IInv, MemberInv

\* The new owner starts at the committed offset, below which all is settled.
LEMMA AssignInv ==
    ASSUME IInv, TypeOK', Growth, NEW m \in Members, NEW p \in Partitions, Assign(m, p)
    PROVE  IInv'
<1> USE DEF sinkVars
<1>t. FanoutTypeOK /\ TypeOK
    BY DEF IInv, TypeOK
<1>1. UNCHANGED <<committed, fenced, buffer, staged, stored, rejected, pc, why, current>>
    BY DEF Assign
<1>2. \A n \in Members : Batch(n)' = Batch(n)
    BY <1>1 DEF Batch
<1>3. \A n \in Members : MemberInv(n)'
    BY <1>1, Bystander
<1>4. OwnershipInv'
    <2> SUFFICES ASSUME NEW q \in Partitions, owner'[q] # None
                 PROVE  /\ pc[owner'[q]] # "down" /\ owner'[q] \notin fenced
                        /\ \A o \in 0..LogEnd - 1 : o < position'[q] =>
                              (Accounted(owner[q], <<q, o>>) \/ current[owner[q]] = <<q, o>>)'
        BY <1>1 DEF OwnershipInv, NoGapBelow
    <2>1. CASE q = p
        <3>1. owner'[q] = m /\ position'[q] = committed[q] /\ pc[m] = "poll" /\ m \notin fenced
            BY <2>1, <1>t DEF Assign, FanoutTypeOK, IInv, MemberInv, Progress
        <3>2. \A o \in 0..LogEnd - 1 : o < committed[q] => Settled(<<q, o>>)
            BY DEF IInv, CommittedIsDelivered
        <3> QED BY <3>1, <3>2, SettledGrows DEF Accounted
    <2>2. CASE q # p
        <3>1. owner'[q] = owner[q] /\ position'[q] = position[q]
            BY <2>2, <1>t DEF Assign, FanoutTypeOK
        <3>2. \A o \in 0..LogEnd - 1 : o < position[q] =>
                 Accounted(owner[q], <<q, o>>) \/ current[owner[q]] = <<q, o>>
            BY <3>1 DEF IInv, OwnershipInv, NoGapBelow
        <3>3. owner[q] \in Members
            BY <3>1, <1>t DEF FanoutTypeOK
        <3> QED BY <3>1, <3>2, <3>3, <1>1, <1>2, SettledGrows DEF Accounted, IInv, OwnershipInv
    <2> QED BY <2>1, <2>2
<1>5. CommittedIsDelivered'
    BY <1>1, CommittedKept
<1> QED BY <1>3, <1>4, <1>5 DEF IInv

\* The client delivers, or gives up, a record a sink had queued.
LEMMA DeliverInv ==
    ASSUME IInv, TypeOK', Growth, NEW m \in Members, NEW s \in Sinks, Deliver(m, s)
    PROVE  IInv'
<1> USE DEF groupVars
<1>t. FanoutTypeOK /\ TypeOK /\ MemberInv(m)
    BY DEF IInv, TypeOK
<1>1. UNCHANGED <<owner, position, committed, fenced, buffer, pc, why, current>>
    BY DEF Deliver
<1>2. PICK r \in staged[m][s] :
         /\ staged' = [staged EXCEPT ![m][s] = @ \ {r}]
         /\ \/ stored' = [stored EXCEPT ![s] = @ \cup {r}]
            \/ rejected' = [rejected EXCEPT ![s] = @ \cup {r}]
    BY DEF Deliver, KafkaDelivery
<1>3. r \in stored'[s] \cup rejected'[s]
    BY <1>2, <1>t DEF FanoutTypeOK, Endpoints
<1>4. \A z \in Sinks : staged'[m][z] \subseteq staged[m][z]
                       /\ staged[m][z] \subseteq staged'[m][z] \cup stored'[z] \cup rejected'[z]
    BY <1>2, <1>3, <1>t DEF FanoutTypeOK
<1>5. \A n \in Members : Batch(n)' = Batch(n)
    BY <1>1 DEF Batch
<1>6. \A n \in Members \ {m} : MemberInv(n)'
    BY <1>1, <1>2, <1>t, OthersKept DEF FanoutTypeOK
<1>7. BufferInOrder(m)' /\ CurrentInOrder(m)'
    BY <1>1, OrderKept
<1>8. SinksInOrder(m)'
    BY <1>4, <1>5, <1>t DEF MemberInv, SinksInOrder
<1>9. Progress(m)'
    <2>1. Settled(current[m]) => Settled(current[m])'
        BY <1>1, SettledGrows
    <2>2. \A z \in Sinks : stored[z] \subseteq stored'[z] /\ rejected[z] \subseteq rejected'[z]
        BY DEF Growth, Endpoints
    <2> QED BY <1>1, <1>4, <1>5, <1>t, <2>1, <2>2 DEF MemberInv, Progress
<1>10. OwnershipInv'
    BY <1>1, <1>5, <1>t, OwnershipKept DEF IInv, OwnershipInv, FanoutTypeOK
<1>11. CommittedIsDelivered'
    BY <1>1, CommittedKept
<1> QED BY <1>6, <1>7, <1>8, <1>9, <1>10, <1>11 DEF IInv, MemberInv

\* A step that changes nothing.
LEMMA StutterInv ==
    ASSUME IInv, TypeOK', Growth, UNCHANGED vars
    PROVE  IInv'
<1>1. UNCHANGED <<owner, position, committed, fenced, buffer, staged, stored, rejected, pc, why, current>>
    BY DEF vars
<1>2. \A n \in Members : MemberInv(n)'
    BY <1>1, Bystander
<1>3. \A n \in Members : Batch(n)' = Batch(n)
    BY <1>1 DEF Batch
<1>4. OwnershipInv'
    BY <1>1, <1>3, OwnershipKept DEF IInv, OwnershipInv, TypeOK, FanoutTypeOK
<1>5. CommittedIsDelivered'
    BY <1>1, CommittedKept
<1> QED BY <1>2, <1>4, <1>5 DEF IInv

-----------------------------------------------------------------------------
(* The theorems.                                                           *)

LEMMA InitInv == Init => IInv
<1> SUFFICES ASSUME Init PROVE IInv
    OBVIOUS
<1>1. TypeOK
    <2> <<>> \in Seq(Records)
        OBVIOUS
    <2> QED BY FanoutAssumption DEF Init, FanoutInit, TypeOK, FanoutTypeOK, Offsets
<1>2. CommittedIsDelivered /\ OwnershipInv
    BY FanoutAssumption DEF Init, FanoutInit, CommittedIsDelivered, OwnershipInv
<1>3. ASSUME NEW m \in Members PROVE MemberInv(m)
    <2>1. Batch(m) = {}
        BY <1>3, BatchEmpty DEF Init, FanoutInit
    <2> QED BY <1>3, <2>1 DEF Init, FanoutInit, MemberInv, BufferInOrder, CurrentInOrder, Progress, SinksInOrder
<1> QED BY <1>1, <1>2, <1>3 DEF IInv

LEMMA StepInv == IInv /\ [Next]_vars => IInv'
<1> SUFFICES ASSUME IInv, [Next]_vars PROVE IInv'
    OBVIOUS
<1>1. TypeOK' /\ Growth
    BY TypeStep, GrowthStep
<1>2. CASE \E m \in Members : Step(m)
    BY <1>1, <1>2, FetchRecordInv, FetchMalformedInv, ControlInv, WriteBatchStrictInv, FlushStrictInv,
       CommitBatchInv, CommitBatchFailsInv, PublishMalformedRecordInv, CommitMalformedInv,
       CommitMalformedFailsInv, EndOfProcessInv DEF Step, Close
<1>3. CASE \E m \in Members : Environment(m)
    BY <1>1, <1>3, ControlInv, EndOfProcessInv, FenceInv, AssignInv, DeliverInv DEF Environment, Crash
<1>4. CASE UNCHANGED vars
    BY <1>1, <1>4, StutterInv
<1> QED BY <1>2, <1>3, <1>4 DEF Next

\* The invariant the two theorems rest on.
THEOREM Inductive == Spec => []IInv
<1> QED BY InitInv, StepInv, PTL DEF Spec

\* Every reachable state is well typed.
THEOREM TypeCorrect == Spec => []TypeOK
<1>1. IInv => TypeOK
    BY DEF IInv
<1> QED BY <1>1, Inductive, PTL

\* At-least-once delivery of the operational fan-out (operational_fanout.py and
\* artifact_fanout.py, which shares its loop), for every group, topic and batch size.
THEOREM AtLeastOnce == Spec => []CommittedIsDelivered
<1>1. IInv => CommittedIsDelivered
    BY DEF IInv
<1> QED BY <1>1, Inductive, PTL

\* No process closes its sinks while they hold something it has let go of.
THEOREM SinksNeverAhead == Spec => []SinksHoldOnlyTheBuffer
<1>1. IInv => SinksHoldOnlyTheBuffer
    BY DEF IInv, MemberInv, SinksInOrder, SinksHoldOnlyTheBuffer
<1> QED BY <1>1, Inductive, PTL

-----------------------------------------------------------------------------
(* Refinement.  A step either delivers records and leaves the offsets      *)
(* alone, or installs offsets and delivers nothing.                        *)

LEMMA StepRefines == IInv /\ IInv' /\ [Next]_vars => [Delivery!Next]_Delivery!vars
<1> DEFINE settled == {r \in Records : Settled(r)}
<1> SUFFICES ASSUME IInv, IInv', [Next]_vars
             PROVE  \/ settled \subseteq settled' /\ UNCHANGED committed
                    \/ /\ committed' \in [Partitions -> Offsets]
                       /\ \A p \in Partitions, o \in 0..LogEnd - 1 :
                             o < committed'[p] => <<p, o>> \in settled
                       /\ UNCHANGED settled
    <2>1. settled' \in SUBSET Delivery!Records
        BY DEF Delivery!Records, Records
    <2> QED BY <2>1 DEF Delivery!Next, Delivery!Deliver, Delivery!Commit, Offsets
<1> USE DEF sinkVars, groupVars
<1>1. Growth
    BY GrowthStep
<1>2. settled \subseteq settled'
    BY <1>1, SettledGrows
<1>3. ASSUME NEW m \in Members,
             CommitBatch(m) \/ CommitBatchFails(m) \/ CommitMalformed(m) \/ CommitMalformedFails(m)
      PROVE  /\ committed' \in [Partitions -> Offsets]
             /\ \A p \in Partitions, o \in 0..LogEnd - 1 :
                   o < committed'[p] => <<p, o>> \in settled
             /\ UNCHANGED settled
    <2>1. UNCHANGED <<stored, rejected>>
        BY <1>3 DEF CommitBatch, CommitBatchFails, CommitMalformed, CommitMalformedFails
    <2>2. \A r : Settled(r)' = Settled(r)
        BY <2>1 DEF Settled
    <2>3. committed' \in [Partitions -> Offsets] /\ CommittedIsDelivered'
        BY DEF IInv, TypeOK, FanoutTypeOK
    <2>4. \A p \in Partitions, o \in 0..LogEnd - 1 : <<p, o>> \in Records
        BY DEF Records
    <2> QED BY <2>2, <2>3, <2>4 DEF CommittedIsDelivered
<1>4. ASSUME NEW m \in Members,
             \/ \E p \in Partitions : FetchRecord(m, p) \/ FetchMalformed(m, p) \/ Assign(m, p)
             \/ \E s \in Sinks : Deliver(m, s)
             \/ FlushIdle(m) \/ WriteBatchStrict(m) \/ FlushStrict(m) \/ PublishMalformedRecord(m)
             \/ Close(m) \/ Start(m) \/ Stop(m) \/ Crash(m) \/ Fence(m)
      PROVE  UNCHANGED committed
    BY <1>4 DEF FetchRecord, FetchMalformed, Assign, Deliver, FlushIdle, WriteBatchStrict, FlushStrict,
                PublishMalformedRecord, Close, Start, Stop, Crash, Fence, EndOfProcess, Vanish
<1>5. CASE UNCHANGED vars
    BY <1>2, <1>5 DEF vars
<1> QED BY <1>2, <1>3, <1>4, <1>5 DEF Next, Step, Environment

\* The operational fan-out implements the abstract promise of AtLeastOnce.
THEOREM Refinement == Spec => DeliveryRefined
<1>1. Init => Delivery!Init
    BY DEF Init, FanoutInit, Delivery!Init, Delivery!Records, Records
<1> QED BY <1>1, StepRefines, Inductive, PTL DEF Spec, DeliveryRefined, Delivery!Spec
=============================================================================
