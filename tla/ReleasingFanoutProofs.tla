------------------------ MODULE ReleasingFanoutProofs ------------------------
(***************************************************************************)
(* Proofs about ReleasingFanout, for every group, topic, set of sinks and  *)
(* batch size.  UInv says what the place control has reached tells of a    *)
(* member's batch, sinks and record in hand, and holds whatever the group  *)
(* does; it already gives that a commit point is a delivered record and    *)
(* that a reload finds its sinks empty.  OInv adds that nothing is passed  *)
(* over, and is inductive as long as no record is buffered ahead of a      *)
(* malformed one (NothingPassedOver) and the group reads from the start.   *)
(***************************************************************************)
EXTENDS ReleasingFanout, FanoutDeliveryProofs

PcStates == {"down", "poll", "write", "flush", "commit", "dlq", "ack", "close", "exit"}
Reasons == {"loop", "reload", "final"}

\* The record is delivered, or ai_enriched_fanout gave its insert up.
Done(r) == Settled(r) \/ r \in dropped

\* Member m has not lost sight of record r.
Accounted(m, r) == Done(r) \/ r \in Batch(m)

\* Nothing stays in the buffer from one turn of the loop to the next.
OneAtATime == program = "ai_enriched" \/ BatchSize = 1

\* What the place control has reached says of why it is there, of the record in
\* hand and of the buffer.
Control(m) ==
    /\ pc[m] = "down" => why[m] = "loop" /\ current[m] = None /\ m \notin fenced
    /\ pc[m] \in {"poll", "dlq", "ack"} => why[m] # "final"
    /\ pc[m] = "close" => why[m] # "loop"
    /\ pc[m] = "exit" => why[m] = "final"
    /\ pc[m] \in {"dlq", "ack"} <=> current[m] # None /\ why[m] # "final"
    /\ current[m] # None => current[m] \in Malformed
    /\ pc[m] = "ack" => Settled(current[m])
    /\ Batch(m) \cap Malformed = {}
    /\ pc[m] \in {"down", "close", "exit"} => buffer[m] = <<>>
    /\ pc[m] \in {"poll", "dlq", "ack"} /\ OneAtATime => buffer[m] = <<>>

\* ... and of the sinks: they are empty outside a flush, and during one they and
\* the endpoints hold the batch.
SinksOf(m) ==
    \A s \in Sinks :
        /\ Kind[s] = "historian" => staged[m][s] = {}
        /\ pc[m] \in {"down", "poll", "dlq", "ack", "write"} => staged[m][s] = {}
        /\ pc[m] = "flush" =>
              /\ staged[m][s] \subseteq Batch(m)
              /\ Batch(m) \subseteq stored[s] \cup rejected[s] \cup staged[m][s]
        /\ pc[m] = "commit" => Batch(m) \subseteq stored[s] \cup rejected[s] /\ staged[m][s] = {}

UInv == TypeOK /\ CommitPointIsDelivered /\ \A m \in Members : Control(m) /\ SinksOf(m)

\* The records a member holds, and the loop's position, leave no gap behind them.
NoGapBelow(m, p, offset) ==
    \A o \in 0..LogEnd - 1 : o < offset => Accounted(m, <<p, o>>) \/ current[m] = <<p, o>>

BufferInOrder(m) ==
    \A r \in Batch(m), o \in 0..LogEnd - 1 : o < r[2] => Accounted(m, <<r[1], o>>)

CurrentInOrder(m) ==
    pc[m] \in {"dlq", "ack"} =>
        \A o \in 0..LogEnd - 1 : o < current[m][2] => Accounted(m, <<current[m][1], o>>)

\* A member on its way out has let go of a batch: its position means nothing,
\* and it reads no more.
OwnershipInv ==
    \A p \in Partitions : owner[p] # None =>
        /\ pc[owner[p]] # "down"
        /\ owner[p] \notin fenced
        /\ why[owner[p]] # "final" => NoGapBelow(owner[p], p, position[p])

DoneBelowCommitted ==
    \A p \in Partitions, o \in 0..LogEnd - 1 : o < committed[p] => Done(<<p, o>>)

OInv ==
    /\ DoneBelowCommitted
    /\ OwnershipInv
    /\ \A m \in Members : BufferInOrder(m) /\ CurrentInOrder(m)

\* No record waits in the buffer while a later malformed one of its partition is
\* dealt with.
NothingPassedOver ==
    \A m \in Members : pc[m] \in {"dlq", "ack"} =>
        \A r \in Batch(m) : r[1] = current[m][1] => r[2] >= current[m][2]

-----------------------------------------------------------------------------
(* Control.                                                                *)

\* Where raising leaves a member: in finally, flushing what is buffered.
LEMMA RaiseShape ==
    ASSUME TypeOK, NEW m \in Members, Raise(m)
    PROVE  /\ pc' \in [Members -> PcStates] /\ why' \in [Members -> Reasons]
           /\ pc'[m] = IF buffer[m] = <<>> THEN "close" ELSE "write"
           /\ why'[m] = "final" /\ buffer' = buffer
           /\ \A n \in Members \ {m} : pc'[n] = pc[n] /\ why'[n] = why[n]
BY DEF TypeOK, Raise, PcStates, Reasons

\* Where flush() leaves a member, raising or returning: the batch is let go of,
\* and only a loop that did not raise goes on polling.
LEMMA RaiseInFlushShape ==
    ASSUME TypeOK, NEW m \in Members, RaiseInFlush(m)
    PROVE  /\ pc' \in [Members -> PcStates] /\ why' \in [Members -> Reasons]
           /\ buffer' \in [Members -> Seq(Records)]
           /\ pc'[m] \in {"close", "exit"} /\ why'[m] = "final"
           /\ buffer'[m] = <<>> /\ Batch(m)' = {}
           /\ \A n \in Members \ {m} : pc'[n] = pc[n] /\ why'[n] = why[n] /\ buffer'[n] = buffer[n]
<1>1. <<>> \in Seq(Records)
    OBVIOUS
<1>2. buffer' \in [Members -> Seq(Records)] /\ buffer'[m] = <<>>
    BY <1>1 DEF TypeOK, FanoutTypeOK, RaiseInFlush
<1> QED BY <1>2 DEF TypeOK, FanoutTypeOK, RaiseInFlush, PcStates, Reasons, Batch

LEMMA ReturnFromFlushShape ==
    ASSUME TypeOK, NEW m \in Members, ReturnFromFlush(m)
    PROVE  /\ pc' \in [Members -> PcStates] /\ why' = why
           /\ buffer' \in [Members -> Seq(Records)]
           /\ pc'[m] = IF why[m] = "loop" THEN "poll" ELSE "close"
           /\ buffer'[m] = <<>> /\ Batch(m)' = {}
           /\ \A n \in Members \ {m} : pc'[n] = pc[n] /\ buffer'[n] = buffer[n]
<1>1. <<>> \in Seq(Records)
    OBVIOUS
<1>2. buffer' \in [Members -> Seq(Records)] /\ buffer'[m] = <<>>
    BY <1>1 DEF TypeOK, FanoutTypeOK, ReturnFromFlush
<1> QED BY <1>2 DEF TypeOK, FanoutTypeOK, ReturnFromFlush, PcStates, Batch

\* The end of a process: nothing of it is left but what it delivered.
LEMMA EndShape ==
    ASSUME TypeOK, NEW m \in Members, EndOfProcess(m)
    PROVE  /\ pc' \in [Members -> PcStates] /\ why' \in [Members -> Reasons]
           /\ current' \in [Members -> Records \cup {None}]
           /\ buffer' \in [Members -> Seq(Records)]
           /\ staged' \in [Members -> [Sinks -> SUBSET Records]]
           /\ owner' \in [Partitions -> Members \cup {None}]
           /\ fenced' \subseteq Members
           /\ UNCHANGED <<position, committed, stored, rejected>>
           /\ pc'[m] = "down" /\ why'[m] = "loop" /\ current'[m] = None
           /\ buffer'[m] = <<>> /\ Batch(m)' = {} /\ \A s \in Sinks : staged'[m][s] = {}
           /\ m \notin fenced'
           /\ \A p \in Partitions : owner'[p] # None => owner'[p] = owner[p] /\ owner[p] # m
           /\ \A n \in Members \ {m} :
                 /\ UNCHANGED <<buffer[n], staged[n], pc[n], why[n], current[n]>>
                 /\ n \in fenced' => n \in fenced
<1>1. /\ pc' \in [Members -> PcStates] /\ why' \in [Members -> Reasons]
      /\ current' \in [Members -> Records \cup {None}]
      /\ pc'[m] = "down" /\ why'[m] = "loop" /\ current'[m] = None
      /\ \A n \in Members \ {m} : UNCHANGED <<pc[n], why[n], current[n]>>
    BY DEF TypeOK, EndOfProcess, PcStates, Reasons
<1>2. /\ buffer' \in [Members -> Seq(Records)] /\ buffer'[m] = <<>>
      /\ \A n \in Members \ {m} : buffer'[n] = buffer[n]
    <2> <<>> \in Seq(Records)
        OBVIOUS
    <2> QED BY DEF TypeOK, FanoutTypeOK, EndOfProcess, Vanish
<1>3. /\ staged' \in [Members -> [Sinks -> SUBSET Records]] /\ \A s \in Sinks : staged'[m][s] = {}
      /\ \A n \in Members \ {m} : staged'[n] = staged[n]
    BY DEF TypeOK, FanoutTypeOK, EndOfProcess, Vanish
<1>4. /\ owner' \in [Partitions -> Members \cup {None}]
      /\ fenced' = fenced \ {m} /\ fenced' \subseteq Members
      /\ UNCHANGED <<position, committed, stored, rejected>>
    BY DEF TypeOK, FanoutTypeOK, EndOfProcess, Vanish
<1>5. \A p \in Partitions : owner'[p] # None => owner'[p] = owner[p] /\ owner[p] # m
    BY DEF EndOfProcess, Vanish
<1>6. Batch(m)' = {}
    BY <1>2 DEF Batch
<1> QED BY <1>1, <1>2, <1>3, <1>4, <1>5, <1>6

\* Closing the sinks, which a reload replaces.
LEMMA CloseSinksShape ==
    ASSUME TypeOK, NEW m \in Members, CloseSinks(m)
    PROVE  /\ pc' \in [Members -> PcStates]
           /\ staged' \in [Members -> [Sinks -> SUBSET Records]]
           /\ stored' \in [Endpoints -> SUBSET Records]
           /\ Growth
           /\ UNCHANGED <<groupVars, buffer, rejected, logVars, why, current, dropped>>
           /\ pc[m] = "close"
           /\ why[m] = "reload" => pc'[m] = "poll" /\ \A s \in Sinks : staged'[m][s] = {}
           /\ why[m] # "reload" => pc'[m] = "exit" /\ staged' = staged
           /\ \A n \in Members \ {m} : pc'[n] = pc[n] /\ staged'[n] = staged[n]
<1>1. PICK done \in [Sinks -> SUBSET Records] :
         stored' = [e \in Endpoints |-> IF e \in Sinks THEN stored[e] \cup done[e] ELSE stored[e]]
    BY DEF CloseSinks
<1>2. stored' \in [Endpoints -> SUBSET Records] /\ \A e \in Endpoints : stored[e] \subseteq stored'[e]
    BY <1>1 DEF TypeOK, FanoutTypeOK
<1>3. UNCHANGED <<groupVars, buffer, rejected, logVars, why, current, dropped>> /\ pc[m] = "close"
    BY DEF CloseSinks
<1>4. /\ pc' \in [Members -> PcStates]
      /\ why[m] = "reload" => pc'[m] = "poll"
      /\ why[m] # "reload" => pc'[m] = "exit"
      /\ \A n \in Members \ {m} : pc'[n] = pc[n]
    BY DEF CloseSinks, TypeOK, PcStates
<1>5. /\ staged' \in [Members -> [Sinks -> SUBSET Records]]
      /\ why[m] = "reload" => \A s \in Sinks : staged'[m][s] = {}
      /\ why[m] # "reload" => staged' = staged
      /\ \A n \in Members \ {m} : staged'[n] = staged[n]
    <2>1. CASE why[m] = "reload"
        <3>1. staged' = [staged EXCEPT ![m] = [s \in Sinks |-> {}]]
            BY <2>1 DEF CloseSinks
        <3> QED BY <2>1, <3>1 DEF TypeOK, FanoutTypeOK
    <2>2. CASE why[m] # "reload"
        BY <2>2 DEF CloseSinks, TypeOK, FanoutTypeOK
    <2> QED BY <2>1, <2>2
<1> QED BY <1>2, <1>3, <1>4, <1>5 DEF Growth

\* Writing and flushing: what the step of the member does to the sinks.
LEMMA SinkCallShape ==
    ASSUME TypeOK, NEW m \in Members, NEW outcome, ApplyOutcome(m, outcome),
           outcome \in CompositeWrite(m) \/ outcome \in CompositeFlush(m)
    PROVE  /\ staged' \in [Members -> [Sinks -> SUBSET Records]]
           /\ stored' \in [Endpoints -> SUBSET Records]
           /\ rejected' = rejected
           /\ Growth
           /\ \A s \in Sinks : /\ staged'[m][s] = outcome[s].stage
                               /\ stored'[s] = stored[s] \cup outcome[s].store
           /\ \A n \in Members \ {m} : staged'[n] = staged[n]
<1>t. FanoutTypeOK
    BY DEF TypeOK
<1>1. \A s \in Sinks : outcome[s].store \in SUBSET Records /\ outcome[s].stage \in SUBSET Records
    BY <1>t, WriteType, FlushType
<1>2. /\ staged' \in [Members -> [Sinks -> SUBSET Records]]
      /\ stored' \in [Endpoints -> SUBSET Records]
    BY <1>1, <1>t, ApplyType
<1>3. Growth
    BY <1>t, ApplyGrows
<1>4. \A s \in Sinks : stored'[s] = stored[s] \cup outcome[s].store
    BY DEF ApplyOutcome, Endpoints
<1>5. /\ \A s \in Sinks : staged'[m][s] = outcome[s].stage
      /\ \A n \in Members \ {m} : staged'[n] = staged[n]
    BY <1>t DEF ApplyOutcome, FanoutTypeOK
<1> QED BY <1>2, <1>3, <1>4, <1>5 DEF ApplyOutcome

-----------------------------------------------------------------------------
(* Types, growth, and the members that take no part in a step.             *)

OthersStay(m) ==
    \A n \in Members \ {m} :
        /\ UNCHANGED <<buffer[n], staged[n], pc[n], why[n], current[n]>>
        /\ n \in fenced' => n \in fenced

\* What every step of a member does, whichever it is.
Shape(m) ==
    TypeOK' /\ Growth /\ OthersStay(m) /\ dropped \subseteq dropped' /\ program' = program

LEMMA FetchShape ==
    ASSUME TypeOK, NEW m \in Members, NEW p \in Partitions,
           FetchRecord(m, p) \/ FetchMalformed(m, p)
    PROVE  /\ Shape(m)
           /\ <<p, position[p]>> \in Records /\ position[p] \in 0..LogEnd - 1
           /\ position'[p] = position[p] + 1
           /\ \A q \in Partitions \ {p} : position'[q] = position[q]
<1> USE DEF sinkVars, logVars
<1>1. /\ <<p, position[p]>> \in Records /\ position[p] \in 0..LogEnd - 1
      /\ position[p] + 1 \in Offsets
    BY FanoutAssumption DEF FetchRecord, FetchMalformed, TypeOK, FanoutTypeOK, Offsets, Records
<1>2. position' = [position EXCEPT ![p] = @ + 1]
    BY DEF FetchRecord, FetchMalformed
<1>3. /\ position' \in [Partitions -> Offsets] /\ position'[p] = position[p] + 1
      /\ \A q \in Partitions \ {p} : position'[q] = position[q]
    BY <1>1, <1>2 DEF TypeOK, FanoutTypeOK
<1>4. CASE FetchRecord(m, p)
    <2>1. /\ buffer' \in [Members -> Seq(Records)]
          /\ \A n \in Members \ {m} : buffer'[n] = buffer[n]
        <3>1. Append(buffer[m], <<p, position[p]>>) \in Seq(Records)
            BY <1>1 DEF TypeOK, FanoutTypeOK
        <3> QED BY <1>4, <3>1 DEF FetchRecord, TypeOK, FanoutTypeOK
    <2>2. /\ pc' \in [Members -> PcStates] /\ why' \in [Members -> Reasons]
          /\ \A n \in Members \ {m} : pc'[n] = pc[n] /\ why'[n] = why[n]
        BY <1>4 DEF FetchRecord, TypeOK, PcStates, Reasons
    <2>3. UNCHANGED <<owner, committed, fenced, sinkVars, logVars, current, dropped>>
        BY <1>4 DEF FetchRecord
    <2> QED BY <1>1, <1>3, <2>1, <2>2, <2>3
            DEF TypeOK, FanoutTypeOK, PcStates, Reasons, Growth, OthersStay, Shape
<1>5. CASE FetchMalformed(m, p)
    <2>1. /\ pc' \in [Members -> PcStates] /\ current' \in [Members -> Records \cup {None}]
          /\ \A n \in Members \ {m} : pc'[n] = pc[n] /\ current'[n] = current[n]
        BY <1>1, <1>5 DEF FetchMalformed, TypeOK, PcStates
    <2>2. UNCHANGED <<owner, committed, fenced, buffer, sinkVars, logVars, why, dropped>>
        BY <1>5 DEF FetchMalformed
    <2> QED BY <1>1, <1>3, <2>1, <2>2
            DEF TypeOK, FanoutTypeOK, PcStates, Reasons, Growth, OthersStay, Shape
<1> QED BY <1>4, <1>5

\* Steps that move control only, or the group.
LEMMA ControlShape ==
    ASSUME TypeOK, NEW m \in Members,
           \/ FlushIdle(m) \/ ReloadSinkRoutes(m) \/ Stop(m) \/ Start(m) \/ Rejoin(m) \/ Fence(m)
           \/ \E p \in Partitions : Assign(m, p)
    PROVE  Shape(m)
<1> USE DEF sinkVars, logVars, groupVars
<1>1. CASE FlushIdle(m) \/ ReloadSinkRoutes(m) \/ Stop(m) \/ Start(m)
    <2>1. /\ pc' \in [Members -> PcStates] /\ why' \in [Members -> Reasons]
          /\ \A n \in Members \ {m} : pc'[n] = pc[n] /\ why'[n] = why[n]
        BY <1>1 DEF FlushIdle, ReloadSinkRoutes, Stop, Leave, Start, TypeOK, PcStates, Reasons
    <2>2. UNCHANGED <<groupVars, buffer, sinkVars, logVars, current, dropped>>
        BY <1>1 DEF FlushIdle, ReloadSinkRoutes, Stop, Leave, Start
    <2> QED BY <2>1, <2>2 DEF TypeOK, FanoutTypeOK, PcStates, Reasons, Growth, OthersStay, Shape
<1>2. CASE Rejoin(m) \/ Fence(m)
    <2>1. /\ fenced' \subseteq Members /\ \A n \in Members \ {m} : n \in fenced' => n \in fenced
          /\ owner' \in [Partitions -> Members \cup {None}]
        BY <1>2 DEF Rejoin, Fence, TypeOK, FanoutTypeOK
    <2>2. UNCHANGED <<position, committed, buffer, sinkVars, logVars, pc, why, current, dropped>>
        BY <1>2 DEF Rejoin, Fence
    <2> QED BY <2>1, <2>2 DEF TypeOK, FanoutTypeOK, Growth, OthersStay, Shape
<1>3. ASSUME NEW p \in Partitions, Assign(m, p)
      PROVE  Shape(m)
    <2>1. StartOffset(p) \in Offsets
        BY FanoutAssumption DEF StartOffset, TypeOK, FanoutTypeOK, Offsets
    <2>2. /\ owner' \in [Partitions -> Members \cup {None}]
          /\ position' \in [Partitions -> Offsets] /\ since' \in [Partitions -> Offsets]
        BY <1>3, <2>1 DEF Assign, TypeOK, FanoutTypeOK
    <2>3. UNCHANGED <<committed, fenced, buffer, sinkVars, produced, program, pc, why, current, dropped>>
        BY <1>3 DEF Assign
    <2> QED BY <2>2, <2>3 DEF TypeOK, FanoutTypeOK, Growth, OthersStay, Shape
<1> QED BY <1>1, <1>2, <1>3

LEMMA SinkStepShape ==
    ASSUME TypeOK, NEW m \in Members, WriteBatch(m) \/ FlushStrict(m)
    PROVE  Shape(m)
<1> USE DEF logVars, groupVars
<1>1. PICK outcome :
         /\ outcome \in CompositeWrite(m) \/ outcome \in CompositeFlush(m)
         /\ ApplyOutcome(m, outcome)
    BY DEF WriteBatch, FlushStrict
<1>2. /\ staged' \in [Members -> [Sinks -> SUBSET Records]]
      /\ stored' \in [Endpoints -> SUBSET Records] /\ rejected' = rejected /\ Growth
      /\ \A n \in Members \ {m} : staged'[n] = staged[n]
    BY <1>1, SinkCallShape
<1>3. \/ /\ pc' = [pc EXCEPT ![m] = "flush"] \/ pc' = [pc EXCEPT ![m] = "commit"]
         /\ UNCHANGED <<why, buffer, dropped>>
      \/ RaiseInFlush(m) /\ UNCHANGED dropped
      \/ ReturnFromFlush(m) /\ dropped' = dropped \cup Batch(m)
    BY DEF WriteBatch, FlushStrict
<1>4. /\ pc' \in [Members -> PcStates] /\ why' \in [Members -> Reasons]
      /\ buffer' \in [Members -> Seq(Records)]
      /\ \A n \in Members \ {m} : pc'[n] = pc[n] /\ why'[n] = why[n] /\ buffer'[n] = buffer[n]
    <2>1. CASE /\ pc' = [pc EXCEPT ![m] = "flush"] \/ pc' = [pc EXCEPT ![m] = "commit"]
               /\ UNCHANGED <<why, buffer, dropped>>
        BY <2>1 DEF TypeOK, FanoutTypeOK, PcStates, Reasons
    <2>2. CASE RaiseInFlush(m)
        BY <2>2, RaiseInFlushShape
    <2>3. CASE ReturnFromFlush(m)
        BY <2>3, ReturnFromFlushShape DEF TypeOK, Reasons
    <2> QED BY <1>3, <2>1, <2>2, <2>3
<1>5. dropped \subseteq dropped' /\ dropped' \subseteq Records
    <2>1. Batch(m) \subseteq Records
        BY BatchType DEF TypeOK
    <2> QED BY <1>3, <2>1 DEF TypeOK
<1>6. UNCHANGED <<groupVars, logVars, current>>
    BY DEF WriteBatch, FlushStrict
<1> QED BY <1>2, <1>4, <1>5, <1>6 DEF TypeOK, FanoutTypeOK, PcStates, Reasons, OthersStay, Shape

LEMMA CommitShape ==
    ASSUME TypeOK, NEW m \in Members,
           CommitBatch(m) \/ CommitBatchFails(m) \/ CommitMalformed(m) \/ CommitMalformedFails(m)
    PROVE  Shape(m)
<1> USE DEF logVars, sinkVars
<1>1. UNCHANGED <<owner, position, fenced, sinkVars, logVars, dropped>>
    BY DEF CommitBatch, CommitBatchFails, CommitMalformed, CommitMalformedFails
<1>2. committed' \in [Partitions -> Offsets]
    BY DEF CommitBatch, CommitBatchFails, CommitMalformed, CommitMalformedFails, Committed, TypeOK, FanoutTypeOK
<1>3. \/ RaiseInFlush(m) /\ UNCHANGED current
      \/ ReturnFromFlush(m) /\ UNCHANGED current
      \/ Raise(m) /\ UNCHANGED current
      \/ /\ current' = [current EXCEPT ![m] = None] /\ pc' = [pc EXCEPT ![m] = "poll"]
         /\ UNCHANGED <<buffer, why>>
    BY DEF CommitBatch, CommitBatchFails, CommitMalformed, CommitMalformedFails
<1>4. /\ pc' \in [Members -> PcStates] /\ why' \in [Members -> Reasons]
      /\ buffer' \in [Members -> Seq(Records)] /\ current' \in [Members -> Records \cup {None}]
      /\ \A n \in Members \ {m} : /\ pc'[n] = pc[n] /\ why'[n] = why[n]
                                  /\ buffer'[n] = buffer[n] /\ current'[n] = current[n]
    <2>1. CASE RaiseInFlush(m) /\ UNCHANGED current
        BY <2>1, RaiseInFlushShape DEF TypeOK
    <2>2. CASE ReturnFromFlush(m) /\ UNCHANGED current
        BY <2>2, ReturnFromFlushShape DEF TypeOK, Reasons
    <2>3. CASE Raise(m) /\ UNCHANGED current
        BY <2>3, RaiseShape DEF TypeOK, FanoutTypeOK
    <2>4. CASE /\ current' = [current EXCEPT ![m] = None] /\ pc' = [pc EXCEPT ![m] = "poll"]
               /\ UNCHANGED <<buffer, why>>
        BY <2>4 DEF TypeOK, FanoutTypeOK, PcStates, Reasons
    <2> QED BY <1>3, <2>1, <2>2, <2>3, <2>4
<1> QED BY <1>1, <1>2, <1>4 DEF TypeOK, FanoutTypeOK, PcStates, Reasons, Growth, OthersStay, Shape

LEMMA PublishShape ==
    ASSUME TypeOK, NEW m \in Members, Control(m), PublishMalformedRecord(m)
    PROVE  Shape(m)
<1> USE DEF logVars, groupVars
<1>1. current[m] \in Records /\ FanoutTypeOK
    BY DEF PublishMalformedRecord, Control, TypeOK
<1>2. /\ staged' = staged /\ Growth
      /\ stored' \in [Endpoints -> SUBSET Records] /\ rejected' \in [Endpoints -> SUBSET Records]
    BY <1>1, DeadLetterShape DEF PublishMalformedRecord
<1>3. /\ pc' \in [Members -> PcStates] /\ why' \in [Members -> Reasons] /\ buffer' = buffer
      /\ \A n \in Members \ {m} : pc'[n] = pc[n] /\ why'[n] = why[n]
    <2>1. CASE Raise(m)
        BY <2>1, RaiseShape
    <2>2. CASE pc' = [pc EXCEPT ![m] = "ack"] /\ UNCHANGED <<why, buffer>>
        BY <2>2 DEF TypeOK, PcStates, Reasons
    <2> QED BY <2>1, <2>2 DEF PublishMalformedRecord
<1>4. UNCHANGED <<groupVars, logVars, current, dropped>>
    BY DEF PublishMalformedRecord
<1> QED BY <1>2, <1>3, <1>4 DEF TypeOK, FanoutTypeOK, PcStates, Reasons, OthersStay, Shape

LEMMA EndStepShape ==
    ASSUME TypeOK, NEW m \in Members, EndOfProcess(m), UNCHANGED <<logVars, dropped>>
    PROVE  Shape(m)
<1> HIDE DEF EndOfProcess
<1> QED BY EndShape DEF logVars, TypeOK, FanoutTypeOK, PcStates, Reasons, Growth, OthersStay, Shape

LEMMA CloseStepShape ==
    ASSUME TypeOK, NEW m \in Members, CloseSinks(m)
    PROVE  Shape(m)
BY CloseSinksShape DEF logVars, groupVars, TypeOK, FanoutTypeOK, PcStates, Reasons, OthersStay, Shape

LEMMA DeliverShape ==
    ASSUME TypeOK, NEW m \in Members, NEW s \in Sinks, Deliver(m, s)
    PROVE  Shape(m)
<1>1. UNCHANGED <<groupVars, buffer, logVars, pc, why, current, dropped>> /\ KafkaDelivery(m, s)
    BY DEF Deliver
<1>2. FanoutTypeOK
    BY DEF TypeOK
<1> QED BY <1>1, <1>2, KafkaDeliveryShape DEF logVars, groupVars, TypeOK, FanoutTypeOK, OthersStay, Shape

LEMMA MemberShape ==
    ASSUME UInv, NEW m \in Members, Step(m) \/ Environment(m)
    PROVE  Shape(m)
<1>1. TypeOK /\ Control(m)
    BY DEF UInv
<1>2. CASE Step(m)
    BY <1>1, <1>2, FetchShape, ControlShape, SinkStepShape, CommitShape, PublishShape, EndStepShape,
       CloseStepShape DEF Step, Exit
<1>3. CASE Environment(m)
    BY <1>1, <1>3, ControlShape, EndStepShape, DeliverShape DEF Environment, Crash
<1> QED BY <1>2, <1>3

\* A record is appended to the topic, or nothing happens.
LEMMA ProduceShape ==
    ASSUME UInv, (\E p \in Partitions : Produce(p)) \/ UNCHANGED vars
    PROVE  /\ TypeOK'
           /\ UNCHANGED <<owner, position, committed, fenced, buffer, staged, stored, rejected,
                          program, pc, why, current, dropped>>
<1>t. TypeOK
    BY DEF UInv
<1>1. ASSUME NEW p \in Partitions, Produce(p)
      PROVE  produced' \in [Partitions -> Offsets] /\ since' = since
    <2>1. produced[p] + 1 \in Offsets
        BY <1>1, <1>t, FanoutAssumption DEF Produce, TypeOK, Offsets
    <2> QED BY <1>1, <2>1, <1>t DEF Produce, TypeOK
<1>2. /\ UNCHANGED <<owner, position, committed, fenced, buffer, staged, stored, rejected,
                     program, pc, why, current, dropped>>
      /\ produced' \in [Partitions -> Offsets] /\ since' = since
    BY <1>1, <1>t DEF Produce, vars, groupVars, sinkVars, TypeOK
<1> QED BY <1>2, <1>t DEF TypeOK, FanoutTypeOK

-----------------------------------------------------------------------------
(* Whatever the group does: UInv.                                          *)

\* A member that takes no part in a step.
LEMMA Bystander ==
    ASSUME UInv, Growth, NEW n \in Members, program' = program,
           UNCHANGED <<buffer[n], staged[n], pc[n], why[n], current[n]>>,
           n \in fenced' => n \in fenced
    PROVE  Control(n)' /\ SinksOf(n)'
<1>1. Control(n) /\ SinksOf(n)
    BY DEF UInv
<1>2. Batch(n)' = Batch(n)
    BY DEF Batch
<1>3. Settled(current[n]) => Settled(current[n])'
    BY SettledGrows
<1>4. Control(n)'
    BY <1>1, <1>2, <1>3 DEF Control, OneAtATime
<1>5. SinksOf(n)'
    <2>1. \A s \in Sinks : stored[s] \subseteq stored'[s] /\ rejected[s] \subseteq rejected'[s]
        BY DEF Growth, Endpoints
    <2> QED BY <1>1, <1>2, <2>1 DEF SinksOf
<1> QED BY <1>4, <1>5

\* Sinks nobody touches, seen from a place that promises no more of them.
LEMMA SinksKept ==
    ASSUME UInv, NEW m \in Members, UNCHANGED <<staged[m], pc[m]>>, Growth,
           Batch(m)' = Batch(m)
    PROVE  SinksOf(m)'
<1>1. SinksOf(m)
    BY DEF UInv
<1>2. \A s \in Sinks : stored[s] \subseteq stored'[s] /\ rejected[s] \subseteq rejected'[s]
    BY DEF Growth, Endpoints
<1> QED BY <1>1, <1>2 DEF SinksOf

LEMMA EmptySinks ==
    ASSUME NEW m \in Members, pc'[m] \notin {"flush", "commit"}, \A s \in Sinks : staged'[m][s] = {}
    PROVE  SinksOf(m)'
BY DEF SinksOf

\* On the way out the sinks may hold anything but a historian's records.
LEMMA ClosingSinks ==
    ASSUME UInv, NEW m \in Members, pc'[m] \in {"close", "exit"},
           \A s \in Sinks : Kind[s] = "historian" => staged'[m][s] = {}
    PROVE  SinksOf(m)'
BY DEF SinksOf

LEMMA FetchControl ==
    ASSUME UInv, NEW m \in Members, NEW p \in Partitions,
           FetchRecord(m, p) \/ FetchMalformed(m, p)
    PROVE  Control(m)' /\ SinksOf(m)'
<1>t. TypeOK /\ FanoutTypeOK /\ Control(m) /\ SinksOf(m)
    BY DEF UInv, TypeOK
<1>1. pc[m] = "poll" /\ current[m] = None /\ why[m] # "final"
    BY <1>t DEF FetchRecord, FetchMalformed, Control
<1>2. \A s \in Sinks : staged'[m][s] = {}
    BY <1>1, <1>t DEF FetchRecord, FetchMalformed, SinksOf, sinkVars
<1>3. <<p, position[p]>> \in Records /\ position[p] \in 0..LogEnd - 1
    BY <1>t, FetchShape
<1>4. CASE FetchRecord(m, p)
    <2>1. Batch(m)' = Batch(m) \cup {<<p, position[p]>>}
        BY <1>3, <1>4, <1>t, BatchAppend DEF FetchRecord
    <2>2. /\ why'[m] = "loop" /\ current'[m] = None
          /\ pc'[m] \in {"poll", "write"} /\ program' = program
        BY <1>1, <1>4, <1>t DEF FetchRecord, TypeOK, logVars
    <2>3. pc'[m] = "poll" => ~OneAtATime
        <3>1. Len(buffer[m]) \in Nat
            BY <1>t DEF FanoutTypeOK
        <3> QED BY <1>4, <1>t, <3>1, FanoutAssumption DEF FetchRecord, TypeOK, OneAtATime
    <2>4. Batch(m)' \cap Malformed = {}
        BY <1>4, <1>t, <2>1 DEF FetchRecord, Control
    <2>5. Control(m)'
        BY <2>2, <2>3, <2>4 DEF Control, OneAtATime
    <2> QED BY <1>2, <2>2, <2>5, EmptySinks
<1>5. CASE FetchMalformed(m, p)
    <2>1. Batch(m)' = Batch(m) /\ buffer' = buffer
        BY <1>5 DEF Batch, FetchMalformed
    <2>2. /\ why'[m] = why[m] /\ current'[m] = <<p, position[p]>>
          /\ pc'[m] = "dlq" /\ program' = program
        BY <1>1, <1>5, <1>t DEF FetchMalformed, TypeOK, logVars
    <2>3. current'[m] \in Malformed /\ current'[m] # None
        BY <1>3, <1>5, <2>2, FanoutAssumption DEF FetchMalformed
    <2>4. Control(m)'
        BY <1>1, <1>t, <2>1, <2>2, <2>3 DEF Control, OneAtATime
    <2> QED BY <1>2, <2>2, <2>4, EmptySinks
<1> QED BY <1>4, <1>5

LEMMA LoopControl ==
    ASSUME UInv, NEW m \in Members,
           \/ FlushIdle(m) \/ ReloadSinkRoutes(m) \/ Stop(m) \/ Start(m) \/ Rejoin(m) \/ Fence(m)
           \/ \E p \in Partitions : Assign(m, p)
    PROVE  Control(m)' /\ SinksOf(m)'
<1> USE DEF sinkVars, logVars, groupVars
<1>t. TypeOK /\ FanoutTypeOK /\ Control(m) /\ SinksOf(m)
    BY DEF UInv, TypeOK
<1>1. CASE FlushIdle(m) \/ ReloadSinkRoutes(m) \/ Stop(m) \/ Start(m)
    <2>1. UNCHANGED <<groupVars, buffer, sinkVars, logVars, current, dropped>>
        BY <1>1 DEF FlushIdle, ReloadSinkRoutes, Stop, Leave, Start
    <2>2. Batch(m)' = Batch(m)
        BY <2>1 DEF Batch
    <2>3. /\ pc[m] \in {"poll", "down"}
          /\ pc'[m] \in {"poll", "write", "close"}
          /\ pc'[m] = "close" => buffer[m] = <<>> /\ why'[m] # "loop"
          /\ pc'[m] = "poll" => pc[m] = "down" /\ why'[m] = why[m]
        BY <1>1, <1>t DEF FlushIdle, ReloadSinkRoutes, Stop, Leave, Start, TypeOK
    <2>4. Control(m)'
        BY <2>1, <2>2, <2>3, <1>t DEF Control, OneAtATime
    <2>5. \A s \in Sinks : staged'[m][s] = {}
        BY <2>1, <2>3, <1>t DEF SinksOf
    <2> QED BY <2>3, <2>4, <2>5, EmptySinks
<1>2. CASE Rejoin(m) \/ Fence(m) \/ \E p \in Partitions : Assign(m, p)
    <2>1. UNCHANGED <<buffer, sinkVars, program, pc, why, current, dropped>>
        BY <1>2 DEF Rejoin, Fence, Assign
    <2>2. Batch(m)' = Batch(m) /\ Settled(current[m])' = Settled(current[m])
        BY <2>1 DEF Batch, Settled
    <2>3. m \in fenced' => m \in fenced \/ pc[m] # "down"
        BY <1>2 DEF Rejoin, Fence, Assign
    <2>4. Control(m)'
        BY <2>1, <2>2, <2>3, <1>t DEF Control, OneAtATime
    <2>5. SinksOf(m)'
        BY <2>1, <2>2, <1>t DEF SinksOf
    <2> QED BY <2>4, <2>5
<1> QED BY <1>1, <1>2

\* Only a composite sink holds anything back; the other programs write to
\* historians.
LEMMA OtherProgramsSinks ==
    ASSUME TypeOK, program # "normalized"
    PROVE  \A s \in Sinks : Kind[s] = "historian"
BY ReleasingAssumption DEF TypeOK

LEMMA SinkStepControl ==
    ASSUME UInv, NEW m \in Members, WriteBatch(m) \/ FlushStrict(m)
    PROVE  Control(m)' /\ SinksOf(m)'
<1> USE DEF logVars, groupVars
<1>t. TypeOK /\ FanoutTypeOK /\ Control(m) /\ SinksOf(m)
    BY DEF UInv, TypeOK
<1>p. UNCHANGED <<groupVars, program, current>> /\ pc[m] \in {"write", "flush"}
    BY DEF WriteBatch, FlushStrict
<1>c. current[m] # None => why[m] = "final"
    BY <1>p, <1>t DEF Control
\* Whichever call it is, a failed one lets go of the batch.
<1>1. ASSUME NEW outcome, ApplyOutcome(m, outcome),
             outcome \in CompositeWrite(m) \/ outcome \in CompositeFlush(m),
             \A s \in Sinks : Kind[s] = "historian" => outcome[s].stage = {},
             \/ RaiseInFlush(m)
             \/ ReturnFromFlush(m) /\ program = "ai_enriched"
      PROVE  Control(m)' /\ SinksOf(m)'
    <2>1. \A s \in Sinks : Kind[s] = "historian" => staged'[m][s] = {}
        BY <1>1, <1>t, SinkCallShape
    <2>2. CASE RaiseInFlush(m)
        <3>1. pc'[m] \in {"close", "exit"} /\ why'[m] = "final" /\ buffer'[m] = <<>> /\ Batch(m)' = {}
            BY <2>2, <1>t, RaiseInFlushShape
        <3>2. Control(m)'
            BY <3>1, <1>p, <1>t DEF Control
        <3> QED BY <2>1, <3>1, <3>2, ClosingSinks
    <2>3. CASE ReturnFromFlush(m) /\ program = "ai_enriched"
        <3>1. /\ pc'[m] = IF why[m] = "loop" THEN "poll" ELSE "close"
              /\ why' = why /\ buffer'[m] = <<>> /\ Batch(m)' = {}
            BY <2>3, <1>t, ReturnFromFlushShape
        <3>2. Control(m)'
            BY <3>1, <1>c, <1>p, <1>t DEF Control
        <3>3. \A s \in Sinks : staged'[m][s] = {}
            BY <2>1, <2>3, <1>t, OtherProgramsSinks
        <3> QED BY <3>1, <3>2, <3>3, EmptySinks
    <2> QED BY <1>1, <2>2, <2>3
\* A call that returns goes on to the next one with the batch in hand.
<1>2. ASSUME NEW next \in {"flush", "commit"},
             pc' = [pc EXCEPT ![m] = next], UNCHANGED <<why, buffer>>
      PROVE  Control(m)' /\ pc'[m] = next /\ Batch(m)' = Batch(m)
    <2>1. pc'[m] = next /\ Batch(m)' = Batch(m)
        BY <1>2, <1>t DEF TypeOK, Batch
    <2> QED BY <2>1, <1>2, <1>c, <1>p, <1>t DEF Control
<1>3. CASE WriteBatch(m)
    <2>1. PICK outcome \in CompositeWrite(m) :
             /\ ApplyOutcome(m, outcome)
             /\ \/ /\ AllOk(outcome)
                   /\ pc' = [pc EXCEPT ![m] = "flush"]
                   /\ UNCHANGED <<why, buffer, dropped>>
                \/ RaiseInFlush(m)
                \/ ReturnFromFlush(m) /\ program = "ai_enriched"
        BY <1>3 DEF WriteBatch
    <2>2. pc[m] = "write" /\ \A s \in Sinks : staged[m][s] = {}
        BY <1>3, <1>t DEF WriteBatch, SinksOf
    <2>3. ASSUME NEW s \in Sinks
          PROVE  /\ outcome[s].stage \subseteq Batch(m)
                 /\ AllOk(outcome) => Batch(m) \subseteq outcome[s].store \cup outcome[s].stage
                 /\ Kind[s] = "historian" => outcome[s].stage = {}
        <3>1. outcome[s] \in WriteOutcomes(s, Batch(m), {})
            BY <2>2 DEF CompositeWrite
        <3> QED BY <3>1, WriteOutcomeShape DEF AllOk
    <2>4. CASE /\ AllOk(outcome) /\ pc' = [pc EXCEPT ![m] = "flush"]
               /\ UNCHANGED <<why, buffer, dropped>>
        <3>1. \A s \in Sinks : staged'[m][s] = outcome[s].stage /\ stored'[s] = stored[s] \cup outcome[s].store
            BY <2>1, <1>t, SinkCallShape
        <3>2. Control(m)' /\ pc'[m] = "flush" /\ Batch(m)' = Batch(m)
            BY <1>2, <2>4
        <3>3. ASSUME NEW s \in Sinks
              PROVE  /\ staged'[m][s] \subseteq Batch(m)
                     /\ Batch(m) \subseteq stored'[s] \cup staged'[m][s]
                     /\ Kind[s] = "historian" => staged'[m][s] = {}
            BY <2>3, <2>4, <3>1
        <3>4. SinksOf(m)'
            BY <3>2, <3>3 DEF SinksOf
        <3> QED BY <3>2, <3>4
    <2>5. \A s \in Sinks : Kind[s] = "historian" => outcome[s].stage = {}
        BY <2>3
    <2>6. CASE RaiseInFlush(m) \/ (ReturnFromFlush(m) /\ program = "ai_enriched")
        BY <1>1, <2>1, <2>5, <2>6
    <2> QED BY <2>1, <2>4, <2>6
<1>4. CASE FlushStrict(m)
    <2>1. PICK outcome \in CompositeFlush(m) :
             /\ ApplyOutcome(m, outcome)
             /\ \/ /\ AllOk(outcome)
                   /\ pc' = [pc EXCEPT ![m] = "commit"]
                   /\ UNCHANGED <<why, buffer>>
                \/ RaiseInFlush(m)
        BY <1>4 DEF FlushStrict
    <2>2. \A s \in Sinks : /\ staged[m][s] \subseteq Batch(m)
                           /\ Batch(m) \subseteq stored[s] \cup rejected[s] \cup staged[m][s]
                           /\ Kind[s] = "historian" => staged[m][s] = {}
        BY <1>4, <1>t DEF FlushStrict, SinksOf
    <2>3. ASSUME NEW s \in Sinks
          PROVE  /\ AllOk(outcome) => outcome[s].stage = {} /\ staged[m][s] \subseteq outcome[s].store
                 /\ Kind[s] = "historian" => outcome[s].stage = {}
        <3>1. outcome[s] \in FlushOutcomes(s, staged[m][s])
            BY DEF CompositeFlush
        <3>2. Kind[s] = "historian" => outcome[s].stage = {}
            BY <3>1, FlushOutcomeShape
        <3>3. ASSUME AllOk(outcome) PROVE outcome[s].stage = {} /\ staged[m][s] \subseteq outcome[s].store
            <4>1. outcome[s].ok
                BY <3>3 DEF AllOk
            <4>2. Kind[s] = "historian" => staged[m][s] = {}
                BY <2>2
            <4> QED BY <3>1, <4>1, <4>2, FlushOutcomeShape
        <3> QED BY <3>2, <3>3
    <2>4. CASE /\ AllOk(outcome) /\ pc' = [pc EXCEPT ![m] = "commit"]
               /\ UNCHANGED <<why, buffer>>
        <3>1. /\ \A s \in Sinks : staged'[m][s] = outcome[s].stage /\ stored'[s] = stored[s] \cup outcome[s].store
              /\ rejected' = rejected
            BY <2>1, <1>t, SinkCallShape
        <3>2. Control(m)' /\ pc'[m] = "commit" /\ Batch(m)' = Batch(m)
            BY <1>2, <2>4
        <3>3. ASSUME NEW s \in Sinks
              PROVE  Batch(m) \subseteq stored'[s] \cup rejected'[s] /\ staged'[m][s] = {}
            <4>1. outcome[s].stage = {} /\ staged[m][s] \subseteq outcome[s].store
                BY <2>3, <2>4
            <4>2. Batch(m) \subseteq stored[s] \cup rejected[s] \cup staged[m][s]
                BY <2>2
            <4> QED BY <3>1, <4>1, <4>2
        <3>4. SinksOf(m)'
            BY <3>2, <3>3 DEF SinksOf
        <3> QED BY <3>2, <3>4
    <2>5. \A s \in Sinks : Kind[s] = "historian" => outcome[s].stage = {}
        BY <2>3
    <2>6. CASE RaiseInFlush(m)
        BY <1>1, <2>1, <2>5, <2>6
    <2> QED BY <2>1, <2>4, <2>6
<1> QED BY <1>3, <1>4

LEMMA CommitControl ==
    ASSUME UInv, NEW m \in Members,
           CommitBatch(m) \/ CommitBatchFails(m) \/ CommitMalformed(m) \/ CommitMalformedFails(m)
    PROVE  Control(m)' /\ SinksOf(m)'
<1> USE DEF logVars, sinkVars
<1>t. TypeOK /\ FanoutTypeOK /\ Control(m) /\ SinksOf(m)
    BY DEF UInv, TypeOK
<1>1. UNCHANGED <<fenced, sinkVars, program>> /\ pc[m] \in {"commit", "ack"}
    BY DEF CommitBatch, CommitBatchFails, CommitMalformed, CommitMalformedFails
<1>2. \A s \in Sinks : staged'[m][s] = {}
    BY <1>1, <1>t DEF SinksOf
<1>3. CASE RaiseInFlush(m) /\ UNCHANGED current
    <2>1. pc'[m] \in {"close", "exit"} /\ why'[m] = "final" /\ buffer'[m] = <<>> /\ Batch(m)' = {}
        BY <1>3, <1>t, RaiseInFlushShape
    <2>2. Control(m)'
        BY <1>3, <2>1, <1>t DEF Control
    <2> QED BY <1>2, <2>1, <2>2, EmptySinks
<1>4. CASE ReturnFromFlush(m) /\ UNCHANGED current /\ pc[m] = "commit"
    <2>1. /\ pc'[m] = IF why[m] = "loop" THEN "poll" ELSE "close"
          /\ why' = why /\ buffer'[m] = <<>> /\ Batch(m)' = {}
        BY <1>4, <1>t, ReturnFromFlushShape
    <2>2. Control(m)'
        BY <1>4, <2>1, <1>t DEF Control
    <2> QED BY <1>2, <2>1, <2>2, EmptySinks
<1>5. CASE Raise(m) /\ UNCHANGED current
    <2>1. /\ pc'[m] = IF buffer[m] = <<>> THEN "close" ELSE "write"
          /\ why'[m] = "final" /\ buffer' = buffer
        BY <1>5, <1>t, RaiseShape
    <2>2. Batch(m)' = Batch(m)
        BY <2>1 DEF Batch
    <2>3. Control(m)'
        BY <1>5, <2>1, <2>2, <1>t DEF Control
    <2> QED BY <1>2, <2>1, <2>3, EmptySinks
<1>6. CASE CommitMalformed(m)
    <2>1. /\ pc[m] = "ack" /\ pc'[m] = "poll" /\ current'[m] = None
          /\ why' = why /\ buffer' = buffer
        BY <1>6, <1>t DEF CommitMalformed, TypeOK
    <2>2. Batch(m)' = Batch(m)
        BY <2>1 DEF Batch
    <2>3. Control(m)'
        BY <1>1, <2>1, <2>2, <1>t DEF Control, OneAtATime
    <2> QED BY <1>2, <2>1, <2>3, EmptySinks
<1> QED BY <1>3, <1>4, <1>5, <1>6 DEF CommitBatch, CommitBatchFails, CommitMalformedFails

LEMMA PublishControl ==
    ASSUME UInv, NEW m \in Members, PublishMalformedRecord(m)
    PROVE  Control(m)' /\ SinksOf(m)'
<1> USE DEF logVars, groupVars
<1>t. TypeOK /\ FanoutTypeOK /\ Control(m) /\ SinksOf(m)
    BY DEF UInv, TypeOK
<1>1. UNCHANGED <<fenced, program, current>> /\ pc[m] = "dlq"
    BY DEF PublishMalformedRecord
<1>2. current[m] \in Records /\ current[m] \in Malformed /\ why[m] # "final" /\ current[m] # None
    BY <1>1, <1>t DEF Control, TypeOK
<1>3. \A s \in Sinks : staged'[m][s] = {}
    BY <1>1, <1>2, <1>t, DeadLetterShape DEF PublishMalformedRecord, SinksOf
<1>4. CASE Raise(m)
    <2>1. /\ pc'[m] = IF buffer[m] = <<>> THEN "close" ELSE "write"
          /\ why'[m] = "final" /\ buffer' = buffer
        BY <1>4, <1>t, RaiseShape
    <2>2. Batch(m)' = Batch(m)
        BY <2>1 DEF Batch
    <2>3. Control(m)'
        BY <1>1, <2>1, <2>2, <1>t DEF Control
    <2> QED BY <1>3, <2>1, <2>3, EmptySinks
<1>5. CASE DeadLetterReturns(current[m]) /\ pc' = [pc EXCEPT ![m] = "ack"] /\ UNCHANGED <<why, buffer>>
    <2>1. pc'[m] = "ack" /\ Batch(m)' = Batch(m)
        BY <1>5, <1>t DEF TypeOK, Batch
    <2>2. current[m] \in stored'[Dlq] \cup rejected'[Dlq]
        BY <1>2, <1>5, <1>t, DeadLetterShape
    <2>3. Settled(current[m])'
        BY <1>1, <1>2, <2>2 DEF Settled, Due
    <2>4. Control(m)'
        BY <1>1, <1>2, <1>5, <2>1, <2>3, <1>t DEF Control, OneAtATime
    <2> QED BY <1>3, <2>1, <2>4, EmptySinks
<1> QED BY <1>4, <1>5 DEF PublishMalformedRecord

LEMMA EndControl ==
    ASSUME UInv, NEW m \in Members, CloseSinks(m) \/ Exit(m) \/ Crash(m)
    PROVE  Control(m)' /\ SinksOf(m)'
<1>t. TypeOK /\ FanoutTypeOK /\ Control(m) /\ SinksOf(m)
    BY DEF UInv, TypeOK
<1>1. CASE CloseSinks(m)
    <2>1. /\ UNCHANGED <<fenced, buffer, program, why, current>>
          /\ pc[m] = "close"
          /\ why[m] = "reload" => pc'[m] = "poll" /\ \A s \in Sinks : staged'[m][s] = {}
          /\ why[m] # "reload" => pc'[m] = "exit" /\ staged' = staged
        BY <1>1, <1>t, CloseSinksShape DEF groupVars, logVars
    <2>2. Batch(m)' = Batch(m)
        BY <2>1 DEF Batch
    <2>3. CASE why[m] = "reload"
        <3>1. Control(m)'
            BY <2>1, <2>2, <2>3, <1>t DEF Control
        <3> QED BY <2>1, <2>3, <3>1, EmptySinks
    <2>4. CASE why[m] # "reload"
        <3>1. why[m] = "final"
            BY <2>1, <2>4, <1>t DEF TypeOK, Control
        <3>2. Control(m)'
            BY <2>1, <2>2, <2>4, <3>1, <1>t DEF Control
        <3> QED BY <2>1, <2>4, <3>2, <1>t, ClosingSinks DEF SinksOf
    <2> QED BY <2>3, <2>4
<1>2. CASE Exit(m) \/ Crash(m)
    <2>1. EndOfProcess(m)
        BY <1>2 DEF Exit, Crash
    <2>2. /\ pc'[m] = "down" /\ why'[m] = "loop" /\ current'[m] = None
          /\ buffer'[m] = <<>> /\ Batch(m)' = {} /\ \A s \in Sinks : staged'[m][s] = {}
          /\ m \notin fenced'
        BY <2>1, <1>t, EndShape
    <2>3. Control(m)'
        BY <2>2 DEF Control
    <2> QED BY <2>2, <2>3, EmptySinks
<1> QED BY <1>1, <1>2

LEMMA DeliverControl ==
    ASSUME UInv, NEW m \in Members, NEW s \in Sinks, Deliver(m, s)
    PROVE  Control(m)' /\ SinksOf(m)'
<1>t. TypeOK /\ FanoutTypeOK /\ Control(m) /\ SinksOf(m)
    BY DEF UInv, TypeOK
<1>1. UNCHANGED <<fenced, buffer, program, pc, why, current>> /\ KafkaDelivery(m, s)
    BY DEF Deliver, groupVars, logVars
<1>2. /\ Growth
      /\ \A z \in Sinks : /\ staged'[m][z] \subseteq staged[m][z]
                          /\ staged[m][z] \subseteq staged'[m][z] \cup stored'[z] \cup rejected'[z]
    BY <1>1, <1>t, KafkaDeliveryShape
<1>3. Batch(m)' = Batch(m) /\ (Settled(current[m]) => Settled(current[m])')
    BY <1>1, <1>2, SettledGrows DEF Batch
<1>4. \A z \in Sinks : stored[z] \subseteq stored'[z] /\ rejected[z] \subseteq rejected'[z]
    BY <1>2 DEF Growth, Endpoints
<1>5. Control(m)'
    BY <1>1, <1>3, <1>t DEF Control, OneAtATime
<1>6. SinksOf(m)'
    BY <1>1, <1>2, <1>3, <1>4, <1>t DEF SinksOf
<1> QED BY <1>5, <1>6

\* A commit only installs offsets next to a record of its list.
LEMMA CommitPointSafe ==
    ASSUME CommitPointIsDelivered, Growth, NEW recs, CommitsTo(recs, committed'),
           \A i \in DOMAIN recs : recs[i] \in Records /\ Settled(recs[i])
    PROVE  CommitPointIsDelivered'
<1> SUFFICES ASSUME NEW p \in Partitions, NEW c, c = committed'[p], c > 0
             PROVE  \A e \in Due(<<p, c - 1>>) : <<p, c - 1>> \in stored'[e] \cup rejected'[e]
    BY DEF CommitPointIsDelivered, Settled, Due
<1>1. CASE c = committed[p]
    <2>1. Settled(<<p, c - 1>>)
        BY <1>1 DEF CommitPointIsDelivered
    <2> QED BY <2>1, SettledGrows DEF Settled, Due
<1>2. CASE \E i \in DOMAIN recs : recs[i] = <<p, c - 1>>
    <2>1. Settled(<<p, c - 1>>)
        BY <1>2
    <2> QED BY <2>1, SettledGrows DEF Settled, Due
<1> QED BY <1>1, <1>2, CommitsToShape

\* What a member is about to commit is delivered.
LEMMA BatchSettled ==
    ASSUME UInv, NEW m \in Members, pc[m] = "commit"
    PROVE  /\ \A r \in Batch(m) : Settled(r)
           /\ \A i \in DOMAIN buffer[m] : /\ buffer[m][i] \in Records
                                          /\ buffer[m][i] \in Batch(m)
<1>1. FanoutTypeOK /\ Control(m) /\ SinksOf(m)
    BY DEF UInv, TypeOK
<1>2. \A r \in Batch(m) : Settled(r)
    BY <1>1 DEF Control, SinksOf, Settled, Due
<1>3. \A i \in DOMAIN buffer[m] : buffer[m][i] \in Records /\ buffer[m][i] \in Batch(m)
    BY <1>1 DEF FanoutTypeOK, Batch
<1> QED BY <1>2, <1>3

LEMMA CurrentSettled ==
    ASSUME UInv, NEW m \in Members, pc[m] = "ack"
    PROVE  current[m] \in Records /\ current[m] \in Malformed /\ Settled(current[m])
BY DEF UInv, TypeOK, Control

LEMMA CommitPointStep ==
    ASSUME UInv, NEW m \in Members, Step(m) \/ Environment(m), Growth
    PROVE  CommitPointIsDelivered'
<1> USE DEF groupVars
<1>k. ASSUME committed' = committed PROVE CommitPointIsDelivered'
    <2> SUFFICES ASSUME NEW p \in Partitions, NEW c, c = committed'[p], c > 0
                 PROVE  \A e \in Due(<<p, c - 1>>) : <<p, c - 1>> \in stored'[e] \cup rejected'[e]
        BY DEF CommitPointIsDelivered, Settled, Due
    <2>1. Settled(<<p, c - 1>>)
        BY <1>k DEF UInv, CommitPointIsDelivered
    <2> QED BY <2>1, SettledGrows DEF Settled, Due
<1>1. CASE CommitBatch(m) \/ CommitBatchFails(m)
    <2>1. pc[m] = "commit" /\ (committed' = committed \/ CommitsTo(buffer[m], committed'))
        BY <1>1 DEF CommitBatch, CommitBatchFails, Committed
    <2>2. CASE CommitsTo(buffer[m], committed')
        BY <2>1, <2>2, BatchSettled, CommitPointSafe DEF UInv
    <2> QED BY <1>k, <2>1, <2>2
<1>2. CASE CommitMalformed(m) \/ CommitMalformedFails(m)
    <2>1. pc[m] = "ack" /\ (committed' = committed \/ CommitsTo(<<current[m]>>, committed'))
        BY <1>2 DEF CommitMalformed, CommitMalformedFails, Committed
    <2>2. CASE CommitsTo(<<current[m]>>, committed')
        <3> DEFINE recs == <<current[m]>>
        <3>1. \A i \in DOMAIN recs : recs[i] \in Records /\ Settled(recs[i])
            BY <2>1, CurrentSettled
        <3>2. CommitsTo(recs, committed')
            BY <2>2
        <3> HIDE DEF recs
        <3> QED BY <3>1, <3>2, CommitPointSafe DEF UInv
    <2> QED BY <1>k, <2>1, <2>2
<1>3. CASE \E p \in Partitions : FetchRecord(m, p) \/ FetchMalformed(m, p) \/ Assign(m, p)
    BY <1>k, <1>3 DEF FetchRecord, FetchMalformed, Assign
<1>4. CASE \E s \in Sinks : Deliver(m, s)
    BY <1>k, <1>4 DEF Deliver
<1>5. CASE Exit(m) \/ Crash(m)
    BY <1>k, <1>5 DEF Exit, Crash, EndOfProcess, Vanish
<1>6. CASE FlushIdle(m) \/ Start(m) \/ Rejoin(m) \/ Stop(m) \/ ReloadSinkRoutes(m) \/ Fence(m)
    BY <1>k, <1>6 DEF FlushIdle, Start, Rejoin, Stop, ReloadSinkRoutes, Leave, Fence
<1>7. CASE WriteBatch(m) \/ FlushStrict(m) \/ PublishMalformedRecord(m) \/ CloseSinks(m)
    BY <1>k, <1>7 DEF WriteBatch, FlushStrict, PublishMalformedRecord, CloseSinks
<1> QED BY <1>1, <1>2, <1>3, <1>4, <1>5, <1>6, <1>7 DEF Step, Environment

LEMMA MemberUInv ==
    ASSUME UInv, NEW m \in Members, Step(m) \/ Environment(m)
    PROVE  UInv' /\ Shape(m)
<1>1. Shape(m)
    BY MemberShape
<1>2. Control(m)' /\ SinksOf(m)'
    <2>1. CASE Step(m)
        BY <2>1, FetchControl, LoopControl, SinkStepControl, CommitControl, PublishControl, EndControl DEF Step
    <2>2. CASE Environment(m)
        BY <2>2, LoopControl, EndControl, DeliverControl DEF Environment
    <2> QED BY <2>1, <2>2
<1>3. \A n \in Members \ {m} : Control(n)' /\ SinksOf(n)'
    BY <1>1, Bystander DEF Shape, OthersStay
<1>4. CommitPointIsDelivered'
    BY <1>1, CommitPointStep DEF Shape
<1>5. \A n \in Members : Control(n)' /\ SinksOf(n)'
    BY <1>2, <1>3
<1> QED BY <1>1, <1>4, <1>5 DEF UInv, Shape

LEMMA IdleUInv ==
    ASSUME UInv, (\E p \in Partitions : Produce(p)) \/ UNCHANGED vars
    PROVE  UInv'
<1>1. /\ TypeOK'
      /\ UNCHANGED <<committed, fenced, buffer, staged, stored, rejected, program, pc, why, current>>
    BY ProduceShape
<1>2. \A n \in Members : Control(n)' /\ SinksOf(n)'
    BY <1>1, Bystander DEF Growth
<1>3. CommitPointIsDelivered'
    BY <1>1 DEF UInv, CommitPointIsDelivered, Settled
<1> QED BY <1>1, <1>2, <1>3 DEF UInv

LEMMA UStep == UInv /\ [Next]_vars => UInv'
BY MemberUInv, IdleUInv DEF Next

LEMMA UInit == Init => UInv
<1> SUFFICES ASSUME Init PROVE UInv
    OBVIOUS
<1>1. TypeOK
    <2> <<>> \in Seq(Records)
        OBVIOUS
    <2> QED BY FanoutAssumption DEF Init, FanoutInit, TypeOK, FanoutTypeOK, Offsets
<1>2. CommitPointIsDelivered
    BY DEF Init, FanoutInit, CommitPointIsDelivered
<1>3. ASSUME NEW m \in Members PROVE Control(m) /\ SinksOf(m)
    <2>1. Batch(m) = {}
        BY BatchEmpty DEF Init, FanoutInit
    <2> QED BY <2>1 DEF Init, FanoutInit, Control, SinksOf
<1> QED BY <1>1, <1>2, <1>3 DEF UInv

LEMMA UInductive == Spec => []UInv
BY UInit, UStep, PTL DEF Spec

-----------------------------------------------------------------------------
(* With nothing passed over: OInv.                                         *)

LEMMA DoneGrows ==
    ASSUME Growth, dropped \subseteq dropped', NEW r, Done(r)
    PROVE  Done(r)'
BY SettledGrows DEF Done

\* A member that gains no record, and has none in hand that it had not before.
LEMMA OrderKept ==
    ASSUME OInv, Growth, dropped \subseteq dropped', NEW n \in Members,
           Batch(n)' = Batch(n) \/ Batch(n)' = {},
           pc'[n] \in {"dlq", "ack"} =>
              pc[n] \in {"dlq", "ack"} /\ current'[n] = current[n] /\ Batch(n)' = Batch(n)
    PROVE  BufferInOrder(n)' /\ CurrentInOrder(n)'
<1>1. BufferInOrder(n) /\ CurrentInOrder(n)
    BY DEF OInv
<1>2. \A r : Done(r) => Done(r)'
    BY DoneGrows
<1>3. BufferInOrder(n)'
    BY <1>1, <1>2 DEF BufferInOrder, Accounted
<1>4. CurrentInOrder(n)'
    BY <1>1, <1>2 DEF CurrentInOrder, Accounted
<1> QED BY <1>3, <1>4

\* A partition that stays with its owner, who goes on reading only if it loses
\* sight of nothing.
LEMMA OwnershipKept ==
    ASSUME OInv, Growth, dropped \subseteq dropped',
           \A p \in Partitions : owner'[p] # None =>
              /\ owner'[p] = owner[p] /\ position'[p] = position[p]
              /\ pc'[owner[p]] # "down" /\ owner[p] \notin fenced'
              /\ why'[owner[p]] # "final" =>
                    /\ why[owner[p]] # "final"
                    /\ \A r \in Batch(owner[p]) : r \in Batch(owner[p])' \/ Done(r)'
                    /\ \A r : r = current[owner[p]] => current'[owner[p]] = r \/ Done(r)'
    PROVE  OwnershipInv'
<1> SUFFICES ASSUME NEW p \in Partitions, owner'[p] # None, why'[owner[p]] # "final",
                    NEW o \in 0..LogEnd - 1, o < position'[p]
             PROVE  (Accounted(owner[p], <<p, o>>) \/ current[owner[p]] = <<p, o>>)'
    BY DEF OwnershipInv, NoGapBelow
<1>1. Accounted(owner[p], <<p, o>>) \/ current[owner[p]] = <<p, o>>
    BY DEF OInv, OwnershipInv, NoGapBelow
<1>2. owner'[p] = owner[p]
    OBVIOUS
<1>3. CASE Done(<<p, o>>)
    BY <1>3, DoneGrows DEF Accounted
<1>4. CASE <<p, o>> \in Batch(owner[p])
    BY <1>4, <1>2 DEF Accounted
<1>5. CASE current[owner[p]] = <<p, o>>
    BY <1>5, <1>2 DEF Accounted
<1> QED BY <1>1, <1>3, <1>4, <1>5 DEF Accounted

\* Offsets nobody moves.
LEMMA CommittedKept ==
    ASSUME OInv, Growth, dropped \subseteq dropped', UNCHANGED committed
    PROVE  DoneBelowCommitted'
BY DoneGrows DEF OInv, DoneBelowCommitted

\* A commit of a list of records with nothing missing below any of them.
LEMMA CommitSafe ==
    ASSUME OInv, Growth, dropped \subseteq dropped', committed' \in [Partitions -> Offsets],
           NEW recs, CommitsTo(recs, committed'),
           \A i \in DOMAIN recs :
              /\ recs[i] \in Records
              /\ Done(recs[i])
              /\ \A o \in 0..LogEnd - 1 : o < recs[i][2] => Done(<<recs[i][1], o>>)
    PROVE  DoneBelowCommitted'
<1> SUFFICES ASSUME NEW p \in Partitions, NEW o \in 0..LogEnd - 1, o < committed'[p]
             PROVE  Done(<<p, o>>)'
    BY DEF DoneBelowCommitted
<1>1. CASE \E i \in DOMAIN recs : recs[i] = <<p, committed'[p] - 1>> /\ committed'[p] = recs[i][2] + 1
    <2>1. PICK i \in DOMAIN recs : recs[i] = <<p, committed'[p] - 1>>
        BY <1>1
    <2>2. recs[i][1] = p /\ recs[i][2] = committed'[p] - 1 /\ committed'[p] \in Int
        BY <2>1 DEF Offsets
    <2>3. o < recs[i][2] \/ o = committed'[p] - 1
        BY <2>2
    <2>4. Done(<<p, o>>)
        BY <2>1, <2>2, <2>3
    <2> QED BY <2>4, DoneGrows
<1>2. CASE committed'[p] = committed[p]
    BY <1>2, DoneGrows DEF OInv, DoneBelowCommitted
<1> QED BY <1>1, <1>2, CommitsToShape

\* A step after which member m holds what it held, or has let go of a batch that
\* is done, or is on its way out.
LEMMA HoldingStep ==
    ASSUME UInv, OInv, NEW m \in Members, Shape(m), UNCHANGED position, DoneBelowCommitted',
           \A p \in Partitions : owner'[p] # None => owner'[p] = owner[p],
           Batch(m)' = Batch(m) \/ Batch(m)' = {},
           pc'[m] \in {"dlq", "ack"} =>
              pc[m] \in {"dlq", "ack"} /\ current'[m] = current[m] /\ Batch(m)' = Batch(m),
           \A p \in Partitions : owner'[p] = m =>
              /\ pc'[m] # "down" /\ m \notin fenced'
              /\ why'[m] # "final" =>
                    /\ why[m] # "final"
                    /\ \A r \in Batch(m) : r \in Batch(m)' \/ Done(r)'
                    /\ \A r : r = current[m] => current'[m] = r \/ Done(r)'
    PROVE  OInv'
<1>1. Growth /\ dropped \subseteq dropped' /\ OthersStay(m) /\ TypeOK /\ FanoutTypeOK
    BY DEF Shape, UInv, TypeOK
<1>2. \A n \in Members \ {m} : Batch(n)' = Batch(n)
    BY <1>1 DEF OthersStay, Batch
<1>3. \A n \in Members : BufferInOrder(n)' /\ CurrentInOrder(n)'
    BY <1>1, <1>2, OrderKept DEF OthersStay
<1>4. OwnershipInv'
    <2> SUFFICES ASSUME NEW p \in Partitions, owner'[p] # None
                 PROVE  /\ pc'[owner[p]] # "down" /\ owner[p] \notin fenced'
                        /\ why'[owner[p]] # "final" =>
                              /\ why[owner[p]] # "final"
                              /\ \A r \in Batch(owner[p]) : r \in Batch(owner[p])' \/ Done(r)'
                              /\ \A r : r = current[owner[p]] => current'[owner[p]] = r \/ Done(r)'
        BY <1>1, OwnershipKept
    <2>1. owner'[p] = owner[p] /\ owner[p] \in Members
        BY <1>1 DEF FanoutTypeOK
    <2>2. CASE owner[p] = m
        BY <2>1, <2>2
    <2>3. CASE owner[p] # m
        <3>1. pc[owner[p]] # "down" /\ owner[p] \notin fenced
            BY <2>1 DEF OInv, OwnershipInv
        <3> QED BY <1>1, <1>2, <2>1, <2>3, <3>1 DEF OthersStay
    <2> QED BY <2>2, <2>3
<1> QED BY <1>3, <1>4 DEF OInv

\* Fetching: what lies below the position is accounted for, so nothing is passed.
LEMMA FetchedInOrder ==
    ASSUME UInv, OInv, NEW m \in Members, NEW p \in Partitions,
           pc[m] = "poll", owner[p] = m, NEW o \in 0..LogEnd - 1, o < position[p]
    PROVE  Accounted(m, <<p, o>>)
<1>1. why[m] # "final" /\ current[m] = None
    BY DEF UInv, Control
<1>2. NoGapBelow(m, p, position[p])
    BY <1>1, FanoutAssumption DEF OInv, OwnershipInv
<1>3. current[m] # <<p, o>>
    BY <1>1, FanoutAssumption DEF Records
<1> QED BY <1>2, <1>3 DEF NoGapBelow

LEMMA FetchRecordInv ==
    ASSUME UInv, OInv, NEW m \in Members, Shape(m), NEW p \in Partitions, FetchRecord(m, p)
    PROVE  OInv'
<1> DEFINE new == <<p, position[p]>>
<1> USE DEF sinkVars
<1>t. TypeOK /\ FanoutTypeOK /\ Growth /\ dropped \subseteq dropped' /\ OthersStay(m)
    BY DEF UInv, TypeOK, Shape
<1>1. /\ pc[m] = "poll" /\ owner[p] = m
      /\ UNCHANGED <<owner, committed, fenced, current>>
      /\ pc'[m] \in {"poll", "write"} /\ why'[m] = "loop"
    BY <1>t DEF FetchRecord, TypeOK
<1>2. /\ new \in Records /\ position[p] \in 0..LogEnd - 1
      /\ position'[p] = position[p] + 1
      /\ \A q \in Partitions \ {p} : position'[q] = position[q]
    BY <1>t, FetchShape
<1>3. Batch(m)' = Batch(m) \cup {new}
    BY <1>2, <1>t, BatchAppend DEF FetchRecord
<1>4. \A n \in Members \ {m} : Batch(n)' = Batch(n)
    BY <1>t DEF OthersStay, Batch
<1>5. \A r : Accounted(m, r) => Accounted(m, r)'
    BY <1>3, <1>t, DoneGrows DEF Accounted
<1>6. BufferInOrder(m)'
    <2>1. \A o \in 0..LogEnd - 1 : o < position[p] => Accounted(m, <<p, o>>)
        BY <1>1, FetchedInOrder
    <2>2. \A r \in Batch(m)', o \in 0..LogEnd - 1 : o < r[2] => Accounted(m, <<r[1], o>>)
        BY <1>3, <2>1 DEF OInv, BufferInOrder
    <2> QED BY <1>5, <2>2 DEF BufferInOrder
<1>7. CurrentInOrder(m)'
    BY <1>1 DEF CurrentInOrder
<1>8. \A n \in Members \ {m} : BufferInOrder(n)' /\ CurrentInOrder(n)'
    BY <1>4, <1>t, OrderKept DEF OthersStay
<1>9. OwnershipInv'
    <2> SUFFICES ASSUME NEW q \in Partitions, owner[q] # None
                 PROVE  /\ pc'[owner[q]] # "down" /\ owner[q] \notin fenced
                        /\ why'[owner[q]] # "final" =>
                              \A o \in 0..LogEnd - 1 : o < position'[q] =>
                                 (Accounted(owner[q], <<q, o>>) \/ current[owner[q]] = <<q, o>>)'
        BY <1>1 DEF OwnershipInv, NoGapBelow
    <2>1. owner[q] \in Members /\ pc[owner[q]] # "down" /\ owner[q] \notin fenced
        BY <1>t DEF FanoutTypeOK, OInv, OwnershipInv
    <2>2. pc'[owner[q]] # "down"
        BY <1>1, <1>t, <2>1 DEF OthersStay
    <2>3. ASSUME why'[owner[q]] # "final", NEW o \in 0..LogEnd - 1, o < position'[q]
          PROVE  (Accounted(owner[q], <<q, o>>) \/ current[owner[q]] = <<q, o>>)'
        <3>1. why[owner[q]] # "final"
            BY <1>1, <1>t, <2>1, <2>3 DEF OthersStay, UInv, Control
        <3>2. Batch(owner[q]) \subseteq Batch(owner[q])'
            BY <1>1, <1>3, <1>4, <2>1
        <3>3. CASE o < position[q]
            <4>1. Accounted(owner[q], <<q, o>>) \/ current[owner[q]] = <<q, o>>
                BY <3>1, <3>3 DEF OInv, OwnershipInv, NoGapBelow
            <4> QED BY <4>1, <1>1, <1>t, <3>2, DoneGrows DEF Accounted
        <3>4. CASE ~(o < position[q])
            <4>1. position[q] \in Int
                BY <1>t, FanoutAssumption DEF FanoutTypeOK, Offsets
            <4>2. q = p /\ o = position[p]
                BY <3>4, <2>3, <4>1, <1>2
            <4> QED BY <4>2, <1>1, <1>3 DEF Accounted
        <3> QED BY <3>3, <3>4
    <2> QED BY <2>1, <2>2, <2>3
<1>10. DoneBelowCommitted'
    BY <1>1, <1>t, CommittedKept
<1>11. \A n \in Members : BufferInOrder(n)' /\ CurrentInOrder(n)'
    BY <1>6, <1>7, <1>8
<1> QED BY <1>9, <1>10, <1>11 DEF OInv

LEMMA FetchMalformedInv ==
    ASSUME UInv, OInv, NEW m \in Members, Shape(m), NEW p \in Partitions, FetchMalformed(m, p)
    PROVE  OInv'
<1> DEFINE new == <<p, position[p]>>
<1> USE DEF sinkVars
<1>t. TypeOK /\ FanoutTypeOK /\ Growth /\ dropped \subseteq dropped' /\ OthersStay(m)
    BY DEF UInv, TypeOK, Shape
<1>1. /\ pc[m] = "poll" /\ owner[p] = m
      /\ UNCHANGED <<owner, committed, fenced, buffer, why>>
      /\ pc'[m] = "dlq" /\ current'[m] = new
      /\ current[m] = None
    BY <1>t DEF FetchMalformed, TypeOK, UInv, Control
<1>2. /\ new \in Records /\ position[p] \in 0..LogEnd - 1
      /\ position'[p] = position[p] + 1
      /\ \A q \in Partitions \ {p} : position'[q] = position[q]
    BY <1>t, FetchShape
<1>3. \A n \in Members : Batch(n)' = Batch(n)
    BY <1>1 DEF Batch
<1>5. \A r : Accounted(m, r) => Accounted(m, r)'
    BY <1>3, <1>t, DoneGrows DEF Accounted
<1>6. BufferInOrder(m)'
    BY <1>3, <1>5 DEF OInv, BufferInOrder
<1>7. CurrentInOrder(m)'
    <2>1. \A o \in 0..LogEnd - 1 : o < position[p] => Accounted(m, <<p, o>>)
        BY <1>1, FetchedInOrder
    <2> QED BY <1>1, <1>5, <2>1 DEF CurrentInOrder
<1>8. \A n \in Members \ {m} : BufferInOrder(n)' /\ CurrentInOrder(n)'
    BY <1>3, <1>t, OrderKept DEF OthersStay
<1>9. OwnershipInv'
    <2> SUFFICES ASSUME NEW q \in Partitions, owner[q] # None
                 PROVE  /\ pc'[owner[q]] # "down" /\ owner[q] \notin fenced
                        /\ why[owner[q]] # "final" =>
                              \A o \in 0..LogEnd - 1 : o < position'[q] =>
                                 (Accounted(owner[q], <<q, o>>) \/ current[owner[q]] = <<q, o>>)'
        BY <1>1 DEF OwnershipInv, NoGapBelow
    <2>1. owner[q] \in Members /\ pc[owner[q]] # "down" /\ owner[q] \notin fenced
        BY <1>t DEF FanoutTypeOK, OInv, OwnershipInv
    <2>2. pc'[owner[q]] # "down"
        BY <1>1, <1>t, <2>1 DEF OthersStay
    <2>3. ASSUME why[owner[q]] # "final", NEW o \in 0..LogEnd - 1, o < position'[q]
          PROVE  (Accounted(owner[q], <<q, o>>) \/ current[owner[q]] = <<q, o>>)'
        <3>1. CASE o < position[q]
            <4>1. Accounted(owner[q], <<q, o>>) \/ current[owner[q]] = <<q, o>>
                BY <2>3, <3>1 DEF OInv, OwnershipInv, NoGapBelow
            <4>2. current[owner[q]] = <<q, o>> => owner[q] # m
                <5>1. <<q, o>> # None
                    BY FanoutAssumption DEF Records
                <5> QED BY <1>1, <5>1
            <4>3. current[owner[q]] = <<q, o>> => current'[owner[q]] = <<q, o>>
                BY <4>2, <1>t, <2>1 DEF OthersStay
            <4> QED BY <4>1, <4>3, <1>1, <1>3, <1>t, <2>1, DoneGrows DEF Accounted
        <3>2. CASE ~(o < position[q])
            <4>1. position[q] \in Int
                BY <1>t, FanoutAssumption DEF FanoutTypeOK, Offsets
            <4>2. q = p /\ o = position[p]
                BY <3>2, <2>3, <4>1, <1>2
            <4> QED BY <4>2, <1>1
        <3> QED BY <3>1, <3>2
    <2> QED BY <2>1, <2>2, <2>3
<1>10. DoneBelowCommitted'
    BY <1>1, <1>t, CommittedKept
<1>11. \A n \in Members : BufferInOrder(n)' /\ CurrentInOrder(n)'
    BY <1>6, <1>7, <1>8
<1> QED BY <1>9, <1>10, <1>11 DEF OInv

\* The new owner starts at the committed offset, below which all is done.
LEMMA AssignInv ==
    ASSUME UInv, OInv, NEW m \in Members, Shape(m), NEW p \in Partitions, Assign(m, p),
           Reset = "earliest"
    PROVE  OInv'
<1> USE DEF sinkVars
<1>t. TypeOK /\ FanoutTypeOK /\ Growth /\ dropped \subseteq dropped' /\ OthersStay(m)
    BY DEF UInv, TypeOK, Shape
<1>1. UNCHANGED <<committed, fenced, buffer, pc, why, current>> /\ pc[m] = "poll" /\ m \notin fenced
    BY DEF Assign
<1>2. /\ owner'[p] = m /\ position'[p] = committed[p]
      /\ \A q \in Partitions \ {p} : owner'[q] = owner[q] /\ position'[q] = position[q]
    <2>1. StartOffset(p) = committed[p]
        <3>1. committed[p] \in Nat
            BY <1>t, FanoutAssumption DEF FanoutTypeOK, Offsets
        <3> QED BY <3>1 DEF StartOffset
    <2> QED BY <2>1, <1>t DEF Assign, FanoutTypeOK
<1>3. \A n \in Members : Batch(n)' = Batch(n)
    BY <1>1 DEF Batch
<1>4. \A n \in Members : BufferInOrder(n)' /\ CurrentInOrder(n)'
    BY <1>1, <1>3, <1>t, OrderKept
<1>5. OwnershipInv'
    <2> SUFFICES ASSUME NEW q \in Partitions, owner'[q] # None
                 PROVE  /\ pc[owner'[q]] # "down" /\ owner'[q] \notin fenced
                        /\ why[owner'[q]] # "final" =>
                              \A o \in 0..LogEnd - 1 : o < position'[q] =>
                                 (Accounted(owner[q], <<q, o>>) \/ current[owner[q]] = <<q, o>>)'
        BY <1>1 DEF OwnershipInv, NoGapBelow
    <2>1. CASE q = p
        <3>1. \A o \in 0..LogEnd - 1 : o < committed[q] => Done(<<q, o>>)
            BY DEF OInv, DoneBelowCommitted
        <3> QED BY <1>1, <1>2, <1>t, <2>1, <3>1, DoneGrows DEF Accounted
    <2>2. CASE q # p
        <3>1. owner'[q] = owner[q] /\ position'[q] = position[q] /\ owner[q] \in Members
            BY <1>2, <1>t, <2>2 DEF FanoutTypeOK
        <3>2. /\ pc[owner[q]] # "down" /\ owner[q] \notin fenced
              /\ why[owner[q]] # "final" =>
                    \A o \in 0..LogEnd - 1 : o < position[q] =>
                       Accounted(owner[q], <<q, o>>) \/ current[owner[q]] = <<q, o>>
            BY <3>1 DEF OInv, OwnershipInv, NoGapBelow
        <3> QED BY <1>1, <1>3, <1>t, <3>1, <3>2, DoneGrows DEF Accounted
    <2> QED BY <2>1, <2>2
<1>6. DoneBelowCommitted'
    BY <1>1, <1>t, CommittedKept
<1> QED BY <1>4, <1>5, <1>6 DEF OInv

\* The owner of a partition is up and in the group.
LEMMA OwnerUp ==
    ASSUME OInv, NEW p \in Partitions, NEW m \in Members, owner[p] = m
    PROVE  pc[m] # "down" /\ m \notin fenced
BY FanoutAssumption DEF OInv, OwnershipInv

LEMMA LoopInv ==
    ASSUME UInv, OInv, NEW m \in Members, Shape(m),
           \/ FlushIdle(m) \/ ReloadSinkRoutes(m) \/ Stop(m) \/ Start(m) \/ Rejoin(m) \/ Fence(m)
    PROVE  OInv'
<1> USE DEF sinkVars, logVars, groupVars
<1>t. TypeOK /\ FanoutTypeOK /\ Growth /\ dropped \subseteq dropped' /\ Control(m)
    BY DEF UInv, TypeOK, Shape
<1>1. UNCHANGED <<position, committed, buffer, current>>
    BY DEF FlushIdle, ReloadSinkRoutes, Stop, Leave, Start, Rejoin, Fence
<1>2. Batch(m)' = Batch(m)
    BY <1>1 DEF Batch
<1>3. DoneBelowCommitted'
    BY <1>1, <1>t, CommittedKept
<1>4. CASE FlushIdle(m) \/ ReloadSinkRoutes(m) \/ Stop(m) \/ Start(m)
    <2>1. /\ UNCHANGED <<owner, fenced>> /\ pc'[m] \in {"poll", "write", "close"}
          /\ why[m] # "final"
        BY <1>4, <1>t DEF FlushIdle, ReloadSinkRoutes, Stop, Leave, Start, TypeOK, Control
    <2>2. \A p \in Partitions : owner'[p] = m => m \notin fenced'
        BY <2>1, OwnerUp
    <2> QED BY <1>1, <1>2, <1>3, <2>1, <2>2, HoldingStep
<1>5. CASE Rejoin(m) \/ Fence(m)
    <2>1. /\ UNCHANGED <<pc, why>>
          /\ \A p \in Partitions : owner'[p] # None => owner'[p] = owner[p]
        BY <1>5 DEF Rejoin, Fence
    <2>2. \A p \in Partitions : owner'[p] = m => m \notin fenced' /\ pc[m] # "down"
        BY <1>5, <1>t, OwnerUp, FanoutAssumption DEF Rejoin, Fence, FanoutTypeOK
    <2> QED BY <1>1, <1>2, <1>3, <2>1, <2>2, HoldingStep
<1> QED BY <1>4, <1>5

\* A step that keeps the group and, unless the member is leaving, loses nothing.
LEMMA StayingStep ==
    ASSUME UInv, OInv, NEW m \in Members, Shape(m), DoneBelowCommitted',
           UNCHANGED <<owner, position, fenced>>, pc'[m] \notin {"down", "dlq"},
           Batch(m)' = Batch(m) \/ Batch(m)' = {},
           pc'[m] = "ack" => pc[m] = "dlq" /\ current'[m] = current[m] /\ Batch(m)' = Batch(m),
           why'[m] # "final" =>
              /\ why[m] # "final"
              /\ \A r \in Batch(m) : r \in Batch(m)' \/ Done(r)'
              /\ \A r : r = current[m] => current'[m] = r \/ Done(r)'
    PROVE  OInv'
<1>1. \A p \in Partitions : owner'[p] = m => m \notin fenced'
    BY OwnerUp
<1> QED BY <1>1, HoldingStep

\* What becomes of the batch when flush() ends.
LEMMA EndOfFlushInv ==
    ASSUME UInv, OInv, NEW m \in Members, Shape(m), DoneBelowCommitted',
           UNCHANGED <<owner, position, fenced, current>>,
           \/ RaiseInFlush(m)
           \/ ReturnFromFlush(m) /\ \A r \in Batch(m) : Done(r)'
    PROVE  OInv'
<1>t. TypeOK
    BY DEF UInv
<1>1. CASE RaiseInFlush(m)
    BY <1>1, <1>t, RaiseInFlushShape, StayingStep
<1>2. CASE ReturnFromFlush(m) /\ \A r \in Batch(m) : Done(r)'
    BY <1>2, <1>t, ReturnFromFlushShape, StayingStep
<1> QED BY <1>1, <1>2

LEMMA SinkStepInv ==
    ASSUME UInv, OInv, NEW m \in Members, Shape(m), WriteBatch(m) \/ FlushStrict(m)
    PROVE  OInv'
<1> USE DEF logVars, groupVars
<1>t. TypeOK /\ Growth /\ dropped \subseteq dropped'
    BY DEF UInv, Shape
<1>1. UNCHANGED <<owner, position, committed, fenced, current>>
    BY DEF WriteBatch, FlushStrict
<1>2. DoneBelowCommitted'
    BY <1>1, <1>t, CommittedKept
<1>3. \/ /\ pc' = [pc EXCEPT ![m] = "flush"] \/ pc' = [pc EXCEPT ![m] = "commit"]
         /\ UNCHANGED <<why, buffer, dropped>>
      \/ RaiseInFlush(m) /\ UNCHANGED dropped
      \/ ReturnFromFlush(m) /\ dropped' = dropped \cup Batch(m)
    BY DEF WriteBatch, FlushStrict
<1>4. CASE /\ pc' = [pc EXCEPT ![m] = "flush"] \/ pc' = [pc EXCEPT ![m] = "commit"]
           /\ UNCHANGED <<why, buffer, dropped>>
    <2>1. pc'[m] \in {"flush", "commit"} /\ why' = why
        BY <1>4, <1>t DEF TypeOK
    <2>2. Batch(m)' = Batch(m)
        BY <1>4 DEF Batch
    <2> QED BY <1>1, <1>2, <2>1, <2>2, StayingStep
<1>5. CASE RaiseInFlush(m)
    BY <1>1, <1>2, <1>5, EndOfFlushInv
<1>6. CASE ReturnFromFlush(m) /\ dropped' = dropped \cup Batch(m)
    <2>1. \A r \in Batch(m) : Done(r)'
        BY <1>6 DEF Done
    <2> QED BY <1>1, <1>2, <1>6, <2>1, EndOfFlushInv
<1> QED BY <1>3, <1>4, <1>5, <1>6

LEMMA CommitBatchInv ==
    ASSUME UInv, OInv, NEW m \in Members, Shape(m), CommitBatch(m) \/ CommitBatchFails(m)
    PROVE  OInv'
<1>t. TypeOK /\ Growth /\ dropped \subseteq dropped' /\ TypeOK' /\ FanoutTypeOK'
    BY DEF UInv, Shape, TypeOK
<1>1. /\ UNCHANGED <<owner, position, fenced, current>> /\ pc[m] = "commit"
      /\ committed' = committed \/ CommitsTo(buffer[m], committed')
      /\ RaiseInFlush(m) \/ ReturnFromFlush(m)
    BY DEF CommitBatch, CommitBatchFails, Committed
<1>2. \A r \in Batch(m) : Settled(r) /\ Done(r)
    BY <1>1, BatchSettled DEF Done
<1>3. \A r \in Batch(m), o \in 0..LogEnd - 1 : o < r[2] => Done(<<r[1], o>>)
    BY <1>2 DEF OInv, BufferInOrder, Accounted
<1>4. DoneBelowCommitted'
    <2>1. CASE committed' = committed
        BY <2>1, <1>t, CommittedKept
    <2>2. CASE CommitsTo(buffer[m], committed')
        <3>1. \A i \in DOMAIN buffer[m] : buffer[m][i] \in Records /\ buffer[m][i] \in Batch(m)
            BY <1>1, BatchSettled
        <3>2. committed' \in [Partitions -> Offsets]
            BY <1>t DEF FanoutTypeOK
        <3> QED BY <1>2, <1>3, <1>t, <2>2, <3>1, <3>2, CommitSafe
    <2> QED BY <1>1, <2>1, <2>2
<1>5. \A r \in Batch(m) : Done(r)'
    BY <1>2, <1>t, DoneGrows
<1> QED BY <1>1, <1>4, <1>5, EndOfFlushInv

\* The one place that needs NothingPassedOver.
LEMMA MalformedCommitSafe ==
    ASSUME UInv, OInv, NothingPassedOver, NEW m \in Members, Shape(m), pc[m] = "ack",
           committed' = committed \/ CommitsTo(<<current[m]>>, committed')
    PROVE  DoneBelowCommitted'
<1>t. TypeOK /\ Growth /\ dropped \subseteq dropped' /\ TypeOK' /\ FanoutTypeOK'
    BY DEF UInv, Shape, TypeOK
<1>1. CASE committed' = committed
    BY <1>1, <1>t, CommittedKept
<1>2. CASE CommitsTo(<<current[m]>>, committed')
    <2>1. current[m] \in Records /\ Done(current[m])
        BY CurrentSettled DEF Done
    <2>2. ASSUME NEW o \in 0..LogEnd - 1, o < current[m][2]
          PROVE  Done(<<current[m][1], o>>)
        <3>1. Accounted(m, <<current[m][1], o>>)
            BY <2>2 DEF OInv, CurrentInOrder
        <3>2. <<current[m][1], o>> \notin Batch(m)
            <4>1. \A r \in Batch(m) : r[1] = current[m][1] => r[2] >= current[m][2]
                BY DEF NothingPassedOver
            <4>2. current[m][2] \in Int
                BY <2>1 DEF Records
            <4> QED BY <2>2, <4>1, <4>2
        <3> QED BY <3>1, <3>2 DEF Accounted
    <2> DEFINE recs == <<current[m]>>
    <2>3. \A i \in DOMAIN recs : recs[i] = current[m]
        OBVIOUS
    <2>4. CommitsTo(recs, committed')
        BY <1>2
    <2> HIDE DEF recs
    <2>5. committed' \in [Partitions -> Offsets]
        BY <1>t DEF FanoutTypeOK
    <2> QED BY <1>t, <2>1, <2>2, <2>3, <2>4, <2>5, CommitSafe
<1> QED BY <1>1, <1>2

LEMMA CommitMalformedInv ==
    ASSUME UInv, OInv, NothingPassedOver, NEW m \in Members, Shape(m),
           CommitMalformed(m) \/ CommitMalformedFails(m)
    PROVE  OInv'
<1>t. TypeOK /\ Growth /\ dropped \subseteq dropped' /\ Control(m)
    BY DEF UInv, Shape
<1>1. /\ UNCHANGED <<owner, position, fenced, buffer>> /\ pc[m] = "ack"
      /\ committed' = committed \/ CommitsTo(<<current[m]>>, committed')
    BY DEF CommitMalformed, CommitMalformedFails, Committed, Raise
<1>2. DoneBelowCommitted'
    BY <1>1, MalformedCommitSafe
<1>3. Batch(m)' = Batch(m)
    BY <1>1 DEF Batch
<1>4. CASE CommitMalformed(m)
    <2>1. pc'[m] = "poll" /\ why' = why /\ why[m] # "final"
        BY <1>1, <1>4, <1>t DEF CommitMalformed, TypeOK, Control
    <2>2. \A r : r = current[m] => Done(r)'
        BY <1>1, <1>t, CurrentSettled, DoneGrows DEF Done
    <2> QED BY <1>1, <1>2, <1>3, <2>1, <2>2, StayingStep
<1>5. CASE CommitMalformedFails(m)
    <2>1. pc'[m] \in {"close", "write"} /\ why'[m] = "final"
        BY <1>5, <1>t, RaiseShape DEF CommitMalformedFails
    <2> QED BY <1>1, <1>2, <1>3, <2>1, StayingStep
<1> QED BY <1>4, <1>5

LEMMA PublishInv ==
    ASSUME UInv, OInv, NEW m \in Members, Shape(m), PublishMalformedRecord(m)
    PROVE  OInv'
<1> USE DEF logVars, groupVars
<1>t. TypeOK /\ Growth /\ dropped \subseteq dropped' /\ Control(m)
    BY DEF UInv, Shape
<1>1. /\ UNCHANGED <<owner, position, committed, fenced, buffer, current>> /\ pc[m] = "dlq"
      /\ \/ pc' = [pc EXCEPT ![m] = "ack"] /\ UNCHANGED why
         \/ Raise(m)
    BY DEF PublishMalformedRecord, Raise
<1>2. DoneBelowCommitted'
    BY <1>1, <1>t, CommittedKept
<1>3. Batch(m)' = Batch(m)
    BY <1>1 DEF Batch
<1>4. CASE pc' = [pc EXCEPT ![m] = "ack"] /\ UNCHANGED why
    <2>1. pc'[m] = "ack" /\ why[m] # "final"
        BY <1>1, <1>4, <1>t DEF TypeOK, Control
    <2> QED BY <1>1, <1>2, <1>3, <1>4, <2>1, StayingStep
<1>5. CASE Raise(m)
    <2>1. pc'[m] \in {"close", "write"} /\ why'[m] = "final"
        BY <1>5, <1>t, RaiseShape
    <2> QED BY <1>1, <1>2, <1>3, <2>1, StayingStep
<1> QED BY <1>1, <1>4, <1>5

LEMMA CloseInv ==
    ASSUME UInv, OInv, NEW m \in Members, Shape(m), CloseSinks(m)
    PROVE  OInv'
<1>t. TypeOK /\ Growth /\ dropped \subseteq dropped'
    BY DEF UInv, Shape
<1>1. /\ UNCHANGED <<owner, position, committed, fenced, buffer, why, current>>
      /\ pc'[m] \in {"poll", "exit"}
    BY <1>t, CloseSinksShape DEF groupVars
<1>2. DoneBelowCommitted'
    BY <1>1, <1>t, CommittedKept
<1>3. Batch(m)' = Batch(m)
    BY <1>1 DEF Batch
<1> QED BY <1>1, <1>2, <1>3, StayingStep

LEMMA EndInv ==
    ASSUME UInv, OInv, NEW m \in Members, Shape(m), EndOfProcess(m)
    PROVE  OInv'
<1>t. TypeOK /\ Growth /\ dropped \subseteq dropped'
    BY DEF UInv, Shape
<1>1. /\ UNCHANGED <<position, committed>> /\ pc'[m] = "down" /\ Batch(m)' = {}
      /\ \A p \in Partitions : owner'[p] # None => owner'[p] = owner[p] /\ owner[p] # m
    BY <1>t, EndShape
<1>2. DoneBelowCommitted'
    BY <1>1, <1>t, CommittedKept
<1>3. \A p \in Partitions : owner'[p] # m
    BY <1>1, FanoutAssumption
<1> QED BY <1>1, <1>2, <1>3, HoldingStep

LEMMA DeliverInv ==
    ASSUME UInv, OInv, NEW m \in Members, Shape(m), NEW s \in Sinks, Deliver(m, s)
    PROVE  OInv'
<1>t. TypeOK /\ Growth /\ dropped \subseteq dropped'
    BY DEF UInv, Shape
<1>1. UNCHANGED <<owner, position, committed, fenced, buffer, pc, why, current>>
    BY DEF Deliver, groupVars
<1>2. DoneBelowCommitted'
    BY <1>1, <1>t, CommittedKept
<1>3. Batch(m)' = Batch(m)
    BY <1>1 DEF Batch
<1>4. \A p \in Partitions : owner'[p] = m => pc[m] # "down" /\ m \notin fenced
    BY <1>1, OwnerUp
<1> QED BY <1>1, <1>2, <1>3, <1>4, HoldingStep

LEMMA IdleInv ==
    ASSUME UInv, OInv, (\E p \in Partitions : Produce(p)) \/ UNCHANGED vars
    PROVE  OInv'
<1>1. UNCHANGED <<owner, position, committed, fenced, buffer, stored, rejected, pc, why, current, dropped>>
    BY ProduceShape
<1>2. \A r : Done(r)' = Done(r)
    BY <1>1 DEF Done, Settled
<1>3. \A n : Batch(n)' = Batch(n)
    BY <1>1 DEF Batch
<1>4. DoneBelowCommitted' /\ \A n \in Members : BufferInOrder(n)' /\ CurrentInOrder(n)'
    BY <1>1, <1>2, <1>3 DEF OInv, DoneBelowCommitted, BufferInOrder, CurrentInOrder, Accounted
<1>5. OwnershipInv'
    BY <1>1, <1>2, <1>3 DEF OInv, OwnershipInv, NoGapBelow, Accounted
<1> QED BY <1>4, <1>5 DEF OInv

LEMMA OStep ==
    ASSUME Reset = "earliest"
    PROVE  UInv /\ OInv /\ NothingPassedOver /\ [Next]_vars => OInv'
<1> SUFFICES ASSUME UInv, OInv, NothingPassedOver, [Next]_vars PROVE OInv'
    OBVIOUS
<1>1. ASSUME NEW m \in Members, Step(m) PROVE OInv'
    <2>1. Shape(m)
        BY <1>1, MemberShape
    <2> QED BY <1>1, <2>1, FetchRecordInv, FetchMalformedInv, LoopInv, SinkStepInv, CommitBatchInv,
               PublishInv, CommitMalformedInv, CloseInv, EndInv DEF Step, Exit
<1>2. ASSUME NEW m \in Members, Environment(m) PROVE OInv'
    <2>1. Shape(m)
        BY <1>2, MemberShape
    <2> QED BY <1>2, <2>1, LoopInv, EndInv, AssignInv, DeliverInv DEF Environment, Crash
<1>3. CASE (\E p \in Partitions : Produce(p)) \/ UNCHANGED vars
    BY <1>3, IdleInv
<1> QED BY <1>1, <1>2, <1>3 DEF Next

LEMMA OInit == Init => OInv
<1> SUFFICES ASSUME Init PROVE OInv
    OBVIOUS
<1>1. DoneBelowCommitted /\ OwnershipInv
    BY FanoutAssumption DEF Init, FanoutInit, DoneBelowCommitted, OwnershipInv
<1>2. ASSUME NEW m \in Members PROVE BufferInOrder(m) /\ CurrentInOrder(m)
    <2>1. Batch(m) = {}
        BY BatchEmpty DEF Init, FanoutInit
    <2> QED BY <2>1 DEF Init, FanoutInit, BufferInOrder, CurrentInOrder
<1> QED BY <1>1, <1>2 DEF OInv

-----------------------------------------------------------------------------
(* The theorems.                                                           *)

\* Every reachable state is well typed.
THEOREM TypeCorrect == Spec => []TypeOK
<1>1. UInv => TypeOK
    BY DEF UInv
<1> QED BY <1>1, UInductive, PTL

\* Whichever of the three programs runs, and whatever it passed over, a commit is
\* only made for a delivered record (consumer.commit follows flush_strict, the
\* insert, or publish_malformed_record).
THEOREM CommitPointIsDeliveredAlways == Spec => []CommitPointIsDelivered
<1>1. UInv => CommitPointIsDelivered
    BY DEF UInv
<1> QED BY <1>1, UInductive, PTL

\* reload_sink_routes (normalized_fanout.py) closes sinks that hold nothing: the
\* loop never polls, nor deals with a malformed record, with records inside them.
THEOREM ReloadLosesNothingAlways == Spec => []ReloadLosesNothing
<1>1. UInv => ReloadLosesNothing
    BY DEF UInv, SinksOf, ReloadLosesNothing
<1> QED BY <1>1, UInductive, PTL

\* A group that reads from the start and passes nothing over misses only the
\* records whose insert ai_enriched_fanout gave up, through kills, rebalances,
\* failed batches, reloads and lost commits.
THEOREM NothingPassedOverSuffices ==
    ASSUME Reset = "earliest"
    PROVE  Spec /\ []NothingPassedOver => []OnlyDroppedAreMissing
<1>1. OInv => OnlyDroppedAreMissing
    BY DEF OInv, DoneBelowCommitted, Done, OnlyDroppedAreMissing
<1>2. UInv /\ OInv /\ NothingPassedOver /\ [Next]_vars => OInv'
    BY OStep
<1> QED BY <1>1, <1>2, OInit, UInductive, PTL DEF Spec

\* Nothing can be passed over when every malformed record is the first of its
\* partition, or when each record is flushed before the next poll, with a batch
\* size of one or in ai_enriched_fanout: then only dropped records are missing.
THEOREM OnlyDroppedAreMissingAlways ==
    ASSUME Reset = "earliest",
           \/ \A r \in Malformed : r[2] = 0
           \/ BatchSize = 1
           \/ Programs \subseteq {"ai_enriched"}
    PROVE  Spec => []OnlyDroppedAreMissing
<1>1. UInv => NothingPassedOver
    <2> SUFFICES ASSUME UInv, NEW m \in Members, pc[m] \in {"dlq", "ack"}, NEW r \in Batch(m),
                        r[1] = current[m][1]
                 PROVE  r[2] >= current[m][2]
        BY DEF NothingPassedOver
    <2>1. TypeOK /\ FanoutTypeOK /\ Control(m)
        BY DEF UInv, TypeOK
    <2>2. CASE \A z \in Malformed : z[2] = 0
        <3>1. current[m] \in Malformed
            BY <2>1 DEF Control
        <3>2. r \in Records
            BY <2>1, BatchType
        <3>3. r[2] \in Nat /\ current[m][2] = 0
            BY <2>2, <3>1, <3>2 DEF Records
        <3> QED BY <3>3
    <2>3. CASE BatchSize = 1 \/ Programs \subseteq {"ai_enriched"}
        <3>1. OneAtATime
            BY <2>1, <2>3 DEF OneAtATime, TypeOK
        <3>2. buffer[m] = <<>>
            BY <2>1, <3>1 DEF Control
        <3> QED BY <3>2, BatchEmpty
    <2> QED BY <2>2, <2>3
<1>2. Spec => []NothingPassedOver
    BY <1>1, UInductive, PTL
<1> QED BY <1>2, NothingPassedOverSuffices, PTL
=============================================================================
