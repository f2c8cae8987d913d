-------------------------- MODULE OperationalFanout --------------------------
(***************************************************************************)
(* services/processor/operational_fanout.py; artifact_fanout.py runs the   *)
(* same loop over another topic.  Buffered records are                     *)
(* written, flushed and committed together, and the buffer is emptied only *)
(* after the commit.  A record that does not decode first forces the       *)
(* buffer out, then goes to the dead-letter topic, then is committed.  Any *)
(* exception leaves the loop through `finally`, which tries the flush once *)
(* more before the process ends; the platform may start it again.          *)
(*                                                                         *)
(* Between two steps of a member the process may be killed, the broker may *)
(* move a partition, and the Kafka client may deliver queued records.      *)
(***************************************************************************)
EXTENDS FanoutDelivery

VARIABLES
    pc,       \* pc[m]: where member m is
    why,      \* why[m]: who called flush: the loop, the malformed branch, finally
    current   \* current[m]: the malformed record in hand

vars == <<owner, position, committed, fenced, buffer, staged, stored, rejected,
          pc, why, current>>

TypeOK ==
    /\ FanoutTypeOK
    /\ pc \in [Members -> {"down", "poll", "write", "flush", "commit", "dlq", "ack", "close", "exit"}]
    /\ why \in [Members -> {"loop", "malformed", "final"}]
    /\ current \in [Members -> Records \cup {None}]

Init ==
    /\ FanoutInit
    /\ pc = [m \in Members |-> "down"]
    /\ why = [m \in Members |-> "loop"]
    /\ current = [m \in Members |-> None]

-----------------------------------------------------------------------------
(* Where control goes.                                                     *)

\* An exception: the first one goes to `finally`, whose flush(force=True) has
\* something to do if the buffer holds a record; one raised there ends the
\* process with nothing closed.
Raise(m) ==
    IF why[m] = "final"
    THEN /\ pc' = [pc EXCEPT ![m] = "exit"]
         /\ UNCHANGED why
    ELSE /\ pc' = [pc EXCEPT ![m] = IF buffer[m] = <<>> THEN "close" ELSE "write"]
         /\ why' = [why EXCEPT ![m] = "final"]

\* flush() returns to its caller.
Return(m) ==
    pc' = [pc EXCEPT ![m] = CASE why[m] = "loop" -> "poll"
                              [] why[m] = "malformed" -> "dlq"
                              [] why[m] = "final" -> "close"]

EndOfProcess(m) ==
    /\ pc' = [pc EXCEPT ![m] = "down"]
    /\ why' = [why EXCEPT ![m] = "loop"]
    /\ current' = [current EXCEPT ![m] = None]
    /\ Vanish(m)

Start(m) ==
    /\ pc[m] = "down"
    /\ pc' = [pc EXCEPT ![m] = "poll"]
    /\ UNCHANGED <<groupVars, buffer, sinkVars, why, current>>

\* The coordinator gives p to m, which learns of it in poll(); the former owner
\* has left, or gives p up in its own poll().  No rebalance callback: what it
\* has buffered of p stays in its buffer.
Assign(m, p) ==
    /\ pc[m] = "poll"
    /\ owner[p] # m
    /\ owner[p] # None => pc[owner[p]] = "poll"
    /\ owner' = [owner EXCEPT ![p] = m]
    /\ position' = [position EXCEPT ![p] = committed[p]]
    /\ UNCHANGED <<committed, fenced, buffer, sinkVars, pc, why, current>>

\* Member m takes longer than max.poll.interval outside poll(): the coordinator
\* removes it, and refuses its commits from now on.
Fence(m) ==
    /\ pc[m] \notin {"down", "poll"}
    /\ m \notin fenced
    /\ fenced' = fenced \cup {m}
    /\ owner' = [p \in Partitions |-> IF owner[p] = m THEN None ELSE owner[p]]
    /\ UNCHANGED <<position, committed, buffer, sinkVars, pc, why, current>>

\* Mutant of FetchRecord: reads one record past the end of the partition.
FetchRecordPastEnd(m, p) ==
    /\ pc[m] = "poll" /\ owner[p] = m /\ position[p] <= LogEnd
    /\ <<p, position[p]>> \notin Malformed
    /\ position' = [position EXCEPT ![p] = @ + 1]
    /\ buffer' = [buffer EXCEPT ![m] = Append(@, <<p, position[p]>>)]
    /\ why' = [why EXCEPT ![m] = "loop"]
    /\ pc' = [pc EXCEPT ![m] = "write"]
    /\ UNCHANGED <<owner, committed, fenced, sinkVars, current>>

\* One turn of the loop with a record that decodes: buffer it and call flush(),
\* which goes on when the batch is full or a second has passed.
FetchRecord(m, p) ==
    /\ pc[m] = "poll" /\ owner[p] = m /\ position[p] < LogEnd
    /\ <<p, position[p]>> \notin Malformed
    /\ position' = [position EXCEPT ![p] = @ + 1]
    /\ buffer' = [buffer EXCEPT ![m] = Append(@, <<p, position[p]>>)]
    /\ why' = [why EXCEPT ![m] = "loop"]
    /\ \/ pc' = [pc EXCEPT ![m] = "write"]
       \/ /\ Len(buffer[m]) + 1 < BatchSize
          /\ UNCHANGED pc
    /\ UNCHANGED <<owner, committed, fenced, sinkVars, current>>

\* Mutant of FetchMalformed: the buffer is not forced out first.
FetchMalformedWithoutFlush(m, p) ==
    /\ pc[m] = "poll" /\ owner[p] = m /\ position[p] < LogEnd
    /\ <<p, position[p]>> \in Malformed
    /\ position' = [position EXCEPT ![p] = @ + 1]
    /\ current' = [current EXCEPT ![m] = <<p, position[p]>>]
    /\ why' = [why EXCEPT ![m] = "malformed"]
    /\ pc' = [pc EXCEPT ![m] = "dlq"]
    /\ UNCHANGED <<owner, committed, fenced, buffer, sinkVars>>

\* ... with one that does not: flush(force=True) first, then the dead letter.
FetchMalformed(m, p) ==
    /\ pc[m] = "poll" /\ owner[p] = m /\ position[p] < LogEnd
    /\ <<p, position[p]>> \in Malformed
    /\ position' = [position EXCEPT ![p] = @ + 1]
    /\ current' = [current EXCEPT ![m] = <<p, position[p]>>]
    /\ why' = [why EXCEPT ![m] = "malformed"]
    /\ pc' = [pc EXCEPT ![m] = IF buffer[m] = <<>> THEN "dlq" ELSE "write"]
    /\ UNCHANGED <<owner, committed, fenced, buffer, sinkVars>>

\* Mutant of FlushIdle: only a full batch is flushed.
FlushOnlyFull(m) ==
    /\ pc[m] = "poll" /\ Len(buffer[m]) >= BatchSize
    /\ pc' = [pc EXCEPT ![m] = "write"]
    /\ why' = [why EXCEPT ![m] = "loop"]
    /\ UNCHANGED <<groupVars, buffer, sinkVars, current>>

\* poll() returned nothing and the last flush is a second ago.
FlushIdle(m) ==
    /\ pc[m] = "poll" /\ buffer[m] # <<>>
    /\ pc' = [pc EXCEPT ![m] = "write"]
    /\ why' = [why EXCEPT ![m] = "loop"]
    /\ UNCHANGED <<groupVars, buffer, sinkVars, current>>

\* SIGTERM: the loop ends at its next turn and `finally` runs.
Stop(m) ==
    /\ pc[m] = "poll"
    /\ pc' = [pc EXCEPT ![m] = IF buffer[m] = <<>> THEN "close" ELSE "write"]
    /\ why' = [why EXCEPT ![m] = "final"]
    /\ UNCHANGED <<groupVars, buffer, sinkVars, current>>

-----------------------------------------------------------------------------
(* The calls of flush(): write_batch_strict, flush_strict, commit.         *)

WriteBatchStrict(m) ==
    /\ pc[m] = "write"
    /\ \E outcome \in CompositeWrite(m) :
          /\ ApplyOutcome(m, outcome)
          /\ IF AllOk(outcome)
             THEN /\ pc' = [pc EXCEPT ![m] = "flush"]
                  /\ UNCHANGED why
             ELSE Raise(m)
    /\ UNCHANGED <<groupVars, buffer, current>>

\* Mutant of FlushStrict: calls the sinks' flush(), which hides failures.
FlushLenient(m) ==
    /\ pc[m] = "flush"
    /\ \E outcome \in CompositeFlush(m) : ApplyOutcome(m, outcome)
    /\ pc' = [pc EXCEPT ![m] = "commit"]
    /\ UNCHANGED <<groupVars, buffer, current, why>>

FlushStrict(m) ==
    /\ pc[m] = "flush"
    /\ \E outcome \in CompositeFlush(m) :
          /\ ApplyOutcome(m, outcome)
          /\ IF AllOk(outcome)
             THEN /\ pc' = [pc EXCEPT ![m] = "commit"]
                  /\ UNCHANGED why
             ELSE Raise(m)
    /\ UNCHANGED <<groupVars, buffer, current>>

\* The buffer is emptied after the commit, never before.
CommitBatch(m) ==
    /\ pc[m] = "commit"
    /\ m \notin fenced
    /\ committed' \in [Partitions -> Offsets]
    /\ CommitsTo(buffer[m], committed')
    /\ buffer' = [buffer EXCEPT ![m] = <<>>]
    /\ Return(m)
    /\ UNCHANGED <<owner, position, fenced, sinkVars, why, current>>

\* A synchronous commit that raises: refused, or applied and its answer lost.
CommitBatchFails(m) ==
    /\ pc[m] = "commit"
    /\ \/ UNCHANGED committed
       \/ /\ m \notin fenced
          /\ committed' \in [Partitions -> Offsets]
          /\ CommitsTo(buffer[m], committed')
    /\ Raise(m)
    /\ UNCHANGED <<owner, position, fenced, buffer, sinkVars, current>>

-----------------------------------------------------------------------------
(* The malformed branch after its flush.                                   *)

PublishMalformedRecord(m) ==
    /\ pc[m] = "dlq"
    /\ \/ /\ DeadLetterReturns(current[m])
          /\ pc' = [pc EXCEPT ![m] = "ack"]
          /\ UNCHANGED why
       \/ /\ DeadLetterRaises(current[m])
          /\ Raise(m)
    /\ UNCHANGED <<groupVars, buffer, current>>

CommitMalformed(m) ==
    /\ pc[m] = "ack"
    /\ m \notin fenced
    /\ committed' \in [Partitions -> Offsets]
    /\ CommitsTo(<<current[m]>>, committed')
    /\ current' = [current EXCEPT ![m] = None]
    /\ pc' = [pc EXCEPT ![m] = "poll"]
    /\ UNCHANGED <<owner, position, fenced, buffer, sinkVars, why>>

CommitMalformedFails(m) ==
    /\ pc[m] = "ack"
    /\ \/ UNCHANGED committed
       \/ /\ m \notin fenced
          /\ committed' \in [Partitions -> Offsets]
          /\ CommitsTo(<<current[m]>>, committed')
    /\ Raise(m)
    /\ UNCHANGED <<owner, position, fenced, buffer, sinkVars, current>>

\* The end of the process: `finally` closed the sinks, which a flush that
\* returned has left empty, or its flush raised and nothing is closed.
Close(m) ==
    /\ pc[m] \in {"close", "exit"}
    /\ EndOfProcess(m)

\* SIGKILL, the out-of-memory killer or a power cut.
Crash(m) ==
    /\ pc[m] # "down"
    /\ EndOfProcess(m)

Deliver(m, s) ==
    /\ KafkaDelivery(m, s)
    /\ UNCHANGED <<groupVars, buffer, pc, why, current>>

Step(m) ==
    \/ \E p \in Partitions : FetchRecord(m, p) \/ FetchMalformed(m, p)
    \/ FlushIdle(m) \/ WriteBatchStrict(m) \/ FlushStrict(m)
    \/ CommitBatch(m) \/ CommitBatchFails(m)
    \/ PublishMalformedRecord(m) \/ CommitMalformed(m) \/ CommitMalformedFails(m)
    \/ Close(m) \/ Start(m)

Environment(m) ==
    \/ Stop(m) \/ Crash(m) \/ Fence(m)
    \/ \E p \in Partitions : Assign(m, p)
    \/ \E s \in Sinks : Deliver(m, s)

Next == \E m \in Members : Step(m) \/ Environment(m)

Spec == Init /\ [][Next]_vars

-----------------------------------------------------------------------------
(* Liveness.  A fault is anything that sets a member back: it is stopped,  *)
(* killed or removed from the group, a live member loses a partition, or a *)
(* call raises.                                                            *)

Fault ==
    \E m \in Members :
        \/ why[m] # "final" /\ why'[m] = "final"
        \/ pc[m] # "exit" /\ pc'[m] = "exit"
        \/ pc[m] \notin {"down", "close", "exit"} /\ pc'[m] = "down"
        \/ m \in fenced' \ fenced
        \/ \E p \in Partitions : owner[p] = m /\ owner'[p] \notin {m, None}

\* The process runs until it has nothing to do and is started again when it ends
\* (the Deployment of k8s/helm does; docker-compose.yml has no restart policy for
\* it); the coordinator assigns every free partition; librdkafka delivers.
Fairness ==
    /\ \A m \in Members : WF_vars(Step(m))
    /\ \A p \in Partitions : WF_vars(owner[p] = None /\ \E m \in Members : Assign(m, p))
    /\ \A m \in Members, s \in Sinks : WF_vars(Deliver(m, s))

FairSpec == Spec /\ Fairness

-----------------------------------------------------------------------------
(* Properties.                                                             *)

\* At-least-once: whatever the group commits, and whichever member does, every
\* record below the committed offset has been delivered to every endpoint it is
\* due at (the sinks, or the dead-letter topic if it cannot be decoded).
CommittedIsDelivered ==
    \A p \in Partitions, o \in 0..LogEnd - 1 :
        o < committed[p] => Settled(<<p, o>>)

\* The sinks and the buffer never disagree: what a sink object still holds is
\* in the buffer of its process, so that a process that closes its sinks with
\* an empty buffer leaves nothing behind in them.
SinksHoldOnlyTheBuffer ==
    \A m \in Members, s \in Sinks : staged[m][s] \subseteq Batch(m)

\* The consumer implements the promise of AtLeastOnce.
Delivery == INSTANCE AtLeastOnce WITH settled <- {r \in Records : Settled(r)}

DeliveryRefined == Delivery!Spec

\* Why at-least-once holds: the inductive invariant.

\* Member m has not lost sight of record r.
Accounted(m, r) == Settled(r) \/ r \in Batch(m)

\* The records a member holds, and the loop's position, leave no gap behind them.
NoGapBelow(m, p, offset) ==
    \A o \in 0..LogEnd - 1 : o < offset => Accounted(m, <<p, o>>) \/ current[m] = <<p, o>>

BufferInOrder(m) ==
    /\ Batch(m) \cap Malformed = {}
    /\ \A r \in Batch(m), o \in 0..LogEnd - 1 : o < r[2] => Accounted(m, <<r[1], o>>)

CurrentInOrder(m) ==
    current[m] # None =>
        /\ current[m] \in Malformed
        /\ \A o \in 0..LogEnd - 1 : o < current[m][2] => Accounted(m, <<current[m][1], o>>)

\* What the place control has reached says of the batch and the record in hand.
Progress(m) ==
    /\ pc[m] = "down" => buffer[m] = <<>> /\ current[m] = None /\ m \notin fenced
    /\ pc[m] = "poll" => current[m] = None /\ m \notin fenced
    /\ pc[m] \in {"write", "flush", "commit"} /\ why[m] = "loop" => current[m] = None
    /\ pc[m] \in {"write", "flush", "commit"} /\ why[m] = "malformed" => current[m] # None
    /\ pc[m] = "flush" => \A s \in Sinks :
          Batch(m) \subseteq stored[s] \cup rejected[s] \cup staged[m][s]
    /\ pc[m] = "commit" => \A s \in Sinks :
          Batch(m) \subseteq stored[s] \cup rejected[s] /\ staged[m][s] = {}
    /\ pc[m] \in {"dlq", "ack"} => buffer[m] = <<>> /\ current[m] # None
    /\ pc[m] = "ack" => Settled(current[m])

SinksInOrder(m) ==
    \A s \in Sinks :
        /\ staged[m][s] \subseteq Batch(m)
        /\ Kind[s] = "historian" => staged[m][s] = {}

MemberInv(m) ==
    BufferInOrder(m) /\ CurrentInOrder(m) /\ Progress(m) /\ SinksInOrder(m)

OwnershipInv ==
    \A p \in Partitions : owner[p] # None =>
        /\ pc[owner[p]] # "down"
        /\ owner[p] \notin fenced
        /\ NoGapBelow(owner[p], p, position[p])

IInv ==
    /\ TypeOK
    /\ CommittedIsDelivered
    /\ OwnershipInv
    /\ \A m \in Members : MemberInv(m)

\* Once faults stop, every record of the topic is eventually delivered.
EventuallyDelivered ==
    <>[][~Fault]_vars => <>(\A r \in Records : Settled(r))
=============================================================================
