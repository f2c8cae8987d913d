--------------------------- MODULE ReleasingFanout ---------------------------
(***************************************************************************)
(* services/processor/normalized_fanout.py, processed_fanout.py and        *)
(* ai_enriched_fanout.py.  Unlike OperationalFanout they let go of a batch *)
(* whatever becomes of it, commit a malformed record without flushing what *)
(* is buffered, and start where auto.offset.reset says in a group that has *)
(* committed nothing.                                                      *)
(*                                                                         *)
(*   normalized   a CompositeSink; a failed commit is logged; a changed    *)
(*                route file makes it close and rebuild its sinks          *)
(*   processed    one historian insert per batch; a failed commit raises   *)
(*   ai_enriched  one historian insert per record; a failed insert and a   *)
(*                failed commit are logged                                 *)
(*                                                                         *)
(* While a batch is written nothing else touches `buffer`, so the batch    *)
(* taken out of it is still called buffer[m]; it is emptied when flush()   *)
(* returns or raises.                                                      *)
(***************************************************************************)
EXTENDS FanoutDelivery

CONSTANTS
    Programs,  \* which of the three a behaviour may be of
    Reset      \* *_AUTO_OFFSET_RESET: "latest" (the default) or "earliest"

ASSUME ReleasingAssumption ==
    /\ Programs \subseteq {"normalized", "processed", "ai_enriched"}
    /\ Reset \in {"latest", "earliest"}
    /\ Programs # {"normalized"} => \A s \in Sinks : Kind[s] = "historian"

VARIABLES
    program,   \* the program the group runs
    produced,  \* produced[p]: records of partition p so far
    since,     \* since[p]: the least offset the group has started reading p at
    pc,        \* pc[m]: where member m is
    why,       \* why[m]: who called flush: the loop, reload_sink_routes, finally
    current,   \* current[m]: the malformed record in hand
    dropped    \* history: the records whose insert ai_enriched_fanout gave up

logVars == <<program, produced, since>>
vars == <<owner, position, committed, fenced, buffer, staged, stored, rejected,
          program, produced, since, pc, why, current, dropped>>

TypeOK ==
    /\ FanoutTypeOK
    /\ program \in Programs
    /\ produced \in [Partitions -> Offsets]
    /\ since \in [Partitions -> Offsets]
    /\ pc \in [Members -> {"down", "poll", "write", "flush", "commit", "dlq", "ack", "close", "exit"}]
    /\ why \in [Members -> {"loop", "reload", "final"}]
    /\ current \in [Members -> Records \cup {None}]
    /\ dropped \subseteq Records

Init ==
    /\ FanoutInit
    /\ program \in Programs
    /\ produced \in [Partitions -> Offsets]
    /\ since = [p \in Partitions |-> LogEnd]
    /\ pc = [m \in Members |-> "down"]
    /\ why = [m \in Members |-> "loop"]
    /\ current = [m \in Members |-> None]
    /\ dropped = {}

-----------------------------------------------------------------------------
\* An exception outside flush(): `finally` flushes what is buffered, then closes.
Raise(m) ==
    /\ pc' = [pc EXCEPT ![m] = IF buffer[m] = <<>> THEN "close" ELSE "write"]
    /\ why' = [why EXCEPT ![m] = "final"]
    /\ UNCHANGED buffer

\* One inside flush(), which has let go of the batch: `finally` has nothing to
\* flush, or was itself flushing and the process ends with nothing closed.
RaiseInFlush(m) ==
    /\ buffer' = [buffer EXCEPT ![m] = <<>>]
    /\ pc' = [pc EXCEPT ![m] = IF why[m] = "final" THEN "exit" ELSE "close"]
    /\ why' = [why EXCEPT ![m] = "final"]

ReturnFromFlush(m) ==
    /\ buffer' = [buffer EXCEPT ![m] = <<>>]
    /\ pc' = [pc EXCEPT ![m] = IF why[m] = "loop" THEN "poll" ELSE "close"]
    /\ UNCHANGED why

EndOfProcess(m) ==
    /\ pc' = [pc EXCEPT ![m] = "down"]
    /\ why' = [why EXCEPT ![m] = "loop"]
    /\ current' = [current EXCEPT ![m] = None]
    /\ Vanish(m)

Start(m) ==
    /\ pc[m] = "down"
    /\ pc' = [pc EXCEPT ![m] = "poll"]
    /\ UNCHANGED <<groupVars, buffer, sinkVars, logVars, why, current, dropped>>

Produce(p) ==
    /\ produced[p] < LogEnd
    /\ produced' = [produced EXCEPT ![p] = @ + 1]
    /\ UNCHANGED <<groupVars, buffer, sinkVars, since, program, pc, why, current, dropped>>

\* Where a new owner starts: a commit is never for offset 0, so 0 at the broker
\* means that the group has committed nothing.
StartOffset(p) ==
    IF committed[p] > 0 THEN committed[p]
    ELSE IF Reset = "earliest" THEN 0 ELSE produced[p]

\* The coordinator gives p to m in m's poll(); the former owner has left, or
\* gives p up in its own poll().
Assign(m, p) ==
    /\ pc[m] = "poll" /\ m \notin fenced
    /\ owner[p] # m
    /\ owner[p] # None => pc[owner[p]] = "poll"
    /\ owner' = [owner EXCEPT ![p] = m]
    /\ position' = [position EXCEPT ![p] = StartOffset(p)]
    /\ since' = [since EXCEPT ![p] = IF StartOffset(p) < @ THEN StartOffset(p) ELSE @]
    /\ UNCHANGED <<committed, fenced, buffer, sinkVars, produced, program, pc, why, current, dropped>>

\* Member m exceeds max.poll.interval: removed, its commits are refused ...
Fence(m) ==
    /\ pc[m] \notin {"down", "poll"}
    /\ m \notin fenced
    /\ fenced' = fenced \cup {m}
    /\ owner' = [p \in Partitions |-> IF owner[p] = m THEN None ELSE owner[p]]
    /\ UNCHANGED <<position, committed, buffer, sinkVars, logVars, pc, why, current, dropped>>

\* ... until its next poll() joins the group again.
Rejoin(m) ==
    /\ pc[m] = "poll" /\ m \in fenced
    /\ fenced' = fenced \ {m}
    /\ UNCHANGED <<owner, position, committed, buffer, sinkVars, logVars, pc, why, current, dropped>>

\* One turn of the loop with a record that decodes.
FetchRecord(m, p) ==
    /\ pc[m] = "poll" /\ owner[p] = m /\ position[p] < produced[p]
    /\ <<p, position[p]>> \notin Malformed
    /\ position' = [position EXCEPT ![p] = @ + 1]
    /\ buffer' = [buffer EXCEPT ![m] = Append(@, <<p, position[p]>>)]
    /\ why' = [why EXCEPT ![m] = "loop"]
    /\ \/ pc' = [pc EXCEPT ![m] = "write"]
       \/ /\ program # "ai_enriched" /\ Len(buffer[m]) + 1 < BatchSize
          /\ UNCHANGED pc
    /\ UNCHANGED <<owner, committed, fenced, sinkVars, logVars, current, dropped>>

\* ... with one that does not: straight to the dead letter, the buffer stays.
FetchMalformed(m, p) ==
    /\ pc[m] = "poll" /\ owner[p] = m /\ position[p] < produced[p]
    /\ <<p, position[p]>> \in Malformed
    /\ position' = [position EXCEPT ![p] = @ + 1]
    /\ current' = [current EXCEPT ![m] = <<p, position[p]>>]
    /\ pc' = [pc EXCEPT ![m] = "dlq"]
    /\ UNCHANGED <<owner, committed, fenced, buffer, sinkVars, logVars, why, dropped>>

\* Mutant of FlushIdle: only a full batch is flushed.
FlushOnlyFull(m) ==
    /\ pc[m] = "poll" /\ Len(buffer[m]) >= BatchSize
    /\ pc' = [pc EXCEPT ![m] = "write"]
    /\ why' = [why EXCEPT ![m] = "loop"]
    /\ UNCHANGED <<groupVars, buffer, sinkVars, logVars, current, dropped>>

\* poll() returned nothing and the last flush is flush_seconds ago.
FlushIdle(m) ==
    /\ pc[m] = "poll" /\ buffer[m] # <<>>
    /\ pc' = [pc EXCEPT ![m] = "write"]
    /\ why' = [why EXCEPT ![m] = "loop"]
    /\ UNCHANGED <<groupVars, buffer, sinkVars, logVars, current, dropped>>

\* The route file has changed, or SIGTERM: a forced flush, then sink.close().
Leave(m, reason) ==
    /\ pc[m] = "poll"
    /\ pc' = [pc EXCEPT ![m] = IF buffer[m] = <<>> THEN "close" ELSE "write"]
    /\ why' = [why EXCEPT ![m] = reason]
    /\ UNCHANGED <<groupVars, buffer, sinkVars, logVars, current, dropped>>

ReloadSinkRoutes(m) == program = "normalized" /\ Leave(m, "reload")
Stop(m) == Leave(m, "final")

-----------------------------------------------------------------------------
(* The calls of flush(); ai_enriched_fanout makes them in its loop.  A     *)
(* historian has nothing to flush.                                         *)

\* Mutant of WriteBatch: write_batch instead of write_batch_strict.
WriteBatchLenient(m) ==
    /\ pc[m] = "write"
    /\ \E outcome \in CompositeWrite(m) : ApplyOutcome(m, outcome)
    /\ pc' = [pc EXCEPT ![m] = "flush"]
    /\ UNCHANGED <<groupVars, logVars, current, why, buffer, dropped>>

WriteBatch(m) ==
    /\ pc[m] = "write"
    /\ \E outcome \in CompositeWrite(m) :
          /\ ApplyOutcome(m, outcome)
          /\ \/ /\ AllOk(outcome)
                /\ pc' = [pc EXCEPT ![m] = "flush"]
                /\ UNCHANGED <<why, buffer, dropped>>
             \/ /\ ~AllOk(outcome) /\ program # "ai_enriched"
                /\ RaiseInFlush(m)
                /\ UNCHANGED dropped
             \/ /\ ~AllOk(outcome) /\ program = "ai_enriched"
                /\ ReturnFromFlush(m)
                /\ dropped' = dropped \cup Batch(m)
    /\ UNCHANGED <<groupVars, logVars, current>>

\* Mutant of FlushStrict: calls the sinks' flush(), which hides failures.
FlushLenient(m) ==
    /\ pc[m] = "flush"
    /\ \E outcome \in CompositeFlush(m) : ApplyOutcome(m, outcome)
    /\ pc' = [pc EXCEPT ![m] = "commit"]
    /\ UNCHANGED <<groupVars, logVars, current, why, buffer, dropped>>

FlushStrict(m) ==
    /\ pc[m] = "flush"
    /\ \E outcome \in CompositeFlush(m) :
          /\ ApplyOutcome(m, outcome)
          /\ IF AllOk(outcome)
             THEN /\ pc' = [pc EXCEPT ![m] = "commit"]
                  /\ UNCHANGED <<why, buffer>>
             ELSE RaiseInFlush(m)
    /\ UNCHANGED <<groupVars, logVars, current, dropped>>

\* The offsets a commit call leaves when the broker takes it.
Committed(m, recs) ==
    /\ m \notin fenced
    /\ committed' \in [Partitions -> Offsets]
    /\ CommitsTo(recs, committed')

CommitBatch(m) ==
    /\ pc[m] = "commit"
    /\ Committed(m, buffer[m])
    /\ ReturnFromFlush(m)
    /\ UNCHANGED <<owner, position, fenced, sinkVars, logVars, current, dropped>>

\* The call raises: refused, or applied and its answer lost.
CommitBatchFails(m) ==
    /\ pc[m] = "commit"
    /\ UNCHANGED committed \/ Committed(m, buffer[m])
    /\ IF program = "processed" THEN RaiseInFlush(m) ELSE ReturnFromFlush(m)
    /\ UNCHANGED <<owner, position, fenced, sinkVars, logVars, current, dropped>>

-----------------------------------------------------------------------------
(* The malformed branch.                                                   *)

PublishMalformedRecord(m) ==
    /\ pc[m] = "dlq"
    /\ \/ /\ DeadLetterReturns(current[m])
          /\ pc' = [pc EXCEPT ![m] = "ack"]
          /\ UNCHANGED <<why, buffer>>
       \/ /\ DeadLetterRaises(current[m])
          /\ Raise(m)
    /\ UNCHANGED <<groupVars, logVars, current, dropped>>

CommitMalformed(m) ==
    /\ pc[m] = "ack"
    /\ Committed(m, <<current[m]>>)
    /\ current' = [current EXCEPT ![m] = None]
    /\ pc' = [pc EXCEPT ![m] = "poll"]
    /\ UNCHANGED <<owner, position, fenced, buffer, sinkVars, logVars, why, dropped>>

CommitMalformedFails(m) ==
    /\ pc[m] = "ack"
    /\ UNCHANGED committed \/ Committed(m, <<current[m]>>)
    /\ Raise(m)
    /\ UNCHANGED <<owner, position, fenced, sinkVars, logVars, current, dropped>>

-----------------------------------------------------------------------------
\* CompositeSink.close hides failures; LakehouseSink.close tries its appends
\* once more.  A reload then builds new sink objects, and what was left in the
\* old ones is gone; at the end of the process everything is.
CloseSinks(m) ==
    /\ pc[m] = "close"
    /\ \E done \in [Sinks -> SUBSET Records] :
          /\ \A s \in Sinks :
                done[s] \in IF Kind[s] = "lakehouse" THEN SUBSET staged[m][s] ELSE {{}}
          /\ stored' = [e \in Endpoints |-> IF e \in Sinks THEN stored[e] \cup done[e]
                                                          ELSE stored[e]]
    /\ IF why[m] = "reload"
       THEN /\ pc' = [pc EXCEPT ![m] = "poll"]
            /\ staged' = [staged EXCEPT ![m] = [s \in Sinks |-> {}]]
       ELSE /\ pc' = [pc EXCEPT ![m] = "exit"]
            /\ UNCHANGED staged
    /\ UNCHANGED <<groupVars, buffer, rejected, logVars, why, current, dropped>>

Exit(m) == pc[m] = "exit" /\ EndOfProcess(m) /\ UNCHANGED <<logVars, dropped>>

\* SIGKILL, the out-of-memory killer or a power cut.
Crash(m) == pc[m] # "down" /\ EndOfProcess(m) /\ UNCHANGED <<logVars, dropped>>

Deliver(m, s) ==
    /\ KafkaDelivery(m, s)
    /\ UNCHANGED <<groupVars, buffer, logVars, pc, why, current, dropped>>

Step(m) ==
    \/ \E p \in Partitions : FetchRecord(m, p) \/ FetchMalformed(m, p)
    \/ FlushIdle(m) \/ WriteBatch(m) \/ FlushStrict(m)
    \/ CommitBatch(m) \/ CommitBatchFails(m)
    \/ PublishMalformedRecord(m) \/ CommitMalformed(m) \/ CommitMalformedFails(m)
    \/ CloseSinks(m) \/ Exit(m) \/ Start(m) \/ Rejoin(m)

Environment(m) ==
    \/ Stop(m) \/ ReloadSinkRoutes(m) \/ Crash(m) \/ Fence(m)
    \/ \E p \in Partitions : Assign(m, p)
    \/ \E s \in {t \in Sinks : Kind[t] = "kafka"} : Deliver(m, s)

Next == (\E m \in Members : Step(m) \/ Environment(m)) \/ \E p \in Partitions : Produce(p)

Spec == Init /\ [][Next]_vars

-----------------------------------------------------------------------------
(* Liveness, as in OperationalFanout: a fault sets a member back.  A change *)
(* of the route file counts as one.                                        *)

Fault ==
    \E m \in Members :
        \/ pc[m] # pc'[m] /\ pc[m] \in {"poll", "dlq", "ack"} /\ why'[m] # "loop"
        \/ pc[m] = "write" /\ pc'[m] \notin {"write", "flush"}
        \/ pc[m] = "flush" /\ pc'[m] \notin {"flush", "commit"}
        \/ pc[m] = "commit" /\ why[m] = "loop" /\ pc'[m] = "close"
        \/ pc[m] \notin {"down", "exit"} /\ pc'[m] = "down"
        \/ m \in fenced' \ fenced
        \/ \E p \in Partitions : owner[p] = m /\ owner'[p] \notin {m, None}

\* The coordinator assigns a free partition to some member.
Covers(p) == owner[p] = None /\ \E m \in Members : Assign(m, p)

FairSpec ==
    /\ Spec
    /\ \A m \in Members : WF_vars(Step(m))
    /\ \A p \in Partitions : WF_vars(Covers(p)) /\ WF_vars(Produce(p))
    /\ \A m \in Members, s \in Sinks : WF_vars(Deliver(m, s))

-----------------------------------------------------------------------------
(* Properties.                                                             *)

\* At-least-once: "Offsets are committed only after the sink batch succeeds,
\* giving at-least-once delivery to endpoint datasets" (normalized_fanout.py:5),
\* "Offsets are committed only after a successful insert (at-least-once
\* delivery)" (ai_enriched_fanout.py:8).  Every record from where the group
\* started reading up to its committed offset has been delivered.
CommittedIsDelivered ==
    \A p \in Partitions, o \in 0..LogEnd - 1 :
        since[p] <= o /\ o < committed[p] => Settled(<<p, o>>)

\* What remains of it: with nothing buffered ahead of a malformed record and a
\* group that reads from the start, only a record whose insert ai_enriched_fanout
\* gave up can be missing; kills, rebalances, failed batches and lost commits
\* lose nothing.
OnlyDroppedAreMissing ==
    \A p \in Partitions, o \in 0..LogEnd - 1 :
        since[p] <= o /\ o < committed[p] => Settled(<<p, o>>) \/ <<p, o>> \in dropped

\* A commit is only made for a delivered record: the one just below the committed
\* offset is settled, whatever has been passed over below it.
CommitPointIsDelivered ==
    \A p \in Partitions : committed[p] > 0 => Settled(<<p, committed[p] - 1>>)

\* Reloading routes throws the sink objects away; when the loop polls, and so
\* when it reloads, everything in them is delivered.
ReloadLosesNothing ==
    \A m \in Members, s \in Sinks : pc[m] \in {"poll", "dlq", "ack"} => staged[m][s] = {}

\* Once faults stop, every record is delivered or was dropped; a commit that is
\* refused and only logged is no fault.
EventuallyDelivered ==
    <>[][~Fault]_vars => <>(\A r \in Records : Settled(r) \/ r \in dropped)
=============================================================================
