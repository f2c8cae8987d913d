-------------------------- MODULE RuntimeProcessor --------------------------
(***************************************************************************)
(* services/processor/runtime_processor.py: one process that reads         *)
(* industrial.normalized, keeps a rolling window and a threshold state for *)
(* each stream, publishes a derived event for every record, stores the     *)
(* derived events in batches and commits the source offsets last.          *)
(*                                                                         *)
(* A record is its offset; all that matters of it is its stream and the    *)
(* level its value is at under the policy: normal, warning, critical, or   *)
(* near, which is normal within the deadband of a warning bound.  A        *)
(* derived event is a record with the severity it was given.  The clock is *)
(* read once per record.                                                   *)
(***************************************************************************)
EXTENDS Integers, Sequences, FiniteSets, SequencesExt, Functions

CONSTANTS
    Instances,    \* what happens: the topic, the settings, the bounds
    Streams,      \* processing keys
    WindowLimit,  \* RUNTIME_WINDOW_LIMIT
    BatchSize,    \* RUNTIME_DB_BATCH_SIZE
    PruneEvery,   \* PRUNE_EVERY_N_MESSAGES
    OnDelay,      \* on_delay_seconds of the policy
    OffDelay,     \* off_delay_seconds
    None

Levels == {"normal", "near", "warning", "critical"}
Severities == {"normal", "warning", "critical"}
\* A record that from_raw_mapping or the JSON decoder raises on.
Poison == "poison"

ASSUME ProcessorAssumption ==
    /\ Instances \subseteq
          [topic : Seq([stream : Streams, level : Levels \cup {Poison}]),
           persist : BOOLEAN,     \* RUNTIME_PERSIST_PROCESSED_EVENTS
           maxDevices : Nat,      \* RUNTIME_MAX_ACTIVE_DEVICES, 0 for no limit
           maxIdle : Nat,         \* RUNTIME_DEVICE_MAX_IDLE_SECONDS, 0 for no limit
           gaps : SUBSET Nat,     \* bound: seconds between two records
           faulty : BOOLEAN]      \* bound: calls may fail and the process be killed
    /\ {WindowLimit, BatchSize, PruneEvery} \subseteq Nat \ {0}
    /\ {OnDelay, OffDelay} \subseteq Nat
    /\ None \notin Severities

VARIABLES
    instance,    \* the instance of this behaviour
    \* Kafka and the historian
    committed,   \* offset of the group runtime-iot-processor
    delivered,   \* derived events iot.processed has acknowledged
    failed,      \* derived events whose delivery failed for good
    stored,      \* derived events in processed_events, one for a record
    \* the process
    pc,          \* poll, deliver, insert, commit, close, down
    ending,      \* control is in the finally block
    position,    \* records polled
    queue,       \* derived events the producer has not got an answer for
    buffer,      \* processed_buffer and processed_offsets
    windows,     \* windows: a deque for each active stream
    lastSeen,    \* window_last_seen
    runtime,     \* _RUNTIME_STATE of threshold_policy
    processed,   \* processed % PRUNE_EVERY_N_MESSAGES
    clock,       \* time since the process started
    trace        \* history: what each active stream has been through

kafka == <<committed, delivered, failed>>
streamState == <<windows, lastSeen, runtime, processed, clock, trace>>
vars == <<instance, kafka, stored, pc, ending, position, queue, buffer, streamState>>

topic == instance.topic
Offsets == 0..Len(topic) - 1
Record(o) == topic[o + 1]
Derived == Offsets \X Severities
Batch == ToSet(buffer)

TypeOK ==
    /\ instance \in Instances
    /\ position \in 0..Len(topic) /\ committed \in 0..position
    /\ {delivered, failed, stored, queue} \subseteq SUBSET Derived
    /\ pc \in {"poll", "deliver", "insert", "commit", "close", "down"} /\ ending \in BOOLEAN
    /\ buffer \in Seq(Derived)
    /\ {DOMAIN windows, DOMAIN lastSeen, DOMAIN runtime, DOMAIN trace} = {DOMAIN windows}
    /\ DOMAIN windows \subseteq Streams
    /\ \A k \in DOMAIN windows : windows[k] \in Seq(Offsets) /\ Len(windows[k]) <= WindowLimit
    /\ \A k \in DOMAIN runtime :
          runtime[k] \in [severity : Severities, candidate : Severities \cup {None}, since : 0..clock]
    /\ processed \in 0..PruneEvery - 1 /\ clock \in Nat

Nothing == [k \in {} |-> None]

Init ==
    /\ instance \in Instances
    /\ committed = 0 /\ delivered = {} /\ failed = {} /\ stored = {}
    /\ pc = "down" /\ ending = FALSE
    /\ position = 0 /\ queue = {} /\ buffer = <<>>
    /\ windows = Nothing /\ lastSeen = Nothing /\ runtime = Nothing /\ trace = Nothing
    /\ processed = 0 /\ clock = 0
-----------------------------------------------------------------------------
(* One record and its stream. *)

At(f, k, default) == IF k \in DOMAIN f THEN f[k] ELSE default
With(f, k, v) == [j \in DOMAIN f \cup {k} |-> IF j = k THEN v ELSE f[j]]

\* Mutant of Appended: the deque is full one record later.
AppendedLate(window, o) ==
    IF Len(window) > WindowLimit THEN Append(Tail(window), o) ELSE Append(window, o)

\* Mutant of Appended: the newest record makes room.
AppendedPop(window, o) ==
    IF Len(window) >= WindowLimit THEN Append(Front(window), o) ELSE Append(window, o)

\* RollingWindowState.append.
Appended(window, o) ==
    IF Len(window) >= WindowLimit THEN Append(Tail(window), o) ELSE Append(window, o)

\* evaluate_threshold: the deadband does not count here.
Instant(level) == IF level = "near" THEN "normal" ELSE level

Delay(severity) == IF severity = "normal" THEN OffDelay ELSE OnDelay

Quiet(severity) == [severity |-> severity, candidate |-> None, since |-> 0]

\* Mutant of TransitionThresholdState: a pending transition survives values of another level.
TransitionKeepsSince(previous, level, now) ==
    LET candidate == IF level = "near" THEN previous.severity ELSE Instant(level)
        since == IF previous.candidate # None THEN previous.since ELSE now
    IN  IF candidate = previous.severity THEN Quiet(previous.severity)
        ELSE IF now - since < Delay(candidate)
        THEN [severity |-> previous.severity, candidate |-> candidate, since |-> since]
        ELSE Quiet(candidate)

\* evaluate_threshold_runtime and transition_threshold_state: a level has to last its delay, and a
\* value in the deadband of an alarm keeps it.
TransitionThresholdState(previous, level, now) ==
    LET candidate == IF level = "near" THEN previous.severity ELSE Instant(level)
        since == IF previous.candidate = Instant(level) THEN previous.since ELSE now
    IN  IF candidate = previous.severity THEN Quiet(previous.severity)
        ELSE IF now - since < Delay(candidate)
        THEN [severity |-> previous.severity, candidate |-> candidate, since |-> since]
        ELSE Quiet(candidate)

\* _prune_windows: the streams that may be left of those last seen at `seen`, at time now.
PruneWindows(seen, now) ==
    LET fresh == {k \in DOMAIN seen : instance.maxIdle > 0 => now - seen[k] <= instance.maxIdle}
        limit == IF instance.maxDevices > 0 THEN instance.maxDevices ELSE Cardinality(Streams)
    IN  {keep \in SUBSET fresh :
            /\ Cardinality(keep) = IF Cardinality(fresh) > limit THEN limit ELSE Cardinality(fresh)
            /\ \A k \in keep, j \in fresh \ keep : seen[j] <= seen[k]}

(* What one record does to the streams: a place in the window, a threshold transition, and every
   PruneEvery records the forgetting of streams; `severity` is what the derived event says. *)
Observe(o, now, severity) ==
    LET k == Record(o).stream
        level == Record(o).level
        state == TransitionThresholdState(At(runtime, k, Quiet("normal")), level, now)
        seen == With(lastSeen, k, now)
        entry == [offset |-> o, level |-> level, at |-> now, severity |-> severity]
    IN  /\ severity = state.severity
        /\ processed' = (processed + 1) % PruneEvery
        /\ clock' = now
        /\ \E keep \in IF processed' = 0 THEN PruneWindows(seen, now) ELSE {DOMAIN seen} :
              /\ windows' = Restrict(With(windows, k, Appended(At(windows, k, <<>>), o)), keep)
              /\ lastSeen' = Restrict(seen, keep)
              /\ runtime' = Restrict(With(runtime, k, state), keep)
              /\ trace' = Restrict(With(trace, k, Append(At(trace, k, <<>>), entry)), keep)
-----------------------------------------------------------------------------
(* The process. *)

Start ==
    /\ pc = "down"
    /\ pc' = "poll" /\ ending' = FALSE
    /\ position' = committed
    /\ windows' = Nothing /\ lastSeen' = Nothing /\ runtime' = Nothing /\ trace' = Nothing
    /\ processed' = 0 /\ clock' = 0
    /\ UNCHANGED <<instance, kafka, stored, queue, buffer>>

\* Control enters the finally block, whose first call is a forced flush.
Finally(pending) ==
    /\ ending' = TRUE
    /\ pc' = IF pending = <<>> THEN "close" ELSE "deliver"

\* An exception: in the loop it leads to the finally block, there to its last two calls.
Raise == IF ending THEN pc' = "close" /\ UNCHANGED ending ELSE Finally(buffer)

\* One turn of the loop for a record, up to the call of flush_processed_buffer.
Process ==
    /\ pc = "poll" /\ position < Len(topic) /\ Record(position).level # Poison
    /\ \E now \in {clock + gap : gap \in instance.gaps}, severity \in Severities :
          /\ Observe(position, now, severity)
          /\ queue' = queue \cup {<<position, severity>>}
          /\ buffer' = Append(buffer, <<position, severity>>)
    /\ position' = position + 1
    /\ pc' \in {"deliver"} \cup IF Len(buffer') < BatchSize THEN {"poll"} ELSE {}
    /\ UNCHANGED <<instance, kafka, stored, ending>>

\* The record cannot be decoded and the exception is not caught, or produce raises.
ProcessRaises ==
    /\ pc = "poll" /\ position < Len(topic)
    /\ Record(position).level = Poison \/ instance.faulty
    /\ position' = position + 1
    /\ Finally(buffer)
    /\ UNCHANGED <<instance, kafka, stored, queue, buffer, streamState>>

\* Mutant of FlushIdle: only a full batch is flushed.
FlushOnlyFull ==
    /\ pc = "poll" /\ Len(buffer) >= BatchSize
    /\ pc' = "deliver"
    /\ UNCHANGED <<instance, kafka, stored, ending, position, queue, buffer, streamState>>

\* poll returned nothing and RUNTIME_DB_FLUSH_SECONDS have passed.
FlushIdle ==
    /\ pc = "poll" /\ buffer # <<>>
    /\ pc' = "deliver"
    /\ UNCHANGED <<instance, kafka, stored, ending, position, queue, buffer, streamState>>

Stop ==
    /\ pc = "poll" /\ instance.faulty
    /\ Finally(buffer)
    /\ UNCHANGED <<instance, kafka, stored, position, queue, buffer, streamState>>

\* producer.flush(10) returns 0: the queue is empty, whatever became of each delivery.
EnsureDelivery ==
    /\ pc = "deliver" /\ queue = {}
    /\ pc' = IF instance.persist THEN "insert" ELSE "commit"
    /\ UNCHANGED <<instance, kafka, stored, ending, position, queue, buffer, streamState>>

DeliveryIncomplete ==
    /\ pc = "deliver" /\ queue # {} /\ instance.faulty
    /\ Raise
    /\ UNCHANGED <<instance, kafka, stored, position, queue, buffer, streamState>>

\* ON CONFLICT (time, event_id) DO NOTHING: the first derived event of a record stays.
Insert(events) == stored \cup {d \in events : \A s \in stored : s[1] # d[1]}

\* insert_batch, or insert_single for each event after it has failed.
InsertProcessed ==
    /\ pc = "insert"
    /\ stored' = Insert(Batch)
    /\ pc' = "commit"
    /\ UNCHANGED <<instance, kafka, ending, position, queue, buffer, streamState>>

\* Mutant of InsertRejected: the fallback counts no failures.
InsertRejectedIgnored ==
    /\ pc = "insert" /\ instance.faulty
    /\ \E took \in SUBSET Batch : stored' = Insert(took)
    /\ pc' = "commit"
    /\ UNCHANGED <<instance, kafka, ending, position, queue, buffer, streamState>>

\* Some of the single inserts raise.
InsertRejected ==
    /\ pc = "insert" /\ instance.faulty
    /\ \E took \in SUBSET Batch : stored' = Insert(took)
    /\ Raise
    /\ UNCHANGED <<instance, kafka, position, queue, buffer, streamState>>

\* The offsets of the batch are committed; in the finally block close follows.
CommitOffsets ==
    /\ pc = "commit"
    /\ committed' = Last(buffer)[1] + 1
    /\ buffer' = <<>>
    /\ pc' = IF ending THEN "close" ELSE "poll"
    /\ UNCHANGED <<instance, delivered, failed, stored, ending, position, queue, streamState>>

CommitFails ==
    /\ pc = "commit" /\ instance.faulty
    /\ committed' \in {committed, Last(buffer)[1] + 1}
    /\ Raise
    /\ UNCHANGED <<instance, delivered, failed, stored, position, queue, buffer, streamState>>

Exit ==
    /\ pc' = "down" /\ ending' = FALSE
    /\ queue' = {} /\ buffer' = <<>>
    /\ UNCHANGED <<instance, kafka, stored, position, streamState>>

\* consumer.close and a last producer.flush; what is still queued then is gone.
Close == pc = "close" /\ Exit

Crash == pc # "down" /\ instance.faulty /\ Exit

\* librdkafka's thread: nobody is told that a delivery failed.
Deliver ==
    \E d \in queue :
        /\ queue' = queue \ {d}
        /\ \/ delivered' = delivered \cup {d} /\ UNCHANGED failed
           \/ failed' = failed \cup {d} /\ instance.faulty /\ UNCHANGED delivered
        /\ UNCHANGED <<instance, committed, stored, pc, ending, position, buffer, streamState>>

Next ==
    \/ Start \/ Process \/ ProcessRaises \/ FlushIdle \/ Stop
    \/ EnsureDelivery \/ DeliveryIncomplete \/ InsertProcessed \/ InsertRejected
    \/ CommitOffsets \/ CommitFails \/ Close \/ Crash \/ Deliver

Spec == Init /\ [][Next]_vars

\* What the process does when nothing fails.
Work ==
    \/ Start \/ Process \/ FlushIdle \/ EnsureDelivery \/ InsertProcessed \/ CommitOffsets \/ Close

\* The process is a single thread that is started again; librdkafka ends every delivery.
FairSpec == Spec /\ WF_vars(Work) /\ WF_vars(Deliver)

\* A step that sets the process back, other than a record that does not decode.
Fault ==
    \/ ProcessRaises /\ Record(position).level # Poison
    \/ Stop \/ DeliveryIncomplete \/ InsertRejected \/ CommitFails \/ Crash
-----------------------------------------------------------------------------
Acknowledged(o) == \E d \in delivered : d[1] = o
Refused(o) == \E d \in failed : d[1] = o
Stored(o) == \E d \in stored : d[1] = o

(* "Never advance the source offset until Kafka has acknowledged it; otherwise a process crash can
   permanently lose the derived event" (runtime_processor.py:70-71).  The code keeps this only of
   events Kafka does not refuse: see CommittedIsProcessed. *)
CommittedIsAcknowledged ==
    \A o \in 0..committed - 1 : Record(o).level # Poison => Acknowledged(o)

(* Every record below the committed offset has a derived event that Kafka has acknowledged and, when
   the processor persists, a row in the historian: _flush_processed_batch commits last and lets go
   of the batch only then, also when it is called again from the finally block.  The one exception
   is a derived event that Kafka has refused: producer.flush counts it as done, and produce has no
   on_delivery that would tell. *)
CommittedIsProcessed ==
    \A o \in 0..committed - 1 :
        Record(o).level # Poison =>
            (Acknowledged(o) \/ Refused(o)) /\ (instance.persist => Stored(o))

(* A window is the last records of its stream since the process started or forgot the stream. *)
WindowIsRecent ==
    \A k \in DOMAIN windows :
        LET all == [i \in DOMAIN trace[k] |-> trace[k][i].offset]
            first == IF Len(all) > WindowLimit THEN Len(all) - WindowLimit + 1 ELSE 1
        IN  windows[k] = SubSeq(all, first, Len(all))

\* From entry i to entry n of a stream the value is at one level, for as long as its delay.
Sustained(t, i, n, severity) ==
    /\ \A j \in i..n : t[j].level = severity
    /\ t[n].at - t[i].at >= Delay(severity)

(* The severity of a stream is the level its value has kept for the delay of the policy: it changes
   to no level that has not lasted, and it follows every level that has, whatever pending
   transitions, values in the deadband and other levels came before. *)
SeverityFollowsTheSignal ==
    \A k \in DOMAIN trace : \A n \in DOMAIN trace[k] :
        LET t == trace[k]
            before == IF n = 1 THEN "normal" ELSE t[n - 1].severity
        IN  /\ t[n].severity # before => \E i \in 1..n : Sustained(t, i, n, t[n].severity)
            /\ \A i \in 1..n, s \in Severities : Sustained(t, i, n, s) => t[n].severity = s

\* What is kept of each stream, its window and its severity, is what its own records make it.
StreamsAreFollowed == WindowIsRecent /\ SeverityFollowsTheSignal

(* Once faults stop, every record before the first that does not decode is processed, although
   the process that meets that one ends again and again. *)
EventuallyProcessed ==
    <>[][~Fault]_vars =>
        <>(\A o \in Offsets : (\A i \in 0..o : Record(i).level # Poison) => o < committed)
=============================================================================
