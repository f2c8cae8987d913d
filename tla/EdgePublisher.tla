---------------------------- MODULE EdgePublisher ----------------------------
(***************************************************************************)
(* services/edge_ingest/publisher.py and disk_spool.py, with the threads   *)
(* that call them: the event loop (polling connectors, service_publisher   *)
(* and the final flush of main.py) and the executor or paho threads of     *)
(* connectors/mqtt.py.  One EdgePublisher is shared by all of them; its    *)
(* buffer has no lock.                                                     *)
(*                                                                         *)
(* publish_event(e) produces Raw(e) at once and appends Body(e), which     *)
(* stands for the normalized and the legacy record or for the dead letter  *)
(* of an event that is invalid or refused by the clock policy.  Delivery   *)
(* reports run inside poll() of whichever thread polls.  A spool directory *)
(* is configured.                                                          *)
(***************************************************************************)
EXTENDS Integers, Sequences, SequencesExt, FiniteSets

CONSTANTS
    Events,     \* what the sources send
    Threads,    \* threads that call the publisher
    Loop,       \* the one that runs the event loop
    BatchSize,  \* messages in the buffer that force a flush
    QueueMax,   \* queue.buffering.max.messages
    Oversize,   \* messages longer than max_message_bytes
    None

Raw(e) == <<"raw", e>>
Body(e) == <<"body", e>>
Messages == {Raw(e) : e \in Events} \cup {Body(e) : e \in Events}

ASSUME PublisherAssumption ==
    /\ Loop \in Threads
    /\ BatchSize \in Nat \ {0} /\ QueueMax \in Nat \ {0}
    /\ Oversize \subseteq Messages
    /\ IsFiniteSet(Events)
    /\ None \notin Events \cup Messages

VARIABLES
    given,      \* events publish_event has been called with
    buffer,     \* _buffer
    inflight,   \* inflight[x]: copies of x produced and not reported, with a token in _inflight
    routing,    \* routing[x]: dead letters of x produced and not reported, without a token
    spool,      \* pending.ndjson
    stored,     \* messages Kafka has acknowledged
    routed,     \* oversize messages whose dead letter Kafka has acknowledged
    pc,         \* pc[t]: where thread t is
    call,       \* call[t]: publish_event, service or flush
    event,      \* event[t]: argument of publish_event
    hand,       \* hand[t]: the message _produce_safe has
    next,       \* next[t]: index of the iteration over _buffer
    records,    \* records[t]: what read_all returned
    index,      \* index[t]: position of the replay in records[t]
    remaining,  \* remaining[t]: what the replay will write back
    touched,    \* history: threads whose flush began before another's change of the buffer
    late  \* history: a call was still running when the final flush began

queue == <<inflight, routing>>
memory == <<buffer, queue>>
disk == <<spool, stored, routed>>
frame == <<event, hand, next, records, index, remaining>>
vars == <<given, buffer, inflight, routing, spool, stored, routed, pc, call, event, hand, next,
          records, index, remaining, touched, late>>

TypeOK ==
    /\ given \subseteq Events
    /\ buffer \in Seq(Messages)
    /\ inflight \in [Messages -> Nat] /\ routing \in [Messages -> Nat]
    /\ spool \in Seq(Messages)
    /\ stored \subseteq Messages /\ routed \subseteq Messages
    /\ pc \in [Threads -> {"idle", "produce", "swallow", "append", "check", "read", "wait",
                           "replace", "next", "clear", "poll", "await", "down"}]
    /\ call \in [Threads -> {"publish", "service", "flush"}]
    /\ event \in [Threads -> Events \cup {None}]
    /\ hand \in [Threads -> Messages \cup {None}]
    /\ next \in [Threads -> Nat] /\ index \in [Threads -> Nat]
    /\ records \in [Threads -> Seq(Messages)] /\ remaining \in [Threads -> Seq(Messages)]
    /\ touched \subseteq Threads /\ late \in BOOLEAN

Everyone(value) == [t \in Threads |-> value]
Nothing == [x \in Messages |-> 0]

Init ==
    /\ buffer = <<>> /\ inflight = Nothing /\ routing = Nothing
    /\ pc = Everyone("idle") /\ call = Everyone("service")
    /\ event = Everyone(None) /\ hand = Everyone(None) /\ next = Everyone(1)
    /\ records = Everyone(<<>>) /\ index = Everyone(1) /\ remaining = Everyone(<<>>)
    /\ touched = {} /\ late = FALSE
    /\ given = {} /\ spool = <<>> /\ stored = {} /\ routed = {}

\* A new process: memory is gone, the spool is not.
NewProcess ==
    /\ buffer' = <<>> /\ inflight' = Nothing /\ routing' = Nothing
    /\ pc' = Everyone("idle") /\ call' = Everyone("service")
    /\ event' = Everyone(None) /\ hand' = Everyone(None) /\ next' = Everyone(1)
    /\ records' = Everyone(<<>>) /\ index' = Everyone(1) /\ remaining' = Everyone(<<>>)
    /\ touched' = {} /\ late' = FALSE

-----------------------------------------------------------------------------
Goto(t, place) == pc' = [pc EXCEPT ![t] = place]

\* stop_event has been set: no connector runs and no call begins any more.
Stopping == call[Loop] = "flush"

PublishEvent(t, e) ==
    /\ pc[t] = "idle" /\ ~Stopping /\ e \notin given
    /\ given' = given \cup {e}
    /\ call' = [call EXCEPT ![t] = "publish"]
    /\ event' = [event EXCEPT ![t] = e]
    /\ hand' = [hand EXCEPT ![t] = Raw(e)]
    /\ Goto(t, "produce")
    /\ UNCHANGED <<memory, disk, next, records, index, remaining, touched, late>>

Service ==
    /\ pc[Loop] = "idle" /\ ~Stopping
    /\ call' = [call EXCEPT ![Loop] = "service"]
    /\ Goto(Loop, "check")
    /\ UNCHANGED <<given, memory, disk, frame, touched, late>>

\* SIGTERM: main's `finally` calls flush() on the event loop.
Stop ==
    /\ pc[Loop] = "idle" /\ ~Stopping
    /\ call' = [call EXCEPT ![Loop] = "flush"]
    /\ Goto(Loop, "read")
    /\ late' = (\E t \in Threads \ {Loop} : pc[t] # "idle")
    /\ UNCHANGED <<given, memory, disk, frame, touched>>

-----------------------------------------------------------------------------
(* _produce_safe(hand[t]), called by publish_raw or by the loop over       *)
(* _buffer.                                                                *)

Queued == FoldSet(LAMBDA x, n : inflight[x] + routing[x] + n, 0, Messages)

Produced(t) ==
    /\ hand' = [hand EXCEPT ![t] = None]
    /\ Goto(t, IF event[t] # None THEN "append" ELSE "next")
    /\ UNCHANGED <<given, buffer, call, event, next, records, index, remaining, touched, late>>

\* _route_oversize: the dead letter is produced; nothing is kept of the message for a
\* delivery that fails.
RouteOversize(t) ==
    /\ pc[t] = "produce" /\ hand[t] \in Oversize
    /\ Queued < QueueMax
    /\ routing' = [routing EXCEPT ![hand[t]] = @ + 1]
    /\ Produced(t)
    /\ UNCHANGED <<inflight, disk>>

\* Its produce() raises, with a full queue or otherwise: the message is given up.
RouteFails(t) ==
    /\ pc[t] = "produce" /\ hand[t] \in Oversize
    /\ Goto(t, "swallow")
    /\ UNCHANGED <<given, memory, disk, call, frame, touched, late>>

\* The poll of the `except` has returned.
Swallowed(t) ==
    /\ pc[t] = "swallow"
    /\ Produced(t)
    /\ UNCHANGED <<queue, disk>>

Produce(t) ==
    /\ pc[t] = "produce" /\ hand[t] \notin Oversize
    /\ Queued < QueueMax
    /\ inflight' = [inflight EXCEPT ![hand[t]] = @ + 1]
    /\ Produced(t)
    /\ UNCHANGED <<routing, disk>>

\* produce() raises something other than BufferError.
ProduceFails(t) ==
    /\ pc[t] = "produce" /\ hand[t] \notin Oversize
    /\ spool' = Append(spool, hand[t])
    /\ Produced(t)
    /\ UNCHANGED <<queue, stored, routed>>

\* Where a thread is inside poll() or flush() of the producer: `produce` with a
\* full queue is the retry after BufferError.
Polls(t) ==
    \/ pc[t] \in {"swallow", "wait", "poll", "await"}
    \/ pc[t] = "produce" /\ hand[t] \notin Oversize /\ Queued >= QueueMax

\* Mutant of Delivered: reports a message that has none outstanding.
DeliveredUnguarded(x) ==
    /\ \E t \in Threads : Polls(t)
    /\ inflight' = [inflight EXCEPT ![x] = @ - 1]
    /\ stored' = stored \cup {x}
    /\ UNCHANGED <<given, buffer, routing, spool, routed, pc, call, frame, touched, late>>

\* _delivery_report: the broker has acknowledged x, or has given it up.
Delivered(x) ==
    /\ inflight[x] > 0 /\ \E t \in Threads : Polls(t)
    /\ inflight' = [inflight EXCEPT ![x] = @ - 1]
    /\ stored' = stored \cup {x}
    /\ UNCHANGED <<given, buffer, routing, spool, routed, pc, call, frame, touched, late>>

\* Mutant of DeliveryFails: the report forgets the message.
DeliveryFailureIgnored(x) ==
    /\ inflight[x] > 0 /\ \E t \in Threads : Polls(t)
    /\ inflight' = [inflight EXCEPT ![x] = @ - 1]
    /\ UNCHANGED <<given, buffer, routing, disk, pc, call, frame, touched, late>>

DeliveryFails(x) ==
    /\ inflight[x] > 0 /\ \E t \in Threads : Polls(t)
    /\ inflight' = [inflight EXCEPT ![x] = @ - 1]
    /\ spool' = Append(spool, x)
    /\ UNCHANGED <<given, buffer, routing, stored, routed, pc, call, frame, touched, late>>

\* The report of a dead letter: a failed one is only counted (spool_on_failure=False).
RouteReported(x) ==
    /\ routing[x] > 0 /\ \E t \in Threads : Polls(t)
    /\ routing' = [routing EXCEPT ![x] = @ - 1]
    /\ routed' \in {routed, routed \cup {x}}
    /\ UNCHANGED <<given, buffer, inflight, spool, stored, pc, call, frame, touched, late>>

-----------------------------------------------------------------------------
(* publish_event after publish_raw, and _maybe_flush.                      *)

AppendBody(t) ==
    /\ pc[t] = "append"
    /\ buffer' = Append(buffer, Body(event[t]))
    /\ event' = [event EXCEPT ![t] = None]
    /\ touched' = touched \cup (Threads \ {t})
    /\ Goto(t, "check")
    /\ UNCHANGED <<given, queue, disk, call, hand, next, records, index, remaining, late>>

\* Mutant of MaybeFlush: service leaves a partial batch to the next event.
MaybeFlushWhenFull(t) ==
    /\ pc[t] = "check"
    /\ Goto(t, IF Len(buffer) >= BatchSize THEN "read"
               ELSE IF call[t] = "service" THEN "poll" ELSE "idle")
    /\ UNCHANGED <<given, memory, disk, call, frame, touched, late>>

\* A full batch, or flush_interval_ms since the last flush.
MaybeFlush(t) ==
    /\ pc[t] = "check"
    /\ \/ Goto(t, "read")
       \/ /\ Len(buffer) < BatchSize
          /\ Goto(t, IF call[t] = "service" THEN "poll" ELSE "idle")
    /\ UNCHANGED <<given, memory, disk, call, frame, touched, late>>

-----------------------------------------------------------------------------
(* _replay_spool: the first call of _flush_buffer.                         *)

\* produce() of record i: it waits for the report, or the call raised and the
\* replay ends, as it does when no record is left.
ReplaySend(t, i, recs) ==
    \/ i <= Len(recs) /\ Goto(t, "wait")
    \/ Goto(t, "replace")

ReadAll(t) ==
    /\ pc[t] = "read"
    /\ records' = [records EXCEPT ![t] = spool]
    /\ remaining' = [remaining EXCEPT ![t] = spool]
    /\ index' = [index EXCEPT ![t] = 1]
    /\ touched' = touched \ {t}
    /\ ReplaySend(t, 1, spool)
    /\ UNCHANGED <<given, memory, disk, call, event, hand, next, late>>

\* remaining = remaining[index + 1 :], where `index` counts from the start of
\* records and remaining may already be shorter.
ReplayDelivered(t) ==
    /\ pc[t] = "wait"
    /\ stored' = stored \cup {records[t][index[t]]}
    /\ remaining' = [remaining EXCEPT ![t] = SubSeq(@, index[t] + 1, Len(@))]
    /\ index' = [index EXCEPT ![t] = @ + 1]
    /\ ReplaySend(t, index[t] + 1, records[t])
    /\ UNCHANGED <<given, memory, spool, routed, call, event, hand, next, records, touched, late>>

\* Its delivery failed, or ten seconds passed; late, it may be stored all the same.
ReplayGivesUp(t) ==
    /\ pc[t] = "wait"
    /\ \/ UNCHANGED stored
       \/ stored' = stored \cup {records[t][index[t]]}
    /\ Goto(t, "replace")
    /\ UNCHANGED <<given, memory, spool, routed, call, frame, touched, late>>

Replace(t) ==
    /\ pc[t] = "replace"
    /\ spool' = remaining[t]
    /\ records' = [records EXCEPT ![t] = <<>>]
    /\ remaining' = [remaining EXCEPT ![t] = <<>>]
    /\ index' = [index EXCEPT ![t] = 1]
    /\ next' = [next EXCEPT ![t] = 1]
    /\ Goto(t, "next")
    /\ UNCHANGED <<given, memory, stored, routed, call, event, hand, touched, late>>

-----------------------------------------------------------------------------
(* _flush_buffer after the replay: the iteration reads the list as it is   *)
(* when it asks for the next element, and clear() empties it as it is then.*)

NextOfBuffer(t) ==
    /\ pc[t] = "next"
    /\ IF next[t] <= Len(buffer)
       THEN /\ hand' = [hand EXCEPT ![t] = buffer[next[t]]]
            /\ next' = [next EXCEPT ![t] = @ + 1]
            /\ Goto(t, "produce")
       ELSE /\ Goto(t, "clear")
            /\ UNCHANGED <<hand, next>>
    /\ UNCHANGED <<given, memory, disk, call, event, records, index, remaining, touched, late>>

ClearBuffer(t) ==
    /\ pc[t] = "clear"
    /\ buffer' = <<>>
    /\ next' = [next EXCEPT ![t] = 1]
    /\ touched' = touched \cup (Threads \ {t})
    /\ Goto(t, "poll")
    /\ UNCHANGED <<given, queue, disk, call, event, hand, records, index, remaining, late>>

Poll(t) ==
    /\ pc[t] = "poll"
    /\ Goto(t, IF call[t] = "flush" THEN "await" ELSE "idle")
    /\ UNCHANGED <<given, memory, disk, call, frame, touched, late>>

\* producer.flush(10) returns, everything is reported or ten seconds have passed:
\* the unresolved messages go to the spool, except the dead letters without a token.
Collect ==
    /\ pc[Loop] = "await"
    /\ spool' = spool \o SetToSeq({x \in Messages : inflight[x] > 0})
    /\ inflight' = Nothing
    /\ Goto(Loop, "down")
    /\ UNCHANGED <<given, buffer, routing, stored, routed, call, frame, touched, late>>

\* The process ends once the executor's calls have, and is started again.
Restart ==
    /\ pc[Loop] = "down" /\ \A t \in Threads \ {Loop} : pc[t] = "idle"
    /\ NewProcess
    /\ UNCHANGED <<given, disk>>

\* SIGKILL or a power cut.
Kill ==
    /\ NewProcess
    /\ UNCHANGED <<given, disk>>

Step(t) ==
    \/ RouteOversize(t) \/ RouteFails(t) \/ Swallowed(t) \/ Produce(t) \/ AppendBody(t) \/ MaybeFlush(t)
    \/ ReadAll(t) \/ ReplayDelivered(t) \/ ReplayGivesUp(t) \/ Replace(t)
    \/ NextOfBuffer(t) \/ ClearBuffer(t) \/ Poll(t)

LoopStep == Step(Loop) \/ Service \/ Collect \/ Restart

Next ==
    \/ \E t \in Threads : Step(t) \/ ProduceFails(t) \/ \E e \in Events : PublishEvent(t, e)
    \/ LoopStep
    \/ \E x \in Messages : Delivered(x) \/ DeliveryFails(x) \/ RouteReported(x)
    \/ Stop \/ Kill

Spec == Init /\ [][Next]_vars

\* The event loop calls service every cycle, and after some cycles the interval
\* has passed; the other threads run, and what is queued is reported in the end
\* (message.timeout.ms).
Fairness ==
    /\ SF_vars(MaybeFlush(Loop) /\ pc'[Loop] = "read")
    /\ WF_vars(LoopStep)
    /\ \A t \in Threads \ {Loop} : WF_vars(Step(t))
    /\ WF_vars(\E x \in Messages : Delivered(x) \/ DeliveryFails(x) \/ RouteReported(x))

FairSpec == Spec /\ Fairness

-----------------------------------------------------------------------------
(* Properties.                                                             *)

\* Something still answers for message x: a flush for what it has read from the
\* buffer, as long as nobody else has changed it, and a call of publish_event for
\* the record it has not appended yet.
Accounted(x) ==
    \/ x \in stored \cup routed
    \/ inflight[x] > 0 \/ routing[x] > 0
    \/ \E i \in DOMAIN buffer : buffer[i] = x /\ \A t \in Threads \ touched : next[t] <= i
    \/ \E i \in DOMAIN spool : spool[i] = x
    \/ \E t \in Threads : pc[t] = "produce" /\ hand[t] = x
    \/ \E t \in Threads : event[t] # None /\ x = Body(event[t])

\* The replay writes back a spool that has changed since it was read, or one three
\* records long of which two have been delivered.
LossyRewrite ==
    \E t \in Threads :
        /\ pc[t] = "replace" /\ pc'[t] = "next"
        /\ spool # records[t] \/ (Len(spool) > 2 /\ index[t] > 2)

\* A flush clears a buffer another thread has changed since the flush began.
LossyClear == \E t \in touched : pc[t] = "clear" /\ pc'[t] = "poll"

\* The process ends, and the final flush had overtaken a call.
LossyEnd == late /\ pc[Loop] = "down"

Race == LossyRewrite \/ LossyClear \/ LossyEnd \/ Kill

\* The route of an oversize message loses it: produce() of its dead letter raises, the
\* delivery of the dead letter fails, or the process ends with it in the queue.
LossyRoute(x) ==
    /\ x \in Oversize
    /\ \/ \E t \in Threads : pc[t] = "produce" /\ hand[t] = x /\ pc'[t] = "swallow"
       \/ routing'[x] < routing[x] /\ x \notin routed'

\* Store and forward: a message the publisher has accepted stays in its memory or
\* in the spool until Kafka has it.  Calls and deliveries that fail, a full queue
\* and shutdown lose nothing, but for an oversize message, for which the publisher
\* tries one dead letter.  What else can lose a message is one of the races above,
\* and a kill.
LostOnlyInARace ==
    [][\A x \in Messages : Accounted(x) => Accounted(x)' \/ Race \/ LossyRoute(x)]_vars

\* "Batch deadlines must not depend on the next source event arriving"
\* (publisher.py:277): what is buffered leaves the buffer although no event follows
\* it.
BatchDeadline == []<>(buffer = <<>>)

\* A record of the spool is retried until it is delivered: "events are written as
\* crash-tolerant JSONL records and retried on later flushes"
\* (docs/source-connection-and-deployment.md:78).  When the replay writes the file
\* back, it keeps every record it read and did not deliver.
ReplayKeepsUndelivered ==
    \A t \in Threads : pc[t] = "replace" =>
        \A i \in DOMAIN records[t] : i >= index[t] =>
            records[t][i] \in stored \/ \E j \in DOMAIN remaining[t] : remaining[t][j] = records[t][i]
=============================================================================
