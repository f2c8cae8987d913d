-------------------------- MODULE EdgePublisherProofs --------------------------
(***************************************************************************)
(* What edge_ingest/publisher.py has accepted is in its memory, in the     *)
(* spool or in Kafka, but for the races LostOnlyInARace names and what the *)
(* route for oversize messages gives up, for every set of events and       *)
(* threads, every queue and batch size and every delivery, call or process *)
(* that fails.                                                             *)
(***************************************************************************)
EXTENDS EdgePublisher, FiniteSetTheorems, SequenceTheorems, TLAPS

-----------------------------------------------------------------------------
(* The invariant. *)

\* What a thread has in its local variables, by where it is.
Locals(t) ==
    /\ next[t] >= 1
    /\ pc[t] = "produce" => hand[t] \in Messages
    /\ event[t] # None => pc[t] \in {"produce", "swallow", "append"} /\ call[t] = "publish"
    /\ pc[t] = "append" => event[t] # None
    /\ pc[t] \in {"await", "down"} => call[t] = "flush"
    /\ call[t] = "flush" => pc[t] \notin {"idle", "check"}
    /\ pc[t] \notin {"produce", "swallow", "next", "clear"} \/ event[t] # None => next[t] = 1

\* The records of the spool a replay has gone past are stored, and the first of them only is cut
\* off what it will write back; from the second on the cut is wrong.
ReplayInv(t) ==
    pc[t] \in {"wait", "replace"} =>
        /\ index[t] \in 1..Len(records[t]) + 1
        /\ pc[t] = "wait" => index[t] <= Len(records[t])
        /\ \A i \in 1..index[t] - 1 : records[t][i] \in stored
        /\ index[t] = 1 => remaining[t] = records[t]
        /\ index[t] = 2 => remaining[t] = SubSeq(records[t], 2, Len(records[t]))

\* A flush about to clear the buffer has gone through all of it, unless somebody changed it.
IteratedAll(t) == pc[t] = "clear" /\ t \notin touched => next[t] > Len(buffer)

\* A final flush that overtook no call is alone, and leaves nothing in memory.
QuietShutdown ==
    Stopping /\ ~late =>
        /\ \A t \in Threads \ {Loop} : pc[t] = "idle"
        /\ pc[Loop] \in {"poll", "await", "down"} => buffer = <<>>
        /\ pc[Loop] = "down" => inflight = Nothing

PublisherInv ==
    /\ TypeOK
    /\ \A t \in Threads : Locals(t) /\ ReplayInv(t) /\ IteratedAll(t)
    /\ QuietShutdown

-----------------------------------------------------------------------------
LEMMA BodyIsMessage == \A e \in Events : Raw(e) \in Messages /\ Body(e) \in Messages
  BY DEF Messages

LEMMA MessagesFinite == IsFiniteSet(Messages)
<1> DEFINE raws == {Raw(e) : e \in Events}
           bodies == {Body(e) : e \in Events}
<1>1. [e \in Events |-> Raw(e)] \in Surjection(Events, raws)
  BY DEF Surjection
<1>2. [e \in Events |-> Body(e)] \in Surjection(Events, bodies)
  BY DEF Surjection
<1>3. IsFiniteSet(raws) /\ IsFiniteSet(bodies)
  BY <1>1, <1>2, FS_Surjection, PublisherAssumption
<1> QED
  BY <1>3, FS_Union DEF Messages

\* SetToSeq lists the members of a finite set, and nothing else.
LEMMA ListOfSet ==
    ASSUME NEW S, IsFiniteSet(S)
    PROVE  /\ SetToSeq(S) \in Seq(S)
           /\ \A x \in S : \E i \in DOMAIN SetToSeq(S) : SetToSeq(S)[i] = x
<1> DEFINE n == Cardinality(S)
           f == SetToSeq(S)
<1>1. n \in Nat /\ ExistsBijection(1..n, S)
  BY FS_CardinalityType
<1>2. \E g \in [1..n -> S] : IsInjective(g)
  BY <1>1 DEF ExistsBijection, Bijection, Injection
<1>3. f \in [1..n -> S] /\ IsInjective(f)
  BY <1>2 DEF SetToSeq
<1>4. f \in Injection(1..n, S)
  BY <1>3 DEF Injection
<1>5. Cardinality(1..n) = n
  BY <1>1, FS_Interval
<1>6. f \in Surjection(1..n, S)
  BY <1>4, <1>5, FS_Injection
<1>7. f \in Seq(S)
  BY <1>1, <1>3
<1> QED
  BY <1>3, <1>6, <1>7 DEF Surjection

-----------------------------------------------------------------------------
(* The invariant holds at the start of a process and is kept. *)

\* A thread keeps what is said of it while nobody touches its variables, no message is taken back
\* from Kafka, and the buffer only changes under its eyes.
LEMMA Bystander ==
    ASSUME NEW u \in Threads, Locals(u), ReplayInv(u), IteratedAll(u),
           pc'[u] = pc[u], call'[u] = call[u], event'[u] = event[u], hand'[u] = hand[u],
           next'[u] = next[u], records'[u] = records[u], index'[u] = index[u],
           remaining'[u] = remaining[u], stored \subseteq stored',
           u \in touched' \/ (u \notin touched /\ buffer' = buffer)
    PROVE  Locals(u)' /\ ReplayInv(u)' /\ IteratedAll(u)'
<1>1. Locals(u)'
  BY DEF Locals
<1>2. ReplayInv(u)'
  BY DEF ReplayInv
<1>3. IteratedAll(u)'
  BY DEF IteratedAll
<1> QED
  BY <1>1, <1>2, <1>3

LEMMA EmptyType == ASSUME NEW S PROVE <<>> \in Seq(S)
  OBVIOUS

\* A process begins: its memory is empty, whatever the last one left.
Fresh ==
    /\ given \subseteq Events /\ spool \in Seq(Messages)
    /\ stored \subseteq Messages /\ routed \subseteq Messages
    /\ buffer = <<>> /\ inflight = Nothing /\ routing = Nothing
    /\ pc = Everyone("idle") /\ call = Everyone("service")
    /\ event = Everyone(None) /\ hand = Everyone(None) /\ next = Everyone(1)
    /\ records = Everyone(<<>>) /\ index = Everyone(1) /\ remaining = Everyone(<<>>)
    /\ touched = {} /\ late = FALSE

LEMMA FreshProcess == Fresh => PublisherInv
<1> SUFFICES ASSUME Fresh PROVE PublisherInv
  OBVIOUS
<1>1. /\ buffer \in Seq(Messages)
      /\ inflight \in [Messages -> Nat] /\ routing \in [Messages -> Nat]
      /\ touched \subseteq Threads /\ late \in BOOLEAN
  BY EmptyType DEF Fresh, Nothing
<1>2. /\ pc \in [Threads -> {"idle"}] /\ call \in [Threads -> {"service"}]
      /\ event \in [Threads -> {None}] /\ hand \in [Threads -> {None}]
      /\ next \in [Threads -> {1}] /\ index \in [Threads -> {1}]
  BY DEF Fresh, Everyone
<1>3. records \in [Threads -> Seq(Messages)] /\ remaining \in [Threads -> Seq(Messages)]
  BY EmptyType DEF Fresh, Everyone
<1>4. TypeOK
  BY <1>1, <1>2, <1>3 DEF Fresh, TypeOK
<1>5. ASSUME NEW t \in Threads PROVE Locals(t) /\ ReplayInv(t) /\ IteratedAll(t)
  BY <1>2, <1>5 DEF Locals, ReplayInv, IteratedAll
<1>6. QuietShutdown
  BY <1>2, PublisherAssumption DEF QuietShutdown, Stopping
<1> QED
  BY <1>4, <1>5, <1>6 DEF PublisherInv

LEMMA PublisherInit == Init => PublisherInv
<1> SUFFICES ASSUME Init PROVE PublisherInv
  OBVIOUS
<1> QED
  BY FreshProcess, EmptyType DEF Init, Fresh

LEMMA ProcessBegins ==
    ASSUME PublisherInv, Restart \/ Kill
    PROVE  PublisherInv'
<1>1. NewProcess /\ UNCHANGED <<given, disk>>
  BY DEF Restart, Kill
<1>2. Fresh'
  BY <1>1, EmptyType DEF NewProcess, Fresh, Everyone, Nothing, disk, PublisherInv, TypeOK
<1> QED
  BY <1>2, FreshProcess, PTL

LEMMA EventBegins ==
    ASSUME PublisherInv, NEW t \in Threads, NEW e \in Events, PublishEvent(t, e)
    PROVE  PublisherInv'
<1>1. TypeOK /\ pc[t] = "idle" /\ ~Stopping /\ Locals(t)
  BY DEF PublisherInv, PublishEvent
<1>2. TypeOK'
  BY <1>1, BodyIsMessage DEF PublishEvent, Goto, memory, queue, disk, TypeOK
<1>3. Locals(t)' /\ ReplayInv(t)' /\ IteratedAll(t)'
  BY <1>1, BodyIsMessage DEF PublishEvent, Goto, memory, queue, disk, TypeOK, Locals, ReplayInv, IteratedAll
<1>4. ASSUME NEW u \in Threads \ {t} PROVE Locals(u)' /\ ReplayInv(u)' /\ IteratedAll(u)'
  BY <1>1, Bystander DEF PublisherInv, PublishEvent, Goto, memory, queue, disk, TypeOK
<1>5. QuietShutdown'
  BY <1>1, PublisherAssumption DEF PublishEvent, Goto, memory, queue, disk, TypeOK, QuietShutdown, Stopping
<1> QED
  BY <1>2, <1>3, <1>4, <1>5 DEF PublisherInv

\* service, and the flush of main's `finally`.
LEMMA LoopCalls ==
    ASSUME PublisherInv, Service \/ Stop
    PROVE  PublisherInv'
<1>1. TypeOK /\ Loop \in Threads /\ pc[Loop] = "idle" /\ ~Stopping /\ Locals(Loop)
  BY PublisherAssumption DEF PublisherInv, Service, Stop
<1>2. TypeOK'
  BY <1>1 DEF Service, Stop, Goto, memory, queue, disk, frame, TypeOK
<1>3. Locals(Loop)' /\ ReplayInv(Loop)' /\ IteratedAll(Loop)'
  <2>1. /\ pc'[Loop] \in {"check", "read"} /\ call'[Loop] = IF pc'[Loop] = "check" THEN "service" ELSE "flush"
        /\ UNCHANGED <<event, hand, next, records, index, remaining, buffer, touched, stored>>
    BY <1>1 DEF Service, Stop, Goto, memory, queue, disk, frame, TypeOK
  <2>2. Locals(Loop)'
    BY <1>1, <2>1 DEF Locals
  <2> QED BY <2>1, <2>2 DEF ReplayInv, IteratedAll
<1>4. ASSUME NEW u \in Threads \ {Loop} PROVE Locals(u)' /\ ReplayInv(u)' /\ IteratedAll(u)'
  BY <1>1, Bystander DEF PublisherInv, Service, Stop, Goto, memory, queue, disk, frame, TypeOK
<1>5. QuietShutdown'
  BY <1>1 DEF Service, Stop, Goto, memory, queue, disk, frame, TypeOK, QuietShutdown, Stopping
<1> QED
  BY <1>2, <1>3, <1>4, <1>5 DEF PublisherInv

\* _produce_safe, whatever becomes of the message.
LEMMA MessageProduced ==
    ASSUME PublisherInv, NEW t \in Threads,
           RouteOversize(t) \/ Swallowed(t) \/ Produce(t) \/ ProduceFails(t)
    PROVE  PublisherInv'
<1>1. /\ TypeOK /\ Locals(t) /\ Produced(t) /\ pc[t] \in {"produce", "swallow"}
      /\ pc[t] = "produce" => hand[t] \in Messages
  BY DEF PublisherInv, Locals, RouteOversize, Swallowed, Produce, ProduceFails
<1>2. TypeOK'
  <2>1. inflight \in [Messages -> Nat] /\ routing \in [Messages -> Nat] /\ spool \in Seq(Messages)
    BY <1>1 DEF TypeOK
  <2>2. inflight' \in [Messages -> Nat] /\ routing' \in [Messages -> Nat] /\ spool' \in Seq(Messages)
    <3>1. CASE RouteOversize(t)
      BY <1>1, <2>1, <3>1 DEF RouteOversize, disk
    <3>2. CASE Swallowed(t)
      BY <2>1, <3>2 DEF Swallowed, queue, disk
    <3>3. CASE Produce(t)
      BY <1>1, <2>1, <3>3 DEF Produce, disk
    <3>4. CASE ProduceFails(t)
      BY <1>1, <2>1, <3>4 DEF ProduceFails, queue
    <3> QED BY <3>1, <3>2, <3>3, <3>4
  <2>3. UNCHANGED <<stored, routed>>
    BY DEF RouteOversize, Swallowed, Produce, ProduceFails, disk
  <2> QED BY <1>1, <2>2, <2>3 DEF TypeOK, Produced, Goto
<1>3. stored' = stored
  BY DEF RouteOversize, Swallowed, Produce, ProduceFails, disk
<1>4. Locals(t)' /\ ReplayInv(t)' /\ IteratedAll(t)'
  BY <1>1 DEF Produced, Goto, TypeOK, Locals, ReplayInv, IteratedAll
<1>5. ASSUME NEW u \in Threads \ {t} PROVE Locals(u)' /\ ReplayInv(u)' /\ IteratedAll(u)'
  BY <1>1, <1>3, Bystander DEF PublisherInv, Produced, Goto, TypeOK
<1>6. QuietShutdown'
  BY <1>1, PublisherAssumption DEF PublisherInv, Produced, Goto, TypeOK, Locals, QuietShutdown, Stopping
<1> QED
  BY <1>2, <1>4, <1>5, <1>6 DEF PublisherInv

\* Kafka has answered for a dead letter of the route, with either outcome.
LEMMA RouteAnswered ==
    ASSUME PublisherInv, NEW x \in Messages, RouteReported(x)
    PROVE  PublisherInv'
<1>1. /\ TypeOK /\ routing \in [Messages -> Nat] /\ routing[x] \in Nat /\ routing[x] > 0
      /\ routing' = [routing EXCEPT ![x] = @ - 1]
  BY DEF PublisherInv, TypeOK, RouteReported
<1>2. routing' \in [Messages -> Nat]
  BY <1>1
<1>3. TypeOK'
  BY <1>1, <1>2 DEF TypeOK, RouteReported, frame
<1>4. ASSUME NEW u \in Threads PROVE Locals(u)' /\ ReplayInv(u)' /\ IteratedAll(u)'
  BY Bystander DEF PublisherInv, RouteReported, frame
<1>5. QuietShutdown'
  BY DEF PublisherInv, QuietShutdown, Stopping, RouteReported, frame
<1> QED
  BY <1>3, <1>4, <1>5 DEF PublisherInv

LEMMA MessageReported ==
    ASSUME PublisherInv, NEW x \in Messages, Delivered(x) \/ DeliveryFails(x)
    PROVE  PublisherInv'
<1>1. TypeOK /\ inflight[x] \in Nat /\ inflight[x] > 0
  BY DEF PublisherInv, TypeOK, Delivered, DeliveryFails
<1>2. TypeOK'
  <2>1. inflight \in [Messages -> Nat] /\ spool \in Seq(Messages) /\ stored \subseteq Messages
    BY <1>1 DEF TypeOK
  <2>2. inflight' = [inflight EXCEPT ![x] = @ - 1]
    BY DEF Delivered, DeliveryFails
  <2>3. inflight' \in [Messages -> Nat]
    BY <1>1, <2>1, <2>2
  <2>4. spool' \in Seq(Messages) /\ stored' \subseteq Messages
    <3>1. spool' \in {spool, Append(spool, x)} /\ stored' \in {stored, stored \cup {x}}
      BY DEF Delivered, DeliveryFails
    <3>2. Append(spool, x) \in Seq(Messages)
      BY <2>1
    <3> QED BY <2>1, <3>1, <3>2
  <2> QED BY <1>1, <2>3, <2>4 DEF TypeOK, Delivered, DeliveryFails, frame
<1>3. ASSUME NEW u \in Threads PROVE Locals(u)' /\ ReplayInv(u)' /\ IteratedAll(u)'
  BY Bystander DEF PublisherInv, Delivered, DeliveryFails, frame
<1>4. QuietShutdown'
  BY <1>1 DEF PublisherInv, QuietShutdown, Stopping, Delivered, DeliveryFails, frame, Nothing
<1> QED
  BY <1>2, <1>3, <1>4 DEF PublisherInv

LEMMA BodyAppended ==
    ASSUME PublisherInv, NEW t \in Threads, AppendBody(t)
    PROVE  PublisherInv'
<1>1. TypeOK /\ Locals(t) /\ pc[t] = "append" /\ event[t] \in Events
  BY DEF PublisherInv, AppendBody, Locals, TypeOK
<1>2. TypeOK'
  <2>1. buffer \in Seq(Messages) /\ Body(event[t]) \in Messages
    BY <1>1, BodyIsMessage DEF TypeOK
  <2>2. buffer' \in Seq(Messages)
    BY <2>1 DEF AppendBody
  <2> QED BY <1>1, <2>2 DEF AppendBody, Goto, queue, disk, TypeOK
<1>3. Locals(t)' /\ ReplayInv(t)' /\ IteratedAll(t)'
  BY <1>1 DEF AppendBody, Goto, disk, TypeOK, Locals, ReplayInv, IteratedAll
<1>4. ASSUME NEW u \in Threads \ {t} PROVE Locals(u)' /\ ReplayInv(u)' /\ IteratedAll(u)'
  BY <1>1, Bystander DEF PublisherInv, AppendBody, Goto, disk, TypeOK
<1>5. ~(Stopping /\ ~late)
  BY <1>1 DEF PublisherInv, QuietShutdown, Stopping, Locals
<1>6. QuietShutdown'
  BY <1>5 DEF QuietShutdown, Stopping, AppendBody
<1> QED
  BY <1>2, <1>3, <1>4, <1>6 DEF PublisherInv

\* _maybe_flush decides, poll(0) returns, the replay's delivery is given up, the route raises.
LEMMA GoneOn ==
    ASSUME PublisherInv, NEW t \in Threads,
           MaybeFlush(t) \/ Poll(t) \/ ReplayGivesUp(t) \/ RouteFails(t)
    PROVE  PublisherInv'
<1>1. TypeOK /\ Locals(t) /\ ReplayInv(t)
  BY DEF PublisherInv
<1>2. /\ UNCHANGED <<given, memory, spool, routed, call, frame, touched, late>>
      /\ stored \subseteq stored'
      /\ \E place \in {"read", "poll", "await", "idle", "replace", "swallow"} : Goto(t, place)
  BY DEF MaybeFlush, Poll, ReplayGivesUp, RouteFails, disk
<1>3. pc' \in [Threads -> {"idle", "produce", "swallow", "append", "check", "read", "wait", "replace",
                          "next", "clear", "poll", "await", "down"}]
      /\ \A u \in Threads \ {t} : pc'[u] = pc[u]
  BY <1>1, <1>2 DEF TypeOK, Goto
<1>4. pc[t] = "produce" \/ (pc[t] \in {"check", "poll", "wait"} /\ event[t] = None)
  BY <1>1 DEF MaybeFlush, Poll, ReplayGivesUp, RouteFails, Locals
<1>5. \/ pc[t] = "check" /\ call[t] # "flush" /\ pc'[t] \in {"read", "poll", "idle"}
      \/ pc[t] = "poll" /\ call[t] # "flush" /\ pc'[t] = "idle"
      \/ pc[t] = "poll" /\ call[t] = "flush" /\ pc'[t] = "await"
      \/ pc[t] = "wait" /\ pc'[t] = "replace"
      \/ pc[t] = "produce" /\ pc'[t] = "swallow"
  BY <1>1, <1>4 DEF MaybeFlush, Poll, ReplayGivesUp, RouteFails, Locals, Goto, TypeOK
<1>6. stored' \subseteq Messages
  <2>1. CASE pc[t] = "wait"
    <3>1. index[t] \in DOMAIN records[t] /\ records[t] \in Seq(Messages)
      BY <1>1, <2>1 DEF ReplayInv, TypeOK
    <3>2. records[t][index[t]] \in Messages
      BY <3>1, ElementOfSeq
    <3> QED BY <1>1, <2>1, <3>2 DEF TypeOK, MaybeFlush, Poll, ReplayGivesUp, RouteFails, disk
  <2>2. CASE pc[t] # "wait"
    BY <1>1, <2>2 DEF TypeOK, MaybeFlush, Poll, ReplayGivesUp, RouteFails, disk
  <2> QED BY <2>1, <2>2
<1>7. TypeOK'
  BY <1>1, <1>2, <1>3, <1>6 DEF TypeOK, memory, queue, frame
<1>8. Locals(t)' /\ ReplayInv(t)' /\ IteratedAll(t)'
  BY <1>1, <1>2, <1>4, <1>5 DEF memory, queue, frame, Locals, ReplayInv, IteratedAll
<1>9. ASSUME NEW u \in Threads \ {t} PROVE Locals(u)' /\ ReplayInv(u)' /\ IteratedAll(u)'
  BY <1>2, <1>3, Bystander DEF PublisherInv, memory, queue, frame
<1>10. QuietShutdown'
  BY <1>2, <1>3, <1>5, PublisherAssumption DEF PublisherInv, QuietShutdown, Stopping, memory, queue, frame
<1> QED
  BY <1>7, <1>8, <1>9, <1>10 DEF PublisherInv

LEMMA SpoolRead ==
    ASSUME PublisherInv, NEW t \in Threads, ReadAll(t)
    PROVE  PublisherInv'
<1>1. TypeOK /\ Locals(t) /\ pc[t] = "read" /\ spool \in Seq(Messages)
  BY DEF PublisherInv, ReadAll, TypeOK
<1>2. /\ \/ Goto(t, "wait") /\ 1 <= Len(spool)
         \/ Goto(t, "replace")
      /\ UNCHANGED <<given, buffer, inflight, routing, spool, stored, routed, call, event, hand, next,
                      late>>
  BY DEF ReadAll, ReplaySend, memory, queue, disk
<1>3. TypeOK'
  BY <1>1, <1>2 DEF ReadAll, Goto, TypeOK
<1>4. Locals(t)' /\ IteratedAll(t)'
  BY <1>1, <1>2 DEF Goto, TypeOK, Locals, IteratedAll
<1>5. ReplayInv(t)'
  BY <1>1, <1>2 DEF ReadAll, Goto, TypeOK, ReplayInv
<1>6. ASSUME NEW u \in Threads \ {t} PROVE Locals(u)' /\ ReplayInv(u)' /\ IteratedAll(u)'
  BY <1>1, <1>2, Bystander DEF PublisherInv, ReadAll, Goto, TypeOK
<1>7. QuietShutdown'
  BY <1>1, <1>2, PublisherAssumption DEF PublisherInv, Goto, TypeOK, QuietShutdown, Stopping
<1> QED
  BY <1>3, <1>4, <1>5, <1>6, <1>7 DEF PublisherInv

LEMMA RecordReplayed ==
    ASSUME PublisherInv, NEW t \in Threads, ReplayDelivered(t)
    PROVE  PublisherInv'
<1>1. TypeOK /\ Locals(t) /\ ReplayInv(t) /\ pc[t] = "wait"
  BY DEF PublisherInv, ReplayDelivered
<1>2. /\ records[t] \in Seq(Messages) /\ remaining[t] \in Seq(Messages)
      /\ index[t] \in 1..Len(records[t]) /\ event[t] = None
  BY <1>1 DEF TypeOK, ReplayInv, Locals
<1>3. records[t][index[t]] \in Messages
  BY <1>2, ElementOfSeq
<1>4. /\ \/ Goto(t, "wait") /\ index[t] + 1 <= Len(records[t])
         \/ Goto(t, "replace")
      /\ UNCHANGED <<given, buffer, inflight, routing, spool, routed, call, event, hand, next, records,
                      touched, late>>
      /\ stored' = stored \cup {records[t][index[t]]}
      /\ index' = [index EXCEPT ![t] = @ + 1]
  BY DEF ReplayDelivered, ReplaySend, memory, queue
<1>5. /\ remaining' \in [Threads -> Seq(Messages)]
      /\ remaining'[t] = SubSeq(remaining[t], index[t] + 1, Len(remaining[t]))
      /\ \A u \in Threads \ {t} : remaining'[u] = remaining[u]
  <2>1. SubSeq(remaining[t], index[t] + 1, Len(remaining[t])) \in Seq(Messages)
    BY <1>2
  <2> QED BY <1>1, <2>1 DEF ReplayDelivered, TypeOK
<1>6. TypeOK'
  <2>1. index' \in [Threads -> Nat] /\ stored' \subseteq Messages
    BY <1>1, <1>3, <1>4 DEF TypeOK
  <2> QED BY <1>1, <1>4, <1>5, <2>1 DEF Goto, TypeOK
<1>7. Locals(t)' /\ IteratedAll(t)'
  BY <1>1, <1>2, <1>4 DEF Goto, TypeOK, Locals, IteratedAll
<1>8. ReplayInv(t)'
  <2>1. index'[t] = index[t] + 1 /\ records'[t] = records[t]
    BY <1>1, <1>4 DEF TypeOK
  <2>2. index'[t] = 2 => remaining'[t] = SubSeq(records[t], 2, Len(records[t]))
    <3>1. ASSUME index'[t] = 2 PROVE index[t] = 1 /\ remaining[t] = records[t]
      <4>1. index[t] = 1
        BY <1>1, <1>2, <2>1, <3>1 DEF TypeOK
      <4>2. index[t] = 1 => remaining[t] = records[t]
        BY <1>1, <1>2 DEF ReplayInv
      <4> QED BY <4>1, <4>2
    <3>2. ASSUME index'[t] = 2 PROVE remaining'[t] = SubSeq(records[t], 2, Len(records[t]))
      <4>1. index[t] + 1 = 2 /\ remaining[t] = records[t]
        BY <3>1, <3>2
      <4>2. remaining'[t] = SubSeq(remaining[t], 2, Len(remaining[t]))
        BY <1>5, <4>1
      <4> QED BY <4>1, <4>2
    <3> QED BY <3>2
  <2>3. \A i \in 1..index'[t] - 1 : records[t][i] \in stored'
    BY <1>1, <1>2, <1>4, <2>1 DEF ReplayInv
  <2>4. pc'[t] = "wait" => index[t] + 1 <= Len(records[t])
    BY <1>1, <1>4 DEF TypeOK, Goto
  <2> QED BY <1>2, <2>1, <2>2, <2>3, <2>4 DEF ReplayInv
<1>9. ASSUME NEW u \in Threads \ {t} PROVE Locals(u)' /\ ReplayInv(u)' /\ IteratedAll(u)'
  BY <1>1, <1>4, <1>5, Bystander DEF PublisherInv, Goto, TypeOK
<1>10. QuietShutdown'
  BY <1>1, <1>4, PublisherAssumption DEF PublisherInv, Goto, TypeOK, QuietShutdown, Stopping
<1> QED
  BY <1>6, <1>7, <1>8, <1>9, <1>10 DEF PublisherInv

LEMMA SpoolReplaced ==
    ASSUME PublisherInv, NEW t \in Threads, Replace(t)
    PROVE  PublisherInv'
<1>1. TypeOK /\ Locals(t) /\ pc[t] = "replace" /\ remaining[t] \in Seq(Messages)
  BY DEF PublisherInv, Replace, TypeOK
<1>2. TypeOK'
  BY <1>1, EmptyType DEF Replace, Goto, memory, queue, TypeOK
<1>3. Locals(t)' /\ ReplayInv(t)' /\ IteratedAll(t)'
  BY <1>1 DEF Replace, Goto, memory, queue, TypeOK, Locals, ReplayInv, IteratedAll
<1>4. ASSUME NEW u \in Threads \ {t} PROVE Locals(u)' /\ ReplayInv(u)' /\ IteratedAll(u)'
  BY <1>1, Bystander DEF PublisherInv, Replace, Goto, memory, queue, TypeOK
<1>5. QuietShutdown'
  BY <1>1, PublisherAssumption DEF PublisherInv, Replace, Goto, memory, queue, TypeOK, QuietShutdown, Stopping
<1> QED
  BY <1>2, <1>3, <1>4, <1>5 DEF PublisherInv

LEMMA BufferIterated ==
    ASSUME PublisherInv, NEW t \in Threads, NextOfBuffer(t)
    PROVE  PublisherInv'
<1>1. TypeOK /\ Locals(t) /\ pc[t] = "next" /\ event[t] = None /\ next[t] \in Nat /\ next[t] >= 1
      /\ buffer \in Seq(Messages)
  BY DEF PublisherInv, NextOfBuffer, TypeOK, Locals
<1>2. UNCHANGED <<given, buffer, inflight, routing, spool, stored, routed, call, event, records, index,
                  remaining, touched, late>>
  BY DEF NextOfBuffer, memory, queue, disk
<1>3. CASE next[t] <= Len(buffer)
  <2>1. buffer[next[t]] \in Messages
    BY <1>1, <1>3, ElementOfSeq
  <2>2. /\ hand' = [hand EXCEPT ![t] = buffer[next[t]]] /\ next' = [next EXCEPT ![t] = @ + 1]
        /\ pc' = [pc EXCEPT ![t] = "produce"]
    BY <1>3 DEF NextOfBuffer, Goto
  <2>3. next' \in [Threads -> Nat] /\ next'[t] >= 1
    BY <1>1, <2>2 DEF TypeOK
  <2>4. TypeOK'
    BY <1>1, <1>2, <2>1, <2>2, <2>3 DEF TypeOK
  <2>5. Locals(t)' /\ ReplayInv(t)' /\ IteratedAll(t)'
    BY <1>1, <1>2, <2>1, <2>2, <2>3 DEF TypeOK, Locals, ReplayInv, IteratedAll
  <2>6. ASSUME NEW u \in Threads \ {t} PROVE Locals(u)' /\ ReplayInv(u)' /\ IteratedAll(u)'
    BY <1>1, <1>2, <2>2, Bystander DEF PublisherInv, TypeOK
  <2>7. QuietShutdown'
    BY <1>1, <1>2, <2>2, PublisherAssumption DEF PublisherInv, TypeOK, QuietShutdown, Stopping
  <2> QED
    BY <2>4, <2>5, <2>6, <2>7 DEF PublisherInv
<1>4. CASE next[t] > Len(buffer)
  <2>1. UNCHANGED <<hand, next>> /\ pc' = [pc EXCEPT ![t] = "clear"]
    BY <1>1, <1>4 DEF NextOfBuffer, Goto
  <2>2. TypeOK'
    BY <1>1, <1>2, <2>1 DEF TypeOK
  <2>3. Locals(t)' /\ ReplayInv(t)' /\ IteratedAll(t)'
    BY <1>1, <1>2, <1>4, <2>1 DEF TypeOK, Locals, ReplayInv, IteratedAll
  <2>4. ASSUME NEW u \in Threads \ {t} PROVE Locals(u)' /\ ReplayInv(u)' /\ IteratedAll(u)'
    BY <1>1, <1>2, <2>1, Bystander DEF PublisherInv, TypeOK
  <2>5. QuietShutdown'
    BY <1>1, <1>2, <2>1, PublisherAssumption DEF PublisherInv, TypeOK, QuietShutdown, Stopping
  <2> QED
    BY <2>2, <2>3, <2>4, <2>5 DEF PublisherInv
<1> QED
  BY <1>1, <1>3, <1>4

LEMMA BufferCleared ==
    ASSUME PublisherInv, NEW t \in Threads, ClearBuffer(t)
    PROVE  PublisherInv'
<1>1. TypeOK /\ Locals(t) /\ pc[t] = "clear"
  BY DEF PublisherInv, ClearBuffer
<1>2. TypeOK'
  BY <1>1, EmptyType DEF ClearBuffer, Goto, queue, disk, TypeOK
<1>3. Locals(t)' /\ ReplayInv(t)' /\ IteratedAll(t)'
  BY <1>1 DEF ClearBuffer, Goto, disk, TypeOK, Locals, ReplayInv, IteratedAll
<1>4. ASSUME NEW u \in Threads \ {t} PROVE Locals(u)' /\ ReplayInv(u)' /\ IteratedAll(u)'
  BY <1>1, Bystander DEF PublisherInv, ClearBuffer, Goto, disk, TypeOK
<1>5. QuietShutdown'
  BY <1>1, PublisherAssumption DEF PublisherInv, ClearBuffer, Goto, queue, disk, TypeOK, QuietShutdown,
     Stopping
<1> QED
  BY <1>2, <1>3, <1>4, <1>5 DEF PublisherInv

Unresolved == {x \in Messages : inflight[x] > 0}

LEMMA UnresolvedListed ==
    /\ SetToSeq(Unresolved) \in Seq(Messages)
    /\ \A x \in Messages : inflight[x] > 0 =>
          \E i \in DOMAIN SetToSeq(Unresolved) : SetToSeq(Unresolved)[i] = x
<1>1. IsFiniteSet(Unresolved)
  BY MessagesFinite, FS_Subset DEF Unresolved
<1>2. /\ SetToSeq(Unresolved) \in Seq(Unresolved)
      /\ \A x \in Unresolved : \E i \in DOMAIN SetToSeq(Unresolved) : SetToSeq(Unresolved)[i] = x
  BY <1>1, ListOfSet
<1>3. Seq(Unresolved) \subseteq Seq(Messages)
  BY DEF Unresolved
<1> QED
  BY <1>2, <1>3 DEF Unresolved

LEMMA UnresolvedCollected ==
    ASSUME PublisherInv, Collect
    PROVE  PublisherInv'
<1>1. TypeOK /\ Loop \in Threads /\ Locals(Loop) /\ pc[Loop] = "await"
  BY PublisherAssumption DEF PublisherInv, Collect
<1>2. /\ spool' = spool \o SetToSeq(Unresolved)
      /\ inflight' = Nothing /\ pc' = [pc EXCEPT ![Loop] = "down"]
      /\ UNCHANGED <<given, buffer, routing, stored, routed, call, frame, touched, late>>
  BY DEF Collect, Goto, Unresolved
<1>3. spool' \in Seq(Messages)
  BY <1>1, <1>2, UnresolvedListed, ConcatProperties DEF TypeOK
<1>4. TypeOK'
  BY <1>1, <1>2, <1>3 DEF TypeOK, frame, Nothing
<1>5. Locals(Loop)' /\ ReplayInv(Loop)' /\ IteratedAll(Loop)'
  BY <1>1, <1>2 DEF TypeOK, frame, Locals, ReplayInv, IteratedAll
<1>6. ASSUME NEW u \in Threads \ {Loop} PROVE Locals(u)' /\ ReplayInv(u)' /\ IteratedAll(u)'
  BY <1>1, <1>2, Bystander DEF PublisherInv, TypeOK, frame
<1>7. QuietShutdown'
  BY <1>1, <1>2 DEF PublisherInv, TypeOK, QuietShutdown, Stopping
<1> QED
  BY <1>4, <1>5, <1>6, <1>7 DEF PublisherInv

LEMMA PublisherStep == PublisherInv /\ [Next]_vars => PublisherInv'
<1> SUFFICES ASSUME PublisherInv, [Next]_vars PROVE PublisherInv'
  OBVIOUS
<1>1. CASE Restart \/ Kill
  BY <1>1, ProcessBegins
<1>2. CASE Service \/ Stop
  BY <1>2, LoopCalls
<1>3. ASSUME NEW t \in Threads, NEW e \in Events, PublishEvent(t, e) PROVE PublisherInv'
  BY <1>3, EventBegins
<1>4. ASSUME NEW t \in Threads, Step(t) \/ ProduceFails(t) PROVE PublisherInv'
  BY <1>4, MessageProduced, BodyAppended, GoneOn, SpoolRead, RecordReplayed, SpoolReplaced, BufferIterated,
     BufferCleared DEF Step
<1>5. ASSUME NEW x \in Messages, Delivered(x) \/ DeliveryFails(x) \/ RouteReported(x) PROVE PublisherInv'
  BY <1>5, MessageReported, RouteAnswered
<1>6. CASE Collect
  BY <1>6, UnresolvedCollected
<1>7. CASE UNCHANGED vars
  BY <1>7 DEF vars, PublisherInv, TypeOK, Locals, ReplayInv, IteratedAll, QuietShutdown, Stopping
<1> QED
  BY <1>1, <1>2, <1>3, <1>4, <1>5, <1>6, <1>7, PublisherAssumption DEF Next, LoopStep

\* Only what is oversize is routed.
RoutesOversize == \A x \in Messages : routing[x] > 0 => x \in Oversize

LEMMA RoutesInit == Init => RoutesOversize
  BY DEF Init, Nothing, RoutesOversize

LEMMA RoutesStep == PublisherInv /\ RoutesOversize /\ [Next]_vars => RoutesOversize'
<1> SUFFICES ASSUME PublisherInv, RoutesOversize, [Next]_vars PROVE RoutesOversize'
  OBVIOUS
<1>1. CASE Restart \/ Kill
  BY <1>1 DEF Restart, Kill, NewProcess, Nothing, RoutesOversize
<1>2. ASSUME NEW t \in Threads, RouteOversize(t) PROVE RoutesOversize'
  BY <1>2 DEF PublisherInv, TypeOK, RouteOversize, RoutesOversize
<1>3. ASSUME NEW x \in Messages, RouteReported(x) PROVE RoutesOversize'
  <2>1. routing \in [Messages -> Nat] /\ routing' = [routing EXCEPT ![x] = @ - 1]
    BY <1>3 DEF PublisherInv, TypeOK, RouteReported
  <2>2. ASSUME NEW y \in Messages, routing'[y] > 0 PROVE routing[y] > 0
    BY <2>1, <2>2
  <2> QED BY <2>2 DEF RoutesOversize
<1>4. routing' = routing => RoutesOversize'
  BY DEF RoutesOversize
<1>5. ASSUME NEW t \in Threads, Step(t) \/ ProduceFails(t) PROVE RoutesOversize'
  <2>1. CASE RouteFails(t) \/ Swallowed(t) \/ Produce(t) \/ ProduceFails(t) \/ AppendBody(t)
             \/ MaybeFlush(t) \/ ReadAll(t)
    BY <1>4, <2>1
    DEF RouteFails, Swallowed, Produce, ProduceFails, AppendBody, MaybeFlush, ReadAll, memory, queue
  <2>2. CASE ReplayDelivered(t) \/ ReplayGivesUp(t) \/ Replace(t) \/ NextOfBuffer(t) \/ ClearBuffer(t)
             \/ Poll(t)
    BY <1>4, <2>2
    DEF ReplayDelivered, ReplayGivesUp, Replace, NextOfBuffer, ClearBuffer, Poll, memory, queue
  <2> QED BY <1>2, <1>5, <2>1, <2>2 DEF Step
<1>6. ASSUME NEW t \in Threads, NEW e \in Events, PublishEvent(t, e) PROVE RoutesOversize'
  BY <1>4, <1>6 DEF PublishEvent, memory, queue
<1>7. ASSUME NEW x \in Messages, Delivered(x) \/ DeliveryFails(x) PROVE RoutesOversize'
  BY <1>4, <1>7 DEF Delivered, DeliveryFails
<1>8. CASE Service \/ Stop \/ Collect \/ UNCHANGED vars
  BY <1>4, <1>8 DEF Service, Stop, Collect, vars, memory, queue
<1> QED
  BY <1>1, <1>3, <1>5, <1>6, <1>7, <1>8, PublisherAssumption DEF Next, LoopStep

-----------------------------------------------------------------------------
(* Every reachable state of the publisher is well typed (publisher.py,     *)
(* disk_spool.py): what it holds, sends and spools are messages of events  *)
(* it was given.                                                           *)
THEOREM TypeCorrect == Spec => []TypeOK
<1>1. PublisherInv => TypeOK
  BY DEF PublisherInv
<1> QED
  BY <1>1, PublisherInit, PublisherStep, PTL DEF Spec

-----------------------------------------------------------------------------
(* Where a message can be, and what each step does to it. *)

InBuffer(x) == \E i \in DOMAIN buffer : buffer[i] = x /\ \A t \in Threads \ touched : next[t] <= i
InSpool(x) == \E i \in DOMAIN spool : spool[i] = x
InHand(x) == \E t \in Threads : pc[t] = "produce" /\ hand[t] = x
InCall(x) == \E t \in Threads : event[t] # None /\ x = Body(event[t])

LEMMA Places ==
    ASSUME NEW x
    PROVE  /\ Accounted(x) <=> x \in stored \cup routed \/ inflight[x] > 0 \/ routing[x] > 0
                               \/ InBuffer(x) \/ InSpool(x) \/ InHand(x) \/ InCall(x)
           /\ Accounted(x)' <=> x \in (stored \cup routed)' \/ inflight'[x] > 0 \/ routing'[x] > 0
                                \/ InBuffer(x)' \/ InSpool(x)' \/ InHand(x)' \/ InCall(x)'
  BY DEF Accounted, InBuffer, InSpool, InHand, InCall

LEMMA SpoolGrows ==
    ASSUME NEW x \in Messages, NEW y \in Messages, spool \in Seq(Messages), spool' = Append(spool, y)
    PROVE  /\ InSpool(y)'
           /\ InSpool(x) => InSpool(x)'
<1>1. DOMAIN spool' = 1..Len(spool) + 1 /\ spool'[Len(spool) + 1] = y
      /\ \A i \in DOMAIN spool : i \in DOMAIN spool' /\ spool'[i] = spool[i]
  OBVIOUS
<1>2. Len(spool) + 1 \in DOMAIN spool'
  BY <1>1
<1> QED
  BY <1>1, <1>2 DEF InSpool

\* A call that goes on without touching a message keeps it where it is.
LEMMA KeptInPlace ==
    ASSUME PublisherInv, NEW x \in Messages, Accounted(x),
           stored \subseteq stored', routed \subseteq routed', inflight' = inflight, routing' = routing,
           spool' = spool, buffer' = buffer, next' = next,
           \A t \in Threads : pc[t] = "produce" => pc'[t] = "produce" /\ hand'[t] = hand[t],
           \A t \in Threads : event[t] # None => event'[t] = event[t],
           \A t \in Threads \ touched' : t \in touched => next[t] = 1
    PROVE  Accounted(x)'
<1>1. (InSpool(x) => InSpool(x)') /\ (InHand(x) => InHand(x)') /\ (InCall(x) => InCall(x)')
  BY DEF InSpool, InHand, InCall
<1>2. ASSUME NEW i \in DOMAIN buffer, buffer[i] = x, \A t \in Threads \ touched : next[t] <= i
      PROVE  InBuffer(x)'
  <2>1. i \in Nat /\ i >= 1
    BY DEF PublisherInv, TypeOK
  <2>2. ASSUME NEW t \in Threads \ touched' PROVE next'[t] <= i
    <3>1. CASE t \in touched
      BY <2>1, <3>1
    <3>2. CASE t \notin touched
      BY <1>2, <3>2
    <3> QED BY <3>1, <3>2
  <2> QED BY <1>2, <2>2 DEF InBuffer
<1>3. InBuffer(x) => InBuffer(x)'
  BY <1>2 DEF InBuffer
<1> QED
  BY <1>1, <1>3, Places

LEMMA PublishingKeeps ==
    ASSUME PublisherInv, NEW x \in Messages, Accounted(x), NEW t \in Threads, NEW e \in Events,
           PublishEvent(t, e)
    PROVE  Accounted(x)'
<1>1. TypeOK /\ pc[t] # "produce" /\ event[t] = None
  BY DEF PublisherInv, PublishEvent, Locals
<1>2. /\ UNCHANGED <<stored, routed, inflight, routing, spool, buffer, next, touched>>
      /\ \A u \in Threads \ {t} : hand'[u] = hand[u] /\ pc'[u] = pc[u] /\ event'[u] = event[u]
  BY <1>1 DEF PublishEvent, Goto, memory, queue, disk, TypeOK
<1> QED
  BY <1>1, <1>2, KeptInPlace

LEMMA CallsKeep ==
    ASSUME PublisherInv, NEW x \in Messages, Accounted(x), NEW t \in Threads,
           \/ t = Loop /\ (Service \/ Stop)
           \/ MaybeFlush(t) \/ Poll(t) \/ ReadAll(t) \/ ReplayDelivered(t) \/ ReplayGivesUp(t)
    PROVE  Accounted(x)'
<1>1. /\ TypeOK /\ Locals(t)
      /\ pc[t] \in {"idle", "check", "poll", "read", "wait"}
  BY DEF PublisherInv, Service, Stop, MaybeFlush, Poll, ReadAll, ReplayDelivered, ReplayGivesUp
<1>2. /\ stored \subseteq stored' /\ UNCHANGED <<routed, inflight, routing, spool, buffer, next, event>>
      /\ \A u \in Threads \ {t} : hand'[u] = hand[u]
  BY <1>1
  DEF Service, Stop, MaybeFlush, Poll, ReadAll, ReplayDelivered, ReplayGivesUp, memory, queue, disk,
      frame, TypeOK
<1>3. \E place : Goto(t, place)
  BY DEF Service, Stop, MaybeFlush, Poll, ReadAll, ReplaySend, ReplayDelivered, ReplayGivesUp
<1>4. \A u \in Threads \ {t} : pc'[u] = pc[u]
  BY <1>1, <1>3 DEF Goto, TypeOK
<1>5. touched \ {t} \subseteq touched' /\ next[t] = 1
  BY <1>1
  DEF Service, Stop, MaybeFlush, Poll, ReadAll, ReplayDelivered, ReplayGivesUp, Locals
<1> QED
  BY <1>1, <1>2, <1>4, <1>5, KeptInPlace

LEMMA ProducingKeeps ==
    ASSUME PublisherInv, NEW x \in Messages, Accounted(x), NEW t \in Threads,
           RouteOversize(t) \/ Produce(t) \/ ProduceFails(t)
    PROVE  Accounted(x)'
<1>1. /\ TypeOK /\ pc[t] = "produce" /\ hand[t] \in Messages /\ Produced(t)
      /\ spool \in Seq(Messages) /\ inflight \in [Messages -> Nat] /\ routing \in [Messages -> Nat]
  BY DEF PublisherInv, Locals, TypeOK, RouteOversize, Produce, ProduceFails
<1>2. /\ UNCHANGED <<buffer, next, event, touched>>
      /\ \A u \in Threads \ {t} : pc'[u] = pc[u] /\ hand'[u] = hand[u]
  BY <1>1 DEF Produced, Goto, TypeOK
<1>3. /\ InBuffer(x) => InBuffer(x)'
      /\ InCall(x) => InCall(x)'
      /\ InHand(x) => InHand(x)' \/ hand[t] = x
  BY <1>2 DEF InBuffer, InHand, InCall
<1>4. CASE RouteOversize(t)
  <2>1. routing' = [routing EXCEPT ![hand[t]] = @ + 1] /\ UNCHANGED <<inflight, spool, stored, routed>>
    BY <1>4 DEF RouteOversize, disk
  <2>2. routing[x] > 0 \/ hand[t] = x => routing'[x] > 0
    BY <1>1, <2>1
  <2>3. InSpool(x) => InSpool(x)'
    BY <2>1 DEF InSpool
  <2> QED BY <1>3, <2>1, <2>2, <2>3, Places
<1>5. CASE Produce(t)
  <2>1. /\ UNCHANGED <<routing, disk>>
        /\ inflight' = [inflight EXCEPT ![hand[t]] = @ + 1]
    BY <1>5 DEF Produce
  <2>2. inflight[x] > 0 \/ hand[t] = x => inflight'[x] > 0
    BY <1>1, <2>1
  <2>3. UNCHANGED <<stored, routed>> /\ (InSpool(x) => InSpool(x)')
    BY <2>1 DEF InSpool, disk
  <2> QED BY <1>3, <2>1, <2>2, <2>3, Places
<1>6. CASE ProduceFails(t)
  <2>1. PICK y \in Messages : y = hand[t]
    BY <1>1
  <2>2. spool' = Append(spool, y) /\ UNCHANGED <<inflight, routing, stored, routed>>
    BY <1>6, <2>1 DEF ProduceFails, queue
  <2>3. InSpool(y)' /\ (InSpool(x) => InSpool(x)')
    BY <1>1, <2>2, SpoolGrows
  <2> QED BY <1>3, <2>1, <2>2, <2>3, Places
<1> QED
  BY <1>4, <1>5, <1>6

LEMMA ReportsKeep ==
    ASSUME PublisherInv, NEW x \in Messages, Accounted(x), NEW y \in Messages,
           Delivered(y) \/ DeliveryFails(y)
    PROVE  Accounted(x)'
<1>1. /\ inflight \in [Messages -> Nat] /\ spool \in Seq(Messages)
      /\ inflight' = [inflight EXCEPT ![y] = @ - 1]
  BY DEF PublisherInv, TypeOK, Delivered, DeliveryFails
<1>2. UNCHANGED <<buffer, routing, routed, pc, next, hand, event, touched>>
  BY DEF Delivered, DeliveryFails, frame
<1>3. (InBuffer(x) => InBuffer(x)') /\ (InHand(x) => InHand(x)') /\ (InCall(x) => InCall(x)')
  BY <1>2 DEF InBuffer, InHand, InCall
<1>4. x # y => inflight'[x] = inflight[x]
  BY <1>1
<1>5. CASE Delivered(y)
  <2>1. stored' = stored \cup {y} /\ spool' = spool
    BY <1>5 DEF Delivered
  <2>2. InSpool(x) => InSpool(x)'
    BY <2>1 DEF InSpool
  <2> QED BY <1>2, <1>3, <1>4, <2>1, <2>2, Places
<1>6. CASE DeliveryFails(y)
  <2>1. spool' = Append(spool, y) /\ stored' = stored
    BY <1>6 DEF DeliveryFails
  <2>2. InSpool(y)' /\ (InSpool(x) => InSpool(x)')
    BY <1>1, <2>1, SpoolGrows
  <2> QED BY <1>2, <1>3, <1>4, <2>1, <2>2, Places
<1> QED
  BY <1>5, <1>6

\* The route for oversize messages: what is given up is oversize.
LEMMA RouteKeepsOrLoses ==
    ASSUME PublisherInv, RoutesOversize, NEW x \in Messages, Accounted(x), NEW t \in Threads,
           RouteFails(t) \/ Swallowed(t)
    PROVE  Accounted(x)' \/ LossyRoute(x)
<1>1. /\ TypeOK /\ pc[t] \in {"produce", "swallow"}
      /\ UNCHANGED <<buffer, inflight, routing, spool, stored, routed, event, next, touched>>
      /\ \A u \in Threads \ {t} : pc'[u] = pc[u] /\ hand'[u] = hand[u]
  BY DEF PublisherInv, TypeOK, RouteFails, Swallowed, Produced, Goto, memory, queue, disk, frame
<1>2. /\ InBuffer(x) => InBuffer(x)'
      /\ InSpool(x) => InSpool(x)'
      /\ InCall(x) => InCall(x)'
      /\ InHand(x) => InHand(x)' \/ (pc[t] = "produce" /\ hand[t] = x)
  BY <1>1 DEF InBuffer, InSpool, InCall, InHand
<1>3. pc[t] = "produce" => hand[t] \in Oversize /\ pc'[t] = "swallow"
  BY <1>1 DEF RouteFails, Swallowed, Goto, TypeOK
<1> QED
  BY <1>1, <1>2, <1>3, Places DEF LossyRoute

LEMMA RouteReportKeepsOrLoses ==
    ASSUME PublisherInv, RoutesOversize, NEW x \in Messages, Accounted(x), NEW y \in Messages,
           RouteReported(y)
    PROVE  Accounted(x)' \/ LossyRoute(x)
<1>1. /\ routing \in [Messages -> Nat] /\ routing' = [routing EXCEPT ![y] = @ - 1] /\ routing[y] > 0
      /\ UNCHANGED <<buffer, inflight, spool, stored, pc, next, hand, event, touched>>
      /\ routed \subseteq routed'
  BY DEF PublisherInv, TypeOK, RouteReported, frame
<1>2. /\ InBuffer(x) => InBuffer(x)'
      /\ InSpool(x) => InSpool(x)'
      /\ InCall(x) => InCall(x)'
      /\ InHand(x) => InHand(x)'
  BY <1>1 DEF InBuffer, InSpool, InCall, InHand
<1>3. CASE x # y
  <2>1. routing'[x] = routing[x]
    BY <1>1, <1>3
  <2> QED BY <1>1, <1>2, <2>1, Places
<1>4. CASE x = y
  <2>1. routing'[x] < routing[x] /\ x \in Oversize
    BY <1>1, <1>4 DEF RoutesOversize
  <2> QED BY <2>1, Places DEF LossyRoute
<1> QED
  BY <1>3, <1>4

LEMMA AppendingKeeps ==
    ASSUME PublisherInv, NEW x \in Messages, Accounted(x), NEW t \in Threads, AppendBody(t)
    PROVE  Accounted(x)'
<1>1. TypeOK /\ buffer \in Seq(Messages) /\ pc[t] = "append" /\ next[t] = 1
  BY DEF PublisherInv, TypeOK, AppendBody, Locals
<1>2. /\ UNCHANGED <<inflight, routing, spool, stored, routed, hand, next>>
      /\ buffer' = Append(buffer, Body(event[t])) /\ touched' = touched \cup (Threads \ {t})
      /\ \A u \in Threads \ {t} : pc'[u] = pc[u] /\ event'[u] = event[u]
  BY <1>1 DEF AppendBody, Goto, queue, disk, TypeOK
<1>3. \A i \in DOMAIN buffer : i \in DOMAIN buffer' /\ buffer'[i] = buffer[i]
  BY <1>1, <1>2
<1>4. InBuffer(x) => InBuffer(x)'
  <2>1. Threads \ touched' \subseteq Threads \ touched
    BY <1>2
  <2> QED BY <1>2, <1>3, <2>1 DEF InBuffer
<1>5. (InSpool(x) => InSpool(x)') /\ (InHand(x) => InHand(x)')
  BY <1>1, <1>2 DEF InSpool, InHand
<1>6. x = Body(event[t]) => InBuffer(x)'
  <2>1. Len(buffer) + 1 \in DOMAIN buffer' /\ buffer'[Len(buffer) + 1] = Body(event[t])
    BY <1>1, <1>2
  <2>2. \A u \in Threads \ touched' : next'[u] <= Len(buffer) + 1
    BY <1>1, <1>2
  <2> QED BY <2>1, <2>2 DEF InBuffer
<1>7. InCall(x) => InCall(x)' \/ x = Body(event[t])
  BY <1>2 DEF InCall
<1> QED
  BY <1>2, <1>4, <1>5, <1>6, <1>7, Places

LEMMA IterationKeeps ==
    ASSUME PublisherInv, NEW x \in Messages, Accounted(x), NEW t \in Threads, NextOfBuffer(t)
    PROVE  Accounted(x)'
<1>1. TypeOK /\ pc[t] = "next" /\ buffer \in Seq(Messages) /\ next \in [Threads -> Nat]
  BY DEF PublisherInv, TypeOK, NextOfBuffer
<1>2. UNCHANGED <<buffer, inflight, routing, spool, stored, routed, event, touched>>
  BY DEF NextOfBuffer, memory, queue, disk
<1>3. (InSpool(x) => InSpool(x)') /\ (InCall(x) => InCall(x)')
  BY <1>2 DEF InSpool, InCall
<1>4. CASE next[t] <= Len(buffer)
  <2>1. /\ hand' = [hand EXCEPT ![t] = buffer[next[t]]] /\ next' = [next EXCEPT ![t] = @ + 1]
        /\ pc' = [pc EXCEPT ![t] = "produce"]
    BY <1>4 DEF NextOfBuffer, Goto
  <2>2. InHand(x) => InHand(x)'
    BY <1>1, <2>1 DEF InHand, TypeOK
  <2>3. ASSUME NEW i \in DOMAIN buffer, buffer[i] = x, \A u \in Threads \ touched : next[u] <= i
        PROVE  InBuffer(x)' \/ InHand(x)'
    <3>1. CASE i = next[t]
      BY <1>1, <2>1, <2>3, <3>1 DEF InHand, TypeOK
    <3>2. CASE i # next[t]
      <4>1. \A u \in Threads \ touched : next'[u] <= i
        BY <1>1, <2>1, <2>3, <3>2
      <4> QED BY <1>2, <2>3, <4>1 DEF InBuffer
    <3> QED BY <3>1, <3>2
  <2>4. InBuffer(x) => InBuffer(x)' \/ InHand(x)'
    BY <2>3 DEF InBuffer
  <2> QED BY <1>2, <1>3, <2>2, <2>4, Places
<1>5. CASE ~(next[t] <= Len(buffer))
  <2>1. UNCHANGED <<hand, next>> /\ pc' = [pc EXCEPT ![t] = "clear"]
    BY <1>5 DEF NextOfBuffer, Goto
  <2> QED BY <1>1, <1>2, <2>1, KeptInPlace DEF TypeOK
<1> QED
  BY <1>4, <1>5

\* What a replay writes back is what it has read and not delivered, unless the spool has changed
\* since, or two of at least three records are delivered.
LEMMA ReplacingKeeps ==
    ASSUME PublisherInv, NEW x \in Messages, Accounted(x), NEW t \in Threads, Replace(t),
           spool = records[t], ~(Len(spool) > 2 /\ index[t] > 2)
    PROVE  Accounted(x)'
<1>1. TypeOK /\ ReplayInv(t) /\ pc[t] = "replace" /\ spool \in Seq(Messages)
      /\ next \in [Threads -> Nat] /\ next[t] >= 1 /\ index[t] \in Nat
  BY DEF PublisherInv, TypeOK, Locals, Replace
<1>2. /\ UNCHANGED <<buffer, inflight, routing, stored, routed, hand, event, touched>>
      /\ spool' = remaining[t] /\ next' = [next EXCEPT ![t] = 1]
      /\ \A u \in Threads \ {t} : pc'[u] = pc[u]
  BY <1>1 DEF Replace, Goto, memory, queue, TypeOK
<1>3. InBuffer(x) => InBuffer(x)'
  <2>1. \A u \in Threads : next'[u] <= next[u]
    BY <1>1, <1>2
  <2>2. \A u \in Threads : next[u] \in Nat /\ next'[u] \in Nat
    BY <1>1, <1>2
  <2>3. ASSUME NEW i \in DOMAIN buffer, buffer[i] = x, \A u \in Threads \ touched : next[u] <= i
        PROVE  \A u \in Threads \ touched : next'[u] <= i
    <3>1. i \in Nat
      BY <1>1 DEF TypeOK
    <3> QED BY <2>1, <2>2, <2>3, <3>1
  <2> QED BY <1>2, <2>3 DEF InBuffer
<1>4. (InHand(x) => InHand(x)') /\ (InCall(x) => InCall(x)')
  BY <1>1, <1>2 DEF InHand, InCall
<1>5. ASSUME NEW i \in DOMAIN spool, spool[i] = x
      PROVE  x \in stored \/ InSpool(x)'
  <2>1. i \in 1..Len(spool) /\ index[t] \in 1..Len(spool) + 1
    BY <1>1 DEF ReplayInv
  <2>2. CASE i < index[t]
    BY <1>1, <1>5, <2>1, <2>2 DEF ReplayInv
  <2>3. CASE index[t] = 1
    BY <1>1, <1>2, <1>5, <2>3 DEF ReplayInv, InSpool
  <2>4. CASE index[t] = 2 /\ i >= 2
    <3>1. spool' = SubSeq(spool, 2, Len(spool))
      BY <1>1, <1>2, <2>4 DEF ReplayInv
    <3>2. i - 1 \in DOMAIN spool' /\ spool'[i - 1] = x
      BY <1>1, <1>5, <2>1, <2>4, <3>1
    <3> QED BY <3>2 DEF InSpool
  <2> QED BY <1>1, <2>1, <2>2, <2>3, <2>4
<1> QED
  BY <1>2, <1>3, <1>4, <1>5, Places DEF InSpool

\* clear() by a flush nobody has interfered with drops only what it has gone through.
LEMMA ClearingKeeps ==
    ASSUME PublisherInv, NEW x \in Messages, Accounted(x), NEW t \in Threads, ClearBuffer(t),
           t \notin touched
    PROVE  Accounted(x)'
<1>1. TypeOK /\ pc[t] = "clear" /\ next[t] > Len(buffer) /\ buffer \in Seq(Messages) /\ next[t] \in Nat
  BY DEF PublisherInv, TypeOK, IteratedAll, ClearBuffer
<1>2. /\ UNCHANGED <<inflight, routing, spool, stored, routed, hand, event>>
      /\ \A u \in Threads \ {t} : pc'[u] = pc[u]
  BY <1>1 DEF ClearBuffer, Goto, queue, disk, TypeOK
<1>3. ~InBuffer(x)
  BY <1>1 DEF InBuffer
<1>4. (InSpool(x) => InSpool(x)') /\ (InHand(x) => InHand(x)') /\ (InCall(x) => InCall(x)')
  BY <1>1, <1>2 DEF InSpool, InHand, InCall
<1> QED
  BY <1>2, <1>3, <1>4, Places

LEMMA CollectingKeeps ==
    ASSUME PublisherInv, NEW x \in Messages, Accounted(x), Collect
    PROVE  Accounted(x)'
<1>1. TypeOK /\ Loop \in Threads /\ pc[Loop] = "await" /\ spool \in Seq(Messages)
  BY PublisherAssumption DEF PublisherInv, TypeOK, Collect
<1>2. /\ spool' = spool \o SetToSeq(Unresolved) /\ pc' = [pc EXCEPT ![Loop] = "down"]
      /\ UNCHANGED <<buffer, routing, stored, routed, hand, next, event, touched>>
  BY DEF Collect, Goto, Unresolved, frame
<1>3. PICK found \in Seq(Messages) : found = SetToSeq(Unresolved)
  BY UnresolvedListed
<1>4. /\ \A i \in DOMAIN spool : i \in DOMAIN spool' /\ spool'[i] = spool[i]
      /\ \A i \in DOMAIN found : Len(spool) + i \in DOMAIN spool' /\ spool'[Len(spool) + i] = found[i]
  BY <1>1, <1>2, <1>3, ConcatProperties
<1>5. InSpool(x) => InSpool(x)'
  BY <1>4 DEF InSpool
<1>6. inflight[x] > 0 => InSpool(x)'
  BY <1>3, <1>4, UnresolvedListed DEF InSpool
<1>7. (InBuffer(x) => InBuffer(x)') /\ (InHand(x) => InHand(x)') /\ (InCall(x) => InCall(x)')
  BY <1>1, <1>2 DEF InBuffer, InHand, InCall, TypeOK
<1> QED
  BY <1>2, <1>5, <1>6, <1>7, Places

\* The end of a process whose final flush overtook no call.
LEMMA EndingKeeps ==
    ASSUME PublisherInv, RoutesOversize, NEW x \in Messages, Accounted(x), Restart, ~late
    PROVE  Accounted(x)' \/ LossyRoute(x)
<1>1. TypeOK /\ Loop \in Threads /\ pc[Loop] = "down" /\ UNCHANGED <<spool, stored, routed>>
  BY PublisherAssumption DEF PublisherInv, Restart, disk
<1>2. Stopping
  BY <1>1 DEF PublisherInv, Locals, Stopping
<1>3. /\ buffer = <<>> /\ inflight = Nothing
      /\ \A u \in Threads : pc[u] \in {"idle", "down"}
  BY <1>1, <1>2 DEF PublisherInv, QuietShutdown
<1>4. \A u \in Threads : event[u] = None
  BY <1>3 DEF PublisherInv, Locals
<1>5. ~InBuffer(x) /\ ~InHand(x) /\ ~InCall(x) /\ ~(inflight[x] > 0)
  BY <1>3, <1>4 DEF InBuffer, InHand, InCall, Nothing
<1>6. InSpool(x) => InSpool(x)'
  BY <1>1 DEF InSpool
<1>7. routing[x] > 0 => LossyRoute(x) \/ x \in routed'
  <2>1. routing' = Nothing
    BY DEF Restart, NewProcess
  <2>2. routing'[x] = 0
    BY <2>1 DEF Nothing
  <2> QED BY <2>2 DEF RoutesOversize, LossyRoute
<1> QED
  BY <1>1, <1>5, <1>6, <1>7, Places

LEMMA KeptButInARace ==
    ASSUME PublisherInv, RoutesOversize, Next, NEW x \in Messages, Accounted(x)
    PROVE  Accounted(x)' \/ Race \/ LossyRoute(x)
<1>1. CASE Kill
  BY <1>1 DEF Race
<1>2. CASE Restart
  <2>1. pc[Loop] = "down" /\ late \in BOOLEAN
    BY <1>2 DEF Restart, PublisherInv, TypeOK
  <2>2. ~late => Accounted(x)' \/ LossyRoute(x)
    BY <1>2, EndingKeeps
  <2> QED BY <2>1, <2>2 DEF Race, LossyEnd
<1>3. CASE Service \/ Stop
  BY <1>3, CallsKeep, PublisherAssumption
<1>4. ASSUME NEW t \in Threads, NEW e \in Events, PublishEvent(t, e) PROVE Accounted(x)'
  BY <1>4, PublishingKeeps
<1>5. ASSUME NEW y \in Messages, Delivered(y) \/ DeliveryFails(y) \/ RouteReported(y)
      PROVE  Accounted(x)' \/ LossyRoute(x)
  BY <1>5, ReportsKeep, RouteReportKeepsOrLoses
<1>6. CASE Collect
  BY <1>6, CollectingKeeps
<1>7. ASSUME NEW t \in Threads, Replace(t) PROVE Accounted(x)' \/ LossyRewrite
  <2>1. pc[t] = "replace" /\ pc'[t] = "next"
    BY <1>7 DEF Replace, Goto, PublisherInv, TypeOK
  <2> QED BY <1>7, <2>1, ReplacingKeeps DEF LossyRewrite
<1>8. ASSUME NEW t \in Threads, ClearBuffer(t) PROVE Accounted(x)' \/ LossyClear
  <2>1. pc[t] = "clear" /\ pc'[t] = "poll"
    BY <1>8 DEF ClearBuffer, Goto, PublisherInv, TypeOK
  <2> QED BY <1>8, <2>1, ClearingKeeps DEF LossyClear
<1>9. ASSUME NEW t \in Threads, ProduceFails(t) \/ Step(t)
      PROVE  Accounted(x)' \/ Race \/ LossyRoute(x)
  <2>1. CASE ProduceFails(t) \/ RouteOversize(t) \/ Produce(t)
    BY <2>1, ProducingKeeps
  <2>2. CASE AppendBody(t) \/ NextOfBuffer(t)
    BY <2>2, AppendingKeeps, IterationKeeps
  <2>3. CASE MaybeFlush(t) \/ Poll(t) \/ ReadAll(t) \/ ReplayDelivered(t) \/ ReplayGivesUp(t)
    BY <2>3, CallsKeep
  <2>4. CASE Replace(t) \/ ClearBuffer(t)
    BY <1>7, <1>8, <2>4 DEF Race
  <2>5. CASE RouteFails(t) \/ Swallowed(t)
    BY <2>5, RouteKeepsOrLoses
  <2> QED BY <1>9, <2>1, <2>2, <2>3, <2>4, <2>5 DEF Step
<1> QED
  BY <1>1, <1>2, <1>3, <1>4, <1>5, <1>6, <1>9, PublisherAssumption DEF Next, LoopStep

\* Store and forward (publisher.py, disk_spool.py): a message the publisher has accepted stays in its
\* memory or in the spool until Kafka has it, unless the replay rewrote a spool that had changed or
\* held more than two records, a flush cleared a buffer another thread had changed, the final flush
\* overtook a call, the process was killed, or the message is oversize and the produce or the delivery
\* of its one dead letter failed or was still under way when the process ended.
THEOREM LostOnlyInARaceAlways == Spec => LostOnlyInARace
<1>1. PublisherInv /\ RoutesOversize /\ [Next]_vars =>
          [\A x \in Messages : Accounted(x) => Accounted(x)' \/ Race \/ LossyRoute(x)]_vars
  BY KeptButInARace
<1> QED
  BY <1>1, PublisherInit, PublisherStep, RoutesInit, RoutesStep, PTL DEF Spec, LostOnlyInARace

-----------------------------------------------------------------------------
(* What holds of every event while no race is lost. *)

\* The records of an event, but for those longer than max_message_bytes.
Fitting(e) == {Raw(e), Body(e)} \ Oversize

\* Every record that fits, of every event publish_event has been called with, is accounted for.
AcceptedIsKept == \A e \in given : \A x \in Fitting(e) : Accounted(x)

LEMMA StutterKeeps ==
    ASSUME UNCHANGED vars, NEW x, Accounted(x)
    PROVE  Accounted(x)'
  BY DEF vars, Accounted

LEMMA GivenIsAccounted ==
    ASSUME PublisherInv, NEW t \in Threads, NEW e \in Events, PublishEvent(t, e)
    PROVE  Accounted(Raw(e))' /\ Accounted(Body(e))' /\ given' = given \cup {e}
<1>1. TypeOK /\ e # None
  BY PublisherAssumption DEF PublisherInv
<1>2. pc'[t] = "produce" /\ hand'[t] = Raw(e) /\ event'[t] = e /\ given' = given \cup {e}
  BY <1>1 DEF PublishEvent, Goto, TypeOK
<1>3. InHand(Raw(e))' /\ InCall(Body(e))'
  BY <1>1, <1>2 DEF InHand, InCall
<1> QED
  BY <1>2, <1>3, Places

LEMMA OnlyEventsAreGiven ==
    ASSUME Next, ~\E t \in Threads, e \in Events : PublishEvent(t, e)
    PROVE  given' = given
<1>1. ASSUME NEW t \in Threads, Step(t) \/ ProduceFails(t) PROVE given' = given
  BY <1>1
  DEF Step, ProduceFails, RouteOversize, RouteFails, Swallowed, Produce, Produced, AppendBody,
      MaybeFlush, ReadAll, ReplayDelivered, ReplayGivesUp, Replace, NextOfBuffer, ClearBuffer, Poll
<1>2. CASE Service \/ Stop \/ Collect \/ Restart \/ Kill
  BY <1>2 DEF Service, Stop, Collect, Restart, Kill
<1>3. ASSUME NEW y \in Messages, Delivered(y) \/ DeliveryFails(y) \/ RouteReported(y)
      PROVE  given' = given
  BY <1>3 DEF Delivered, DeliveryFails, RouteReported
<1> QED
  BY <1>1, <1>2, <1>3, PublisherAssumption DEF Next, LoopStep

LEMMA AcceptedStep ==
    ASSUME PublisherInv, RoutesOversize, AcceptedIsKept, [Next]_vars, [~Race]_vars
    PROVE  AcceptedIsKept'
<1>1. CASE UNCHANGED vars
  <2>1. given' = given
    BY <1>1 DEF vars
  <2> QED BY <1>1, <2>1, StutterKeeps DEF AcceptedIsKept
<1>2. CASE Next /\ ~Race
  <2>1. ASSUME NEW e \in given, NEW x \in Fitting(e) PROVE Accounted(x)'
    <3>1. x \in Messages /\ x \notin Oversize
      BY BodyIsMessage DEF PublisherInv, TypeOK, Fitting
    <3>2. Accounted(x) /\ ~LossyRoute(x)
      BY <3>1 DEF AcceptedIsKept, LossyRoute
    <3> QED BY <1>2, <3>1, <3>2, KeptButInARace
  <2>2. CASE \E t \in Threads, e \in Events : PublishEvent(t, e)
    <3>1. PICK t \in Threads, e \in Events : PublishEvent(t, e)
      BY <2>2
    <3>2. \A x \in Fitting(e) : Accounted(x)'
      BY <3>1, GivenIsAccounted DEF Fitting
    <3> QED BY <2>1, <3>1, <3>2, GivenIsAccounted DEF AcceptedIsKept
  <2>3. CASE ~\E t \in Threads, e \in Events : PublishEvent(t, e)
    BY <1>2, <2>1, <2>3, OnlyEventsAreGiven DEF AcceptedIsKept
  <2> QED BY <2>2, <2>3
<1>3. (Next /\ ~Race) \/ UNCHANGED vars
  OBVIOUS
<1> QED
  BY <1>1, <1>2, <1>3

LEMMA AcceptedInit == Init => AcceptedIsKept
  BY DEF Init, AcceptedIsKept

\* Store and forward, of events rather than steps: until a race is lost, every record that fits, of
\* every event publish_event has been called with, is somewhere, whatever fails and however often
\* the process is stopped and started again.
THEOREM AcceptedIsKeptWithoutARace == Spec /\ [][~Race]_vars => []AcceptedIsKept
<1> DEFINE Kept == PublisherInv /\ RoutesOversize /\ AcceptedIsKept
<1>1. Init => Kept
  BY PublisherInit, RoutesInit, AcceptedInit
<1>2. Kept /\ [Next]_vars /\ [~Race]_vars => Kept'
  BY PublisherStep, RoutesStep, AcceptedStep
<1>3. Kept => AcceptedIsKept
  OBVIOUS
<1> QED
  BY <1>1, <1>2, <1>3, PTL DEF Spec

-----------------------------------------------------------------------------
(* A publisher that only the event loop calls: polling connectors. *)

\* Nobody changes the buffer under a flush, and the final flush overtakes no call.
Undisturbed == touched = {} /\ ~late

LEMMA UndisturbedStep ==
    ASSUME Threads = {Loop}, Undisturbed, [Next]_vars
    PROVE  Undisturbed'
<1>1. ASSUME NEW t \in Threads, Step(t) \/ ProduceFails(t) PROVE Undisturbed'
  BY <1>1
  DEF Undisturbed, Step, ProduceFails, RouteOversize, RouteFails, Swallowed, Produce, Produced,
      AppendBody, MaybeFlush, ReadAll, ReplayDelivered, ReplayGivesUp, Replace, NextOfBuffer,
      ClearBuffer, Poll
<1>2. ASSUME NEW t \in Threads, NEW e \in Events, PublishEvent(t, e) PROVE Undisturbed'
  BY <1>2 DEF Undisturbed, PublishEvent
<1>3. CASE Service \/ Stop \/ Collect \/ Restart \/ Kill
  <2>1. CASE Service \/ Collect
    BY <2>1 DEF Undisturbed, Service, Collect
  <2>2. CASE Stop
    BY <2>2 DEF Undisturbed, Stop
  <2>3. CASE Restart \/ Kill
    BY <2>3 DEF Undisturbed, Restart, Kill, NewProcess
  <2> QED BY <1>3, <2>1, <2>2, <2>3
<1>4. ASSUME NEW y \in Messages, Delivered(y) \/ DeliveryFails(y) \/ RouteReported(y)
      PROVE  Undisturbed'
  BY <1>4 DEF Undisturbed, Delivered, DeliveryFails, RouteReported
<1>5. CASE UNCHANGED vars
  BY <1>5 DEF Undisturbed, vars
<1> QED
  BY <1>1, <1>2, <1>3, <1>4, <1>5, PublisherAssumption DEF Next, LoopStep

\* When no connector calls publish_event from a thread of its own, only the rewrite of the spool
\* by its replay and a kill can lose a record that fits: stopping and flushing lose none.
THEOREM OneCallerLosesByReplayOnly ==
    ASSUME Threads = {Loop}
    PROVE  Spec /\ [][~LossyRewrite /\ ~Kill]_vars => []AcceptedIsKept
<1> DEFINE Kept == PublisherInv /\ RoutesOversize /\ Undisturbed /\ AcceptedIsKept
<1>1. Init => Kept
  BY PublisherInit, RoutesInit, AcceptedInit DEF Init, Undisturbed
<1>2. Kept /\ [Next]_vars /\ [~LossyRewrite /\ ~Kill]_vars => Kept'
  <2> SUFFICES ASSUME Kept, [Next]_vars, [~LossyRewrite /\ ~Kill]_vars PROVE Kept'
    OBVIOUS
  <2>1. [~Race]_vars
    BY DEF Undisturbed, Race, LossyClear, LossyEnd
  <2> QED BY <2>1, PublisherStep, RoutesStep, AcceptedStep, UndisturbedStep
<1>3. Kept => AcceptedIsKept
  OBVIOUS
<1> QED
  BY <1>1, <1>2, <1>3, PTL DEF Spec
=============================================================================
