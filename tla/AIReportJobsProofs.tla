-------------------------- MODULE AIReportJobsProofs --------------------------
(***************************************************************************)
(* What is proved of AI report jobs, for every stream of events, number of *)
(* worker slots, bound on failures and setting of the tracker and of the   *)
(* retries: a job the API shows as completed has its report in             *)
(* iot.ai_enriched; only a worker that has lost its lease takes one back;  *)
(* every sustained anomaly below the committed offset has its job, and one *)
(* life of the gateway records one for each incident.                      *)
(***************************************************************************)
EXTENDS AIReportJobs, FiniteSetTheorems, TLAPS

\* A worker about to call complete_report_job has seen its report acknowledged.
AboutToComplete == \A w \in Slots : workerPc[w] = "complete" => work[w] \in published

\* The part of TypeOK the argument needs.
ReportType ==
    /\ instance \in Instances
    /\ polled \in Nat /\ committedTo \in Nat /\ life \in Nat
    /\ pending \in {"anomaly", "recovery", Nil}
    /\ loop \in {"poll", "create", "commit", "ended"}
    /\ loop = "create" => pending # Nil
    /\ jobs \in Seq(Job)
    /\ workerPc \in [Slots -> {"idle", "generate", "complete", "fail", "ended"}]
    /\ work \in [Slots -> Nat \cup {Nil}]
    /\ \A w \in Slots : workerPc[w] \in {"generate", "complete", "fail"} => work[w] \in DOMAIN jobs

ReportInv == ReportType /\ AboutToComplete /\ CompletedIsPublished

LEMMA InitInv == ReportInit => ReportInv
<1> SUFFICES ASSUME ReportInit PROVE ReportInv
    OBVIOUS
<1>1. ReportType
    BY DEF ReportInit, ReportType
<1>2. AboutToComplete /\ CompletedIsPublished
    BY DEF ReportInit, AboutToComplete, CompletedIsPublished
<1> QED BY <1>1, <1>2 DEF ReportInv

-----------------------------------------------------------------------------
(* What one entry of the table looks like after an update.                 *)

LEMMA UpdateType ==
    ASSUME jobs \in Seq(Job), NEW x \in DOMAIN jobs, NEW job \in Job,
           jobs' = [jobs EXCEPT ![x] = job]
    PROVE  /\ jobs' \in Seq(Job) /\ DOMAIN jobs' = DOMAIN jobs
           /\ jobs'[x] = job
           /\ \A y \in DOMAIN jobs : y # x => jobs'[y] = jobs[y]
OBVIOUS

LEMMA RecordType ==
    ASSUME jobs \in Seq(Job), polled \in Nat, life \in Nat,
           NEW kind \in {"anomaly", "recovery", "scheduled"}, Record(kind)
    PROVE  /\ jobs' \in Seq(Job)
           /\ DOMAIN jobs \subseteq DOMAIN jobs'
           /\ \A x \in DOMAIN jobs : jobs'[x] = jobs[x]
           /\ \A x \in DOMAIN jobs' \ DOMAIN jobs : jobs'[x].status = "pending" /\ jobs'[x].attempts = 0
<1> DEFINE job == [kind |-> kind, cause |-> polled, life |-> life, status |-> "pending",
                   attempts |-> 0, worker |-> Nil, shared |-> FALSE]
<1>1. job \in Job
    BY DEF Job
<1>2. jobs' = Append(jobs, job)
    BY DEF Record
<1> HIDE DEF job
<1>3. /\ jobs' \in Seq(Job) /\ Len(jobs') = Len(jobs) + 1
      /\ \A x \in 1..Len(jobs) : jobs'[x] = jobs[x]
      /\ jobs'[Len(jobs) + 1] = job
    BY <1>1, <1>2
<1>4. DOMAIN jobs = 1..Len(jobs) /\ DOMAIN jobs' = 1..Len(jobs) + 1
    BY <1>3
<1>5. job.status = "pending" /\ job.attempts = 0
    BY DEF job
<1> QED BY <1>3, <1>4, <1>5

-----------------------------------------------------------------------------
(* consume_loop changes no entry of the table; it adds pending ones.       *)

\* A step that leaves the workers and the reports alone and only adds pending jobs.
LEMMA TableGrows ==
    ASSUME ReportInv, UNCHANGED <<instance, workerPc, work, published>>,
           polled' \in Nat, committedTo' \in Nat, life' \in Nat, pending' \in {"anomaly", "recovery", Nil},
           loop' \in {"poll", "create", "commit", "ended"}, loop' = "create" => pending' # Nil,
           jobs' \in Seq(Job), DOMAIN jobs \subseteq DOMAIN jobs',
           \A x \in DOMAIN jobs : jobs'[x] = jobs[x],
           \A x \in DOMAIN jobs' \ DOMAIN jobs : jobs'[x].status = "pending"
    PROVE  ReportInv'
<1>1. ReportType /\ AboutToComplete /\ CompletedIsPublished
    BY DEF ReportInv
<1>2. Slots' = Slots
    BY DEF Slots
<1>3. ReportType'
    BY <1>1, <1>2 DEF ReportType
<1>4. AboutToComplete'
    BY <1>1, <1>2 DEF AboutToComplete
<1>5. CompletedIsPublished'
    BY <1>1 DEF CompletedIsPublished
<1> QED BY <1>3, <1>4, <1>5 DEF ReportInv

LEMMA TransitionKind ==
    ASSUME NEW now PROVE Transition(now).kind \in {"anomaly", "recovery", Nil}
BY DEF Transition, Qualifying, NotQualifying

LEMMA ConsumerInv ==
    ASSUME ReportInv, Consume \/ CreateJob \/ CreateFails \/ CommitOffset \/ Scheduled
    PROVE  ReportInv'
<1>1. ReportType
    BY DEF ReportInv
<1>2. CASE Consume
    <2>1. pending' = Transition(polled + 1).kind /\ UNCHANGED <<instance, committedTo, jobs, workerPc, work, published, life>>
          /\ loop' = (IF pending' = Nil THEN "commit" ELSE "create") /\ polled' = polled + 1
        BY <1>2 DEF Consume, workers
    <2>2. pending' \in {"anomaly", "recovery", Nil}
        BY <2>1, TransitionKind
    <2> QED BY <1>1, <2>1, <2>2, TableGrows DEF ReportType
<1>3. CASE CreateJob
    <2>1. pending \in {"anomaly", "recovery"} /\ Record(pending)
        BY <1>1, <1>3 DEF CreateJob, ReportType
    <2>2. UNCHANGED <<instance, workerPc, work, published, polled, committedTo, life>> /\ loop' = "commit" /\ pending' = Nil
        BY <1>3 DEF CreateJob, workers
    <2> QED BY <1>1, <2>1, <2>2, RecordType, TableGrows DEF ReportType
<1>4. CASE CreateFails
    BY <1>1, <1>4, TableGrows DEF CreateFails, workers, ReportType
<1>5. CASE CommitOffset
    BY <1>1, <1>5, TableGrows DEF CommitOffset, workers, ReportType
<1>6. CASE Scheduled
    <2>1. Record("scheduled") /\ UNCHANGED <<instance, workerPc, work, published, polled, committedTo, life, loop, pending>>
        BY <1>6 DEF Scheduled, workers
    <2> QED BY <1>1, <2>1, RecordType, TableGrows DEF ReportType
<1> QED BY <1>2, <1>3, <1>4, <1>5, <1>6

-----------------------------------------------------------------------------
(* The workers.                                                            *)

\* A step of worker w that writes the entry of job x at most, and leaves it completed only
\* if it was or its report is published.
LEMMA EntryChanges ==
    ASSUME ReportInv, UNCHANGED <<instance, polled, committedTo, life, pending, loop>>,
           published \subseteq published',
           NEW x \in DOMAIN jobs, NEW job \in Job, jobs' = [jobs EXCEPT ![x] = job],
           job.status = "completed" => jobs[x].status = "completed" \/ x \in published',
           NEW w \in Slots, NEW place \in {"idle", "generate", "complete", "fail", "ended"},
           workerPc' = [workerPc EXCEPT ![w] = place],
           NEW held \in Nat \cup {Nil}, work' = [work EXCEPT ![w] = held],
           place \in {"generate", "complete", "fail"} => held \in DOMAIN jobs,
           place = "complete" => held \in published'
    PROVE  ReportInv'
<1>1. ReportType /\ AboutToComplete /\ CompletedIsPublished
    BY DEF ReportInv
<1>2. Slots' = Slots
    BY DEF Slots
<1>3. /\ jobs' \in Seq(Job) /\ DOMAIN jobs' = DOMAIN jobs
      /\ jobs'[x] = job /\ \A y \in DOMAIN jobs : y # x => jobs'[y] = jobs[y]
    BY <1>1, UpdateType DEF ReportType
<1>4. ReportType'
    BY <1>1, <1>2, <1>3 DEF ReportType
<1>5. AboutToComplete'
    BY <1>1, <1>2 DEF AboutToComplete, ReportType
<1>6. CompletedIsPublished'
    BY <1>1, <1>3 DEF CompletedIsPublished
<1> QED BY <1>4, <1>5, <1>6 DEF ReportInv

\* The same for a step that writes no entry.
LEMMA OnlyTheWorkerMoves ==
    ASSUME ReportInv, UNCHANGED <<instance, polled, committedTo, life, pending, loop, jobs>>,
           published \subseteq published',
           NEW w \in Slots, NEW place \in {"idle", "generate", "complete", "fail", "ended"},
           workerPc' = [workerPc EXCEPT ![w] = place],
           NEW held \in Nat \cup {Nil}, work' = [work EXCEPT ![w] = held],
           place \in {"generate", "complete", "fail"} => held \in DOMAIN jobs,
           place = "complete" => held \in published'
    PROVE  ReportInv'
<1>1. ReportType /\ AboutToComplete /\ CompletedIsPublished
    BY DEF ReportInv
<1>2. Slots' = Slots
    BY DEF Slots
<1>3. ReportType'
    BY <1>1, <1>2 DEF ReportType
<1>4. AboutToComplete'
    BY <1>1, <1>2 DEF AboutToComplete, ReportType
<1>5. CompletedIsPublished'
    BY <1>1 DEF CompletedIsPublished
<1> QED BY <1>3, <1>4, <1>5 DEF ReportInv

LEMMA ClaimInv ==
    ASSUME ReportInv, NEW w \in Slots, Claim(w)
    PROVE  ReportInv'
<1>1. ReportType
    BY DEF ReportInv
<1>2. UNCHANGED <<instance, polled, committedTo, life, pending, loop, published>> /\ workerPc' = [workerPc EXCEPT ![w] = "generate"]
    BY DEF Claim, consumer
<1>3. PICK x \in DOMAIN jobs :
         /\ jobs' = [jobs EXCEPT ![x].status = "processing", ![x].worker = w,
                                 ![x].shared = @ \/ \E v \in Slots : work[v] = x]
         /\ work' = [work EXCEPT ![w] = x]
    BY DEF Claim
<1> DEFINE job == [jobs[x] EXCEPT !.status = "processing", !.worker = w,
                                  !.shared = @ \/ \E v \in Slots : work[v] = x]
<1>4. w \in Workers /\ x \in Nat /\ jobs[x] \in Job
    BY <1>1, ReportAssumption DEF ReportType, Slots
<1>5. job \in Job /\ job.status = "processing"
    BY <1>4 DEF Job
<1>6. jobs' = [jobs EXCEPT ![x] = job]
    BY <1>3
<1> HIDE DEF job
<1>7. UNCHANGED <<instance, polled, committedTo, life, pending, loop, published>>
    BY <1>2
<1>8. PICK new \in Job : new.status = "processing" /\ jobs' = [jobs EXCEPT ![x] = new]
    BY <1>5, <1>6
<1> QED BY <1>2, <1>3, <1>4, <1>7, <1>8, EntryChanges

LEMMA LeaseInv ==
    ASSUME ReportInv, NEW x \in DOMAIN jobs, LeaseExpires(x)
    PROVE  ReportInv'
<1> DEFINE job == [jobs[x] EXCEPT !.status = "expired"]
<1>1. ReportType /\ AboutToComplete /\ CompletedIsPublished
    BY DEF ReportInv
<1>2. jobs[x] \in Job
    BY <1>1 DEF ReportType
<1>3. job \in Job /\ job.status = "expired"
    BY <1>2 DEF Job
<1>4. jobs' = [jobs EXCEPT ![x] = job]
    BY DEF LeaseExpires
<1> HIDE DEF job
<1>5. /\ jobs' \in Seq(Job) /\ DOMAIN jobs' = DOMAIN jobs
      /\ jobs'[x] = job /\ \A y \in DOMAIN jobs : y # x => jobs'[y] = jobs[y]
    BY <1>1, <1>3, <1>4, UpdateType DEF ReportType
<1>6. UNCHANGED <<instance, polled, committedTo, life, pending, loop, published, workerPc, work, Slots>>
    BY DEF LeaseExpires, consumer, workers, Slots
<1>7. ReportType'
    BY <1>1, <1>5, <1>6 DEF ReportType
<1>8. AboutToComplete'
    BY <1>1, <1>6 DEF AboutToComplete
<1>9. CompletedIsPublished'
    BY <1>1, <1>3, <1>5, <1>6 DEF CompletedIsPublished
<1> QED BY <1>7, <1>8, <1>9 DEF ReportInv

LEMMA GenerateInv ==
    ASSUME ReportInv, NEW w \in Slots, Generate(w) \/ GenerateFails(w)
    PROVE  ReportInv'
<1>1. ReportType
    BY DEF ReportInv
<1>2. workerPc[w] = "generate" /\ UNCHANGED <<instance, polled, committedTo, life, pending, loop, jobs, work>>
    BY DEF Generate, GenerateFails, consumer
<1>3. work[w] \in DOMAIN jobs /\ work[w] \in Nat \cup {Nil} /\ work' = [work EXCEPT ![w] = work[w]]
    BY <1>1, <1>2 DEF ReportType
<1>4. CASE Generate(w)
    <2>1. published' = published \cup {work[w]} /\ workerPc' = [workerPc EXCEPT ![w] = "complete"]
        BY <1>4 DEF Generate
    <2> QED BY <1>2, <1>3, <2>1, OnlyTheWorkerMoves
<1>5. CASE GenerateFails(w)
    <2>1. published' \in {published, published \cup {work[w]}} /\ workerPc' = [workerPc EXCEPT ![w] = "fail"]
        BY <1>5 DEF GenerateFails
    <2> QED BY <1>2, <1>3, <2>1, OnlyTheWorkerMoves
<1> QED BY <1>4, <1>5

LEMMA CompleteInv ==
    ASSUME ReportInv, NEW w \in Slots, Complete(w)
    PROVE  ReportInv'
<1>1. ReportType /\ AboutToComplete
    BY DEF ReportInv
<1>2. /\ workerPc[w] = "complete" /\ UNCHANGED <<instance, polled, committedTo, life, pending, loop, published>>
      /\ jobs' = [jobs EXCEPT ![work[w]].status = "completed"]
      /\ workerPc' = [workerPc EXCEPT ![w] = "idle"] /\ work' = [work EXCEPT ![w] = Nil]
    BY DEF Complete, consumer, Release
<1> DEFINE x == work[w]
           job == [jobs[x] EXCEPT !.status = "completed"]
<1>3. x \in DOMAIN jobs /\ jobs[x] \in Job /\ x \in published
    BY <1>1, <1>2 DEF ReportType, AboutToComplete
<1>4. job \in Job /\ jobs' = [jobs EXCEPT ![x] = job]
    BY <1>2, <1>3 DEF Job
<1> HIDE DEF x, job
<1> QED BY <1>2, <1>3, <1>4, EntryChanges

LEMMA FailInv ==
    ASSUME ReportInv, NEW w \in Slots, Fail(w)
    PROVE  ReportInv'
<1>1. ReportType
    BY DEF ReportInv
<1> DEFINE x == work[w]
           outcome == IF jobs[x].attempts + 1 >= MaxAttempts THEN "failed" ELSE "pending"
           job == [jobs[x] EXCEPT !.attempts = jobs[x].attempts + 1, !.status = outcome]
<1>2. /\ workerPc[w] = "fail" /\ UNCHANGED <<instance, polled, committedTo, life, pending, loop, published>>
      /\ workerPc' = [workerPc EXCEPT ![w] = "idle"] /\ work' = [work EXCEPT ![w] = Nil]
    BY DEF Fail, consumer, Release
<1>3. x \in DOMAIN jobs /\ jobs[x] \in Job
    BY <1>1, <1>2 DEF ReportType
<1>4. jobs[x].attempts + 1 \in Nat /\ outcome \in {"failed", "pending"}
    BY <1>3 DEF Job
<1> HIDE DEF outcome
<1>5. job \in Job /\ job.status # "completed"
    BY <1>3, <1>4 DEF Job
<1>6. jobs' = [jobs EXCEPT ![x] = job]
    BY DEF Fail, outcome
<1> HIDE DEF x, job
<1> QED BY <1>2, <1>3, <1>5, <1>6, EntryChanges

LEMMA WorkerStopsInv ==
    ASSUME ReportInv, NEW w \in Slots, CompleteFails(w) \/ FailFails(w)
    PROVE  ReportInv'
<1>1. ReportType
    BY DEF ReportInv
<1>2. UNCHANGED <<instance, polled, committedTo, life, pending, loop, jobs, published>>
    BY DEF CompleteFails, FailFails, consumer
<1>3. CASE CompleteFails(w)
    <2>1. workerPc[w] = "complete" /\ workerPc' = [workerPc EXCEPT ![w] = "fail"] /\ work' = work
        BY <1>3 DEF CompleteFails
    <2>2. work[w] \in DOMAIN jobs /\ work[w] \in Nat \cup {Nil} /\ work' = [work EXCEPT ![w] = work[w]]
        BY <1>1, <2>1 DEF ReportType
    <2> QED BY <1>2, <2>1, <2>2, OnlyTheWorkerMoves
<1>4. CASE FailFails(w)
    BY <1>2, <1>4, OnlyTheWorkerMoves DEF FailFails, Release
<1> QED BY <1>3, <1>4

\* consume_loop ends with its workers, or the gateway is started again.
LEMMA EveryoneStopsInv ==
    ASSUME ReportInv, CommitFails \/ Restart
    PROVE  ReportInv'
<1>1. ReportType /\ CompletedIsPublished
    BY DEF ReportInv
<1>2. /\ UNCHANGED <<instance, jobs, published, Slots>>
      /\ \E place \in {"idle", "ended"} : workerPc' = [w \in Slots |-> place]
      /\ work' = [w \in Slots |-> Nil]
    BY DEF CommitFails, Restart, Slots
<1>3. /\ polled' \in Nat /\ committedTo' \in Nat /\ life' \in Nat /\ pending' \in {"anomaly", "recovery", Nil}
      /\ loop' \in {"ended", "poll"}
    BY <1>1 DEF CommitFails, Restart, ReportType
<1>4. ReportType'
    BY <1>1, <1>2, <1>3 DEF ReportType
<1>5. AboutToComplete' /\ CompletedIsPublished'
    BY <1>1, <1>2 DEF AboutToComplete, CompletedIsPublished
<1> QED BY <1>4, <1>5 DEF ReportInv

LEMMA StepInv == ReportInv /\ [ReportNext]_reportVars => ReportInv'
<1> SUFFICES ASSUME ReportInv, [ReportNext]_reportVars PROVE ReportInv'
    OBVIOUS
<1>1. CASE Consume \/ CreateJob \/ CreateFails \/ CommitOffset \/ Scheduled
    BY <1>1, ConsumerInv
<1>2. CASE CommitFails \/ Restart
    BY <1>2, EveryoneStopsInv
<1>3. ASSUME NEW w \in Slots,
             \/ Claim(w) \/ Generate(w) \/ GenerateFails(w)
             \/ Complete(w) \/ CompleteFails(w) \/ Fail(w) \/ FailFails(w)
      PROVE ReportInv'
    BY <1>3, ClaimInv, GenerateInv, CompleteInv, FailInv, WorkerStopsInv
<1>4. ASSUME NEW x \in DOMAIN jobs, LeaseExpires(x)
      PROVE ReportInv'
    BY <1>4, LeaseInv
<1>5. CASE UNCHANGED reportVars
    <2>1. UNCHANGED <<instance, polled, committedTo, life, pending, loop, jobs, workerPc, work, published, Slots>>
        BY <1>5 DEF reportVars, consumer, workers, Slots
    <2> QED BY <2>1 DEF ReportInv, ReportType, AboutToComplete, CompletedIsPublished
<1> QED BY <1>1, <1>2, <1>3, <1>4, <1>5 DEF ReportNext

-----------------------------------------------------------------------------
\* Whatever fails, expires, is claimed twice or restarted, complete_report_job is
\* only ever reached by a worker whose enrich_batch returned for that job, so the
\* API shows no report as completed that is not in iot.ai_enriched.
THEOREM CompletedOnlyWhenPublished == ReportSpec => []CompletedIsPublished
<1>1. ReportInv => CompletedIsPublished
    BY DEF ReportInv
<1> QED BY <1>1, InitInv, StepInv, PTL DEF ReportSpec

-----------------------------------------------------------------------------
(* What consume_loop and the tracker have made of the stream.              *)

\* A job has been recorded for an anomaly at event c, or could not be.
Noted(c) ==
    \/ \E x \in DOMAIN jobs : jobs[x].kind = "anomaly" /\ jobs[x].cause = c
    \/ \E u \in unrecorded : u[1] = c

\* The incident that event n belongs to has been noted.
NotedUpTo(n) == \E c \in 0..n : Noted(c) /\ OneIncident(c, n)

Reported == tracker # Nil /\ tracker.reported
Anomalous == loop = "create" /\ pending = "anomaly"

ConsumerType ==
    /\ instance \in Instances
    /\ polled \in 0..Len(stream) /\ committedTo \in 0..polled /\ polled <= committedTo + 1
    /\ tracker \in TagState \cup {Nil}
    /\ loop \in {"poll", "create", "commit", "ended"}
    /\ loop = "poll" => polled = committedTo
    /\ pending \in {"anomaly", "recovery", Nil} /\ batch \in BOOLEAN
    /\ restarts \subseteq 0..committedTo /\ unrecorded \subseteq Nat \X Nat
    /\ life \in Nat /\ faults \in 0..instance.faults

\* The tracker knows the last critical event, and counts those since it resumed or the last other.
TrackerFollows ==
    /\ tracker # Nil =>
          /\ tracker.seen \in 1..polled /\ stream[tracker.seen] = "critical"
          /\ tracker.started <= tracker.seen
          /\ \A y \in 1..polled : stream[y] = "critical" => y <= tracker.seen
          /\ ~tracker.reported => tracker.report = 0
    /\ \A i \in 1..polled :
          (\A y \in i..polled : stream[y] = "critical") /\ (\A r \in restarts : r < i) =>
              tracker # Nil /\ tracker.count >= polled - i + 1 /\ tracker.started <= i

\* What a tracker that stays reported answers for, and what is about to be committed.
IncidentNoted ==
    /\ Reported => Anomalous \/ \E c \in 0..polled : Noted(c) /\ OneIncident(c, polled + 1)
    /\ loop = "create" /\ Sustained(polled) => pending = "anomaly"
    /\ loop = "commit" /\ Sustained(polled) => NotedUpTo(polled)
    /\ Anomalous => Reported
    /\ \A n \in 1..committedTo : Sustained(n) => NotedUpTo(n)

\* Between an anomaly job of this life and the next the stream rearms.
RearmedSince ==
    \A x \in DOMAIN jobs :
        /\ jobs[x].life <= life
        /\ jobs[x].kind = "anomaly" /\ jobs[x].life = life =>
              /\ jobs[x].cause <= polled
              /\ ~Reported => \E z \in jobs[x].cause + 1..polled : Rearms(z)
              /\ Anomalous => \E z \in jobs[x].cause + 1..polled - 1 : Rearms(z)

LoopInv ==
    ConsumerType /\ TrackerFollows /\ IncidentNoted /\ RearmedSince /\ OneReportPerIncident

LEMMA StreamType ==
    ASSUME instance \in Instances
    PROVE  /\ stream \in Seq(Severities) /\ Len(stream) \in Nat /\ instance.faults \in Nat
           /\ MinSamples \in Nat /\ MinSamples > 0 /\ Duration \in Nat /\ Rearm \in Nat /\ Cooldown \in Nat
<1>1. instance.stream \in Seq(Severities) /\ instance.faults \in Nat
    BY ReportAssumption
<1> QED BY <1>1, ReportAssumption DEF stream

LEMMA NoneIsNothing ==
    Nil \notin TagState /\ Nil # "anomaly" /\ Nil # "recovery"
BY ReportAssumption

\* What has been noted stays noted, and what a restart takes from the stream is not given back.
LEMMA NotedKept ==
    ASSUME UNCHANGED instance, unrecorded \subseteq unrecorded', restarts \subseteq restarts',
           DOMAIN jobs \subseteq DOMAIN jobs',
           \A x \in DOMAIN jobs : jobs'[x].kind = jobs[x].kind /\ jobs'[x].cause = jobs[x].cause
    PROVE  /\ \A z : Rearms(z)' = Rearms(z)
           /\ \A a, b : OneIncident(a, b)' = OneIncident(a, b)
           /\ \A c : Noted(c) => Noted(c)'
           /\ \A n : NotedUpTo(n) => NotedUpTo(n)'
           /\ \A n : Sustained(n)' => Sustained(n)
<1>1. stream' = stream
    BY DEF stream
<1>2. \A z : Rearms(z)' = Rearms(z)
    BY <1>1 DEF Rearms
<1>3. \A a, b : OneIncident(a, b)' = OneIncident(a, b)
    BY <1>2 DEF OneIncident
<1>4. \A c : Noted(c) => Noted(c)'
    BY DEF Noted
<1>5. \A n : NotedUpTo(n) => NotedUpTo(n)'
    BY <1>3, <1>4 DEF NotedUpTo
<1>6. \A n : Sustained(n)' => Sustained(n)
    BY <1>1 DEF Sustained
<1> QED BY <1>2, <1>3, <1>4, <1>5, <1>6

\* A step that adds no job and changes none of its kind, cause and life, and leaves the consumer.
LEMMA ConsumerUntouched ==
    ASSUME LoopInv, UNCHANGED <<instance, consumer, life, restarts, unrecorded>>,
           faults' \in 0..instance.faults, DOMAIN jobs' = DOMAIN jobs,
           \A x \in DOMAIN jobs : /\ jobs'[x].kind = jobs[x].kind /\ jobs'[x].cause = jobs[x].cause
                                  /\ jobs'[x].life = jobs[x].life
    PROVE  LoopInv'
<1>1. ConsumerType /\ TrackerFollows /\ IncidentNoted /\ RearmedSince /\ OneReportPerIncident
    BY DEF LoopInv
<1>2. /\ UNCHANGED <<committedTo, polled, tracker, loop, pending, batch>>
      /\ stream' = stream /\ Reported' = Reported /\ Anomalous' = Anomalous
    BY DEF consumer, stream, Reported, Anomalous
<1>3. /\ \A z : Rearms(z)' = Rearms(z)
      /\ \A a, b : OneIncident(a, b)' = OneIncident(a, b)
      /\ \A c : Noted(c) => Noted(c)'
      /\ \A n : NotedUpTo(n) => NotedUpTo(n)'
      /\ \A n : Sustained(n)' => Sustained(n)
    BY NotedKept
<1>4. ConsumerType'
    BY <1>1, <1>2 DEF ConsumerType
<1>5. TrackerFollows'
    BY <1>1, <1>2 DEF TrackerFollows
<1>6. IncidentNoted'
    BY <1>1, <1>2, <1>3 DEF IncidentNoted
<1>7. RearmedSince'
    BY <1>1, <1>2, <1>3 DEF RearmedSince
<1>8. OneReportPerIncident'
    BY <1>1, <1>3 DEF OneReportPerIncident
<1> QED BY <1>4, <1>5, <1>6, <1>7, <1>8 DEF LoopInv

-----------------------------------------------------------------------------
(* SustainedAnomalyTracker sees one event.                                 *)

LEMMA SeesEvent ==
    ASSUME NEW old \in TagState, NEW n \in Nat
    PROVE  LET new == [old EXCEPT !.seen = n, !.count = @ + 1]
           IN  /\ new \in TagState /\ new.seen = n /\ new.count = old.count + 1 /\ new.started = old.started
               /\ new.reported = old.reported /\ new.report = old.report
<1>1. old.count + 1 \in Nat
    BY DEF TagState
<1>2. PICK k : k = old.count + 1
    OBVIOUS
<1> DEFINE new == [old EXCEPT !.seen = n, !.count = k]
<1>3. /\ new \in TagState /\ new.seen = n /\ new.count = k /\ new.started = old.started
      /\ new.reported = old.reported /\ new.report = old.report
    BY <1>1, <1>2 DEF TagState
<1> QED BY <1>2, <1>3

LEMMA QualifyingShape ==
    ASSUME instance \in Instances, tracker \in TagState \cup {Nil}, NEW n \in Nat,
           tracker # Nil => (~tracker.reported => tracker.report = 0),
           NEW t, t = Qualifying(n)
    PROVE  /\ t.state \in TagState /\ t.state.seen = n /\ t.kind \in {"anomaly", Nil}
           /\ tracker = Nil => t.state.count = 1 /\ t.state.started = n
           /\ tracker # Nil => t.state.count = tracker.count + 1 /\ t.state.started = tracker.started
           /\ Reported => t.state.reported /\ t.kind = Nil
           /\ ~Reported =>
                IF t.state.count >= MinSamples /\ n - t.state.started >= Duration
                THEN t.kind = "anomaly" /\ t.state.reported
                ELSE t.kind = Nil /\ ~t.state.reported /\ t.state.report = 0
<1> DEFINE old == IF tracker # Nil THEN tracker
                  ELSE [started |-> n, seen |-> n, count |-> 0, reported |-> FALSE, report |-> 0]
           new == [old EXCEPT !.seen = n, !.count = @ + 1]
           fires == /\ ~new.reported /\ new.count >= MinSamples /\ n - new.started >= Duration
                    /\ new.report = 0 \/ n - new.report >= Cooldown
<1>1. old \in TagState /\ (~old.reported => old.report = 0) /\ (old.reported <=> Reported)
    BY NoneIsNothing DEF TagState, Reported
<1>2. /\ tracker = Nil => old.count = 0 /\ old.started = n
      /\ tracker # Nil => old.count = tracker.count /\ old.started = tracker.started
    OBVIOUS
<1> HIDE DEF old
<1>3. /\ new \in TagState /\ new.seen = n /\ new.count = old.count + 1 /\ new.started = old.started
      /\ new.reported = old.reported /\ new.report = old.report
    BY <1>1, SeesEvent
<1>4. t = IF fires THEN [state |-> [new EXCEPT !.reported = TRUE, !.report = n], kind |-> "anomaly"]
          ELSE [state |-> new, kind |-> Nil]
    BY DEF Qualifying, old
<1> HIDE DEF new
<1>5. fires <=> ~Reported /\ new.count >= MinSamples /\ n - new.started >= Duration
    BY <1>1, <1>3
<1> HIDE DEF fires
<1>6. CASE fires
    <2> DEFINE last == [new EXCEPT !.reported = TRUE, !.report = n]
    <2>1. t.state = last /\ t.kind = "anomaly"
        BY <1>4, <1>6
    <2>2. /\ last \in TagState /\ last.seen = new.seen /\ last.count = new.count
          /\ last.started = new.started /\ last.reported = TRUE
        BY <1>3 DEF TagState
    <2> HIDE DEF last
    <2> QED BY <1>2, <1>3, <1>5, <1>6, <2>1, <2>2
<1>7. CASE ~fires
    <2>1. t.state = new /\ t.kind = Nil
        BY <1>4, <1>7
    <2> QED BY <1>1, <1>2, <1>3, <1>5, <1>7, <2>1
<1> QED BY <1>6, <1>7

LEMMA NotQualifyingShape ==
    ASSUME NEW n, NEW severity, NEW t, t = NotQualifying(n, severity)
    PROVE  /\ t.kind \in {"recovery", Nil} /\ t.state \in {tracker, Nil}
           /\ t.state # Nil => Reported /\ ~(severity = "normal" /\ n - tracker.seen >= Rearm)
           /\ Reported /\ t.state = Nil => severity = "normal" /\ n - tracker.seen >= Rearm
BY DEF NotQualifying, Reported

\* What one event does, to the tracker and to the way on.
LEMMA ConsumeShape ==
    ASSUME ConsumerType, TrackerFollows, Consume, NEW n, n = polled + 1
    PROVE  /\ polled' = n /\ n \in 1..Len(stream) /\ polled = committedTo /\ loop = "poll"
           /\ UNCHANGED <<instance, committedTo, jobs, life, restarts, unrecorded, faults>>
           /\ batch' = TRUE /\ loop' = IF pending' = Nil THEN "commit" ELSE "create"
           /\ stream[n] = "critical" =>
                /\ tracker' \in TagState /\ tracker'.seen = n /\ pending' \in {"anomaly", Nil}
                /\ tracker = Nil => tracker'.count = 1 /\ tracker'.started = n
                /\ tracker # Nil => /\ tracker'.count = tracker.count + 1
                                     /\ tracker'.started = tracker.started
                /\ Reported => tracker'.reported /\ pending' = Nil
                /\ ~Reported =>
                     IF tracker'.count >= MinSamples /\ n - tracker'.started >= Duration
                     THEN pending' = "anomaly" /\ tracker'.reported
                     ELSE pending' = Nil /\ ~tracker'.reported /\ tracker'.report = 0
           /\ stream[n] # "critical" =>
                /\ pending' \in {"recovery", Nil} /\ tracker' \in {tracker, Nil}
                /\ tracker' # Nil => Reported /\ ~(stream[n] = "normal" /\ n - tracker.seen >= Rearm)
                /\ Reported /\ tracker' = Nil => stream[n] = "normal" /\ n - tracker.seen >= Rearm
<1>1. /\ loop = "poll" /\ polled < Len(stream) /\ polled' = n /\ batch' = TRUE
      /\ UNCHANGED <<instance, committedTo, jobs, life, restarts, unrecorded, faults>>
      /\ tracker' = Transition(n).state /\ pending' = Transition(n).kind
      /\ loop' = IF Transition(n).kind = Nil THEN "commit" ELSE "create"
    BY DEF Consume
<1>2. polled \in Nat /\ n \in Nat /\ n \in 1..Len(stream) /\ polled = committedTo
    BY <1>1, StreamType DEF ConsumerType
<1>3. CASE stream[n] = "critical"
    <2>1. Transition(n) = Qualifying(n)
        BY <1>3 DEF Transition
    <2>2. instance \in Instances /\ tracker \in TagState \cup {Nil}
        BY DEF ConsumerType
    <2>3. tracker # Nil => (~tracker.reported => tracker.report = 0)
        BY DEF TrackerFollows
    <2> QED BY <1>1, <1>2, <1>3, <2>1, <2>2, <2>3, QualifyingShape
<1>4. CASE stream[n] # "critical"
    <2>1. Transition(n) = NotQualifying(n, stream[n])
        BY <1>4 DEF Transition
    <2> QED BY <1>1, <1>2, <1>4, <2>1, NotQualifyingShape
<1> QED BY <1>3, <1>4

-----------------------------------------------------------------------------
(* The steps of consume_loop.                                              *)

LEMMA FollowInit == ReportInit => LoopInv
<1> SUFFICES ASSUME ReportInit PROVE LoopInv
    OBVIOUS
<1>1. ConsumerType
    <2>1. Len(stream) \in Nat /\ instance.faults \in Nat
        BY StreamType DEF ReportInit
    <2>2. polled \in 0..Len(stream) /\ committedTo \in 0..polled /\ faults \in 0..instance.faults
        BY <2>1 DEF ReportInit
    <2>3. restarts \subseteq 0..committedTo /\ unrecorded \subseteq Nat \X Nat /\ polled <= committedTo + 1
        BY DEF ReportInit
    <2>4. /\ tracker = Nil /\ loop = "poll" /\ polled = committedTo /\ pending = Nil /\ batch = FALSE /\ life = 0
          /\ instance \in Instances
        BY DEF ReportInit
    <2> QED BY <2>2, <2>3, <2>4 DEF ConsumerType
<1>2. TrackerFollows /\ IncidentNoted /\ RearmedSince /\ OneReportPerIncident
    BY DEF ReportInit, TrackerFollows, IncidentNoted, RearmedSince, OneReportPerIncident, Reported, Anomalous
<1> QED BY <1>1, <1>2 DEF LoopInv

LEMMA ConsumeBasics ==
    ASSUME ConsumerType, Consume, NEW n, n = polled + 1
    PROVE  /\ polled' = n /\ n \in 1..Len(stream) /\ n \in Nat /\ polled \in Nat
           /\ polled = committedTo /\ loop = "poll" /\ batch' = TRUE
           /\ loop' = IF pending' = Nil THEN "commit" ELSE "create"
           /\ UNCHANGED <<instance, committedTo, jobs, life, restarts, unrecorded, faults, stream>>
<1>1. polled \in Nat /\ Len(stream) \in Nat
    BY StreamType DEF ConsumerType
<1> QED BY <1>1 DEF Consume, ConsumerType, stream

\* An event is shown to the tracker.
LEMMA ConsumeTracker ==
    ASSUME LoopInv, Consume, NEW n, n = polled + 1
    PROVE  TrackerFollows'
<1>1. ConsumerType /\ TrackerFollows
    BY DEF LoopInv
<1>2. /\ polled' = n /\ n \in 1..Len(stream) /\ n \in Nat /\ polled \in Nat
      /\ UNCHANGED <<instance, restarts, stream>>
    BY <1>1, ConsumeBasics
<1>3. tracker # Nil => /\ tracker \in TagState
                        /\ tracker.seen \in 1..polled /\ stream[tracker.seen] = "critical"
                        /\ tracker.started <= tracker.seen /\ tracker.started \in Nat /\ tracker.count \in Nat
                        /\ \A y \in 1..polled : stream[y] = "critical" => y <= tracker.seen
    BY <1>1 DEF TrackerFollows, ConsumerType, TagState
<1>4. CASE stream[n] = "critical"
    <2>1. /\ tracker' \in TagState /\ tracker'.seen = n
          /\ tracker = Nil => tracker'.count = 1 /\ tracker'.started = n
          /\ tracker # Nil => tracker'.count = tracker.count + 1 /\ tracker'.started = tracker.started
          /\ ~tracker'.reported => tracker'.report = 0
        BY <1>1, <1>4, ConsumeShape
    <2>2. tracker' # Nil
        BY <2>1, NoneIsNothing
    <2>3. tracker'.seen \in 1..polled' /\ stream'[tracker'.seen] = "critical"
          /\ \A y \in 1..polled' : stream'[y] = "critical" => y <= tracker'.seen
        BY <1>2, <1>4, <2>1
    <2>4. tracker'.started <= tracker'.seen
        BY <1>2, <1>3, <2>1
    <2>5. ASSUME NEW i \in 1..n, \A y \in i..n : stream[y] = "critical", \A r \in restarts : r < i
          PROVE  tracker'.count >= n - i + 1 /\ tracker'.started <= i
        <3>1. CASE i = n
            BY <1>2, <1>3, <2>1, <3>1
        <3>2. CASE i # n
            <4>1. i \in 1..polled /\ \A y \in i..polled : stream[y] = "critical"
                BY <1>2, <2>5, <3>2
            <4>2. tracker # Nil /\ tracker.count >= polled - i + 1 /\ tracker.started <= i
                BY <1>1, <2>5, <4>1 DEF TrackerFollows
            <4> QED BY <1>2, <1>3, <2>1, <4>1, <4>2
        <3> QED BY <3>1, <3>2
    <2> QED BY <1>2, <2>1, <2>2, <2>3, <2>4, <2>5 DEF TrackerFollows
<1>5. CASE stream[n] # "critical"
    <2>1. tracker' \in {tracker, Nil}
        BY <1>1, <1>5, ConsumeShape
    <2>2. ASSUME tracker' # Nil
          PROVE  /\ tracker' = tracker
                 /\ tracker.seen \in 1..polled' /\ stream[tracker.seen] = "critical"
                 /\ tracker.started <= tracker.seen /\ (~tracker.reported => tracker.report = 0)
                 /\ \A y \in 1..polled' : stream[y] = "critical" => y <= tracker.seen
        <3>1. tracker' = tracker /\ tracker # Nil
            BY <2>1, <2>2
        <3>2. tracker.seen \in 1..polled'
            BY <1>2, <1>3, <3>1
        <3>3. \A y \in 1..polled' : stream[y] = "critical" => y <= tracker.seen
            BY <1>2, <1>3, <1>5, <3>1
        <3> QED BY <1>1, <1>3, <3>1, <3>2, <3>3 DEF TrackerFollows
    <2>3. \A i \in 1..n : ~(\A y \in i..n : stream[y] = "critical")
        BY <1>2, <1>5
    <2> QED BY <1>2, <2>2, <2>3 DEF TrackerFollows
<1> QED BY <1>4, <1>5

\* An incident lasts, in the tracker as in the stream, until a normal event comes late enough.
LEMMA ConsumeNoted ==
    ASSUME LoopInv, Consume, NEW n, n = polled + 1
    PROVE  IncidentNoted'
<1>1. ConsumerType /\ TrackerFollows /\ IncidentNoted
    BY DEF LoopInv
<1>2. /\ polled' = n /\ n \in 1..Len(stream) /\ n \in Nat /\ polled \in Nat
      /\ polled = committedTo /\ loop = "poll"
      /\ UNCHANGED <<instance, committedTo, jobs, restarts, unrecorded, stream>>
      /\ loop' = IF pending' = Nil THEN "commit" ELSE "create"
    BY <1>1, ConsumeBasics
<1>3. /\ \A z : Rearms(z)' = Rearms(z)
      /\ \A a, b : OneIncident(a, b)' = OneIncident(a, b)
      /\ \A c : Noted(c) => Noted(c)'
      /\ \A m : NotedUpTo(m) => NotedUpTo(m)'
      /\ \A m : Sustained(m)' => Sustained(m)
    BY <1>2, NotedKept
<1>4. ~Anomalous
    BY <1>2 DEF Anomalous
<1>5. Reported => \E c \in 0..polled : Noted(c) /\ OneIncident(c, n)
    BY <1>1, <1>4 DEF IncidentNoted
<1>6. \A m \in 1..committedTo' : Sustained(m)' => NotedUpTo(m)'
    BY <1>1, <1>2, <1>3 DEF IncidentNoted
<1>7. CASE stream[n] = "critical"
    <2>1. /\ tracker' \in TagState /\ pending' \in {"anomaly", Nil} /\ tracker' # Nil
          /\ Reported => tracker'.reported /\ pending' = Nil
          /\ ~Reported =>
               IF tracker'.count >= MinSamples /\ n - tracker'.started >= Duration
               THEN pending' = "anomaly" /\ tracker'.reported
               ELSE pending' = Nil /\ ~tracker'.reported /\ tracker'.report = 0
        BY <1>1, <1>7, ConsumeShape, NoneIsNothing
    <2>2. (Reported' <=> tracker'.reported) /\ (Anomalous' <=> pending' = "anomaly")
        BY <1>2, <2>1, NoneIsNothing DEF Reported, Anomalous
    <2>3. ASSUME Reported', ~Anomalous'
          PROVE  \E c \in 0..n : Noted(c)' /\ OneIncident(c, n + 1)'
        <3>1. Reported
            BY <2>1, <2>2, <2>3
        <3>2. PICK c \in 0..polled : Noted(c) /\ OneIncident(c, n)
            BY <1>5, <3>1
        <3>3. OneIncident(c, n + 1)
            BY <1>2, <1>7, <3>2 DEF OneIncident, Rearms
        <3>4. c \in 0..n
            BY <1>2, <3>2
        <3> QED BY <1>3, <3>2, <3>3, <3>4
    <2>4. ASSUME Sustained(n)', pending' = Nil
          PROVE  NotedUpTo(n)'
        <3>1. PICK i \in 1..n : /\ \A y \in i..n : stream[y] = "critical"
                                /\ \A r \in restarts : r < i \/ r >= n
                                /\ n - i + 1 >= MinSamples /\ n - i >= Duration
            BY <1>3, <2>4 DEF Sustained
        <3>2. \A r \in restarts : r < i
            BY <1>1, <1>2, <3>1 DEF ConsumerType
        <3>3. TrackerFollows'
            BY ConsumeTracker
        <3>4. tracker'.count >= n - i + 1 /\ tracker'.started <= i
            BY <1>2, <3>1, <3>2, <3>3 DEF TrackerFollows
        <3>5. tracker'.count >= MinSamples /\ n - tracker'.started >= Duration
            <4>1. /\ tracker'.count \in Nat /\ tracker'.started \in Nat
                  /\ MinSamples \in Nat /\ Duration \in Nat
                BY <1>1, <2>1, StreamType DEF TagState, ConsumerType
            <4> QED BY <1>2, <3>1, <3>4, <4>1
        <3>6. Reported
            BY <2>1, <2>4, <3>5, NoneIsNothing
        <3>7. PICK c \in 0..polled : Noted(c) /\ OneIncident(c, n)
            BY <1>5, <3>6
        <3>8. c \in 0..n
            BY <1>2, <3>7
        <3> QED BY <1>3, <3>7, <3>8 DEF NotedUpTo
    <2>5. loop' = "create" => pending' = "anomaly"
        BY <1>2, <2>1
    <2>6. Anomalous' => Reported'
        BY <2>1, <2>2, NoneIsNothing
    <2>7. loop' = "commit" => pending' = Nil
        BY <1>2
    <2> QED BY <1>2, <1>6, <2>3, <2>4, <2>5, <2>6, <2>7 DEF IncidentNoted
<1>8. CASE stream[n] # "critical"
    <2>1. /\ pending' \in {"recovery", Nil} /\ tracker' \in {tracker, Nil}
          /\ tracker' # Nil => Reported /\ ~(stream[n] = "normal" /\ n - tracker.seen >= Rearm)
        BY <1>1, <1>8, ConsumeShape
    <2>2. ~Anomalous'
        BY <2>1, NoneIsNothing DEF Anomalous
    <2>3. ~Sustained(n)'
        <3>1. ~Sustained(n)
            BY <1>2, <1>8 DEF Sustained
        <3> QED BY <1>3, <3>1
    <2>4. ASSUME Reported'
          PROVE  \E c \in 0..n : Noted(c)' /\ OneIncident(c, n + 1)'
        <3>1. Reported /\ ~(stream[n] = "normal" /\ n - tracker.seen >= Rearm)
            BY <2>1, <2>4 DEF Reported
        <3>2. tracker.seen \in 1..polled /\ stream[tracker.seen] = "critical"
            BY <1>1, <3>1 DEF TrackerFollows, Reported
        <3>3. ~Rearms(n)
            BY <1>2, <3>1, <3>2 DEF Rearms
        <3>4. PICK c \in 0..polled : Noted(c) /\ OneIncident(c, n)
            BY <1>5, <3>1
        <3>5. OneIncident(c, n + 1)
            BY <1>2, <3>3, <3>4 DEF OneIncident
        <3>6. c \in 0..n
            BY <1>2, <3>4
        <3> QED BY <1>3, <3>4, <3>5, <3>6
    <2> QED BY <1>2, <1>6, <2>2, <2>3, <2>4 DEF IncidentNoted
<1> QED BY <1>7, <1>8

LEMMA ConsumeRearmed ==
    ASSUME LoopInv, ReportType, Consume, NEW n, n = polled + 1
    PROVE  RearmedSince'
<1>1. ConsumerType /\ TrackerFollows /\ RearmedSince
    BY DEF LoopInv
<1>2. /\ polled' = n /\ n \in 1..Len(stream) /\ n \in Nat /\ polled \in Nat /\ loop = "poll"
      /\ UNCHANGED <<instance, jobs, life, restarts, unrecorded, stream>>
    BY <1>1, ConsumeBasics
<1>3. \A z : Rearms(z)' = Rearms(z)
    BY <1>2 DEF Rearms
<1>4. ASSUME NEW x \in DOMAIN jobs, jobs[x].kind = "anomaly", jobs[x].life = life
      PROVE  /\ jobs[x].cause <= n
             /\ ~Reported' => \E z \in jobs[x].cause + 1..n : Rearms(z)
             /\ Anomalous' => \E z \in jobs[x].cause + 1..n - 1 : Rearms(z)
    <2>1. /\ jobs[x].cause \in Nat /\ jobs[x].cause <= polled
          /\ ~Reported => \E z \in jobs[x].cause + 1..polled : Rearms(z)
        <3>1. jobs[x] \in Job
            BY DEF ReportType
        <3> QED BY <1>1, <1>4, <3>1 DEF RearmedSince, Job
    <2>2. Anomalous' => ~Reported
        BY <1>1, ConsumeShape, NoneIsNothing DEF Anomalous
    <2>3. ASSUME Reported, ~Reported' PROVE Rearms(n)
        <3>1. stream[n] # "critical" /\ tracker' = Nil
            <4>1. CASE stream[n] = "critical"
                BY <1>1, <2>3, <4>1, ConsumeShape, NoneIsNothing DEF Reported
            <4>2. CASE stream[n] # "critical"
                BY <1>1, <2>3, <4>2, ConsumeShape DEF Reported
            <4> QED BY <4>1, <4>2
        <3>2. stream[n] = "normal" /\ n - tracker.seen >= Rearm
            BY <1>1, <2>3, <3>1, ConsumeShape
        <3>3. /\ tracker.seen \in 1..polled
              /\ \A y \in 1..polled : stream[y] = "critical" => y <= tracker.seen
            BY <1>1, <2>3 DEF TrackerFollows, Reported
        <3>4. Rearm \in Nat
            BY <1>1, StreamType DEF ConsumerType
        <3>5. \A y \in 1..n - 1 : stream[y] = "critical" => n - y >= Rearm
            BY <1>2, <3>2, <3>3, <3>4
        <3> QED BY <3>2, <3>5 DEF Rearms
    <2>4. CASE Reported
        BY <1>2, <2>1, <2>2, <2>3, <2>4
    <2>5. CASE ~Reported
        <3>1. PICK z \in jobs[x].cause + 1..polled : Rearms(z)
            BY <2>1, <2>5
        <3>2. z \in jobs[x].cause + 1..n /\ z \in jobs[x].cause + 1..n - 1
            BY <1>2, <2>1, <3>1
        <3> QED BY <1>2, <2>1, <3>1, <3>2
    <2> QED BY <2>4, <2>5
<1>5. \A x \in DOMAIN jobs : jobs[x].life <= life
    BY <1>1 DEF RearmedSince
<1> QED BY <1>2, <1>3, <1>4, <1>5 DEF RearmedSince

LEMMA ConsumeInv ==
    ASSUME LoopInv, ReportType, Consume
    PROVE  LoopInv'
<1>1. ConsumerType /\ TrackerFollows /\ OneReportPerIncident
    BY DEF LoopInv
<1>2. PICK n : n = polled + 1
    OBVIOUS
<1>3. TrackerFollows' /\ IncidentNoted' /\ RearmedSince'
    BY <1>2, ConsumeTracker, ConsumeNoted, ConsumeRearmed
<1>4. /\ polled' = n /\ n \in 1..Len(stream) /\ polled \in Nat
      /\ polled = committedTo /\ batch' = TRUE
      /\ UNCHANGED <<instance, committedTo, jobs, restarts, unrecorded, stream, life, faults>>
      /\ loop' = IF pending' = Nil THEN "commit" ELSE "create"
    BY <1>1, <1>2, ConsumeBasics
<1>5. tracker' \in TagState \cup {Nil} /\ pending' \in {"anomaly", "recovery", Nil}
    <2>1. CASE stream[n] = "critical"
        BY <1>1, <1>2, <2>1, ConsumeShape
    <2>2. CASE stream[n] # "critical"
        BY <1>1, <1>2, <2>2, ConsumeShape DEF ConsumerType
    <2> QED BY <2>1, <2>2
<1>6. ConsumerType'
    <2>1. n \in 0..Len(stream) /\ committedTo \in 0..n /\ n <= committedTo + 1 /\ loop' \in {"commit", "create"}
        BY <1>1, <1>2, <1>4, StreamType DEF ConsumerType
    <2> QED BY <1>1, <1>4, <1>5, <2>1 DEF ConsumerType
<1>7. OneReportPerIncident'
    BY <1>1, <1>4 DEF OneReportPerIncident, OneIncident, Rearms
<1> QED BY <1>3, <1>6, <1>7 DEF LoopInv

\* A job is added to the table, with none of its kind in it that matters to it.
LEMMA JobRecorded ==
    ASSUME LoopInv, ReportType, NEW kind \in {"anomaly", "recovery", "scheduled"}, Record(kind),
           UNCHANGED <<instance, committedTo, polled, tracker, life, restarts, unrecorded, faults>>,
           batch' \in BOOLEAN, pending' \in {"anomaly", "recovery", Nil},
           \/ loop = "poll" /\ loop' = "poll" /\ kind = "scheduled"
           \/ loop = "create" /\ loop' = "commit" /\ kind = pending
    PROVE  LoopInv'
<1>1. ConsumerType /\ TrackerFollows /\ IncidentNoted /\ RearmedSince /\ OneReportPerIncident
    BY DEF LoopInv
<1>2. PICK N : N = Len(jobs) + 1
    OBVIOUS
<1>3. /\ DOMAIN jobs' = DOMAIN jobs \cup {N} /\ \A x \in DOMAIN jobs : x < N
      /\ \A x \in DOMAIN jobs : jobs'[x] = jobs[x]
      /\ jobs'[N].kind = kind /\ jobs'[N].cause = polled /\ jobs'[N].life = life
    <2> DEFINE job == [kind |-> kind, cause |-> polled, life |-> life, status |-> "pending",
                       attempts |-> 0, worker |-> Nil, shared |-> FALSE]
    <2>1. jobs' = Append(jobs, job) /\ jobs \in Seq(Job)
        BY DEF Record, ReportType
    <2>2. job.kind = kind /\ job.cause = polled /\ job.life = life
        OBVIOUS
    <2> HIDE DEF job
    <2>3. /\ Len(jobs) \in Nat /\ DOMAIN jobs = 1..Len(jobs) /\ DOMAIN jobs' = 1..N
          /\ \A x \in 1..Len(jobs) : jobs'[x] = jobs[x]
          /\ jobs'[N] = job
        BY <1>2, <2>1
    <2> QED BY <1>2, <2>2, <2>3
<1>4. N \in Nat /\ N \notin DOMAIN jobs
    <2>1. N \in Nat
        BY <1>2 DEF ReportType
    <2> QED BY <1>3, <2>1
<1>5. /\ \A z : Rearms(z)' = Rearms(z)
      /\ \A a, b : OneIncident(a, b)' = OneIncident(a, b)
      /\ \A c : Noted(c) => Noted(c)'
      /\ \A m : NotedUpTo(m) => NotedUpTo(m)'
      /\ \A m : Sustained(m)' => Sustained(m)
    BY <1>3, NotedKept
<1>6. Reported' = Reported /\ ~Anomalous' /\ stream' = stream /\ polled \in Nat
    BY <1>1, StreamType DEF Reported, Anomalous, stream, ConsumerType
<1>7. kind = "anomaly" => Anomalous
    BY <1>1, NoneIsNothing DEF Anomalous
<1>8. kind = "anomaly" => Noted(polled)'
    BY <1>3 DEF Noted
<1>9. ConsumerType'
    BY <1>1, <1>6 DEF ConsumerType
<1>10. TrackerFollows'
    BY <1>1, <1>6 DEF TrackerFollows
<1>11. IncidentNoted'
    <2>1. OneIncident(polled, polled + 1) /\ OneIncident(polled, polled) /\ polled \in 0..polled
        BY <1>6 DEF OneIncident
    <2>2. ASSUME Reported PROVE \E c \in 0..polled : Noted(c)' /\ OneIncident(c, polled + 1)'
        <3>1. CASE Anomalous
            BY <1>5, <1>8, <2>1, <3>1, NoneIsNothing DEF Anomalous
        <3>2. CASE ~Anomalous
            BY <1>1, <1>5, <2>2, <3>2 DEF IncidentNoted
        <3> QED BY <3>1, <3>2
    <2>3. ASSUME loop' = "commit", Sustained(polled)' PROVE NotedUpTo(polled)'
        <3>1. pending = "anomaly" /\ kind = "anomaly"
            BY <1>1, <1>5, <2>3 DEF IncidentNoted
        <3>2. Noted(polled)' /\ OneIncident(polled, polled)'
            BY <1>5, <1>8, <2>1, <3>1
        <3>3. \E c \in 0..polled : Noted(c)' /\ OneIncident(c, polled)'
            BY <2>1, <3>2
        <3> QED BY <3>3 DEF NotedUpTo
    <2>4. \A m \in 1..committedTo' : Sustained(m)' => NotedUpTo(m)'
        BY <1>1, <1>5 DEF IncidentNoted
    <2>5. loop' # "create"
        OBVIOUS
    <2> QED BY <1>6, <2>2, <2>3, <2>4, <2>5 DEF IncidentNoted
<1>12. RearmedSince'
    <2>1. ASSUME NEW x \in DOMAIN jobs
          PROVE  /\ jobs'[x].life <= life
                 /\ jobs'[x].kind = "anomaly" /\ jobs'[x].life = life =>
                       /\ jobs'[x].cause <= polled
                       /\ ~Reported => \E z \in jobs'[x].cause + 1..polled : Rearms(z)'
        BY <1>1, <1>3, <1>5 DEF RearmedSince
    <2>2. /\ jobs'[N].life <= life /\ jobs'[N].cause <= polled
          /\ jobs'[N].kind = "anomaly" => Reported
        BY <1>1, <1>3, <1>6, <1>7 DEF IncidentNoted, ConsumerType
    <2> QED BY <1>3, <1>6, <2>1, <2>2 DEF RearmedSince
<1>13. OneReportPerIncident'
    <2> SUFFICES ASSUME NEW x \in DOMAIN jobs', NEW y \in DOMAIN jobs', x < y,
                        jobs'[x].kind = "anomaly", jobs'[y].kind = "anomaly", jobs'[x].life = jobs'[y].life
                 PROVE  ~OneIncident(jobs'[x].cause, jobs'[y].cause)
        BY <1>5 DEF OneReportPerIncident
    <2>1. x \in DOMAIN jobs /\ x # N
        <3>1. DOMAIN jobs \subseteq Nat /\ N \in Nat
            BY <1>2 DEF ReportType
        <3> QED BY <1>3, <3>1
    <2>2. CASE y \in DOMAIN jobs
        BY <1>1, <1>3, <2>1, <2>2 DEF OneReportPerIncident
    <2>3. CASE y = N
        <3>1. jobs[x].kind = "anomaly" /\ jobs[x].life = life /\ Anomalous /\ jobs'[y].cause = polled
            BY <1>3, <1>7, <2>1, <2>3
        <3>2. \E z \in jobs[x].cause + 1..polled - 1 : Rearms(z)
            BY <1>1, <2>1, <3>1 DEF RearmedSince
        <3> QED BY <1>3, <2>1, <3>1, <3>2 DEF OneIncident
    <2> QED BY <1>3, <2>2, <2>3
<1> QED BY <1>9, <1>10, <1>11, <1>12, <1>13 DEF LoopInv

LEMMA RecordedInv ==
    ASSUME LoopInv, ReportType, CreateJob \/ Scheduled
    PROVE  LoopInv'
<1>1. CASE CreateJob
    <2>1. loop = "create" /\ pending \in {"anomaly", "recovery"}
        BY <1>1 DEF CreateJob, ReportType
    <2>2. batch \in BOOLEAN
        BY DEF LoopInv, ConsumerType
    <2> QED BY <1>1, <2>1, <2>2, JobRecorded DEF CreateJob
<1>2. CASE Scheduled
    <2>1. pending \in {"anomaly", "recovery", Nil}
        BY DEF ReportType
    <2>2. /\ Record("scheduled") /\ loop = "poll" /\ loop' = "poll" /\ batch' = FALSE /\ pending' = pending
          /\ UNCHANGED <<instance, committedTo, polled, tracker, life, restarts, unrecorded, faults>>
        BY <1>2 DEF Scheduled
    <2> QED BY <2>1, <2>2, JobRecorded
<1> QED BY <1>1, <1>2

\* No job can be recorded, or the offset is committed, or it cannot be.
LEMMA LoopGoesOnInv ==
    ASSUME LoopInv, CreateFails \/ CommitOffset \/ CommitFails
    PROVE  LoopInv'
<1>1. ConsumerType /\ TrackerFollows /\ IncidentNoted /\ RearmedSince /\ OneReportPerIncident
    BY DEF LoopInv
<1>2. UNCHANGED <<instance, polled, tracker, jobs, life, restarts, batch, stream>> /\ unrecorded \subseteq unrecorded'
    BY DEF CreateFails, CommitOffset, CommitFails, stream
<1>3. /\ loop \in {"create", "commit"} /\ loop' \in {"commit", "poll", "ended"}
      /\ pending' \in {pending, Nil} /\ committedTo' \in {committedTo, polled}
      /\ faults' \in 0..instance.faults
    <2>1. faults \in 0..instance.faults /\ instance.faults \in Nat
        BY <1>1, StreamType DEF ConsumerType
    <2> QED BY <2>1 DEF CreateFails, CommitOffset, CommitFails, ReportFault
<1>4. /\ \A z : Rearms(z)' = Rearms(z)
      /\ \A a, b : OneIncident(a, b)' = OneIncident(a, b)
      /\ \A c : Noted(c) => Noted(c)'
      /\ \A m : NotedUpTo(m) => NotedUpTo(m)'
      /\ \A m : Sustained(m)' => Sustained(m)
    BY <1>2, NotedKept
<1>5. Reported' = Reported /\ ~Anomalous' /\ polled \in Nat /\ committedTo \in Nat /\ Len(stream) \in Nat
    BY <1>1, <1>2, <1>3, StreamType DEF Reported, Anomalous, ConsumerType
<1>6. ConsumerType'
    <2>1. unrecorded' \subseteq Nat \X Nat
        <3>1. unrecorded' \subseteq unrecorded \cup {<<polled, life>>}
            BY DEF CreateFails, CommitOffset, CommitFails
        <3>2. unrecorded \subseteq Nat \X Nat /\ life \in Nat
            BY <1>1 DEF ConsumerType
        <3> QED BY <1>5, <3>1, <3>2
    <2>2. /\ committedTo' \in 0..polled' /\ polled' <= committedTo' + 1
          /\ restarts' \subseteq 0..committedTo'
        <3>1. committedTo \in 0..polled /\ polled <= committedTo + 1 /\ restarts \subseteq 0..committedTo
            BY <1>1 DEF ConsumerType
        <3>2. CASE committedTo' = committedTo
            BY <1>2, <3>1, <3>2
        <3>3. CASE committedTo' = polled
            BY <1>2, <1>5, <3>1, <3>3
        <3> QED BY <1>3, <3>2, <3>3
    <2>3. loop' = "poll" => committedTo' = polled
        BY DEF CreateFails, CommitOffset, CommitFails
    <2> QED BY <1>1, <1>2, <1>3, <2>1, <2>2, <2>3 DEF ConsumerType
<1>7. TrackerFollows'
    BY <1>1, <1>2 DEF TrackerFollows
<1>8. IncidentNoted'
    <2>1. OneIncident(polled, polled + 1) /\ OneIncident(polled, polled) /\ polled \in 0..polled
        BY <1>5 DEF OneIncident
    <2>2. CreateFails /\ pending = "anomaly" => Noted(polled)'
        <3> DEFINE u == <<polled, life>>
        <3>1. CreateFails /\ pending = "anomaly" => u \in unrecorded'
            BY DEF CreateFails
        <3>2. u[1] = polled
            OBVIOUS
        <3> HIDE DEF u
        <3> QED BY <1>2, <3>1, <3>2 DEF Noted
    <2>3. ASSUME Reported PROVE \E c \in 0..polled : Noted(c)' /\ OneIncident(c, polled + 1)'
        <3>1. CASE Anomalous
            <4>1. Noted(polled)'
                BY <2>2, <3>1 DEF Anomalous, CommitOffset, CommitFails
            <4> QED BY <1>2, <1>4, <2>1, <4>1
        <3>2. CASE ~Anomalous
            BY <1>1, <1>2, <1>4, <2>3, <3>2 DEF IncidentNoted
        <3> QED BY <3>1, <3>2
    <2>4. ASSUME loop' = "commit", Sustained(polled)' PROVE NotedUpTo(polled)'
        <3>1. CreateFails /\ loop = "create"
            BY <2>4 DEF CreateFails, CommitOffset, CommitFails
        <3>2. pending = "anomaly"
            BY <1>1, <1>2, <1>4, <2>4, <3>1 DEF IncidentNoted
        <3>3. \E c \in 0..polled : Noted(c)' /\ OneIncident(c, polled)'
            BY <1>2, <1>4, <2>1, <2>2, <3>1, <3>2
        <3> QED BY <1>2, <3>3 DEF NotedUpTo
    <2>5. ASSUME NEW m \in 1..committedTo', Sustained(m)' PROVE NotedUpTo(m)'
        <3>1. CASE m <= committedTo
            <4>1. m \in 1..committedTo
                BY <1>1, <1>3, <1>5, <3>1
            <4> QED BY <1>1, <1>4, <2>5, <4>1 DEF IncidentNoted
        <3>2. CASE ~(m <= committedTo)
            <4>1. committedTo' # committedTo
                BY <3>2, <1>5
            <4>2. CommitOffset /\ m = polled
                BY <1>1, <1>3, <1>5, <3>2, <4>1 DEF CreateFails, CommitFails, ConsumerType
            <4> QED BY <1>1, <1>4, <2>5, <4>2 DEF IncidentNoted, CommitOffset
        <3> QED BY <3>1, <3>2
    <2>6. loop' # "create"
        BY <1>3
    <2> QED BY <1>2, <1>5, <2>3, <2>4, <2>5, <2>6 DEF IncidentNoted
<1>9. RearmedSince'
    BY <1>1, <1>2, <1>4, <1>5 DEF RearmedSince
<1>10. OneReportPerIncident'
    BY <1>1, <1>2, <1>4 DEF OneReportPerIncident
<1> QED BY <1>6, <1>7, <1>8, <1>9, <1>10 DEF LoopInv

\* A gateway starts again from the committed offset and has forgotten the tag.
LEMMA RestartLoopInv ==
    ASSUME LoopInv, ReportType, Restart
    PROVE  LoopInv'
<1>1. ConsumerType /\ IncidentNoted /\ RearmedSince /\ OneReportPerIncident
    BY DEF LoopInv
<1>2. /\ UNCHANGED <<instance, committedTo, jobs, unrecorded, stream>>
      /\ polled' = committedTo /\ tracker' = Nil /\ loop' = "poll" /\ pending' = Nil /\ batch' = FALSE
      /\ life' = life + 1 /\ restarts' = restarts \cup {committedTo} /\ faults' = faults + 1
      /\ faults < instance.faults
    BY DEF Restart, ReportFault, stream
<1>3. /\ \A a, b : OneIncident(a, b)' = OneIncident(a, b)
      /\ \A m : NotedUpTo(m) => NotedUpTo(m)'
      /\ \A m : Sustained(m)' => Sustained(m)
    BY <1>2, NotedKept
<1>4. /\ committedTo \in Nat /\ polled \in Nat /\ life \in Nat /\ Len(stream) \in Nat
      /\ faults \in Nat /\ instance.faults \in Nat
    BY <1>1, StreamType DEF ConsumerType
<1>5. ~Reported' /\ ~Anomalous'
    BY <1>2 DEF Reported, Anomalous
<1>6. ConsumerType'
    <2>1. committedTo \in 0..Len(stream) /\ committedTo \in 0..committedTo /\ committedTo <= committedTo + 1
        BY <1>1, <1>4 DEF ConsumerType
    <2>2. faults' \in 0..instance.faults /\ life' \in Nat
        BY <1>2, <1>4
    <2>3. restarts' \subseteq 0..committedTo
        BY <1>1, <1>2, <2>1 DEF ConsumerType
    <2> QED BY <1>1, <1>2, <2>1, <2>2, <2>3 DEF ConsumerType
<1>7. TrackerFollows'
    <2>1. \A i \in 1..committedTo : ~(committedTo < i)
        BY <1>4
    <2> QED BY <1>2, <2>1 DEF TrackerFollows
<1>8. IncidentNoted'
    BY <1>1, <1>2, <1>3, <1>5 DEF IncidentNoted
<1>9. RearmedSince'
    <2>1. \A x \in DOMAIN jobs : jobs[x].life <= life /\ jobs[x].life \in Nat
        <3>1. \A x \in DOMAIN jobs : jobs[x] \in Job
            BY DEF ReportType
        <3> QED BY <1>1, <3>1 DEF RearmedSince, Job
    <2>2. \A x \in DOMAIN jobs : jobs[x].life <= life + 1 /\ jobs[x].life # life + 1
        BY <1>4, <2>1
    <2> QED BY <1>2, <2>2 DEF RearmedSince
<1>10. OneReportPerIncident'
    BY <1>1, <1>2, <1>3 DEF OneReportPerIncident
<1> QED BY <1>6, <1>7, <1>8, <1>9, <1>10 DEF LoopInv

-----------------------------------------------------------------------------
(* What the workers make of the table.                                     *)

Holders(x) == {w \in Slots : work[w] = x}

\* While two workers are at a job, or one is at a job that is over or free again, its lease was lost.
LeaseWasLost ==
    /\ \A v, w \in Slots : v # w /\ work[v] = work[w] /\ work[v] # Nil => jobs[work[v]].shared
    /\ \A w \in Slots :
          work[w] # Nil /\ jobs[work[w]].status \notin {"processing", "expired"} => jobs[work[w]].shared

\* A job that is not over may be tried again; each worker at it may count one attempt more.
AttemptsLeft ==
    \A x \in DOMAIN jobs :
        /\ jobs[x].status \in {"pending", "processing", "expired"} => jobs[x].attempts < MaxAttempts
        /\ jobs[x].attempts + Cardinality(Holders(x)) < MaxAttempts + Max({1, Cardinality(Slots)})

WorkType ==
    /\ work \in [Slots -> DOMAIN jobs \cup {Nil}]
    /\ \A w \in Slots : workerPc[w] \in {"generate", "complete", "fail"} <=> work[w] # Nil

WorkInv == WorkType /\ LeaseWasLost /\ AttemptsLeft

LEMMA TheGreater ==
    ASSUME NEW n \in Nat
    PROVE  Max({1, n}) \in Nat /\ Max({1, n}) >= 1 /\ Max({1, n}) >= n
<1>1. \E m \in {1, n} : \A k \in {1, n} : m >= k
    OBVIOUS
<1> QED BY <1>1 DEF Max

LEMMA SlotsCount ==
    ASSUME instance \in Instances
    PROVE  /\ Slots \subseteq Workers /\ Nil \notin Slots /\ Nil \notin Nat /\ MaxAttempts \in Nat \ {0}
           /\ \A S \in SUBSET Slots : /\ IsFiniteSet(S) /\ Cardinality(S) \in Nat
                                      /\ Cardinality(S) <= Cardinality(Slots)
           /\ Max({1, Cardinality(Slots)}) \in Nat
           /\ Max({1, Cardinality(Slots)}) >= 1 /\ Max({1, Cardinality(Slots)}) >= Cardinality(Slots)
<1>1. Slots \subseteq Workers
    <2>1. instance.workers \subseteq Workers
        BY ReportAssumption
    <2> QED BY <2>1 DEF Slots
<1>2. IsFiniteSet(Slots)
    BY <1>1, ReportAssumption, FS_Subset
<1>3. \A S \in SUBSET Slots : /\ IsFiniteSet(S) /\ Cardinality(S) \in Nat
                              /\ Cardinality(S) <= Cardinality(Slots)
    BY <1>2, FS_Subset, FS_CardinalityType
<1>4. Cardinality(Slots) \in Nat
    BY <1>2, FS_CardinalityType
<1>5. MaxAttempts \in Nat \ {0} /\ Nil \notin Workers /\ Nil \notin Nat
    BY ReportAssumption
<1> QED BY <1>1, <1>3, <1>4, <1>5, TheGreater

\* A step that touches no worker and no entry but one, whose attempts and history it keeps.
LEMMA WorkersUntouched ==
    ASSUME ReportType, WorkInv, UNCHANGED <<instance, work>>,
           DOMAIN jobs \subseteq DOMAIN jobs', DOMAIN jobs' \subseteq Nat,
           \A w \in Slots : workerPc'[w] \in {"generate", "complete", "fail"} <=> work[w] # Nil,
           \A x \in DOMAIN jobs :
              /\ jobs'[x].shared = jobs[x].shared /\ jobs'[x].attempts = jobs[x].attempts
              /\ \/ jobs'[x].status = jobs[x].status
                 \/ jobs[x].status = "processing" /\ jobs'[x].status = "expired",
           \A x \in DOMAIN jobs' \ DOMAIN jobs : jobs'[x].status = "pending" /\ jobs'[x].attempts = 0
    PROVE  WorkInv'
<1>1. WorkType /\ LeaseWasLost /\ AttemptsLeft
    BY DEF WorkInv
<1>2. Slots' = Slots /\ \A x : Holders(x)' = Holders(x)
    BY DEF Slots, Holders
<1>3. WorkType'
    BY <1>1, <1>2 DEF WorkType
<1>4. LeaseWasLost'
    <2>1. \A w \in Slots : work[w] # Nil => work[w] \in DOMAIN jobs
        BY <1>1 DEF WorkType
    <2> QED BY <1>1, <1>2, <2>1 DEF LeaseWasLost
<1>5. AttemptsLeft'
    <2>1. ASSUME NEW x \in DOMAIN jobs' \ DOMAIN jobs
          PROVE  /\ jobs'[x].attempts < MaxAttempts
                 /\ jobs'[x].attempts + Cardinality(Holders(x)) < MaxAttempts + Max({1, Cardinality(Slots)})
        <3>1. \A w \in Slots : work[w] # x
            <4>1. x \in Nat
                BY <2>1
            <4> QED BY <1>1, <2>1, <4>1, SlotsCount DEF WorkType, ReportType
        <3>2. Holders(x) = {} /\ Cardinality(Holders(x)) = 0
            BY <3>1, FS_EmptySet DEF Holders
        <3> QED BY <2>1, <3>2, SlotsCount DEF ReportType
    <2> QED BY <1>1, <1>2, <2>1 DEF AttemptsLeft
<1> QED BY <1>3, <1>4, <1>5 DEF WorkInv

\* A worker is done with its job, whose entry it may have written.
LEMMA WorkerReleases ==
    ASSUME ReportType, WorkInv, UNCHANGED instance, NEW w \in Slots, NEW x \in DOMAIN jobs, work[w] = x,
           NEW job \in Job, jobs' = [jobs EXCEPT ![x] = job],
           job.shared = jobs[x].shared,
           job.attempts = jobs[x].attempts \/ job.attempts = jobs[x].attempts + 1,
           job.status \in {"pending", "processing", "expired"} => job.attempts < MaxAttempts,
           NEW place \in {"idle", "ended"}, workerPc' = [workerPc EXCEPT ![w] = place],
           work' = [work EXCEPT ![w] = Nil]
    PROVE  WorkInv'
<1>1. WorkType /\ LeaseWasLost /\ AttemptsLeft
    BY DEF WorkInv
<1>2. /\ DOMAIN jobs' = DOMAIN jobs /\ jobs'[x] = job
      /\ \A y \in DOMAIN jobs : y # x => jobs'[y] = jobs[y]
    BY UpdateType DEF ReportType
<1>3. Slots' = Slots /\ x \in Nat /\ Nil \notin Nat /\ x # Nil
    BY SlotsCount DEF Slots, ReportType
<1>4. /\ work'[w] = Nil /\ \A v \in Slots : v # w => work'[v] = work[v]
      /\ workerPc'[w] = place /\ \A v \in Slots : v # w => workerPc'[v] = workerPc[v]
    BY <1>1 DEF WorkType, ReportType
<1>5. WorkType'
    BY <1>1, <1>2, <1>3, <1>4 DEF WorkType
<1>6. LeaseWasLost'
    <2>1. \A v \in Slots : work[v] # Nil => work[v] \in DOMAIN jobs
        BY <1>1 DEF WorkType
    <2>2. \A y \in DOMAIN jobs : jobs'[y].shared = jobs[y].shared
        BY <1>2
    <2>3. ASSUME NEW u \in Slots, NEW v \in Slots, u # v, work'[u] = work'[v], work'[u] # Nil
          PROVE  jobs'[work'[u]].shared
        BY <1>1, <1>4, <2>1, <2>2, <2>3 DEF LeaseWasLost
    <2>4. ASSUME NEW u \in Slots, work'[u] # Nil, jobs'[work'[u]].status \notin {"processing", "expired"}
          PROVE  jobs'[work'[u]].shared
        <3>1. u # w /\ work'[u] = work[u] /\ work[u] \in DOMAIN jobs
            BY <1>4, <2>1, <2>4
        <3>2. CASE work[u] = x
            BY <1>1, <1>3, <2>2, <3>1, <3>2 DEF LeaseWasLost
        <3>3. CASE work[u] # x
            BY <1>1, <1>2, <1>3, <2>4, <3>1, <3>3 DEF LeaseWasLost
        <3> QED BY <3>2, <3>3
    <2> QED BY <1>3, <2>3, <2>4 DEF LeaseWasLost
<1>7. AttemptsLeft'
    <2>1. ASSUME NEW y \in DOMAIN jobs, y # x PROVE Holders(y)' = Holders(y)
        <3>1. y \in Nat /\ y # Nil
            BY <1>3, <2>1 DEF ReportType
        <3> QED BY <1>3, <1>4, <2>1, <3>1 DEF Holders
    <2>2. Holders(x)' = Holders(x) \ {w} /\ w \in Holders(x)
        BY <1>3, <1>4 DEF Holders
    <2>3. Cardinality(Holders(x)') = Cardinality(Holders(x)) - 1 /\ Cardinality(Holders(x)) \in Nat
        <3>1. IsFiniteSet(Holders(x)) /\ Cardinality(Holders(x)) \in Nat
            BY SlotsCount DEF Holders, ReportType
        <3>2. Cardinality(Holders(x) \ {w}) = Cardinality(Holders(x)) - 1
            BY <2>2, <3>1, FS_RemoveElement
        <3> QED BY <2>2, <3>1, <3>2
    <2>4. jobs[x].attempts \in Nat /\ job.attempts \in Nat
        <3>1. jobs[x] \in Job
            BY DEF ReportType
        <3> QED BY <3>1 DEF Job
    <2>5. job.attempts + Cardinality(Holders(x)') < MaxAttempts + Max({1, Cardinality(Slots)})
        <3>1. jobs[x].attempts + Cardinality(Holders(x)) < MaxAttempts + Max({1, Cardinality(Slots)})
            BY <1>1 DEF AttemptsLeft
        <3>2. MaxAttempts \in Nat /\ Max({1, Cardinality(Slots)}) \in Nat
            BY SlotsCount DEF ReportType
        <3> QED BY <2>3, <2>4, <3>1, <3>2
    <2> QED BY <1>1, <1>2, <1>3, <2>1, <2>5 DEF AttemptsLeft
<1> QED BY <1>5, <1>6, <1>7 DEF WorkInv

\* A worker claims a job that is pending, or whose lease has run out on another.
LEMMA ClaimWork ==
    ASSUME ReportType, WorkInv, NEW w \in Slots, Claim(w)
    PROVE  WorkInv'
<1>1. WorkType /\ LeaseWasLost /\ AttemptsLeft
    BY DEF WorkInv
<1>2. PICK x \in DOMAIN jobs :
         /\ Claimable(x)
         /\ jobs' = [jobs EXCEPT ![x].status = "processing", ![x].worker = w,
                                 ![x].shared = @ \/ \E v \in Slots : work[v] = x]
         /\ work' = [work EXCEPT ![w] = x]
    BY DEF Claim
<1> DEFINE job == [jobs[x] EXCEPT !.status = "processing", !.worker = w,
                                  !.shared = @ \/ \E v \in Slots : work[v] = x]
<1>3. w \in Workers /\ x \in Nat /\ jobs[x] \in Job /\ x # Nil
    BY SlotsCount DEF ReportType
<1>4. /\ job \in Job /\ job.status = "processing" /\ job.attempts = jobs[x].attempts
      /\ job.shared <=> jobs[x].shared \/ \E v \in Slots : work[v] = x
    BY <1>3 DEF Job
<1>5. jobs' = [jobs EXCEPT ![x] = job]
    BY <1>2
<1> HIDE DEF job
<1>6. /\ DOMAIN jobs' = DOMAIN jobs /\ jobs'[x] = job
      /\ \A y \in DOMAIN jobs : y # x => jobs'[y] = jobs[y]
    BY <1>4, <1>5, UpdateType DEF ReportType
<1>7. workerPc[w] = "idle" /\ workerPc' = [workerPc EXCEPT ![w] = "generate"] /\ UNCHANGED <<instance, Slots>>
    BY DEF Claim, Slots
<1>8. /\ work[w] = Nil /\ work'[w] = x /\ \A v \in Slots : v # w => work'[v] = work[v]
      /\ workerPc'[w] = "generate" /\ \A v \in Slots : v # w => workerPc'[v] = workerPc[v]
    BY <1>1, <1>2, <1>7 DEF WorkType, ReportType
<1>9. WorkType'
    BY <1>1, <1>2, <1>3, <1>6, <1>7, <1>8 DEF WorkType
<1>10. LeaseWasLost'
    <2>1. \A v \in Slots : work[v] # Nil => work[v] \in DOMAIN jobs
        BY <1>1 DEF WorkType
    <2>2. \A y \in DOMAIN jobs : jobs[y].shared => jobs'[y].shared
        BY <1>4, <1>6
    <2>3. ASSUME NEW u \in Slots, NEW v \in Slots, u # v, work'[u] = work'[v], work'[u] # Nil
          PROVE  jobs'[work'[u]].shared
        <3>1. CASE u # w /\ v # w
            BY <1>1, <1>8, <2>1, <2>2, <2>3, <3>1 DEF LeaseWasLost
        <3>2. CASE u = w \/ v = w
            <4>1. work'[u] = x /\ \E t \in Slots : work[t] = x
                BY <1>8, <2>3, <3>2
            <4> QED BY <1>4, <1>6, <4>1
        <3> QED BY <3>1, <3>2
    <2>4. ASSUME NEW u \in Slots, work'[u] # Nil, jobs'[work'[u]].status \notin {"processing", "expired"}
          PROVE  jobs'[work'[u]].shared
        <3>1. work'[u] # x
            BY <1>4, <1>6, <2>4
        <3>2. u # w /\ work'[u] = work[u] /\ work[u] \in DOMAIN jobs
            BY <1>8, <2>1, <2>4, <3>1
        <3> QED BY <1>1, <1>6, <2>4, <3>1, <3>2 DEF LeaseWasLost
    <2> QED BY <1>7, <2>3, <2>4 DEF LeaseWasLost
<1>11. AttemptsLeft'
    <2>1. ASSUME NEW y \in DOMAIN jobs, y # x PROVE Holders(y)' = Holders(y)
        <3>1. y \in Nat /\ y # Nil
            BY <2>1, SlotsCount DEF ReportType
        <3> QED BY <1>7, <1>8, <2>1, <3>1 DEF Holders
    <2>2. jobs[x].attempts < MaxAttempts /\ jobs[x].attempts \in Nat
        BY <1>1, <1>2, <1>3 DEF AttemptsLeft, Claimable, Job
    <2>3. /\ Cardinality(Holders(x)') \in Nat /\ Cardinality(Holders(x)') <= Cardinality(Slots)
          /\ MaxAttempts \in Nat /\ Max({1, Cardinality(Slots)}) \in Nat /\ Cardinality(Slots) \in Nat
          /\ Max({1, Cardinality(Slots)}) >= Cardinality(Slots)
        <3>1. Holders(x)' \subseteq Slots
            BY <1>7 DEF Holders
        <3> QED BY <3>1, SlotsCount DEF ReportType
    <2>4. job.attempts + Cardinality(Holders(x)') < MaxAttempts + Max({1, Cardinality(Slots)})
        BY <1>4, <2>2, <2>3
    <2> QED BY <1>1, <1>4, <1>6, <1>7, <2>1, <2>2, <2>4 DEF AttemptsLeft
<1> QED BY <1>9, <1>10, <1>11 DEF WorkInv

\* No worker is at any job.
LEMMA NobodyWorks ==
    ASSUME ReportType, WorkInv, UNCHANGED <<instance, jobs>>, NEW place \in {"idle", "ended"},
           workerPc' = [w \in Slots |-> place], work' = [w \in Slots |-> Nil]
    PROVE  WorkInv'
<1>1. AttemptsLeft /\ Slots' = Slots
    BY DEF WorkInv, Slots
<1>2. WorkType' /\ LeaseWasLost'
    BY <1>1 DEF WorkType, LeaseWasLost
<1>3. AttemptsLeft'
    <2>1. ASSUME NEW x \in DOMAIN jobs
          PROVE  jobs[x].attempts + Cardinality(Holders(x)') < MaxAttempts + Max({1, Cardinality(Slots)})
        <3>1. x \in Nat /\ x # Nil /\ jobs[x].attempts \in Nat
            <4>1. jobs[x] \in Job
                BY DEF ReportType
            <4> QED BY <4>1, SlotsCount DEF ReportType, Job
        <3>2. Holders(x)' = {} /\ Cardinality(Holders(x)') = 0
            BY <1>1, <3>1, FS_EmptySet DEF Holders
        <3>3. /\ Cardinality(Holders(x)) \in Nat /\ MaxAttempts \in Nat
              /\ Max({1, Cardinality(Slots)}) \in Nat
            BY SlotsCount DEF ReportType, Holders
        <3>4. jobs[x].attempts + Cardinality(Holders(x)) < MaxAttempts + Max({1, Cardinality(Slots)})
            BY <1>1 DEF AttemptsLeft
        <3> QED BY <3>1, <3>2, <3>3, <3>4
    <2> QED BY <1>1, <2>1 DEF AttemptsLeft
<1> QED BY <1>2, <1>3 DEF WorkInv

-----------------------------------------------------------------------------
(* All of it together, and what follows.                                   *)

PublishedType == published \subseteq DOMAIN jobs

ReportsInv == ReportInv /\ LoopInv /\ WorkInv /\ PublishedType

LEMMA WorkInit == ReportInit => WorkInv
<1> SUFFICES ASSUME ReportInit PROVE WorkInv
    OBVIOUS
<1>1. WorkType /\ LeaseWasLost /\ AttemptsLeft
    BY DEF ReportInit, WorkType, LeaseWasLost, AttemptsLeft
<1> QED BY <1>1 DEF WorkInv

\* What a step of a worker leaves of the consumer and of the jobs' origin.
LEMMA WorkerLeaves ==
    ASSUME ReportInv, LoopInv,
           \/ \E w \in Slots : \/ Claim(w) \/ Generate(w) \/ GenerateFails(w)
                               \/ Complete(w) \/ CompleteFails(w) \/ Fail(w) \/ FailFails(w)
           \/ \E x \in DOMAIN jobs : LeaseExpires(x)
    PROVE  LoopInv'
<1>1. ReportType /\ jobs \in Seq(Job)
    BY DEF ReportInv, ReportType
<1>2. UNCHANGED <<instance, consumer, life, restarts, unrecorded>>
    BY DEF Claim, Generate, GenerateFails, Complete, CompleteFails, Fail, FailFails, LeaseExpires
<1>3. faults' \in 0..instance.faults
    <2>1. faults \in 0..instance.faults /\ instance.faults \in Nat
        BY StreamType DEF LoopInv, ConsumerType
    <2>2. UNCHANGED faults \/ (faults < instance.faults /\ faults' = faults + 1)
        BY DEF Claim, Generate, GenerateFails, Complete, CompleteFails, Fail, FailFails,
               LeaseExpires, ReportFault
    <2> QED BY <2>1, <2>2
<1>4. /\ DOMAIN jobs' = DOMAIN jobs
      /\ \A x \in DOMAIN jobs : /\ jobs'[x].kind = jobs[x].kind /\ jobs'[x].cause = jobs[x].cause
                                /\ jobs'[x].life = jobs[x].life
    <2> DEFINE Kept == /\ DOMAIN jobs' = DOMAIN jobs
                       /\ \A x \in DOMAIN jobs : /\ jobs'[x].kind = jobs[x].kind
                                                 /\ jobs'[x].cause = jobs[x].cause
                                                 /\ jobs'[x].life = jobs[x].life
    <2>1. ASSUME NEW x \in DOMAIN jobs, LeaseExpires(x) PROVE Kept
        <3>1. jobs' = [jobs EXCEPT ![x].status = "expired"]
            BY <2>1 DEF LeaseExpires
        <3> QED BY <1>1, <3>1 DEF Job
    <2>2. ASSUME NEW w \in Slots, Claim(w) PROVE Kept
        <3>1. PICK x \in DOMAIN jobs :
                 jobs' = [jobs EXCEPT ![x].status = "processing", ![x].worker = w,
                                      ![x].shared = @ \/ \E v \in Slots : work[v] = x]
            BY <2>2 DEF Claim
        <3>2. PICK b : b = (jobs[x].shared \/ \E v \in Slots : work[v] = x)
            OBVIOUS
        <3>3. jobs' = [jobs EXCEPT ![x] = [jobs[x] EXCEPT !.status = "processing", !.worker = w, !.shared = b]]
            BY <1>1, <3>1, <3>2
        <3> QED BY <1>1, <3>3 DEF Job
    <2>3. ASSUME NEW w \in Slots, Complete(w) PROVE Kept
        BY <1>1, <2>3 DEF Complete, Job
    <2>4. ASSUME NEW w \in Slots, Fail(w) PROVE Kept
        BY <1>1, <2>4 DEF Fail, Job
    <2>5. ASSUME NEW w \in Slots, Generate(w) \/ GenerateFails(w) \/ CompleteFails(w) \/ FailFails(w)
          PROVE  Kept
        BY <2>5 DEF Generate, GenerateFails, CompleteFails, FailFails
    <2> QED BY <2>1, <2>2, <2>3, <2>4, <2>5
<1> QED BY <1>2, <1>3, <1>4, ConsumerUntouched

LEMMA FollowStep == ReportInv /\ LoopInv /\ [ReportNext]_reportVars => LoopInv'
<1> SUFFICES ASSUME ReportInv, LoopInv, [ReportNext]_reportVars PROVE LoopInv'
    OBVIOUS
<1>1. ReportType
    BY DEF ReportInv
<1>2. CASE Consume
    BY <1>1, <1>2, ConsumeInv
<1>3. CASE CreateJob \/ Scheduled
    BY <1>1, <1>3, RecordedInv
<1>4. CASE CreateFails \/ CommitOffset \/ CommitFails
    BY <1>4, LoopGoesOnInv
<1>5. CASE Restart
    BY <1>1, <1>5, RestartLoopInv
<1>6. CASE \/ \E w \in Slots : \/ Claim(w) \/ Generate(w) \/ GenerateFails(w)
                               \/ Complete(w) \/ CompleteFails(w) \/ Fail(w) \/ FailFails(w)
           \/ \E x \in DOMAIN jobs : LeaseExpires(x)
    BY <1>6, WorkerLeaves
<1>7. CASE UNCHANGED reportVars
    <2>1. faults \in 0..instance.faults /\ UNCHANGED <<instance, consumer, life, restarts, unrecorded, jobs, faults>>
        BY <1>7 DEF LoopInv, ConsumerType, reportVars
    <2> QED BY <2>1, ConsumerUntouched
<1> QED BY <1>2, <1>3, <1>4, <1>5, <1>6, <1>7 DEF ReportNext

LEMMA WorkStep == ReportInv /\ WorkInv /\ [ReportNext]_reportVars => WorkInv'
<1> SUFFICES ASSUME ReportInv, WorkInv, [ReportNext]_reportVars PROVE WorkInv'
    OBVIOUS
<1>1. ReportType /\ jobs \in Seq(Job) /\ DOMAIN jobs \subseteq Nat /\ WorkType
    BY DEF ReportInv, ReportType, WorkInv
<1>2. CASE Consume \/ CreateFails \/ CommitOffset
    <2>1. UNCHANGED <<instance, jobs, workerPc, work>>
        BY <1>2 DEF Consume, CreateFails, CommitOffset, workers
    <2> QED BY <1>1, <2>1, WorkersUntouched DEF WorkType
<1>3. CASE CreateJob \/ Scheduled
    <2>1. PICK kind \in {"anomaly", "recovery", "scheduled"} : Record(kind)
        BY <1>1, <1>3 DEF CreateJob, Scheduled, ReportType
    <2>2. UNCHANGED <<instance, workerPc, work>> /\ polled \in Nat /\ life \in Nat
        BY <1>1, <1>3 DEF CreateJob, Scheduled, workers, ReportType
    <2>3. /\ jobs' \in Seq(Job) /\ DOMAIN jobs \subseteq DOMAIN jobs'
          /\ \A x \in DOMAIN jobs : jobs'[x] = jobs[x]
          /\ \A x \in DOMAIN jobs' \ DOMAIN jobs : jobs'[x].status = "pending" /\ jobs'[x].attempts = 0
        BY <1>1, <2>1, <2>2, RecordType
    <2>4. DOMAIN jobs' \subseteq Nat
        BY <2>3
    <2> QED BY <1>1, <2>2, <2>3, <2>4, WorkersUntouched DEF WorkType
<1>4. CASE CommitFails \/ Restart
    <2>1. /\ UNCHANGED <<instance, jobs>> /\ work' = [w \in Slots |-> Nil]
          /\ \E place \in {"idle", "ended"} : workerPc' = [w \in Slots |-> place]
        BY <1>4 DEF CommitFails, Restart
    <2> QED BY <1>1, <2>1, NobodyWorks
<1>5. ASSUME NEW w \in Slots, Claim(w) PROVE WorkInv'
    BY <1>1, <1>5, ClaimWork
<1>6. ASSUME NEW w \in Slots, Generate(w) \/ GenerateFails(w) \/ CompleteFails(w) PROVE WorkInv'
    <2>1. UNCHANGED <<instance, jobs, work>>
        BY <1>6 DEF Generate, GenerateFails, CompleteFails
    <2>2. \A v \in Slots : workerPc'[v] \in {"generate", "complete", "fail"} <=> work[v] # Nil
        <3>1. /\ workerPc[w] \in {"generate", "complete"}
              /\ \E place \in {"complete", "fail"} : workerPc' = [workerPc EXCEPT ![w] = place]
            BY <1>6 DEF Generate, GenerateFails, CompleteFails
        <3> QED BY <1>1, <3>1 DEF WorkType, ReportType
    <2> QED BY <1>1, <2>1, <2>2, WorkersUntouched
<1>7. ASSUME NEW w \in Slots, Complete(w) \/ Fail(w) \/ FailFails(w) PROVE WorkInv'
    <2>1. PICK x : x = work[w]
        OBVIOUS
    <2>2. workerPc[w] \in {"complete", "fail"} /\ x \in DOMAIN jobs /\ jobs[x] \in Job /\ UNCHANGED instance
        BY <1>1, <1>7, <2>1 DEF Complete, Fail, FailFails, ReportType
    <2>3. work' = [work EXCEPT ![w] = Nil] /\ \E place \in {"idle", "ended"} : workerPc' = [workerPc EXCEPT ![w] = place]
        BY <1>7 DEF Complete, Fail, FailFails, Release
    <2>4. CASE Complete(w)
        <3> DEFINE job == [jobs[x] EXCEPT !.status = "completed"]
        <3>1. /\ job \in Job /\ job.shared = jobs[x].shared /\ job.attempts = jobs[x].attempts
              /\ job.status = "completed" /\ jobs' = [jobs EXCEPT ![x] = job]
            BY <2>1, <2>2, <2>4 DEF Complete, Job
        <3> HIDE DEF job
        <3> QED BY <1>1, <2>1, <2>2, <2>3, <3>1, WorkerReleases
    <2>5. CASE FailFails(w)
        <3>1. jobs' = [jobs EXCEPT ![x] = jobs[x]]
            BY <1>1, <2>2, <2>5 DEF FailFails
        <3>2. jobs[x].status \in {"pending", "processing", "expired"} => jobs[x].attempts < MaxAttempts
            BY <2>2 DEF WorkInv, AttemptsLeft
        <3> QED BY <1>1, <2>1, <2>2, <2>3, <3>1, <3>2, WorkerReleases
    <2>6. CASE Fail(w)
        <3> DEFINE outcome == IF jobs[x].attempts + 1 >= MaxAttempts THEN "failed" ELSE "pending"
                   job == [jobs[x] EXCEPT !.attempts = jobs[x].attempts + 1, !.status = outcome]
        <3>1. jobs' = [jobs EXCEPT ![x] = job]
            BY <2>1, <2>6 DEF Fail
        <3>2. /\ jobs[x].attempts + 1 \in Nat /\ outcome \in {"failed", "pending"} /\ MaxAttempts \in Nat
              /\ outcome = "pending" => jobs[x].attempts + 1 < MaxAttempts
            <4>1. jobs[x].attempts \in Nat
                BY <2>2 DEF Job
            <4>2. MaxAttempts \in Nat
                BY ReportAssumption
            <4> QED BY <4>1, <4>2
        <3> HIDE DEF outcome
        <3>3. /\ job \in Job /\ job.shared = jobs[x].shared /\ job.attempts = jobs[x].attempts + 1
              /\ job.status = outcome
            BY <2>2, <3>2 DEF Job
        <3> HIDE DEF job
        <3> QED BY <1>1, <2>1, <2>2, <2>3, <3>1, <3>2, <3>3, WorkerReleases
    <2> QED BY <1>7, <2>4, <2>5, <2>6
<1>8. ASSUME NEW x \in DOMAIN jobs, LeaseExpires(x) PROVE WorkInv'
    <2>1. UNCHANGED <<instance, workerPc, work>> /\ jobs[x].status = "processing" /\ jobs[x] \in Job
          /\ jobs' = [jobs EXCEPT ![x].status = "expired"]
        BY <1>1, <1>8 DEF LeaseExpires, workers
    <2>2. /\ DOMAIN jobs' = DOMAIN jobs
          /\ \A y \in DOMAIN jobs :
                /\ jobs'[y].shared = jobs[y].shared /\ jobs'[y].attempts = jobs[y].attempts
                /\ \/ jobs'[y].status = jobs[y].status
                   \/ jobs[y].status = "processing" /\ jobs'[y].status = "expired"
        BY <1>1, <2>1 DEF Job
    <2> QED BY <1>1, <2>1, <2>2, WorkersUntouched DEF WorkType
<1>9. CASE UNCHANGED reportVars
    BY <1>1, <1>9, WorkersUntouched DEF reportVars, workers, WorkType
<1> QED BY <1>2, <1>3, <1>4, <1>5, <1>6, <1>7, <1>8, <1>9 DEF ReportNext

LEMMA ReportsInit == ReportInit => ReportsInv
<1>1. ReportInit => PublishedType
    BY DEF ReportInit, PublishedType
<1> QED BY <1>1, InitInv, FollowInit, WorkInit DEF ReportsInv

LEMMA ReportsStep == ReportsInv /\ [ReportNext]_reportVars => ReportsInv'
<1>1. ASSUME ReportInv, PublishedType, [ReportNext]_reportVars PROVE PublishedType'
    <2>1. ReportType /\ jobs \in Seq(Job) /\ polled \in Nat /\ life \in Nat
        BY <1>1 DEF ReportInv, ReportType
    <2>2. published' = published \/ \E w \in Slots : workerPc[w] = "generate" /\ published' = published \cup {work[w]}
        BY <1>1 DEF ReportNext, Consume, CreateJob, CreateFails, CommitOffset, CommitFails, Scheduled, Claim,
                    Generate, GenerateFails, Complete, CompleteFails, Fail, FailFails, LeaseExpires,
                    Restart, reportVars
    <2>3. DOMAIN jobs \subseteq DOMAIN jobs'
        <3>1. CASE CreateJob \/ Scheduled
            <4>1. PICK kind \in {"anomaly", "recovery", "scheduled"} : Record(kind)
                BY <2>1, <3>1 DEF CreateJob, Scheduled, ReportType
            <4> QED BY <2>1, <4>1, RecordType
        <3>2. CASE ~(CreateJob \/ Scheduled)
            BY <1>1, <3>2 DEF ReportNext, Consume, CreateFails, CommitOffset, CommitFails, Claim,
                    Generate, GenerateFails, Complete, CompleteFails, Fail, FailFails, LeaseExpires,
                    Restart, reportVars
        <3> QED BY <3>1, <3>2
    <2>4. published' \subseteq DOMAIN jobs
        BY <1>1, <2>1, <2>2 DEF PublishedType, ReportType
    <2> QED BY <2>3, <2>4 DEF PublishedType
<1> QED BY <1>1, StepInv, FollowStep, WorkStep DEF ReportsInv

-----------------------------------------------------------------------------
(* Every variable of consume_loop, of the workers and of ai_report_jobs    *)
(* keeps its type: offsets stay in the stream and below the position, a    *)
(* worker has a job exactly while it is at one, and no job is tried more   *)
(* often than MaxAttempts and the workers at it allow.                     *)
THEOREM TypeCorrect == ReportSpec => []ReportTypeOK
<1>1. ReportsInv => ReportTypeOK
    <2> SUFFICES ASSUME ReportsInv PROVE ReportTypeOK
        OBVIOUS
    <2>1. ReportType /\ CompletedIsPublished /\ ConsumerType /\ WorkType /\ AttemptsLeft
        BY DEF ReportsInv, ReportInv, LoopInv, WorkInv
    <2>2. \A x \in DOMAIN jobs : jobs[x].attempts < MaxAttempts + Max({1, Cardinality(Slots)})
        <3> SUFFICES ASSUME NEW x \in DOMAIN jobs
                     PROVE  jobs[x].attempts < MaxAttempts + Max({1, Cardinality(Slots)})
            OBVIOUS
        <3>1. jobs[x].attempts + Cardinality(Holders(x)) < MaxAttempts + Max({1, Cardinality(Slots)})
            BY <2>1 DEF AttemptsLeft
        <3>2. jobs[x].attempts \in Nat
            <4>1. jobs[x] \in Job
                BY <2>1 DEF ReportType
            <4> QED BY <4>1 DEF Job
        <3>3. /\ Cardinality(Holders(x)) \in Nat /\ MaxAttempts \in Nat
              /\ Max({1, Cardinality(Slots)}) \in Nat
            BY <2>1, SlotsCount DEF ReportType, Holders
        <3> QED BY <3>1, <3>2, <3>3
    <2>3. restarts \subseteq 0..Len(stream)
        BY <2>1, StreamType DEF ConsumerType
    <2>4. published \subseteq DOMAIN jobs
        BY DEF ReportsInv, PublishedType
    <2> QED BY <2>1, <2>2, <2>3, <2>4 DEF ReportTypeOK, ReportType, ConsumerType, WorkType
<1> QED BY <1>1, ReportsInit, ReportsStep, PTL DEF ReportSpec

(* Every sustained anomaly up to the committed offset has a job, unless    *)
(* recording it failed: consume_loop tries before it commits, and neither  *)
(* a restart nor a warning hides an incident that is sustained afterwards. *)
THEOREM SustainedIsReportedAlways == ReportSpec => []SustainedIsReported
<1>1. ReportsInv => SustainedIsReported
    <2> SUFFICES ASSUME ReportsInv, NEW n \in 1..committedTo, Sustained(n)
                 PROVE  \/ \E x \in DOMAIN jobs : /\ jobs[x].kind = "anomaly" /\ jobs[x].cause <= n
                                                  /\ OneIncident(jobs[x].cause, n)
                        \/ \E u \in unrecorded : u[1] <= n /\ OneIncident(u[1], n)
        BY DEF SustainedIsReported
    <2>1. NotedUpTo(n)
        BY DEF ReportsInv, LoopInv, IncidentNoted
    <2>2. PICK c \in 0..n : Noted(c) /\ OneIncident(c, n)
        BY <2>1 DEF NotedUpTo
    <2>3. c <= n
        OBVIOUS
    <2> QED BY <2>2, <2>3 DEF Noted
<1> QED BY <1>1, ReportsInit, ReportsStep, PTL DEF ReportSpec

(* A gateway records one anomaly job per incident for as long as it is not *)
(* restarted: the tracker is reported until the stream has rearmed.        *)
THEOREM OneReportPerIncidentAlways == ReportSpec => []OneReportPerIncident
<1>1. ReportsInv => OneReportPerIncident
    BY DEF ReportsInv, LoopInv
<1> QED BY <1>1, ReportsInit, ReportsStep, PTL DEF ReportSpec

(* complete_report_job and fail_report_job name the job only, so a worker  *)
(* whose lease has run out can take back a completed report; nothing else  *)
(* can.                                                                    *)
THEOREM OnlyALostLeaseReopensAlways == ReportSpec => OnlyALostLeaseReopens
<1>1. ReportsInv /\ [ReportNext]_reportVars =>
         [\A x \in DOMAIN jobs :
             (jobs[x].status = "completed" /\ jobs'[x].status # "completed") => jobs[x].shared]_reportVars
    <2> SUFFICES ASSUME ReportsInv, ReportNext, NEW x \in DOMAIN jobs,
                        jobs[x].status = "completed", jobs'[x].status # "completed"
                 PROVE  jobs[x].shared
        OBVIOUS
    <2>1. ReportType /\ jobs \in Seq(Job) /\ WorkType /\ LeaseWasLost
        BY DEF ReportsInv, ReportInv, ReportType, WorkInv
    <2>2. CASE Consume \/ CreateFails \/ CommitOffset \/ CommitFails \/ Restart
        BY <2>2 DEF Consume, CreateFails, CommitOffset, CommitFails, Restart
    <2>3. CASE CreateJob \/ Scheduled
        <3>1. \E kind : Record(kind)
            BY <2>3 DEF CreateJob, Scheduled
        <3>2. jobs'[x] = jobs[x]
            BY <2>1, <3>1 DEF Record
        <3> QED BY <3>2
    <2>4. ASSUME NEW y \in DOMAIN jobs, LeaseExpires(y) PROVE jobs[x].shared
        <3>1. x # y
            BY <2>4 DEF LeaseExpires
        <3> QED BY <2>1, <2>4, <3>1 DEF LeaseExpires
    <2>5. ASSUME NEW w \in Slots, Claim(w) PROVE jobs[x].shared
        <3>1. PICK y \in DOMAIN jobs :
                 /\ Claimable(y)
                 /\ jobs' = [jobs EXCEPT ![y].status = "processing", ![y].worker = w,
                                         ![y].shared = @ \/ \E v \in Slots : work[v] = y]
            BY <2>5 DEF Claim
        <3>2. x # y
            BY <3>1 DEF Claimable
        <3> QED BY <2>1, <3>1, <3>2
    <2>6. ASSUME NEW w \in Slots, Complete(w) PROVE jobs[x].shared
        <3>1. work[w] \in DOMAIN jobs /\ jobs[work[w]] \in Job
            BY <2>1, <2>6 DEF Complete, ReportType
        <3>2. jobs' = [jobs EXCEPT ![work[w]].status = "completed"]
            BY <2>6 DEF Complete
        <3>3. jobs'[x].status = "completed"
            BY <2>1, <3>1, <3>2 DEF Job
        <3> QED BY <3>3
    <2>7. ASSUME NEW w \in Slots, Fail(w) PROVE jobs[x].shared
        <3>1. workerPc[w] = "fail" /\ work[w] # Nil
            BY <2>1, <2>7 DEF Fail, WorkType
        <3>2. x = work[w]
            BY <2>1, <2>7 DEF Fail
        <3> QED BY <2>1, <3>1, <3>2 DEF LeaseWasLost
    <2>8. ASSUME NEW w \in Slots, Generate(w) \/ GenerateFails(w) \/ CompleteFails(w) \/ FailFails(w)
          PROVE  jobs[x].shared
        BY <2>8 DEF Generate, GenerateFails, CompleteFails, FailFails
    <2> QED BY <2>2, <2>3, <2>4, <2>5, <2>6, <2>7, <2>8 DEF ReportNext
<1> QED BY <1>1, ReportsInit, ReportsStep, PTL DEF ReportSpec, OnlyALostLeaseReopens

=============================================================================
