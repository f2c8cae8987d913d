---------------------------- MODULE AIReportJobs ----------------------------
(***************************************************************************)
(* services/common/ai_reporting.py and services/ai_gateway/main.py: from   *)
(* processed events to AI reports.  consume_loop follows the stream of one *)
(* tag with a SustainedAnomalyTracker and records a job in ai_report_jobs  *)
(* for each sustained anomaly, each recovery and each interval; workers of *)
(* the same gateway claim jobs under a lease, generate and publish a       *)
(* report, and mark the job.                                               *)
(*                                                                         *)
(* The tracker's clock is the offset: one event a second, so durations are *)
(* numbers of events.  The policy is enabled, for critical severity, with  *)
(* anomaly, recovery and scheduled reports.                                *)
(***************************************************************************)
EXTENDS Integers, Sequences, FiniteSets, FiniteSetsExt

CONSTANTS
    Workers,     \* slots of durable_job_worker
    Instances,   \* what happens: the events, the slots in use, bounds
    MinSamples,  \* anomaly_min_samples
    Duration,    \* anomaly_duration_seconds
    Rearm,       \* anomaly_rearm_seconds
    Cooldown,    \* anomaly_cooldown_seconds
    MaxAttempts, \* max_attempts of fail_report_job
    MaxJobs,     \* bound: jobs whose leases fairness is about
    Nil          \* no tracker, no job, no worker

Severities == {"normal", "warning", "critical"}

\* What the tracker keeps of a tag; last_report is 0 until the first.
TagState == [started : Nat, seen : Nat, count : Nat, reported : BOOLEAN, report : Nat]

ASSUME ReportAssumption ==
    /\ Instances \subseteq [stream : Seq(Severities),   \* processed events of the tag
                            workers : SUBSET Workers,  \* ai_report_max_in_flight
                            scheduled : Nat,           \* bound: scheduled reports
                            faults : Nat]              \* bound: failed calls and killed gateways
    /\ MinSamples \in Nat \ {0} /\ MaxAttempts \in Nat \ {0}
    /\ {Duration, Rearm, Cooldown, MaxJobs} \subseteq Nat
    /\ IsFiniteSet(Workers)
    /\ Nil \notin Workers /\ Nil \notin Nat /\ Nil \notin TagState
    /\ Nil \notin {"anomaly", "recovery"}

VARIABLES
    instance,   \* the instance of this behaviour
    committedTo, \* offset the group ai-gateway has committed
    polled,     \* events consume_loop has polled
    tracker,    \* _states of the tag, Nil when there is none
    loop,       \* where consume_loop is: poll, create, commit, ended
    pending,    \* kind of the job consume_loop is about to create
    batch,      \* there is evidence for the next scheduled report
    jobs,       \* ai_report_jobs in order of creation
    workerPc,   \* workerPc[w]: where worker w is
    work,       \* work[w]: index of the job it has claimed
    published,  \* indices of jobs whose report is in iot.ai_enriched
    life,       \* history: times the gateway has been started
    restarts,   \* history: offsets a gateway resumed from
    unrecorded, \* history: <<offset, life>> of the anomalies no job could be recorded for
    faults      \* faults so far

stream == instance.stream
Slots == instance.workers

consumer == <<committedTo, polled, tracker, loop, pending, batch>>
workers == <<workerPc, work>>
reportVars == <<instance, consumer, jobs, workers, published, life, restarts, unrecorded, faults>>

Job == [kind : {"anomaly", "recovery", "scheduled"}, cause : Nat, life : Nat,
        status : {"pending", "processing", "expired", "completed", "failed"},
        attempts : Nat, worker : Workers \cup {Nil},
        shared : BOOLEAN]  \* history: claimed while another worker was still at it

ReportTypeOK ==
    /\ instance \in Instances
    /\ polled \in 0..Len(stream) /\ committedTo \in 0..polled
    /\ tracker \in TagState \cup {Nil}
    /\ loop \in {"poll", "create", "commit", "ended"}
    /\ pending \in {"anomaly", "recovery", Nil} /\ batch \in BOOLEAN
    /\ jobs \in Seq(Job)
    /\ workerPc \in [Slots -> {"idle", "generate", "complete", "fail", "ended"}]
    /\ work \in [Slots -> DOMAIN jobs \cup {Nil}]
    /\ \A w \in Slots : workerPc[w] \in {"generate", "complete", "fail"} <=> work[w] # Nil
    /\ published \subseteq DOMAIN jobs
    /\ \A x \in DOMAIN jobs : jobs[x].attempts < MaxAttempts + Max({1, Cardinality(Slots)})
    /\ restarts \subseteq 0..Len(stream) /\ unrecorded \subseteq Nat \X Nat
    /\ life \in Nat /\ faults \in 0..instance.faults

ReportInit ==
    /\ instance \in Instances
    /\ committedTo = 0 /\ polled = 0 /\ tracker = Nil
    /\ loop = "poll" /\ pending = Nil /\ batch = FALSE
    /\ jobs = <<>>
    /\ workerPc = [w \in Slots |-> "idle"] /\ work = [w \in Slots |-> Nil]
    /\ published = {}
    /\ life = 0 /\ restarts = {} /\ unrecorded = {} /\ faults = 0

ReportFault == faults < instance.faults /\ faults' = faults + 1
-----------------------------------------------------------------------------
(* SustainedAnomalyTracker.update_transition at time now: the next state of the tag and the kind
   of transition. *)

Qualifying(now) ==
    LET old == IF tracker # Nil THEN tracker
               ELSE [started |-> now, seen |-> now, count |-> 0, reported |-> FALSE, report |-> 0]
        new == [old EXCEPT !.seen = now, !.count = @ + 1]
        fires == /\ ~new.reported /\ new.count >= MinSamples /\ now - new.started >= Duration
                 /\ new.report = 0 \/ now - new.report >= Cooldown
    IN  IF fires THEN [state |-> [new EXCEPT !.reported = TRUE, !.report = now], kind |-> "anomaly"]
        ELSE [state |-> new, kind |-> Nil]

NotQualifying(now, severity) ==
    IF tracker = Nil THEN [state |-> Nil, kind |-> Nil]
    ELSE IF ~tracker.reported THEN [state |-> Nil, kind |-> Nil]
    ELSE IF severity = "normal" /\ now - tracker.seen >= Rearm
    THEN [state |-> Nil, kind |-> "recovery"]
    ELSE [state |-> tracker, kind |-> Nil]

\* Mutant of Transition: a warning ends an incident.
TransitionAnySeverity(now) ==
    IF stream[now] = "critical" THEN Qualifying(now) ELSE NotQualifying(now, "normal")

Transition(now) ==
    IF stream[now] = "critical" THEN Qualifying(now) ELSE NotQualifying(now, stream[now])
-----------------------------------------------------------------------------
(* consume_loop. *)

\* Mutant of Consume: the offset is committed before the job is recorded.
ConsumeCommits ==
    /\ loop = "poll" /\ polled < Len(stream)
    /\ polled' = polled + 1
    /\ committedTo' = polled + 1
    /\ batch' = TRUE
    /\ LET t == Transition(polled + 1) IN
       /\ tracker' = t.state /\ pending' = t.kind
       /\ loop' = IF t.kind = Nil THEN "commit" ELSE "create"
    /\ UNCHANGED <<instance, jobs, workers, published, life, restarts, unrecorded, faults>>

\* An event is polled, kept as evidence and shown to the tracker.
Consume ==
    /\ loop = "poll" /\ polled < Len(stream)
    /\ polled' = polled + 1
    /\ batch' = TRUE
    /\ LET t == Transition(polled + 1) IN
       /\ tracker' = t.state /\ pending' = t.kind
       /\ loop' = IF t.kind = Nil THEN "commit" ELSE "create"
    /\ UNCHANGED <<instance, committedTo, jobs, workers, published, life, restarts, unrecorded, faults>>

\* INSERT of a job; anomaly and recovery jobs have no window, so none conflicts with another.
Record(kind) ==
    jobs' = Append(jobs, [kind |-> kind, cause |-> polled, life |-> life, status |-> "pending",
                          attempts |-> 0, worker |-> Nil, shared |-> FALSE])

CreateJob ==
    /\ loop = "create"
    /\ Record(pending)
    /\ loop' = "commit" /\ pending' = Nil
    /\ UNCHANGED <<instance, committedTo, polled, tracker, batch, workers, published, life, restarts,
                   unrecorded, faults>>

\* The exception is caught: the tracker stays reported and the offset is committed all the same.
CreateFails ==
    /\ loop = "create" /\ ReportFault
    /\ unrecorded' = IF pending = "anomaly" THEN unrecorded \cup {<<polled, life>>} ELSE unrecorded
    /\ loop' = "commit" /\ pending' = Nil
    /\ UNCHANGED <<instance, committedTo, polled, tracker, batch, jobs, workers, published, life,
                   restarts>>

CommitOffset ==
    /\ loop = "commit"
    /\ committedTo' = polled /\ loop' = "poll"
    /\ UNCHANGED <<instance, polled, tracker, pending, batch, jobs, workers, published, life,
                   restarts, unrecorded, faults>>

\* commit raises: consume_loop ends, cancels its workers, and the gateway runs on without them.
CommitFails ==
    /\ loop = "commit" /\ ReportFault
    /\ loop' = "ended"
    /\ workerPc' = [w \in Slots |-> "ended"] /\ work' = [w \in Slots |-> Nil]
    /\ UNCHANGED <<instance, committedTo, polled, tracker, pending, batch, jobs, published, life,
                   restarts, unrecorded>>

\* The interval is over; a job that cannot be recorded leaves the evidence in the batch.
Scheduled ==
    /\ loop = "poll" /\ batch
    /\ Cardinality({x \in DOMAIN jobs : jobs[x].kind = "scheduled"}) < instance.scheduled
    /\ Record("scheduled") /\ batch' = FALSE
    /\ UNCHANGED <<instance, committedTo, polled, tracker, loop, pending, workers, published, life,
                   restarts, unrecorded, faults>>
-----------------------------------------------------------------------------
(* durable_job_worker and the job table. *)

\* Mutant of Claimable: expired leases are not.
ClaimablePending(x) == jobs[x].status = "pending"

\* Mutant of Claimable: the lease is looked at whatever the status.
ClaimableByLease(x) == jobs[x].status \in {"pending", "expired", "completed"}

Claimable(x) == jobs[x].status \in {"pending", "expired"}

\* claim_next_report_job: one row, locked; retry times order the pending rows in any way.
Claim(w) ==
    /\ workerPc[w] = "idle"
    /\ \E x \in DOMAIN jobs :
          /\ Claimable(x)
          /\ jobs' = [jobs EXCEPT ![x].status = "processing", ![x].worker = w,
                                  ![x].shared = @ \/ \E v \in Slots : work[v] = x]
          /\ work' = [work EXCEPT ![w] = x]
    /\ workerPc' = [workerPc EXCEPT ![w] = "generate"]
    /\ UNCHANGED <<instance, consumer, published, life, restarts, unrecorded, faults>>

\* claimed_at is older than the lease, whether the worker is dead or slow.
LeaseExpires(x) ==
    /\ jobs[x].status = "processing"
    /\ jobs' = [jobs EXCEPT ![x].status = "expired"]
    /\ UNCHANGED <<instance, consumer, workers, published, life, restarts, unrecorded, faults>>

\* Mutant of Generate: the delivery is not waited for.
GenerateUnacknowledged(w) ==
    /\ workerPc[w] = "generate"
    /\ published' \in {published, published \cup {work[w]}}
    /\ workerPc' = [workerPc EXCEPT ![w] = "complete"]
    /\ UNCHANGED <<instance, consumer, jobs, work, life, restarts, unrecorded, faults>>

\* enrich_batch returns: the broker has acknowledged the report.
Generate(w) ==
    /\ workerPc[w] = "generate"
    /\ published' = published \cup {work[w]}
    /\ workerPc' = [workerPc EXCEPT ![w] = "complete"]
    /\ UNCHANGED <<instance, consumer, jobs, work, life, restarts, unrecorded, faults>>

\* It raises or returns nothing; after a delivery timeout the report may be published all the same.
GenerateFails(w) ==
    /\ workerPc[w] = "generate" /\ ReportFault
    /\ published' \in {published, published \cup {work[w]}}
    /\ workerPc' = [workerPc EXCEPT ![w] = "fail"]
    /\ UNCHANGED <<instance, consumer, jobs, work, life, restarts, unrecorded>>

Release(w, where) ==
    /\ workerPc' = [workerPc EXCEPT ![w] = where]
    /\ work' = [work EXCEPT ![w] = Nil]

\* complete_report_job: by job id, whoever holds the lease.
Complete(w) ==
    /\ workerPc[w] = "complete"
    /\ jobs' = [jobs EXCEPT ![work[w]].status = "completed"]
    /\ Release(w, "idle")
    /\ UNCHANGED <<instance, consumer, published, life, restarts, unrecorded, faults>>

CompleteFails(w) ==
    /\ workerPc[w] = "complete" /\ ReportFault
    /\ workerPc' = [workerPc EXCEPT ![w] = "fail"]
    /\ UNCHANGED <<instance, consumer, jobs, work, published, life, restarts, unrecorded>>

\* Mutant of Fail: one attempt too many.
FailOneMore(w) ==
    LET attempts == jobs[work[w]].attempts + 1 IN
    /\ workerPc[w] = "fail"
    /\ jobs' = [jobs EXCEPT ![work[w]].attempts = attempts,
                            ![work[w]].status = IF attempts > MaxAttempts THEN "failed" ELSE "pending"]
    /\ Release(w, "idle")
    /\ UNCHANGED <<instance, consumer, published, life, restarts, unrecorded, faults>>

\* fail_report_job: by job id, whoever holds the lease and whatever the status.
Fail(w) ==
    LET attempts == jobs[work[w]].attempts + 1 IN
    /\ workerPc[w] = "fail"
    /\ jobs' = [jobs EXCEPT ![work[w]].attempts = attempts,
                            ![work[w]].status = IF attempts >= MaxAttempts THEN "failed" ELSE "pending"]
    /\ Release(w, "idle")
    /\ UNCHANGED <<instance, consumer, published, life, restarts, unrecorded, faults>>

\* It raises inside the handler: the worker's task ends and nothing starts another.
FailFails(w) ==
    /\ workerPc[w] = "fail" /\ ReportFault
    /\ Release(w, "ended")
    /\ UNCHANGED <<instance, consumer, jobs, published, life, restarts, unrecorded>>
-----------------------------------------------------------------------------
\* The gateway is killed and started again; its group has a committed offset to resume from.
Restart ==
    /\ ReportFault
    /\ polled' = committedTo /\ tracker' = Nil
    /\ loop' = "poll" /\ pending' = Nil /\ batch' = FALSE
    /\ workerPc' = [w \in Slots |-> "idle"] /\ work' = [w \in Slots |-> Nil]
    /\ life' = life + 1 /\ restarts' = restarts \cup {committedTo}
    /\ UNCHANGED <<instance, committedTo, jobs, published, unrecorded>>

ReportNext ==
    \/ Consume \/ CreateJob \/ CreateFails \/ CommitOffset \/ CommitFails \/ Scheduled
    \/ \E w \in Slots :
          \/ Claim(w) \/ Generate(w) \/ GenerateFails(w)
          \/ Complete(w) \/ CompleteFails(w) \/ Fail(w) \/ FailFails(w)
    \/ \E x \in DOMAIN jobs : LeaseExpires(x)
    \/ Restart

ReportSpec == ReportInit /\ [][ReportNext]_reportVars

\* What becomes of a worker, if it is one of the gateway's, and of a job, if there is one.
Claims(w) == w \in Slots /\ Claim(w)
Works(w) ==
    /\ w \in Slots
    /\ \/ Generate(w) \/ GenerateFails(w) \/ Complete(w) \/ CompleteFails(w)
       \/ Fail(w) \/ FailFails(w)
Expires(x) == x \in DOMAIN jobs /\ LeaseExpires(x)

\* Workers keep claiming, calls return, and a lease that is not finished runs out.
ReportFairSpec ==
    /\ ReportSpec
    /\ \A w \in Workers : SF_reportVars(Claims(w)) /\ WF_reportVars(Works(w))
    /\ \A x \in 1..MaxJobs : WF_reportVars(Expires(x))
-----------------------------------------------------------------------------
(* What an incident is, read off the stream. *)

\* The normal event at x is late enough after the last critical one to end an incident.
Rearms(x) ==
    /\ stream[x] = "normal"
    /\ \A y \in 1..x - 1 : stream[y] = "critical" => x - y >= Rearm

OneIncident(from, to) == ~\E x \in from + 1..to - 1 : Rearms(x)

\* Since some event, and since the gateway last resumed, up to n all is critical for long enough.
Sustained(n) ==
    \E i \in 1..n : /\ \A x \in i..n : stream[x] = "critical"
                    /\ \A r \in restarts : r < i \/ r >= n
                    /\ n - i + 1 >= MinSamples /\ n - i >= Duration

(* Every sustained anomaly up to the committed offset has a job, unless recording the job failed:
   consume_loop commits only after it has tried, and neither a restart nor a warning in between
   hides an incident that is sustained afterwards. *)
SustainedIsReported ==
    \A n \in 1..committedTo : Sustained(n) =>
        \/ \E x \in DOMAIN jobs : /\ jobs[x].kind = "anomaly" /\ jobs[x].cause <= n
                                  /\ OneIncident(jobs[x].cause, n)
        \/ \E u \in unrecorded : u[1] <= n /\ OneIncident(u[1], n)

(* A gateway that is not restarted records one anomaly job per incident: SustainedAnomalyTracker
   is "one report per sustained incident" and comes back to it only after a recovery. *)
OneReportPerIncident ==
    \A x, y \in DOMAIN jobs :
        (/\ x < y /\ jobs[x].kind = "anomaly" /\ jobs[y].kind = "anomaly"
         /\ jobs[x].life = jobs[y].life)
            => ~OneIncident(jobs[x].cause, jobs[y].cause)

(* A job that the API shows as completed has its report in iot.ai_enriched, also after
   timeouts, expired leases and reports generated twice. *)
CompletedIsPublished ==
    \A x \in DOMAIN jobs : jobs[x].status = "completed" => x \in published

(* The updates of complete_report_job and fail_report_job name the job only, so a worker whose
   lease ran out can take back a completed report; nothing else can. *)
OnlyALostLeaseReopens ==
    [][\A x \in DOMAIN jobs :
         (jobs[x].status = "completed" /\ jobs'[x].status # "completed") => jobs[x].shared]_reportVars

(* Recorded jobs end completed or failed, all of them: a lease that outlives its worker is claimed
   again, unless every worker task of the gateway has ended. *)
EventuallySettled ==
    []<>(\/ \A x \in DOMAIN jobs : jobs[x].status \in {"completed", "failed"}
         \/ \A w \in Slots : workerPc[w] = "ended")
=============================================================================
