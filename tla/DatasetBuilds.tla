----------------------------- MODULE DatasetBuilds -----------------------------
(***************************************************************************)
(* The queue of dataset builds: the table of common/dataset_registry.py,   *)
(* its requests (routers/datasets.py), the workers                         *)
(* (datasets/dataset_worker.py) and the files a build leaves               *)
(* (common/model_dataset.py and training_dataset.py).                      *)
(*                                                                         *)
(* A statement of PostgreSQL is one step; the row that claim_build_job has *)
(* selected stays locked until its transaction ends, and an UPDATE of that *)
(* row waits.  Jobs are numbered in the order of created_at.               *)
(***************************************************************************)
EXTENDS Naturals, Sequences

CONSTANTS
    BuildWorkers,   \* the worker processes
    Directories,    \* output directories
    MaxBuilds,      \* bound: builds queued
    MaxBuildFaults  \* bound: failed statements and builds, kills

ASSUME DatasetBuildsAssumption == {MaxBuilds, MaxBuildFaults} \subseteq Nat

VARIABLES
    builds,     \* dataset_build_jobs: of each job its status, output_dir and manifest version
    artifacts,  \* dataset_build_artifacts: the names listed for each job
    contents,   \* of each directory: the job that last wrote each of its files, or 0
    workerPc,   \* poll, claim (its row is locked), build, fail, ended
    held,       \* the job a worker has in hand, or 0
    written,    \* how many of its files are written
    claims,     \* history: how often each job was claimed
    buildFaults

buildVars == <<builds, artifacts, contents, workerPc, held, written, claims, buildFaults>>

BuildIds == 1..MaxBuilds
Files == {"data", "report", "_SUCCESS"}

\* Mutant of WriteOrder: the marker first.
MarkerFirst(version) == IF version = 1 THEN <<"data", "report">> ELSE <<"_SUCCESS", "data", "report">>

\* The order in which a build writes: the tables and the files beside them, the quality report, and,
\* unless the manifest is of version 1, the marker.
WriteOrder(version) == IF version = 1 THEN <<"data", "report">> ELSE <<"data", "report", "_SUCCESS">>

BuildRows == [status : {"queued", "running", "succeeded", "failed", "cancelled"},
              directory : Directories, version : {1, 3}]

BuildTypeOK ==
    /\ builds \in Seq(BuildRows) /\ Len(builds) <= MaxBuilds
    /\ artifacts \in [BuildIds -> SUBSET Files]
    /\ contents \in [Directories -> [Files -> BuildIds \cup {0}]]
    /\ workerPc \in [BuildWorkers -> {"poll", "claim", "build", "fail", "ended"}]
    /\ held \in [BuildWorkers -> BuildIds \cup {0}]
    /\ written \in [BuildWorkers -> Nat]
    /\ claims \in [BuildIds -> Nat]
    /\ buildFaults \in 0..MaxBuildFaults

BuildInit ==
    /\ builds = <<>>
    /\ artifacts = [j \in BuildIds |-> {}]
    /\ contents = [d \in Directories |-> [f \in Files |-> 0]]
    /\ workerPc = [w \in BuildWorkers |-> "poll"]
    /\ held = [w \in BuildWorkers |-> 0]
    /\ written = [w \in BuildWorkers |-> 0]
    /\ claims = [j \in BuildIds |-> 0]
    /\ buildFaults = 0

BuildFault == buildFaults < MaxBuildFaults /\ buildFaults' = buildFaults + 1

-----------------------------------------------------------------------------
(* The requests.                                                           *)

\* create_build_job, of any manifest into any directory.
CreateBuildJob(d, version) ==
    /\ Len(builds) < MaxBuilds
    /\ builds' = Append(builds, [status |-> "queued", directory |-> d, version |-> version])
    /\ UNCHANGED <<artifacts, contents, workerPc, held, written, claims, buildFaults>>

Locked(j) == \E w \in BuildWorkers : workerPc[w] = "claim" /\ held[w] = j

\* cancel_build_job, WHERE status = 'queued'.
CancelBuildJob(j) ==
    /\ builds[j].status = "queued" /\ ~Locked(j)
    /\ builds' = [builds EXCEPT ![j].status = "cancelled"]
    /\ UNCHANGED <<artifacts, contents, workerPc, held, written, claims, buildFaults>>

-----------------------------------------------------------------------------
(* A worker.                                                               *)

\* Mutant of Free: the SELECT locks nothing.
FreeUnlocked(j) == builds[j].status = "queued"

Free(j) == builds[j].status = "queued" /\ ~Locked(j)

At(w, pc) == workerPc' = [workerPc EXCEPT ![w] = pc]

\* SELECT ... ORDER BY created_at FOR UPDATE SKIP LOCKED LIMIT 1.
SelectBuild(w) ==
    /\ workerPc[w] = "poll"
    /\ \E j \in DOMAIN builds :
          /\ Free(j) /\ \A k \in 1..j - 1 : ~Free(k)
          /\ held' = [held EXCEPT ![w] = j]
    /\ At(w, "claim")
    /\ UNCHANGED <<builds, artifacts, contents, written, claims, buildFaults>>

\* The UPDATE to running, and its commit.
ClaimBuild(w) ==
    /\ workerPc[w] = "claim"
    /\ builds' = [builds EXCEPT ![held[w]].status = "running"]
    /\ claims' = [claims EXCEPT ![held[w]] = @ + 1]
    /\ written' = [written EXCEPT ![w] = 0]
    /\ At(w, "build")
    /\ UNCHANGED <<artifacts, contents, held, buildFaults>>

Row(w) == builds[held[w]]

\* compile_trajectory_bundle writes its next file; nothing removes what an earlier build left.
WriteFile(w) ==
    /\ workerPc[w] = "build"
    /\ written[w] < Len(WriteOrder(Row(w).version))
    /\ contents' = [contents EXCEPT ![Row(w).directory][WriteOrder(Row(w).version)[written[w] + 1]] = held[w]]
    /\ written' = [written EXCEPT ![w] = @ + 1]
    /\ UNCHANGED <<builds, artifacts, workerPc, held, claims, buildFaults>>

\* A bad manifest, a gate of version 3, a full disk.
BuildRaises(w) ==
    /\ workerPc[w] = "build" /\ BuildFault
    /\ At(w, "fail")
    /\ UNCHANGED <<builds, artifacts, contents, held, written, claims>>

Listed(d) == {f \in Files : contents[d][f] # 0}

\* finish_build_job("succeeded"): the row and the files that are in the directory, in one transaction.
FinishBuild(w) ==
    /\ workerPc[w] = "build" /\ written[w] = Len(WriteOrder(Row(w).version))
    /\ builds' = [builds EXCEPT ![held[w]].status = "succeeded"]
    /\ artifacts' = [artifacts EXCEPT ![held[w]] = Listed(Row(w).directory)]
    /\ \/ At(w, "poll") /\ UNCHANGED buildFaults
       \/ At(w, "fail") /\ BuildFault           \* its commit is applied, and the answer lost
    /\ UNCHANGED <<contents, held, written, claims>>

\* finish_build_job("failed"), which asks for no status either.
FailBuild(w) ==
    /\ workerPc[w] = "fail"
    /\ builds' = [builds EXCEPT ![held[w]].status = "failed"]
    /\ At(w, "poll")
    /\ UNCHANGED <<artifacts, contents, held, written, claims, buildFaults>>

\* A statement fails: in finish_build_job("succeeded") the job is marked failed; in claim_build_job
\* and in the other, nothing catches it.
StatementFails(w) ==
    /\ BuildFault
    /\ \/ /\ workerPc[w] = "build" /\ written[w] = Len(WriteOrder(Row(w).version))
          /\ At(w, "fail")
       \/ workerPc[w] \in {"poll", "claim", "fail"} /\ At(w, "ended")
    /\ UNCHANGED <<builds, artifacts, contents, held, written, claims>>

WorkerKilled(w) ==
    /\ workerPc[w] # "ended" /\ BuildFault
    /\ At(w, "ended")
    /\ UNCHANGED <<builds, artifacts, contents, held, written, claims>>

\* The Deployment of the chart starts it again; the Compose service does not.
WorkerStarted(w) ==
    /\ workerPc[w] = "ended"
    /\ At(w, "poll")
    /\ UNCHANGED <<builds, artifacts, contents, held, written, claims, buildFaults>>

WorkerStep(w) == SelectBuild(w) \/ ClaimBuild(w) \/ WriteFile(w) \/ FinishBuild(w) \/ FailBuild(w)

BuildNext ==
    \/ \E d \in Directories, version \in {1, 3} : CreateBuildJob(d, version)
    \/ \E j \in DOMAIN builds : CancelBuildJob(j)
    \/ \E w \in BuildWorkers :
          WorkerStep(w) \/ BuildRaises(w) \/ StatementFails(w) \/ WorkerKilled(w) \/ WorkerStarted(w)

-----------------------------------------------------------------------------
(* Properties.                                                             *)

\* A job is built at most once, and one that was cancelled never.
ClaimedOnce ==
    \A j \in DOMAIN builds : claims[j] <= IF builds[j].status \in {"queued", "cancelled"} THEN 0 ELSE 1

\* The builds that have written, or may, in the directory of j.
Others(j) ==
    {k \in DOMAIN builds \ {j} : builds[k].directory = builds[j].directory /\ claims[k] > 0}

\* A directory with a job's marker holds all its files, and so does that of a job of version 3 that
\* succeeded, unless another build was made in the same directory; one that succeeded has its files
\* listed.
SucceededIsWhole ==
    \A j \in DOMAIN builds :
        /\ contents[builds[j].directory]["_SUCCESS"] = j /\ Others(j) = {}
              => \A f \in Files : contents[builds[j].directory][f] = j
        /\ builds[j].status = "succeeded" /\ builds[j].version = 3
              => /\ artifacts[j] = Files
                 /\ Others(j) = {} => contents[builds[j].directory]["_SUCCESS"] = j

Queued(j) == j \in DOMAIN builds /\ builds[j].status = "queued"

\* A job that waits is taken or cancelled, unless every worker has ended.
QueuedIsTaken ==
    \A j \in BuildIds : Queued(j) ~> ~Queued(j) \/ \A w \in BuildWorkers : workerPc[w] = "ended"
=============================================================================
