------------------------------- MODULE HttpPush -------------------------------
(***************************************************************************)
(* The HTTP Push ingress: api_service/routers/historian.py, the durable    *)
(* ledger of idempotency keys (api_service/http_push_idempotency.py) and   *)
(* the publication of an event (api_service/runtime.py).                   *)
(*                                                                         *)
(* A replica of the API answers one request at a time, for the handler     *)
(* awaits nothing; a batch is its events one by one.  Replicas share the   *)
(* ledger, and a client may send a key again, to any of them, at any time. *)
(* Keys stands for the requests told apart by their key: an event without  *)
(* one is not deduplicated.  The three records of an event go through the  *)
(* client together; its copies are those of the normalized record.         *)
(***************************************************************************)
EXTENDS Integers

CONSTANTS
    Replicas,     \* processes of the API
    Keys,         \* idempotency keys
    Invalid,      \* those whose event validate_event refuses
    MaxCalls,     \* bound: requests
    MaxPushFaults \* bound: failed calls and crashes

ASSUME HttpPushAssumption == Invalid \subseteq Keys /\ {MaxCalls, MaxPushFaults} \subseteq Nat

VARIABLES
    claims,        \* rows of http_push_idempotency: "none", "claimed", or the response
    pushPc,        \* where each replica is: idle, ingest, complete, undo, release
    pushing,       \* the key of its request
    producerQueue, \* copies in its Kafka client, for each key
    copies,        \* copies in industrial.normalized
    calls,         \* requests so far
    pushFaults,    \* failed calls and crashes so far
    told,          \* history: answers given for each key
    reopened,      \* history: how often the claim of a key was released
    burnt          \* history: keys with a claim that outlived its request, or an event lost in the client

pushVars == <<claims, pushPc, pushing, producerQueue, copies, calls, pushFaults, told, reopened, burnt>>

HttpPushTypeOK ==
    /\ claims \in [Keys -> {"none", "claimed", "ingested", "rejected"}]
    /\ pushPc \in [Replicas -> {"idle", "ingest", "complete", "undo", "release"}]
    /\ pushing \in [Replicas -> Keys]
    /\ producerQueue \in [Replicas -> [Keys -> 0..MaxCalls]]
    /\ copies \in [Keys -> 0..MaxCalls]
    /\ calls \in 0..MaxCalls /\ pushFaults \in 0..MaxPushFaults
    /\ told \in [Keys -> SUBSET {"ingested", "rejected", "duplicate", "error"}]
    /\ reopened \in [Keys -> 0..MaxCalls]
    /\ burnt \subseteq Keys

NothingQueued == [k \in Keys |-> 0]

PushInit ==
    /\ claims = [k \in Keys |-> "none"]
    /\ pushPc = [r \in Replicas |-> "idle"]
    /\ pushing \in {[r \in Replicas |-> k] : k \in Keys}
    /\ producerQueue = [r \in Replicas |-> NothingQueued]
    /\ copies = [k \in Keys |-> 0]
    /\ calls = 0 /\ pushFaults = 0
    /\ told = [k \in Keys |-> {}]
    /\ reopened = [k \in Keys |-> 0]
    /\ burnt = {}

PushFault == pushFaults < MaxPushFaults /\ pushFaults' = pushFaults + 1

Tell(k, answer) == told' = [told EXCEPT ![k] = @ \cup {answer}]

PushGoto(r, pc) == pushPc' = [pushPc EXCEPT ![r] = pc]
-----------------------------------------------------------------------------
PushRequest(r) == pushPc[r] = "idle" /\ calls < MaxCalls /\ calls' = calls + 1

\* Mutant of ClaimKey: a row without a response is taken over.
ClaimUnanswered(r, k) ==
    /\ PushRequest(r)
    /\ claims[k] \in {"none", "claimed"}
    /\ claims' = [claims EXCEPT ![k] = "claimed"]
    /\ pushing' = [pushing EXCEPT ![r] = k]
    /\ PushGoto(r, "ingest")
    /\ UNCHANGED <<producerQueue, copies, pushFaults, told, reopened, burnt>>

\* claim: the key is new.
ClaimKey(r, k) ==
    /\ PushRequest(r)
    /\ claims[k] = "none"
    /\ claims' = [claims EXCEPT ![k] = "claimed"]
    /\ pushing' = [pushing EXCEPT ![r] = k]
    /\ PushGoto(r, "ingest")
    /\ UNCHANGED <<producerQueue, copies, pushFaults, told, reopened, burnt>>

\* claim: the key has a row, whether or not its request has been answered.
Duplicate(r, k) ==
    /\ PushRequest(r)
    /\ claims[k] # "none"
    /\ Tell(k, "duplicate")
    /\ UNCHANGED <<claims, pushPc, pushing, producerQueue, copies, pushFaults, reopened, burnt>>

\* claim fails and the answer is 503; the row may have been committed before the failure.
ClaimUnavailable(r, k) ==
    /\ PushRequest(r)
    /\ PushFault
    /\ \/ UNCHANGED <<claims, burnt>>
       \/ claims[k] = "none" /\ claims' = [claims EXCEPT ![k] = "claimed"] /\ burnt' = burnt \cup {k}
    /\ Tell(k, "error")
    /\ UNCHANGED <<pushPc, pushing, producerQueue, copies, reopened>>

\* _do_ingest_event: an invalid event goes to the dead letters and counts as handled.
RejectEvent(r) ==
    /\ pushPc[r] = "ingest" /\ pushing[r] \in Invalid
    /\ PushGoto(r, "complete")
    /\ UNCHANGED <<claims, pushing, producerQueue, copies, calls, pushFaults, told, reopened, burnt>>

\* What the client holds once the event has been produced.
Produced(r) == [producerQueue[r] EXCEPT ![pushing[r]] = @ + 1]

Publishing(r) == pushPc[r] = "ingest" /\ pushing[r] \notin Invalid

\* flush returns 0: nothing is left in the client, of this event or of earlier ones; but records
\* the broker refused for good have left it too, as lost.
PublishEvent(r) ==
    /\ Publishing(r)
    /\ \/ /\ copies' = [k \in Keys |-> copies[k] + Produced(r)[k]]
          /\ UNCHANGED <<pushFaults, burnt>>
       \/ /\ PushFault
          /\ burnt' = burnt \cup {pushing[r]}
          /\ copies' = [k \in Keys |-> copies[k] + producerQueue[r][k]]
    /\ producerQueue' = [producerQueue EXCEPT ![r] = NothingQueued]
    /\ PushGoto(r, "complete")
    /\ UNCHANGED <<claims, pushing, calls, told, reopened>>

\* Mutant of PublishTimesOut: the claim stays.
PublishTimesOutClaimed(r) ==
    /\ Publishing(r)
    /\ PushFault
    /\ producerQueue' = [producerQueue EXCEPT ![r] = Produced(r)]
    /\ Tell(pushing[r], "error")
    /\ PushGoto(r, "idle")
    /\ UNCHANGED <<claims, pushing, copies, calls, reopened, burnt>>

\* flush gives up after five seconds; what is in the client stays there and may still be delivered.
PublishTimesOut(r) ==
    /\ Publishing(r)
    /\ PushFault
    /\ producerQueue' = [producerQueue EXCEPT ![r] = Produced(r)]
    /\ PushGoto(r, "release")
    /\ UNCHANGED <<claims, pushing, copies, calls, told, reopened, burnt>>

\* librdkafka delivers a record a flush did not wait for, or gives it up.
LeaveClient(r, k) ==
    /\ producerQueue[r][k] > 0
    /\ producerQueue' = [producerQueue EXCEPT ![r][k] = @ - 1]
    /\ \/ copies' = [copies EXCEPT ![k] = @ + 1] /\ UNCHANGED pushFaults
       \/ PushFault /\ UNCHANGED copies
    /\ UNCHANGED <<claims, pushPc, pushing, calls, told, reopened, burnt>>

Result(k) == IF k \in Invalid THEN "rejected" ELSE "ingested"

\* complete: the response is stored and the request answered.
Complete(r) ==
    /\ pushPc[r] = "complete"
    /\ claims' = [claims EXCEPT ![pushing[r]] = IF @ = "none" THEN "none" ELSE Result(pushing[r])]
    /\ Tell(pushing[r], Result(pushing[r]))
    /\ PushGoto(r, "idle")
    /\ UNCHANGED <<pushing, producerQueue, copies, calls, pushFaults, reopened, burnt>>

CompleteFails(r) ==
    /\ pushPc[r] = "complete"
    /\ PushFault
    /\ PushGoto(r, "undo")
    /\ UNCHANGED <<claims, pushing, producerQueue, copies, calls, told, reopened, burnt>>

\* release, after a failed publication or a failed complete: the answer is 503 either way.
ReleaseClaim(r) ==
    /\ pushPc[r] \in {"release", "undo"}
    /\ \/ /\ claims' = [claims EXCEPT ![pushing[r]] = "none"]
          /\ reopened' = [reopened EXCEPT ![pushing[r]] = @ + 1]
          /\ UNCHANGED <<pushFaults, burnt>>
       \/ /\ PushFault
          /\ burnt' = burnt \cup {pushing[r]}
          /\ UNCHANGED <<claims, reopened>>
    /\ Tell(pushing[r], "error")
    /\ PushGoto(r, "idle")
    /\ UNCHANGED <<pushing, producerQueue, copies, calls>>

\* The process dies: a claim without a response stays, what its client held is gone.
CrashReplica(r) ==
    /\ PushFault
    /\ PushGoto(r, "idle")
    /\ producerQueue' = [producerQueue EXCEPT ![r] = NothingQueued]
    /\ burnt' = IF pushPc[r] = "idle" THEN burnt ELSE burnt \cup {pushing[r]}
    /\ UNCHANGED <<claims, pushing, copies, calls, told, reopened>>

PushNext ==
    \E r \in Replicas :
        \/ \E k \in Keys : ClaimKey(r, k) \/ Duplicate(r, k) \/ ClaimUnavailable(r, k) \/ LeaveClient(r, k)
        \/ RejectEvent(r) \/ PublishEvent(r) \/ PublishTimesOut(r)
        \/ Complete(r) \/ CompleteFails(r) \/ ReleaseClaim(r) \/ CrashReplica(r)

PushSpec == PushInit /\ [][PushNext]_pushVars
-----------------------------------------------------------------------------
(* A key's event is published once, and once more at most for each time its claim was released:
   no interleaving of retries at several replicas publishes it again behind a claim. *)
CopiesNeedAClaim == \A k \in Keys : copies[k] <= 1 + reopened[k]

(* Whoever was told that a key's event was ingested, or had been sent before, need not send it
   again: it has been published, was rejected, or is still being published.  Exceptions: a claim
   that a crash or a failed call left behind, a record the broker refused after the flush was
   counted as done, and a claim that was released after it had turned a retry away. *)
AnsweredIsPublished ==
    \A k \in Keys \ Invalid :
        told[k] \cap {"ingested", "duplicate"} # {} =>
            \/ copies[k] > 0
            \/ \E r \in Replicas : pushPc[r] # "idle" /\ pushing[r] = k
            \/ k \in burnt \/ reopened[k] > 0

\* An idempotency key stands for one publication: no retry makes another, and no answer none.
KeyIsOnePublication == CopiesNeedAClaim /\ AnsweredIsPublished
=============================================================================
