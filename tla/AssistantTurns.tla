---------------------------- MODULE AssistantTurns ----------------------------
(***************************************************************************)
(* Turns of the assistant: the API (api_service/routers/assistant.py), the *)
(* job list and the cancellation keys in Redis                             *)
(* (common/assistant_streams.py), the workers (assistant_worker/main.py)   *)
(* and the store they share, PostgreSQL                                    *)
(* (common/postgres_assistant_store.py) or one JSON file                   *)
(* (common/assistant_store.py).                                            *)
(*                                                                         *)
(* A streamed message is a job for a worker; any other, and a retry, is    *)
(* executed by the API.  Either starts a turn, works on an answer, appends *)
(* it to the thread and then sets the turn's status.  There is one thread, *)
(* which is not deleted for good.                                          *)
(* Times are not kept: any turn under way may be the one updated last, and *)
(* any may have gone without a heartbeat for long enough.                  *)
(***************************************************************************)
EXTENDS Integers, Sequences, FiniteSets

CONSTANTS
    Messages,  \* streamed messages
    Workers,   \* processes of the assistant worker
    Api,       \* the process of the API
    Backend,   \* RAVAN_ASSISTANT_STORE_BACKEND: "postgres" or "json"
    NoJob,
    MaxTurns,  \* bound: turns
    MaxTitles, \* bound: times the thread is renamed, archived or restored in PostgreSQL
    MaxKills   \* bound: failed store calls and processes killed

ASSUME AssistantTurnsAssumption ==
    /\ Api \notin Workers
    /\ Backend \in {"postgres", "json"}
    /\ NoJob \notin Messages \cup Workers \cup {Api}
    /\ {MaxTurns, MaxTitles, MaxKills} \subseteq Nat

VARIABLES
    streams,    \* messages streamed, each with its owner bound
    jobs,       \* ravan:assistant:jobs
    job,        \* the message each worker is working on, or NoJob
    turn,       \* executions: where each turn's executor is, who it is, for which message
    store,      \* what is stored: status and retryable of each turn, turns with an answer
    fileCopy,   \* the copy of it each process keeps when the store is a file
    begun,      \* turns begun
    cancelKeys, \* messages with a cancellation key
    cancelling, \* pairs of a message and the turn its cancellation is about to write
    streamEnd,  \* last events published on a message's stream
    kills,      \* failures so far
    titling,    \* who is renaming the thread, or NoJob, and the answers it has read
    titles,     \* renamings so far
    overwritten \* history: answers a renaming replaced the thread without

titleVars == <<titling, titles, overwritten>>
turnVars == <<streams, jobs, job, turn, store, fileCopy, begun, cancelKeys, cancelling, streamEnd, kills,
              titleVars>>

Turns == 1..MaxTurns
Processes == Workers \cup {Api}
Statuses == {"none", "running", "executing", "failed", "completed"}
Contents == [status : [Turns -> Statuses], retryable : [Turns -> BOOLEAN], answered : SUBSET Turns]
Executions ==
    [pc : {"none", "started", "working", "answered", "erred", "settled", "done"}, host : Processes,
     message : Messages \cup {NoJob}]

AssistantTypeOK ==
    /\ streams \subseteq Messages
    /\ jobs \in Seq(Messages)
    /\ job \in [Workers -> Messages \cup {NoJob}]
    /\ turn \in [Turns -> Executions]
    /\ store \in Contents /\ fileCopy \in [Processes -> Contents]
    /\ begun \in 0..MaxTurns
    /\ cancelKeys \subseteq Messages
    /\ cancelling \subseteq Messages \X Turns
    /\ streamEnd \in [Messages -> SUBSET {"complete", "error"}]
    /\ kills \in 0..MaxKills
    /\ titling \in [by : Processes \cup {NoJob}, answered : SUBSET Turns]
    /\ titles \in 0..MaxTitles
    /\ overwritten \subseteq Turns

Empty == [status |-> [t \in Turns |-> "none"], retryable |-> [t \in Turns |-> FALSE], answered |-> {}]

NotTitling == [by |-> NoJob, answered |-> {}]

AssistantInit ==
    /\ streams = {}
    /\ jobs = <<>>
    /\ job = [w \in Workers |-> NoJob]
    /\ turn = [t \in Turns |-> [pc |-> "none", host |-> Api, message |-> NoJob]]
    /\ store = Empty
    /\ fileCopy = [p \in Processes |-> Empty]
    /\ begun = 0
    /\ cancelKeys = {} /\ cancelling = {}
    /\ streamEnd = [m \in Messages |-> {}]
    /\ kills = 0
    /\ titling = NotTitling /\ titles = 0 /\ overwritten = {}
-----------------------------------------------------------------------------
(* The store. *)

\* What a process reads: the tables, or the copy of the file it has in memory.
View(p) == IF Backend = "postgres" THEN store ELSE fileCopy[p]

\* A change to what a process reads; with a file, all of its copy replaces the file.
Save(p, content) ==
    /\ store' = content
    /\ fileCopy' = IF Backend = "postgres" THEN fileCopy ELSE [fileCopy EXCEPT ![p] = content]

SetStatus(content, t, status, retryable) ==
    [content EXCEPT !.status[t] = status, !.retryable[t] = retryable]

UnderWay(content) == {t \in Turns : content.status[t] \in {"running", "executing"}}

\* latest_running_turn; the file's leaves out the turns a worker has claimed.
Cancellable(content) ==
    IF Backend = "postgres" THEN UnderWay(content)
    ELSE {t \in Turns : content.status[t] = "running"}

Kill == kills < MaxKills /\ kills' = kills + 1

TurnGoto(t, pc) == turn' = [turn EXCEPT ![t].pc = pc]

PublishEnd(m, event) == streamEnd' = [streamEnd EXCEPT ![m] = @ \cup {event}]
-----------------------------------------------------------------------------
(* The API. *)

\* Room within the bound for one more turn, when every message streamed has its own.
Room == begun + Cardinality({m \in streams : \A t \in Turns : turn[t].message # m}) < MaxTurns

\* stream_message
StreamMessage(m) ==
    /\ m \notin streams /\ Room
    /\ streams' = streams \cup {m}
    /\ jobs' = Append(jobs, m)
    /\ UNCHANGED <<job, turn, store, fileCopy, begun, cancelKeys, cancelling, streamEnd, kills, titleVars>>

\* start_turn_with_user_message
StartTurn(p, m) ==
    /\ begun' = begun + 1
    /\ turn' = [turn EXCEPT ![begun'] = [pc |-> "started", host |-> p, message |-> m]]
    /\ Save(p, SetStatus(View(p), begun', "running", FALSE))

\* send_message: a message that is not streamed.
SendMessage ==
    /\ Room
    /\ StartTurn(Api, NoJob)
    /\ UNCHANGED <<streams, jobs, job, cancelKeys, cancelling, streamEnd, kills, titleVars>>

\* retry_failed_turn: the failed turn stays as it is, and open to another retry.
RetryTurn(t) ==
    /\ View(Api).status[t] = "failed" /\ View(Api).retryable[t]
    /\ Room
    /\ StartTurn(Api, NoJob)
    /\ UNCHANGED <<streams, jobs, job, cancelKeys, cancelling, streamEnd, kills, titleVars>>

\* cancel_stream: the key, then the turn found under way, whichever message it belongs to.
CancelStream(m) ==
    /\ m \in streams \ cancelKeys
    /\ cancelKeys' = cancelKeys \cup {m}
    /\ IF Cancellable(View(Api)) = {}
       THEN PublishEnd(m, "error") /\ UNCHANGED cancelling
       ELSE /\ \E t \in Cancellable(View(Api)) : cancelling' = cancelling \cup {<<m, t>>}
            /\ UNCHANGED streamEnd
    /\ UNCHANGED <<streams, jobs, job, turn, store, fileCopy, begun, kills, titleVars>>

\* Its update_turn asks no more whether the turn is under way.
CancelTurn(m, t) ==
    /\ <<m, t>> \in cancelling
    /\ Save(Api, SetStatus(View(Api), t, "failed", FALSE))
    /\ cancelling' = cancelling \ {<<m, t>>}
    /\ PublishEnd(m, "error")
    /\ UNCHANGED <<streams, jobs, job, turn, begun, cancelKeys, kills, titleVars>>

\* Anything else the API stores: a memory, an action, and in a file the thread and its title.
OtherRequest ==
    /\ Save(Api, View(Api))
    /\ UNCHANGED <<streams, jobs, job, turn, begun, cancelKeys, cancelling, streamEnd, kills, titleVars>>
-----------------------------------------------------------------------------
(* The worker's loop. *)

\* Mutant of ReapTurn: a claimed turn is not looked at.
ReapUnclaimed(w, t) ==
    /\ job[w] = NoJob
    /\ View(w).status[t] = "running"
    /\ Save(w, SetStatus(View(w), t, "failed", TRUE))
    /\ UNCHANGED <<streams, jobs, job, turn, begun, cancelKeys, cancelling, streamEnd, kills, titleVars>>

\* reap_stale_turns, for one of the turns it finds stale.
ReapTurn(w, t) ==
    /\ job[w] = NoJob
    /\ t \in UnderWay(View(w))
    /\ Save(w, SetStatus(View(w), t, "failed", TRUE))
    /\ UNCHANGED <<streams, jobs, job, turn, begun, cancelKeys, cancelling, streamEnd, kills, titleVars>>

\* dequeue_job takes the job off the list; a file is then read again.
Dequeue(w) ==
    /\ job[w] = NoJob /\ jobs # <<>>
    /\ job' = [job EXCEPT ![w] = Head(jobs)] /\ jobs' = Tail(jobs)
    /\ fileCopy' = IF Backend = "postgres" THEN fileCopy ELSE [fileCopy EXCEPT ![w] = store]
    /\ UNCHANGED <<streams, turn, store, begun, cancelKeys, cancelling, streamEnd, kills, titleVars>>

\* execute_job
StartJob(w) ==
    /\ job[w] # NoJob /\ \A t \in Turns : turn[t].message # job[w]
    /\ StartTurn(w, job[w])
    /\ UNCHANGED <<streams, jobs, job, cancelKeys, cancelling, streamEnd, kills, titleVars>>

\* The thread is gone or the store does not answer.
StartJobFails(w) ==
    /\ job[w] # NoJob /\ \A t \in Turns : turn[t].message # job[w]
    /\ Kill
    /\ PublishEnd(job[w], "error")
    /\ job' = [job EXCEPT ![w] = NoJob]
    /\ UNCHANGED <<streams, jobs, turn, store, fileCopy, begun, cancelKeys, cancelling, titleVars>>
-----------------------------------------------------------------------------
(* rename_thread, archive_thread and restore_thread of PostgreSQL, for a request or for the title
   of a first message: the thread is read in one transaction and replaced in another. *)

ReadThread(p) ==
    /\ Backend = "postgres" /\ titling.by = NoJob /\ titles < MaxTitles
    /\ titling' = [by |-> p, answered |-> store.answered]
    /\ titles' = titles + 1
    /\ UNCHANGED <<streams, jobs, job, turn, store, fileCopy, begun, cancelKeys, cancelling, streamEnd, kills,
                   overwritten>>

WriteThread ==
    /\ titling.by # NoJob
    /\ store' = [store EXCEPT !.answered = titling.answered]
    /\ overwritten' = overwritten \cup (store.answered \ titling.answered)
    /\ titling' = NotTitling
    /\ UNCHANGED <<streams, jobs, job, turn, fileCopy, begun, cancelKeys, cancelling, streamEnd, kills,
                   titles>>
-----------------------------------------------------------------------------
(* _send_message_impl, in a worker or in the API. *)

FreeWorker(t) ==
    job' = IF turn[t].host = Api THEN job ELSE [job EXCEPT ![turn[t].host] = NoJob]

PublishFor(t, event) ==
    IF turn[t].message = NoJob THEN UNCHANGED streamEnd ELSE PublishEnd(turn[t].message, event)

\* claim_turn, which a worker asks for and goes on without.
ClaimTurn(t) ==
    /\ turn[t].pc = "started"
    /\ IF turn[t].host # Api /\ View(turn[t].host).status[t] = "running"
       THEN Save(turn[t].host, SetStatus(View(turn[t].host), t, "executing", FALSE))
       ELSE UNCHANGED <<store, fileCopy>>
    /\ TurnGoto(t, "working")
    /\ UNCHANGED <<streams, jobs, job, begun, cancelKeys, cancelling, streamEnd, kills, titleVars>>

\* on_token: unless the stream is cancelled, the heartbeat is stored.
Token(t) ==
    /\ turn[t].pc = "working" /\ turn[t].host # Api
    /\ IF turn[t].message \in cancelKeys
       THEN /\ TurnGoto(t, "done") /\ FreeWorker(t)
            /\ PublishEnd(turn[t].message, "error")
            /\ UNCHANGED <<store, fileCopy>>
       ELSE /\ IF Cancellable(View(turn[t].host)) = {} THEN UNCHANGED <<store, fileCopy>>
               ELSE Save(turn[t].host, View(turn[t].host))
            /\ UNCHANGED <<turn, job, streamEnd>>
    /\ UNCHANGED <<streams, jobs, begun, cancelKeys, cancelling, kills, titleVars>>

\* Mutant of AppendAnswer: the answer is left to the stream.
StreamAnswer(t) ==
    /\ turn[t].pc = "working" /\ titling.by # turn[t].host
    /\ \E pc \in {"answered", "erred"} : TurnGoto(t, pc)
    /\ UNCHANGED <<streams, jobs, job, store, fileCopy, begun, cancelKeys, cancelling, streamEnd, kills,
                   titleVars>>

\* append_message: an answer, or what went wrong with the tools or the model.  A process that has
\* read the thread to rename it replaces it before it appends anything.
AppendAnswer(t) ==
    /\ turn[t].pc = "working" /\ titling.by # turn[t].host
    /\ Save(turn[t].host, [View(turn[t].host) EXCEPT !.answered = @ \cup {t}])
    /\ \E pc \in {"answered", "erred"} : TurnGoto(t, pc)
    /\ UNCHANGED <<streams, jobs, job, begun, cancelKeys, cancelling, streamEnd, kills, titleVars>>

\* Mutant of UpdateTurn: a turn that is not under way any more is left alone.
UpdateUnderWay(t) ==
    /\ turn[t].pc \in {"answered", "erred"}
    /\ IF t \in UnderWay(View(turn[t].host))
       THEN \E retryable \in IF turn[t].pc = "erred" THEN BOOLEAN ELSE {FALSE} :
                Save(turn[t].host, SetStatus(View(turn[t].host), t,
                        IF turn[t].pc = "erred" THEN "failed" ELSE "completed", retryable))
       ELSE UNCHANGED <<store, fileCopy>>
    /\ TurnGoto(t, IF turn[t].pc = "answered" THEN "settled" ELSE "done") /\ FreeWorker(t)
    /\ PublishFor(t, "complete")
    /\ UNCHANGED <<streams, jobs, begun, cancelKeys, cancelling, kills, titleVars>>

\* update_turn, whatever has become of the turn; then the stream's last event.
UpdateTurn(t) ==
    /\ turn[t].pc \in {"answered", "erred"}
    /\ \E retryable \in IF turn[t].pc = "erred" THEN BOOLEAN ELSE {FALSE} :
           Save(turn[t].host, SetStatus(View(turn[t].host), t,
                   IF turn[t].pc = "erred" THEN "failed" ELSE "completed", retryable))
    /\ TurnGoto(t, IF turn[t].pc = "answered" THEN "settled" ELSE "done") /\ FreeWorker(t)
    /\ PublishFor(t, "complete")
    /\ UNCHANGED <<streams, jobs, begun, cancelKeys, cancelling, kills, titleVars>>

\* A call to the store raises, or the thread has been archived: the turn is left as it is.
GiveUp(t) ==
    /\ turn[t].pc \in {"working", "answered", "erred"}
    /\ Kill
    /\ TurnGoto(t, "done") /\ FreeWorker(t)
    /\ PublishFor(t, "error")
    /\ UNCHANGED <<streams, jobs, store, fileCopy, begun, cancelKeys, cancelling, titleVars>>

\* A process is killed and started again: its job is on no list any more.
Killed(p) ==
    LET mine == {t \in Turns : turn[t].host = p /\ turn[t].pc \notin {"none", "settled", "done"}}
    IN  /\ Kill
        /\ turn' = [t \in Turns |-> IF t \in mine THEN [turn[t] EXCEPT !.pc = "done"] ELSE turn[t]]
        /\ job' = IF p = Api THEN job ELSE [job EXCEPT ![p] = NoJob]
        /\ cancelling' = IF p = Api THEN {} ELSE cancelling
        /\ fileCopy' = IF Backend = "postgres" THEN fileCopy ELSE [fileCopy EXCEPT ![p] = store]
        /\ titling' = IF titling.by = p THEN NotTitling ELSE titling
        /\ UNCHANGED <<streams, jobs, store, begun, cancelKeys, streamEnd, titles, overwritten>>

\* What the executor of a turn does when nothing fails.
Proceed(t) == ClaimTurn(t) \/ AppendAnswer(t) \/ UpdateTurn(t)

AssistantNext ==
    \/ \E m \in Messages : StreamMessage(m) \/ CancelStream(m) \/ \E t \in Turns : CancelTurn(m, t)
    \/ \E t \in Turns : RetryTurn(t) \/ Proceed(t) \/ Token(t) \/ GiveUp(t)
    \/ \E w \in Workers : Dequeue(w) \/ StartJob(w) \/ StartJobFails(w) \/ \E t \in Turns : ReapTurn(w, t)
    \/ SendMessage \/ OtherRequest \/ WriteThread
    \/ \E p \in Processes : ReadThread(p) \/ Killed(p)

AssistantSpec == AssistantInit /\ [][AssistantNext]_turnVars

\* The worker's loop takes up a job, and comes back to the turns that went stale.
Loop(w) == StartJob(w) \/ \E t \in Turns : ReapTurn(w, t)

AssistantFairness ==
    /\ WF_turnVars(WriteThread \/ \E t \in Turns : Proceed(t))
    /\ \A w \in Workers : WF_turnVars(Loop(w))
-----------------------------------------------------------------------------
(* What the stream called complete, and a turn that is stored as completed, has its answer in the
   store: nothing the API, a worker or the reaper writes later takes it away, but a renaming that
   read the thread before the answer was appended and replaced it after. *)
AnswersAreKept ==
    \A t \in Turns :
        \/ turn[t].message # NoJob /\ "complete" \in streamEnd[turn[t].message]
        \/ store.status[t] = "completed"
        => t \in store.answered \cup overwritten

(* The final messages are persisted through the store: whatever the stream called complete has
   its answer there. *)
AnswersArePersisted ==
    \A t \in Turns :
        turn[t].message # NoJob /\ "complete" \in streamEnd[turn[t].message] => t \in store.answered

(* A turn whose executor has answered it and set its status is not offered for a retry, however
   its reaping, a cancellation and the executor interleave. *)
AnsweredIsNotRetried ==
    \A t \in Turns : turn[t].pc = "settled" => ~(store.status[t] = "failed" /\ store.retryable[t])

(* Turns under way are settled in the end, also those whose executor died, was cancelled or could
   not store the answer. *)
TurnsAreSettled == UnderWay(store) # {} ~> UnderWay(store) = {}
=============================================================================
