------------------------------- MODULE ReplayJob -------------------------------
(***************************************************************************)
(* Replays of a stored dataset (api_service/replay_state.py, routes in     *)
(* routers/historian.py): one state and one stop event for the process, a  *)
(* thread for each replay started.                                         *)
(*                                                                         *)
(* The routes and the thread's updates of the state hold the lock, the     *)
(* thread's loop does not.  A stop does not wait for the thread, so that a *)
(* start may find it running.  Replays are numbered in order of start.     *)
(***************************************************************************)
EXTENDS Integers

CONSTANTS
    MaxReplays,     \* bound: replays started
    Rows,           \* rows of the dataset
    MaxReplayFaults \* bound: rows or Kafka calls that fail

ASSUME ReplayAssumption == {MaxReplays, Rows, MaxReplayFaults} \subseteq Nat

VARIABLES
    replayRunning, replayStatus, \* of _STATE
    stopEvent,                   \* _STOP_EVENT
    started,                     \* replays started so far
    thread,                      \* of each replay: where its thread is
    emitted,                     \* rows it has produced
    unacknowledged,              \* those its Kafka client still holds
    replayFaults                 \* faults so far

replayVars == <<replayRunning, replayStatus, stopEvent, started, thread, emitted, unacknowledged,
                replayFaults>>

Replays == 1..MaxReplays
Verdicts == {"completed", "stopped", "error"}

ReplayTypeOK ==
    /\ replayRunning \in BOOLEAN
    /\ replayStatus \in {"idle", "running"} \cup Verdicts
    /\ stopEvent \in BOOLEAN
    /\ started \in 0..MaxReplays
    /\ thread \in [Replays -> {"none", "loop", "publish", "flush", "done"} \cup Verdicts]
    /\ emitted \in [Replays -> 0..Rows] /\ unacknowledged \in [Replays -> 0..Rows]
    /\ replayFaults \in 0..MaxReplayFaults

ReplayInit ==
    /\ replayRunning = FALSE /\ replayStatus = "idle"
    /\ stopEvent = FALSE
    /\ started = 0
    /\ thread = [n \in Replays |-> "none"]
    /\ emitted = [n \in Replays |-> 0] /\ unacknowledged = [n \in Replays |-> 0]
    /\ replayFaults = 0

Alive == {n \in Replays : thread[n] \notin {"none", "done"}}
-----------------------------------------------------------------------------
StartReplay ==
    /\ started < MaxReplays
    /\ ~replayRunning
    /\ started' = started + 1
    /\ stopEvent' = FALSE
    /\ replayRunning' = TRUE /\ replayStatus' = "running"
    /\ thread' = [thread EXCEPT ![started'] = "loop"]
    /\ UNCHANGED <<emitted, unacknowledged, replayFaults>>

StopReplay ==
    /\ stopEvent' = TRUE
    /\ replayRunning' = FALSE /\ replayStatus' = "stopped"
    /\ UNCHANGED <<started, thread, emitted, unacknowledged, replayFaults>>

\* The condition of the loop.
TestLoop(n) ==
    /\ thread[n] = "loop"
    /\ thread' = [thread EXCEPT ![n] = IF ~stopEvent /\ emitted[n] < Rows THEN "publish" ELSE "flush"]
    /\ UNCHANGED <<replayRunning, replayStatus, stopEvent, started, emitted, unacknowledged, replayFaults>>

\* Its body; a row that cannot be read or produced ends the replay.
PublishRow(n) ==
    /\ thread[n] = "publish"
    /\ \/ /\ thread' = [thread EXCEPT ![n] = "loop"]
          /\ emitted' = [emitted EXCEPT ![n] = @ + 1]
          /\ unacknowledged' = [unacknowledged EXCEPT ![n] = @ + 1]
          /\ UNCHANGED replayFaults
       \/ /\ replayFaults < MaxReplayFaults /\ replayFaults' = replayFaults + 1
          /\ thread' = [thread EXCEPT ![n] = "error"]
          /\ UNCHANGED <<emitted, unacknowledged>>
    /\ UNCHANGED <<replayRunning, replayStatus, stopEvent, started>>

\* Kafka acknowledges a row, or the client gives it up, which nobody looks at.
Acknowledge(n) ==
    /\ unacknowledged[n] > 0
    /\ unacknowledged' = [unacknowledged EXCEPT ![n] = @ - 1]
    /\ UNCHANGED <<replayRunning, replayStatus, stopEvent, started, thread, emitted, replayFaults>>

Verdict == IF stopEvent THEN "stopped" ELSE "completed"

\* flush waits ten seconds; rows left after that are an error.
Flush(n) ==
    /\ thread[n] = "flush"
    /\ \/ /\ unacknowledged[n] = 0
          /\ thread' = [thread EXCEPT ![n] = Verdict]
          /\ UNCHANGED replayFaults
       \/ /\ unacknowledged[n] > 0
          /\ replayFaults < MaxReplayFaults /\ replayFaults' = replayFaults + 1
          /\ thread' = [thread EXCEPT ![n] = "error"]
    /\ UNCHANGED <<replayRunning, replayStatus, stopEvent, started, emitted, unacknowledged>>

\* Mutant of Finish: a failed replay goes on counting as running.
FinishRunning(n) ==
    /\ thread[n] \in Verdicts
    /\ replayRunning' = (replayRunning /\ thread[n] = "error")
    /\ replayStatus' = thread[n]
    /\ thread' = [thread EXCEPT ![n] = "done"]
    /\ UNCHANGED <<stopEvent, started, emitted, unacknowledged, replayFaults>>

\* _finish: of whichever replay the thread is, the state is overwritten.
Finish(n) ==
    /\ thread[n] \in Verdicts
    /\ replayRunning' = FALSE
    /\ replayStatus' = thread[n]
    /\ thread' = [thread EXCEPT ![n] = "done"]
    /\ UNCHANGED <<stopEvent, started, emitted, unacknowledged, replayFaults>>

Step(n) == TestLoop(n) \/ PublishRow(n) \/ Flush(n) \/ Finish(n)

ReplayNext ==
    \/ StartReplay \/ StopReplay
    \/ \E n \in Replays : Step(n) \/ Acknowledge(n)

ReplaySpec == ReplayInit /\ [][ReplayNext]_replayVars
-----------------------------------------------------------------------------
(* While the state says that a replay is running, the thread of the one started last is alive and
   will say when it ends, whatever threads of stopped replays finish in the meantime: start_replay
   is never refused for good. *)
RunningHasItsThread == replayRunning => started \in Alive
=============================================================================
