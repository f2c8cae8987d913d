--------------------------- MODULE ProcessSupervisor ---------------------------
(***************************************************************************)
(* cli/datastreamd.py: supervise, which runs the services of a site as its *)
(* children and restarts them within a budget, and the commands up, down   *)
(* and restart of an operator, all over one file of process records.       *)
(*                                                                         *)
(* A process is the k-th one launched of its service; process numbers are  *)
(* not used twice.  Children stay in the process group of supervise, which *)
(* down signals as a whole; what up starts has a session of its own.  Exits*)
(* that the restart window has left behind are forgotten one by one.       *)
(***************************************************************************)
EXTENDS Naturals, Sequences

CONSTANTS
    Order,         \* the services, in the order they are started in
    MaxRestarts,   \* --max-restarts
    MaxExits,      \* bound: processes that end without being told to
    MaxCommands,   \* bound: commands of the operator
    MaxSupFaults   \* bound: failed launches, stuck processes, torn reads and interrupted commands

ASSUME ProcessSupervisorAssumption ==
    /\ Order \in Seq({Order[i] : i \in DOMAIN Order}) /\ Order # <<>>
    /\ {MaxRestarts, MaxExits, MaxCommands, MaxSupFaults} \subseteq Nat

VARIABLES
    process,       \* state of each process: none, live, stopping (signalled) or dead
    records,       \* processes.json: a copy of each service, or 0
    supPc,         \* supervise: off, launch, poll, backoff, finally, ended, raised
    launching,     \* place in Order, or the service in its backoff
    children,      \* its children
    exitHistory,   \* exits of each service within the window
    stopRequested,
    upPc,          \* an operator's up: its place in Order, or 0
    upRecords,     \* the records it has loaded and adds to
    upNames,       \* the services it was asked for
    supervised,    \* history: processes supervise has launched
    exits, commands, supFaults

supVars == <<process, records, supPc, launching, children, exitHistory, stopRequested,
             upPc, upRecords, upNames, supervised, exits, commands, supFaults>>

Places == DOMAIN Order
Copies == 1..(1 + MaxExits + MaxCommands)
Copied == [Places -> {0} \cup Copies]
NoRecords == [i \in Places |-> 0]

SupTypeOK ==
    /\ process \in [Places -> [Copies -> {"none", "live", "stopping", "dead"}]]
    /\ records \in Copied /\ children \in Copied /\ upRecords \in Copied
    /\ supPc \in {"off", "launch", "poll", "backoff", "finally", "ended", "raised"}
    /\ launching \in Places
    /\ exitHistory \in [Places -> 0..(MaxRestarts + 1)]
    /\ stopRequested \in BOOLEAN
    /\ upPc \in 0..(Len(Order) + 1)
    /\ upNames \subseteq Places
    /\ supervised \subseteq Places \X Copies
    /\ exits \in 0..MaxExits /\ commands \in 0..MaxCommands /\ supFaults \in 0..MaxSupFaults

SupInit ==
    /\ process = [i \in Places |-> [k \in Copies |-> "none"]]
    /\ records = NoRecords
    /\ supPc = "off" /\ launching = 1 /\ children = NoRecords
    /\ exitHistory = [i \in Places |-> 0] /\ stopRequested = FALSE
    /\ upPc = 0 /\ upRecords = NoRecords /\ upNames = {}
    /\ supervised = {} /\ exits = 0 /\ commands = 0 /\ supFaults = 0

SupFault == supFaults < MaxSupFaults /\ supFaults' = supFaults + 1

Alive(i, k) == k # 0 /\ process[i][k] \in {"live", "stopping"}

\* _spawn_one: the next copy of service i.
Spawn(i, k) ==
    /\ k \in Copies /\ process[i][k] = "none" /\ (k > 1 => process[i][k - 1] # "none")
    /\ process' = [process EXCEPT ![i][k] = "live"]

operatorVars == <<upPc, upRecords, upNames, exits, commands>>
-----------------------------------------------------------------------------
(* supervise. *)

StartSupervise ==
    /\ supPc = "off" /\ supPc' = "launch"
    /\ UNCHANGED <<process, records, launching, children, exitHistory, stopRequested, supervised,
                   operatorVars, supFaults>>

\* launch: the child is recorded, in memory and in the file.
Launch(i) ==
    /\ \E k \in Copies :
        /\ Spawn(i, k)
        /\ children' = [children EXCEPT ![i] = k]
        /\ supervised' = supervised \cup {<<i, k>>}
    /\ records' = children'

\* The first launches go on whether or not a stop was requested.
LaunchNext ==
    /\ supPc = "launch"
    /\ Launch(launching)
    /\ IF launching = Len(Order)
       THEN supPc' = "poll" /\ UNCHANGED launching
       ELSE launching' = launching + 1 /\ UNCHANGED supPc
    /\ UNCHANGED <<exitHistory, stopRequested, operatorVars, supFaults>>

LaunchFails ==
    /\ supPc = "launch" \/ (supPc = "backoff" /\ ~stopRequested)
    /\ SupFault
    /\ stopRequested' = TRUE /\ supPc' = "finally"
    /\ records' = IF supPc = "backoff" THEN children ELSE records
    /\ UNCHANGED <<process, launching, children, exitHistory, supervised, operatorVars>>

ForgetExit(i) ==
    /\ supPc \in {"poll", "backoff"} /\ exitHistory[i] > 0
    /\ exitHistory' = [exitHistory EXCEPT ![i] = @ - 1]
    /\ UNCHANGED <<process, records, supPc, launching, children, stopRequested, supervised,
                   operatorVars, supFaults>>

\* A child has exited: it is restarted after a pause, or supervision ends.
ChildExited(i) ==
    /\ supPc = "poll"
    /\ children[i] # 0 /\ process[i][children[i]] = "dead"
    /\ children' = [children EXCEPT ![i] = 0]
    /\ exitHistory' = [exitHistory EXCEPT ![i] = @ + 1]
    /\ launching' = i
    /\ IF exitHistory[i] + 1 > MaxRestarts
       THEN stopRequested' = TRUE /\ supPc' = "finally" /\ records' = children'
       ELSE supPc' = "backoff" /\ UNCHANGED <<stopRequested, records>>
    /\ UNCHANGED <<process, supervised, operatorVars, supFaults>>

\* Mutant of Relaunch: after the pause the loop goes on to the next service.
RelaunchForgotten ==
    /\ supPc = "backoff" /\ supPc' = "poll"
    /\ UNCHANGED <<process, records, launching, children, exitHistory, stopRequested, supervised,
                   operatorVars, supFaults>>

Relaunch ==
    /\ supPc = "backoff" /\ supPc' = "poll"
    /\ IF stopRequested THEN UNCHANGED <<process, records, children, supervised>> ELSE Launch(launching)
    /\ UNCHANGED <<launching, exitHistory, stopRequested, operatorVars, supFaults>>

\* The end of a round: the file is written again, and the loop's condition tested.
EndRound ==
    /\ supPc = "poll"
    /\ records' = children
    /\ supPc' = IF stopRequested \/ children = NoRecords THEN "finally" ELSE "poll"
    /\ UNCHANGED <<process, launching, children, exitHistory, stopRequested, supervised, operatorVars, supFaults>>

\* SIGTERM or SIGINT to supervise.
RequestStop ==
    /\ supPc \in {"launch", "poll", "backoff"} /\ ~stopRequested
    /\ stopRequested' = TRUE
    /\ UNCHANGED <<process, records, supPc, launching, children, exitHistory, supervised, operatorVars, supFaults>>

\* finally takes the children one by one.
Terminating(i) == supPc = "finally" /\ children[i] # 0 /\ \A j \in Places : j < i => children[j] = 0

Signal(i, k) ==
    process' = IF process[i][k] = "live" THEN [process EXCEPT ![i][k] = "stopping"] ELSE process

\* Mutant of Terminate: it does not wait.
TerminateOnly(i) ==
    /\ Terminating(i)
    /\ Signal(i, children[i]) /\ children' = [children EXCEPT ![i] = 0]
    /\ UNCHANGED <<records, supPc, launching, exitHistory, stopRequested, supervised, operatorVars, supFaults>>

\* _terminate_process: a signal, and then the wait for the end.
Terminate(i) ==
    /\ Terminating(i)
    /\ \/ process[i][children[i]] = "live" /\ Signal(i, children[i]) /\ UNCHANGED children
       \/ /\ process[i][children[i]] = "dead"
          /\ children' = [children EXCEPT ![i] = 0] /\ UNCHANGED process
    /\ UNCHANGED <<records, supPc, launching, exitHistory, stopRequested, supervised, operatorVars, supFaults>>

\* Mutant of Kill: the wait has no time-out.
WaitLonger(i) == Terminating(i) /\ UNCHANGED supVars

\* The wait times out: the child is killed.
Kill(i) ==
    /\ Terminating(i) /\ process[i][children[i]] = "stopping"
    /\ process' = [process EXCEPT ![i][children[i]] = "dead"]
    /\ UNCHANGED <<records, supPc, launching, children, exitHistory, stopRequested, supervised,
                   operatorVars, supFaults>>

\* The second wait times out too: the exception leaves finally, with the other children running.
KillTimesOut(i) ==
    /\ Terminating(i) /\ process[i][children[i]] = "stopping"
    /\ SupFault
    /\ supPc' = "raised"
    /\ UNCHANGED <<process, records, launching, children, exitHistory, stopRequested, supervised, operatorVars>>

EndSupervise ==
    /\ supPc = "finally" /\ children = NoRecords
    /\ records' = NoRecords
    /\ supPc' = "ended"
    /\ UNCHANGED <<process, launching, children, exitHistory, stopRequested, supervised, operatorVars, supFaults>>

Supervision ==
    \/ LaunchNext \/ Relaunch \/ EndRound \/ EndSupervise
    \/ \E i \in Places : ChildExited(i) \/ Terminate(i) \/ Kill(i)
-----------------------------------------------------------------------------
(* The commands of an operator, one at a time, and the processes. *)

supervisionVars == <<supPc, launching, children, exitHistory, supervised>>

Command == upPc = 0 /\ commands < MaxCommands /\ commands' = commands + 1

\* _is_alive: what has a process number, a child supervise has not waited for yet included.
IsAlive(i, k) == Alive(i, k) \/ (k # 0 /\ children[i] = k /\ supPc # "raised")

Loaded == [i \in Places |-> IF IsAlive(i, records[i]) THEN records[i] ELSE 0]

\* cmd_up: the records of what is alive; a file that is being written reads as no records at all.
Up(names) ==
    /\ Command
    /\ upPc' = 1 /\ upNames' = names
    /\ \/ upRecords' = Loaded /\ UNCHANGED supFaults
       \/ upRecords' = NoRecords /\ SupFault
    /\ UNCHANGED <<process, records, supervisionVars, stopRequested, exits>>

\* A service that is not running is started, or its launch fails and up goes on to the next.
UpService ==
    /\ upPc \in Places /\ upPc' = upPc + 1
    /\ IF upPc \in upNames /\ upRecords[upPc] = 0
       THEN \/ /\ \E k \in Copies : Spawn(upPc, k) /\ upRecords' = [upRecords EXCEPT ![upPc] = k]
               /\ UNCHANGED supFaults
            \/ SupFault /\ UNCHANGED <<process, upRecords>>
       ELSE UNCHANGED <<process, upRecords, supFaults>>
    /\ UNCHANGED <<records, supervisionVars, stopRequested, upNames, exits, commands>>

UpSave ==
    /\ upPc = Len(Order) + 1 /\ upPc' = 0
    /\ records' = upRecords
    /\ UNCHANGED <<process, supervisionVars, stopRequested, upRecords, upNames, exits, commands, supFaults>>

\* Interrupted while it waits for the health of a service.
UpInterrupted ==
    /\ upPc # 0 /\ upPc' = 0
    /\ SupFault
    /\ UNCHANGED <<process, records, supervisionVars, stopRequested, upRecords, upNames, exits, commands>>

\* What down signals for the names: sessions, or the group of supervise with all its children.
Signalled(names) ==
    LET told == {<<i, records[i]>> : i \in {j \in names : IsAlive(j, records[j])}}
    IN  told \cup (IF told \cap supervised = {} THEN {} ELSE supervised)

\* cmd_down.
StopServices(names) ==
    /\ Command
    /\ process' = [i \in Places |-> [k \in Copies |->
            IF <<i, k>> \in Signalled(names) /\ process[i][k] = "live" THEN "stopping" ELSE process[i][k]]]
    /\ stopRequested' = (stopRequested \/ Signalled(names) \cap supervised # {})
    /\ records' = [i \in Places |-> IF i \in names THEN 0 ELSE records[i]]
    /\ UNCHANGED <<supervisionVars, exits, supFaults>>

Down(names) == StopServices(names) /\ UNCHANGED <<upPc, upRecords, upNames>>

\* cmd_restart: up follows at once, whether or not the old processes have ended.
Restart(names) ==
    /\ StopServices(names)
    /\ upPc' = 1 /\ upNames' = names
    /\ upRecords' = [i \in Places |-> IF i \in names THEN 0 ELSE Loaded[i]]

\* A process that was signalled ends when it likes.
ProcessEnds(i, k) ==
    /\ Alive(i, k)
    /\ process' = [process EXCEPT ![i][k] = "dead"]
    /\ IF process[i][k] = "live" THEN exits < MaxExits /\ exits' = exits + 1 ELSE UNCHANGED exits
    /\ UNCHANGED <<records, supervisionVars, stopRequested, upPc, upRecords, upNames, commands, supFaults>>

SupNext ==
    \/ StartSupervise \/ Supervision \/ LaunchFails \/ RequestStop
    \/ \E i \in Places : ForgetExit(i) \/ KillTimesOut(i) \/ \E k \in Copies : ProcessEnds(i, k)
    \/ \E names \in (SUBSET Places) \ {{}} : Up(names) \/ Down(names) \/ Restart(names)
    \/ UpService \/ UpSave \/ UpInterrupted

SupSpec == SupInit /\ [][SupNext]_supVars /\ WF_supVars(Supervision)
-----------------------------------------------------------------------------
(* A supervision that ends as it should leaves none of its children running, restarted ones and
   those that ignore SIGTERM included. *)
EndedLeavesNothing == supPc = "ended" => \A c \in supervised : ~Alive(c[1], c[2])

(* A requested stop ends the supervision, whatever the children do. *)
StopIsFinal == stopRequested /\ supPc # "off" ~> supPc \in {"ended", "raised"}

(* A child that exits is replaced, unless the supervision ends. *)
ExitedIsReplaced ==
    \A i \in Places :
        supPc = "poll" /\ ~Alive(i, children[i]) ~> Alive(i, children[i]) \/ supPc \in {"ended", "raised"}
=============================================================================
