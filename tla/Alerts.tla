-------------------------------- MODULE Alerts --------------------------------
(***************************************************************************)
(* Alerts of the API service: alert_manager.py with a state file           *)
(* (ALERT_MANAGER_PATH), alert_escalation.py and the handlers of           *)
(* routers/operations.py.                                                  *)
(*                                                                         *)
(* The handlers call these synchronously on the event loop, so one request *)
(* ends before the next begins; only a kill comes between the steps of     *)
(* one.  Alerts are numbered in the order of created_at.                   *)
(***************************************************************************)
EXTENDS Naturals, Sequences, FiniteSets

CONSTANTS
    Page,           \* the limit of list_alerts
    MaxAlerts,      \* bound: alerts created
    MaxChanges,     \* bound: changes of alerts and of rules by requests
    MaxAlertFaults  \* bound: writes of the file that fail, and kills

ASSUME AlertsAssumption == Page \in Nat \ {0} /\ {MaxAlerts, MaxChanges, MaxAlertFaults} \subseteq Nat

VARIABLES
    alerts,      \* _alerts
    alertFile,   \* the state file
    created,     \* alerts created so far
    due,         \* alerts as old as auto_escalate_after_minutes
    rules,       \* severities some enabled rule takes
    broken,      \* severities of the enabled rules with a pattern that does not compile
    alertPc,     \* idle, or in a request: notify, check
    toCheck,     \* the alerts check_all_pending_alerts has yet to see
    told,        \* history: the state of an alert that a client was last told, unless it may
                 \* have changed since without a word
    unwritten,   \* history: alerts changed by requests whose write failed, none made since
    changes, alertFaults

alertVars == <<alerts, alertFile, created, due, rules, broken, alertPc, toCheck, told, unwritten,
               changes, alertFaults>>

AlertIds == 1..MaxAlerts
AlertStates == {"active", "acknowledged", "escalated", "resolved"}
Severities == {"critical", "info"}
Stores == UNION {[I -> [state : AlertStates, severity : Severities]] : I \in SUBSET AlertIds}

\* The default rules take warnings and critical alerts.
DefaultRules == {"critical"}

AlertTypeOK ==
    /\ alerts \in Stores /\ alertFile \in Stores
    /\ created \in 0..MaxAlerts
    /\ due \subseteq AlertIds /\ unwritten \subseteq AlertIds
    /\ rules \subseteq Severities /\ broken \subseteq Severities
    /\ alertPc \in {"idle", "notify", "check"}
    /\ toCheck \in Seq(AlertIds)
    /\ DOMAIN told \subseteq AlertIds /\ \A i \in DOMAIN told : told[i] \in AlertStates
    /\ changes \in 0..MaxChanges /\ alertFaults \in 0..MaxAlertFaults

AlertInit ==
    /\ alerts = [i \in {} |-> "active"] /\ alertFile = alerts
    /\ created = 0 /\ due = {} /\ rules = DefaultRules /\ broken = {}
    /\ alertPc = "idle" /\ toCheck = <<>>
    /\ told = [i \in {} |-> "active"] /\ unwritten = {}
    /\ changes = 0 /\ alertFaults = 0

Change == changes < MaxChanges /\ changes' = changes + 1
AlertFault == alertFaults < MaxAlertFaults /\ alertFaults' = alertFaults + 1

-----------------------------------------------------------------------------
\* Mutant of PersistState: what is written is what was there before the change.
PersistStateBefore(i, ok) ==
    IF ok THEN alertFile' = alerts /\ unwritten' = {} /\ UNCHANGED alertFaults
          ELSE UNCHANGED alertFile /\ unwritten' = unwritten \cup {i} /\ AlertFault

\* _persist_state after a change of i, with the outcome: the file is replaced by all that is in
\* memory, or left as it was by an OSError.  Memory keeps the change either way.
PersistState(i, ok) ==
    IF ok THEN alertFile' = alerts' /\ unwritten' = {} /\ UNCHANGED alertFaults
          ELSE UNCHANGED alertFile /\ unwritten' = unwritten \cup {i} /\ AlertFault

Tell(i) ==
    told' = [j \in DOMAIN told \cup {i} |-> IF j = i THEN alerts'[i].state ELSE told[j]]

TellNobody(ids) == told' = [j \in DOMAIN told \ ids |-> told[j]]

SetState(i, state) == alerts' = [alerts EXCEPT ![i].state = state]

\* create_alert; a file that cannot be written answers 400, and the alert stays in memory.
CreateAlert(severity) ==
    /\ alertPc = "idle" /\ created < MaxAlerts
    /\ created' = created + 1
    /\ alerts' = [i \in DOMAIN alerts \cup {created'} |->
                     IF i = created' THEN [state |-> "active", severity |-> severity] ELSE alerts[i]]
    /\ \E ok \in BOOLEAN :
          PersistState(created', ok) /\ alertPc' = IF ok THEN "notify" ELSE "idle"
    /\ TellNobody({created'})
    /\ UNCHANGED <<due, rules, broken, toCheck, changes>>

\* notifier.notify and webhook_outbound.send, which gives up after its retries; then the answer.
Notify ==
    /\ alertPc = "notify"
    /\ alertPc' = "idle"
    /\ UNCHANGED alerts
    /\ Tell(created)
    /\ UNCHANGED <<alertFile, created, due, rules, broken, changes, toCheck, unwritten, alertFaults>>

\* acknowledge_alert, escalate_alert and resolve_alert; a file that cannot be written is an error
\* that names no state, and memory keeps the change.
ChangeAlert(i, state) ==
    /\ alertPc = "idle" /\ i \in DOMAIN alerts /\ Change
    /\ state = "acknowledged" => alerts[i].state # "acknowledged"
    /\ SetState(i, state)
    /\ \E ok \in BOOLEAN : PersistState(i, ok) /\ IF ok THEN Tell(i) ELSE TellNobody({i})
    /\ UNCHANGED <<created, due, rules, broken, alertPc, toCheck>>

\* What only tells a client what is in memory, whether or not the file has it.
Answer(i) ==
    /\ alertPc = "idle" /\ i \in DOMAIN alerts
    /\ UNCHANGED alerts
    /\ Tell(i)
    /\ UNCHANGED <<alertFile, created, due, rules, broken, alertPc, toCheck, unwritten, changes,
                   alertFaults>>

\* acknowledge_alert of an acknowledged alert: "already acknowledged", a 400.
RefuseAcknowledge(i) == Answer(i) /\ alerts[i].state = "acknowledged"

\* get_alert, and list_alerts for each alert it lists.
ReadAlert(i) == Answer(i)

\* add_rule and remove_rule: nothing keeps the rules, and nothing compiles their patterns.
ChangeRules(severities, faulty) ==
    /\ alertPc = "idle" /\ Change
    /\ rules' = severities /\ broken' = faulty
    /\ UNCHANGED <<alerts, alertFile, created, due, alertPc, toCheck, told, unwritten,
                   alertFaults>>

-----------------------------------------------------------------------------
Active(i) == i \in DOMAIN alerts /\ alerts[i].state = "active"
Newer(i) == {j \in DOMAIN alerts : j > i /\ Active(j)}

\* list_alerts(state=ACTIVE): the newest first, and no more than its limit.
Pending ==
    LET listed == {i \in DOMAIN alerts : Active(i) /\ Cardinality(Newer(i)) < Page} IN
    CHOOSE s \in [1..Cardinality(listed) -> listed] :
        \A j, k \in DOMAIN s : j < k => s[j] > s[k]

\* POST /api/v1/alerts/escalation/check, the only call of check_all_pending_alerts.
CheckPending ==
    /\ alertPc = "idle"
    /\ alertPc' = "check" /\ toCheck' = Pending
    /\ UNCHANGED <<alerts, alertFile, created, due, rules, broken, changes, told,
                   unwritten, alertFaults>>

Taken(i) == i \in due /\ alerts[i].severity \in rules

\* The check goes on to the next alert, or ends in an exception.
GoOn(ok) ==
    /\ alertPc' = IF ok THEN "check" ELSE "idle"
    /\ toCheck' = IF ok THEN Tail(toCheck) ELSE <<>>

\* _execute_escalation: a ValueError would be passed over, the OSError of the file ends the check.
ExecuteEscalation(i, raises) ==
    /\ SetState(i, "escalated")
    /\ TellNobody({i})
    /\ \E ok \in BOOLEAN : PersistState(i, ok) /\ GoOn(ok /\ ~raises)

\* No rule escalates the alert.
PassOver(raises) ==
    GoOn(~raises) /\ UNCHANGED <<alerts, alertFile, told, unwritten, alertFaults>>

\* A pattern that does not compile: re.search raises in _matches_rule, which no try encloses.  The
\* rules before it have been applied, the ones after it are not.
MayRaise(i) == {raises \in BOOLEAN : raises => alerts[i].severity \in broken}

\* Mutant of ProcessAlert: the first alert no rule takes ends the check.
ProcessAlertUntilNone ==
    /\ alertPc = "check" /\ toCheck # <<>>
    /\ LET i == Head(toCheck) IN
       \E raises \in MayRaise(i) :
          \/ Taken(i) /\ ExecuteEscalation(i, raises)
          \/ raises /\ PassOver(raises)
          \/ /\ ~Taken(i)
             /\ toCheck' = <<>>
             /\ UNCHANGED <<alerts, alertFile, alertPc, told, unwritten, alertFaults>>
    /\ UNCHANGED <<created, due, rules, broken, changes>>

\* process_alert, on the next alert of the list.
ProcessAlert ==
    /\ alertPc = "check" /\ toCheck # <<>>
    /\ LET i == Head(toCheck) IN
       \E raises \in MayRaise(i) :
          \/ Taken(i) /\ ExecuteEscalation(i, raises)
          \/ (~Taken(i) \/ raises) /\ PassOver(raises)
    /\ UNCHANGED <<created, due, rules, broken, changes>>

EndCheck ==
    /\ alertPc = "check" /\ toCheck = <<>>
    /\ alertPc' = "idle"
    /\ UNCHANGED <<alerts, alertFile, created, due, rules, broken, changes, toCheck, told,
                   unwritten, alertFaults>>

-----------------------------------------------------------------------------
Age(i) ==
    /\ i \in DOMAIN alerts \ due
    /\ due' = due \cup {i}
    /\ UNCHANGED <<alerts, alertFile, created, rules, broken, changes, alertPc, toCheck, told,
                   unwritten, alertFaults>>

\* The process is killed, and the next one loads the file and the default rules: what was not
\* written is undone, whoever was told of it.
ApiKilled ==
    /\ AlertFault
    /\ alerts' = alertFile
    /\ rules' = DefaultRules /\ broken' = {}
    /\ alertPc' = "idle" /\ toCheck' = <<>>
    /\ TellNobody(unwritten) /\ unwritten' = {}
    /\ UNCHANGED <<alertFile, created, due, changes>>

AlertNext ==
    \/ \E severity \in Severities : CreateAlert(severity)
    \/ \E i \in AlertIds, state \in AlertStates \ {"active"} : ChangeAlert(i, state)
    \/ \E i \in AlertIds : RefuseAcknowledge(i) \/ ReadAlert(i) \/ Age(i)
    \/ \E severities, faulty \in SUBSET Severities : ChangeRules(severities, faulty)
    \/ Notify \/ CheckPending \/ ProcessAlert \/ EndCheck \/ ApiKilled

-----------------------------------------------------------------------------
(* Properties.                                                             *)

\* What a client was last told of an alert is so in memory, and in the file a restart loads, unless
\* the alert was changed since by a request that failed, was cut off, or was a check.  The file has
\* one exception: a write that failed.  Until the next one is made, memory alone has the change, and
\* answers show it ("already acknowledged", a GET): a restart takes it back (alert_manager.py:258).
ToldIsStored ==
    \A i \in DOMAIN told :
        \A store \in {alerts} \cup IF i \in unwritten THEN {} ELSE {alertFile} :
            i \in DOMAIN store /\ store[i].state = told[i]

\* "Automatically escalate critical alerts that haven't been acknowledged" (alert_escalation.py:164):
\* when checks come to their end again and again, an alert that is due and that a rule takes is
\* escalated, unless a request or a kill comes first, or as many newer ones are active as one page
\* holds.  A check that a failed write or a rule's pattern ends is no such check.
PendingIsEscalated ==
    []<><<EndCheck>>_alertVars =>
        \A i \in AlertIds :
            Active(i) /\ Taken(i)
                ~> ~Active(i) \/ ~Taken(i) \/ Cardinality(Newer(i)) >= Page
=============================================================================
