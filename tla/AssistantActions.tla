--------------------------- MODULE AssistantActions ---------------------------
(***************************************************************************)
(* Actions the assistant prepares and an operator confirms or rejects:     *)
(* confirm_action and reject_action of api_service/routers/assistant.py    *)
(* over the intents of common/postgres_assistant_store.py, with any number *)
(* of replicas of the API.  With the store in a file there is one API and  *)
(* a handler is one step, for it awaits nothing.                           *)
(***************************************************************************)
EXTENDS Integers

CONSTANTS
    Intents,     \* action intents
    Calls,       \* requests of operators, each on one replica
    MaxMishaps   \* bound: replicas killed

ASSUME AssistantActionsAssumption == MaxMishaps \in Nat

VARIABLES
    intentStatus, \* status of each intent
    call,         \* where each request is, and on which intent
    performed,    \* history: how often the action of an intent was performed
    mishaps       \* replicas killed so far

actionVars == <<intentStatus, call, performed, mishaps>>

IntentStatuses ==
    {"none", "pending_confirmation", "executing", "completed", "failed", "rejected", "expired"}
CallStates == {"new", "claim", "perform", "completed", "failed", "rejected", "expired", "answered"}

ActionsTypeOK ==
    /\ intentStatus \in [Intents -> IntentStatuses]
    /\ call \in [Calls -> [pc : CallStates, intent : Intents]]
    /\ performed \in [Intents -> Nat]
    /\ mishaps \in 0..MaxMishaps

ActionsInit ==
    /\ intentStatus = [i \in Intents |-> "none"]
    /\ call \in [Calls -> [pc : {"new"}, intent : Intents]]
    /\ performed = [i \in Intents |-> 0]
    /\ mishaps = 0

Go(c, pc) == call' = [call EXCEPT ![c].pc = pc]
-----------------------------------------------------------------------------
\* preview_action, and the previews of _send_message_impl: save_action_intent.
Preview(i) ==
    /\ intentStatus[i] = "none"
    /\ intentStatus' = [intentStatus EXCEPT ![i] = "pending_confirmation"]
    /\ UNCHANGED <<call, performed, mishaps>>

\* confirm_action reads the intent: it is refused, expired, or about to be claimed.
ConfirmAction(c) ==
    /\ call[c].pc = "new"
    /\ IF intentStatus[call[c].intent] = "pending_confirmation"
       THEN \E pc \in {"claim", "expired", "answered"} : Go(c, pc)
       ELSE Go(c, "answered")
    /\ UNCHANGED <<intentStatus, performed, mishaps>>

\* reject_action reads the intent.
RejectAction(c) ==
    /\ call[c].pc = "new"
    /\ Go(c, IF intentStatus[call[c].intent] = "pending_confirmation" THEN "rejected" ELSE "answered")
    /\ UNCHANGED <<intentStatus, performed, mishaps>>

\* Mutant of Claim: the status is not asked for again.
ClaimAnyway(c) ==
    /\ call[c].pc = "claim"
    /\ intentStatus' = [intentStatus EXCEPT ![call[c].intent] = "executing"]
    /\ Go(c, "perform")
    /\ UNCHANGED <<performed, mishaps>>

\* claim_action_intent: one statement that asks for the status again.
Claim(c) ==
    LET i == call[c].intent
    IN  /\ call[c].pc = "claim"
        /\ IF intentStatus[i] = "pending_confirmation"
           THEN /\ intentStatus' = [intentStatus EXCEPT ![i] = "executing"]
                /\ Go(c, "perform")
           ELSE /\ Go(c, "answered")
                /\ UNCHANGED intentStatus
        /\ UNCHANGED <<performed, mishaps>>

\* The action is performed; or refused with a KeyError or ValueError; or something else is raised,
\* before or after it took effect, and the intent stays as it is.
Perform(c) ==
    LET i == call[c].intent
        effect == performed' = [performed EXCEPT ![i] = @ + 1]
    IN  /\ call[c].pc = "perform"
        /\ \/ Go(c, "completed") /\ effect
           \/ Go(c, "failed") /\ UNCHANGED performed
           \/ Go(c, "answered") /\ (effect \/ UNCHANGED performed)
        /\ UNCHANGED <<intentStatus, mishaps>>

\* update_action_intent: what the request has decided on, whatever the status has become.
UpdateIntent(c) ==
    /\ call[c].pc \in {"completed", "failed", "rejected", "expired"}
    /\ intentStatus' = [intentStatus EXCEPT ![call[c].intent] = call[c].pc]
    /\ Go(c, "answered")
    /\ UNCHANGED <<performed, mishaps>>

\* The replica is killed in the middle of a request.
CallLost(c) ==
    /\ call[c].pc \notin {"new", "answered"}
    /\ mishaps < MaxMishaps /\ mishaps' = mishaps + 1
    /\ Go(c, "answered")
    /\ UNCHANGED <<intentStatus, performed>>

ActionsNext ==
    \/ \E i \in Intents : Preview(i)
    \/ \E c \in Calls : ConfirmAction(c) \/ RejectAction(c) \/ Claim(c) \/ Perform(c) \/ UpdateIntent(c) \/ CallLost(c)

ActionsSpec == ActionsInit /\ [][ActionsNext]_actionVars
-----------------------------------------------------------------------------
(* However often, and at however many replicas, an action is confirmed, rejected and run into its
   expiry, it is performed at most once. *)
PerformedOnce == \A i \in Intents : performed[i] <= 1
=============================================================================
