---------------------------- MODULE ModelLifecycle ----------------------------
(***************************************************************************)
(* The promotion ledger of model versions (common/model_lifecycle.py) and  *)
(* its routes (api_service/routers/modeling.py).                           *)
(*                                                                         *)
(* Every request loads the file, changes what it loaded and replaces the   *)
(* file, without awaiting anything in between; one that raises leaves the  *)
(* file as it was.  A family is the versions of one model name at one      *)
(* site.  Of an evaluation it matters whether it passed; evaluations are   *)
(* only ever added.                                                        *)
(***************************************************************************)
EXTENDS Integers

CONSTANTS
    Versions,   \* model ids
    FamilyOf,   \* the name and site each is registered with
    Unregistered,
    MaxChanges  \* bound: requests that change the ledger

ASSUME ModelLifecycleAssumption ==
    /\ DOMAIN FamilyOf = Versions
    /\ MaxChanges \in Nat

VARIABLES
    ledger,   \* _models: the state, whether an evaluation passed, and the updated_at of each
    changes,  \* requests so far, the clock of updated_at
    approved  \* history: versions approved since they were last candidates

lifecycleVars == <<ledger, changes, approved>>

ModelStates == {"candidate", "evaluated", "approved", "active", "rejected", "retired"}

AllowedTransitions == [
    candidate |-> {"evaluated", "rejected"},
    evaluated |-> {"candidate", "approved", "rejected"},
    approved  |-> {"active", "rejected"},
    active    |-> {"retired"},
    rejected  |-> {"candidate"},
    retired   |-> {"candidate"}]

Records == [state : ModelStates, passed : BOOLEAN, updated : Nat]

LifecycleTypeOK ==
    /\ ledger \in [Versions -> Records \cup {Unregistered}]
    /\ changes \in Nat
    /\ approved \subseteq Versions

LifecycleInit ==
    /\ ledger = [v \in Versions |-> Unregistered]
    /\ changes = 0
    /\ approved = {}

Registered == {v \in Versions : ledger[v] # Unregistered}
InState(states) == {v \in Registered : ledger[v].state \in states}
Siblings(v) == {w \in Versions \ {v} : FamilyOf[w] = FamilyOf[v]}

Change == changes < MaxChanges /\ changes' = changes + 1

\* What becomes of a version that a request puts into a state.
Moved(v, state) == [ledger[v] EXCEPT !.state = state, !.updated = changes']
-----------------------------------------------------------------------------
\* register: a version that exists is returned as it is, or refused.
Register(v) ==
    /\ Change
    /\ ledger[v] = Unregistered
    /\ ledger' = [ledger EXCEPT ![v] = [state |-> "candidate", passed |-> FALSE, updated |-> changes']]
    /\ UNCHANGED approved

\* evaluate: a failed evaluation counts too, but takes no passed one back.
Evaluate(v, passed) ==
    /\ Change
    /\ v \in InState({"candidate", "evaluated"})
    /\ ledger' = [ledger EXCEPT ![v] = [state |-> "evaluated", updated |-> changes',
                                        passed |-> ledger[v].passed \/ passed]]
    /\ UNCHANGED approved

Allowed(v, target) ==
    /\ v \in Registered
    /\ target \in AllowedTransitions[ledger[v].state]

\* transition to any state but active; approval asks for an evaluation that passed, whenever it was.
Move(v, target) ==
    /\ Change
    /\ Allowed(v, target) /\ target # "active"
    /\ target = "approved" => ledger[v].passed
    /\ ledger' = [ledger EXCEPT ![v] = Moved(v, target)]
    /\ approved' = CASE target = "approved" -> approved \cup {v}
                     [] target = "candidate" -> approved \ {v}
                     [] OTHER -> approved

\* Mutant of Activate: the active sibling goes on.
ActivateBeside(v) ==
    /\ Change
    /\ Allowed(v, "active")
    /\ ledger' = [ledger EXCEPT ![v] = Moved(v, "active")]
    /\ UNCHANGED approved

\* transition to active retires the version of the family that was.
Activate(v) ==
    /\ Change
    /\ Allowed(v, "active")
    /\ ledger' = [w \in Versions |->
                     IF w = v THEN Moved(w, "active")
                     ELSE IF w \in Siblings(v) \cap InState({"active"}) THEN Moved(w, "retired")
                     ELSE ledger[w]]
    /\ UNCHANGED approved

\* Mutant of RollbackTargets: any sibling that was not rejected.
RollbackTargetsAny(v) == Siblings(v) \cap InState(ModelStates \ {"rejected"})

RollbackTargets(v) == Siblings(v) \cap InState({"approved", "retired"})

\* rollback: of the family's approved and retired versions the one updated last takes over,
\* whether or not it has ever been active.  Two of one rollback have the same time.
Rollback(v) ==
    /\ Change
    /\ v \in InState({"active"})
    /\ \E target \in RollbackTargets(v) :
        /\ \A w \in RollbackTargets(v) : ledger[w].updated <= ledger[target].updated
        /\ ledger' = [ledger EXCEPT ![v] = Moved(v, "retired"), ![target] = Moved(target, "active")]
    /\ UNCHANGED approved

LifecycleNext ==
    \E v \in Versions :
        \/ Register(v)
        \/ \E passed \in BOOLEAN : Evaluate(v, passed)
        \/ \E target \in ModelStates : Move(v, target)
        \/ Activate(v) \/ Rollback(v)

LifecycleSpec == LifecycleInit /\ [][LifecycleNext]_lifecycleVars
-----------------------------------------------------------------------------
(* No sequence of activations, rollbacks, retirements and new candidacies leaves two versions of
   a model active at a site. *)
OneActive ==
    \A v, w \in InState({"active"}) : FamilyOf[v] = FamilyOf[w] => v = w

(* A version in service, or retired from it and so open to a rollback, has passed an evaluation and
   has been approved since it was last a candidate: there is no way to service around an approval. *)
ServedIsApproved ==
    \A v \in InState({"approved", "active", "retired"}) : ledger[v].passed /\ v \in approved
=============================================================================
