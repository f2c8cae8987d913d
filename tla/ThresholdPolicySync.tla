------------------------- MODULE ThresholdPolicySync -------------------------
(***************************************************************************)
(* services/common/threshold_policy.py and threshold_policy_sync.py: how a *)
(* threshold policy set through one API process reaches the caches of the  *)
(* others and of the stream processors.  A row of the policy table and a   *)
(* row of the outbox are written in one transaction; relay threads of the  *)
(* API processes copy the outbox to a Kafka topic, one partition here; a   *)
(* consumer thread in each process copies the topic into that process's    *)
(* cache.                                                                  *)
(*                                                                         *)
(* Each process has three threads that meet in its caches: main (the event *)
(* loop of an API, the loop of a processor), consumer, and in an API relay.*)
(* A process is killed without warning; its caches die with it.            *)
(***************************************************************************)
EXTENDS Integers, Sequences, SequencesExt, FiniteSets, FiniteSetsExt

CONSTANTS
    Apis,        \* API processes: upserts, relay, bootstrap from the table
    Processors,  \* stream processors: resolve policies, no bootstrap
    Keys,        \* <site, asset, tag>
    Deployments, \* what is deployed, and bounds on what happens to it
    None

ASSUME SyncAssumption ==
    /\ Apis \cap Processors = {}
    /\ Deployments \subseteq [processes : SUBSET (Apis \cup Processors),
                              samePid : BOOLEAN,  \* one pid, hence one consumer group, per role
                              upserts : Nat,      \* bound: upserts
                              faults : Nat]       \* bound: kills, failed statements and deliveries
    /\ IsFiniteSet(Deployments)

Processes == Apis \cup Processors
MaxUpserts == Max({d.upserts : d \in Deployments})

\* A policy; the body tells apart the contents of two upserts.  Version 0: no policy.
Policies == [key : Keys, version : Nat, body : Nat]
Nothing(k) == [key |-> k, version |-> 0, body |-> 0]
NoPolicies == [k \in Keys |-> Nothing(k)]
Tables == {t \in [Keys -> Policies] : \A k \in Keys : t[k].key = k}
IsEmpty(t) == \A k \in Keys : t[k].version = 0

ASSUME NoneAssumption ==
    None \notin Nat \cup Policies \cup Tables \cup [policy : Policies, seen : Nat]

VARIABLES
    deployment,  \* the deployment of this behaviour
    db,        \* metadata_threshold_policies
    outbox,    \* metadata_threshold_policy_outbox
    topic,     \* platform.metadata.threshold-policies
    cache,     \* cache[p]: _POLICY_CACHE and _POLICY_VERSIONS of threshold_policy_sync
    explicit,  \* explicit[p]: _POLICY_CACHE of threshold_policy, None when invalidated
    manifest,  \* manifest[p]: keys whose manifest policy is in _RESOLVED_POLICY_CACHE
    main,      \* main[p]: where the main thread of p is, with its local variables
    position,  \* position[p]: messages p has polled, None when it has no partition
    hand,      \* hand[p]: the policy consume_policy_topic is about to cache, the version it saw cached
    committed, \* committed[p]: offset committed by the group of p, None when none is
    relay,     \* relay[p]: rows a drain has locked: to do, published and failed
    start,     \* history: the position p was given with the partition
    born,      \* history: the table when processor p started
    base,      \* history: the table when p last loaded it
    lost,      \* history: newest version written over in p's cache by one thread unknown to another
    refused,   \* history: policies the broker refused
    upserts,   \* upserts so far
    faults     \* faults so far

caches == <<cache, explicit, manifest>>
consumers == <<position, hand, committed, start>>
history == <<born, base, lost, refused>>
used == <<deployment, upserts, faults>>
vars == <<db, outbox, topic, caches, main, consumers, relay, history, used>>

Idle == [at |-> "idle", policy |-> None, table |-> None]
Down == [Idle EXCEPT !.at = "down"]
NoRows == [todo |-> {}, done |-> {}, failed |-> {}]

\* Rows the drain of p holds locks on.
Locked(p) == relay[p].todo \cup relay[p].done \cup relay[p].failed

TypeOK ==
    /\ db \in Tables
    /\ outbox \in Seq([policy : Policies, status : {"pending", "failed", "published"}])
    /\ topic \in Seq(Policies)
    /\ cache \in [Processes -> Tables]
    /\ explicit \in [Processes -> Tables \cup {None}]
    /\ manifest \in [Processes -> SUBSET Keys]
    /\ main \in [Processes -> [at : {"down", "idle", "selected", "committed", "loaded"},
                               policy : Policies \cup {None}, table : Tables \cup {None}]]
    /\ position \in [Processes -> Nat \cup {None}]
    /\ hand \in [Processes -> [policy : Policies, seen : Nat] \cup {None}]
    /\ committed \in [Processes -> Nat \cup {None}]
    /\ start \in [Processes -> Nat \cup {None}]
    /\ relay \in [Apis -> [todo : SUBSET Nat, done : SUBSET Nat, failed : SUBSET Nat]]
    /\ \A p \in Apis :
          /\ Locked(p) \subseteq DOMAIN outbox
          /\ \A q \in Apis \ {p} : Locked(p) \cap Locked(q) = {}
    /\ born \in [Processors -> Tables] /\ base \in [Processes -> Tables]
    /\ lost \in [Processes -> [Keys -> Nat]]
    /\ refused \subseteq Policies
    /\ deployment \in Deployments
    /\ upserts \in 0..deployment.upserts /\ faults \in 0..deployment.faults

Init ==
    /\ db = NoPolicies /\ outbox = <<>> /\ topic = <<>>
    /\ cache = [p \in Processes |-> NoPolicies]
    /\ explicit = [p \in Processes |-> None]
    /\ manifest = [p \in Processes |-> {}]
    /\ main = [p \in Processes |-> Down]
    /\ position = [p \in Processes |-> None] /\ start = position
    /\ hand = [p \in Processes |-> None]
    /\ committed = [p \in Processes |-> None]
    /\ relay = [p \in Apis |-> NoRows]
    /\ born = [p \in Processors |-> NoPolicies] /\ base = cache
    /\ lost = [p \in Processes |-> [k \in Keys |-> 0]]
    /\ refused = {}
    /\ deployment \in Deployments /\ upserts = 0 /\ faults = 0

Fault == faults < deployment.faults /\ faults' = faults + 1 /\ UNCHANGED <<deployment, upserts>>

Running(p) == main[p].at # "down"
IsIdle(p) == main[p].at = "idle"

\* Processes whose consumers are in the group of p: the group id ends with the pid.
Peers(p) == IF ~deployment.samePid THEN {p} ELSE IF p \in Apis THEN Apis ELSE Processors
-----------------------------------------------------------------------------
(* Upserts, in the event loop of an API process. *)

\* SELECT version, with no lock on the row.
SelectVersion(p, k) ==
    /\ IsIdle(p)
    /\ upserts < deployment.upserts /\ upserts' = upserts + 1 /\ UNCHANGED <<deployment, faults>>
    /\ main' = [main EXCEPT ![p] =
          [Idle EXCEPT !.at = "selected",
                       !.policy = [key |-> k, version |-> db[k].version + 1, body |-> upserts']]]
    /\ UNCHANGED <<db, outbox, topic, caches, consumers, relay, history>>

\* INSERT ... ON CONFLICT DO UPDATE, INSERT INTO the outbox, commit.
CommitUpsert(p) ==
    /\ main[p].at = "selected"
    /\ db' = [db EXCEPT ![main[p].policy.key] = main[p].policy]
    /\ outbox' = Append(outbox, [policy |-> main[p].policy, status |-> "pending"])
    /\ main' = [main EXCEPT ![p].at = "committed"]
    /\ UNCHANGED <<topic, caches, consumers, relay, history, used>>

UpsertFails(p) ==
    /\ main[p].at = "selected"
    /\ Fault
    /\ main' = [main EXCEPT ![p] = Idle]
    /\ UNCHANGED <<db, outbox, topic, caches, consumers, relay, history>>

\* What p writes over in its own cache without looking at versions.
Overwrites(p, table) ==
    lost' = [lost EXCEPT ![p] =
        [k \in Keys |-> IF cache[p][k].version > table[k].version
                        THEN Max({@[k], cache[p][k].version}) ELSE @[k]]]

\* cache_policy(payload) of the policy just committed, and the other two caches.
CacheOwn(p) ==
    LET policy == main[p].policy
        table == [cache[p] EXCEPT ![policy.key] = policy]
    IN  /\ main[p].at = "committed"
        /\ Overwrites(p, table)
        /\ cache' = [cache EXCEPT ![p] = table]
        /\ explicit' = [explicit EXCEPT ![p] = None]
        /\ manifest' = [manifest EXCEPT ![p] = @ \ {policy.key}]
        /\ main' = [main EXCEPT ![p] = Idle]
        /\ UNCHANGED <<db, outbox, topic, consumers, relay, born, base, refused, used>>
-----------------------------------------------------------------------------
(* _load_explicit_policies: from the topic's cache when that holds anything, else from the table. *)

LoadFromCache(p) ==
    /\ explicit[p] = None /\ ~IsEmpty(cache[p])
    /\ explicit' = [explicit EXCEPT ![p] = cache[p]]

LoadFromTable(p, policy) ==
    /\ explicit[p] = None /\ IsEmpty(cache[p])
    /\ main' = [main EXCEPT ![p] = [at |-> "loaded", policy |-> policy, table |-> db]]

LoadFails(p) ==
    /\ explicit[p] = None /\ IsEmpty(cache[p])
    /\ Fault

\* apply_threshold_snapshot of the rows selected; the consumer thread may have cached meanwhile.
ApplySnapshot(p) ==
    LET table == main[p].table
        wanted == main[p].policy
    IN  /\ main[p].at = "loaded"
        /\ Overwrites(p, table)
        /\ cache' = [cache EXCEPT ![p] = table]
        /\ explicit' = [explicit EXCEPT ![p] = table]
        /\ manifest' = [manifest EXCEPT ![p] =
              IF wanted # None /\ table[wanted.key].version = 0 THEN @ \cup {wanted.key} ELSE @]
        /\ base' = [base EXCEPT ![p] = table]
        /\ main' = [main EXCEPT ![p] = Idle]
        /\ UNCHANGED <<db, outbox, topic, consumers, relay, born, refused, used>>

\* GET /threshold-policies of an API whose caches are empty.  Copying a cache that is not into
\* the list's own changes nothing but later lists, and is left out.
List(p) ==
    /\ IsIdle(p)
    /\ LoadFromTable(p, None)
    /\ UNCHANGED <<db, outbox, topic, caches, consumers, relay, history, used>>

\* An event of key k whose policy is in neither cache; the manifest's is kept for good.
Resolve(p, k) ==
    /\ IsIdle(p)
    /\ cache[p][k].version = 0 /\ k \notin manifest[p]
    /\ \/ /\ \/ explicit[p] # None /\ explicit[p][k].version = 0 /\ UNCHANGED <<explicit, used>>
             \/ LoadFromCache(p) /\ UNCHANGED used
             \/ LoadFails(p) /\ UNCHANGED explicit
          /\ manifest' = [manifest EXCEPT ![p] = @ \cup {k}]
          /\ UNCHANGED main
       \/ LoadFromTable(p, Nothing(k)) /\ UNCHANGED <<explicit, manifest, used>>
    /\ UNCHANGED <<db, outbox, topic, cache, consumers, relay, history>>
-----------------------------------------------------------------------------
(* consume_policy_topic. *)

\* The consumer gets the partition: from the group's offset, or from the end (latest).
Assign(p) ==
    /\ Running(p)
    /\ \A q \in Peers(p) : position[q] = None
    /\ position' = [position EXCEPT ![p] = IF committed[p] = None THEN Len(topic) ELSE committed[p]]
    /\ start' = [start EXCEPT ![p] = position'[p]]
    /\ UNCHANGED <<db, outbox, topic, caches, main, hand, committed, relay, history, used>>

Commit(p, offset) ==
    committed' = [q \in Processes |-> IF q \in Peers(p) THEN offset ELSE committed[q]]

\* Another member joins the group and the partition moves.
Revoke(p) ==
    /\ Running(p) /\ position[p] # None /\ hand[p] = None
    /\ \E q \in Peers(p) \ {p} : Running(q)
    /\ Commit(p, position[p])
    /\ position' = [position EXCEPT ![p] = None]
    /\ start' = [start EXCEPT ![p] = None]
    /\ UNCHANGED <<db, outbox, topic, caches, main, hand, relay, history, used>>

\* Mutant of Poll: no version check.
PollUnchecked(p) ==
    /\ Running(p) /\ position[p] # None /\ hand[p] = None
    /\ position[p] < Len(topic)
    /\ position' = [position EXCEPT ![p] = @ + 1]
    /\ LET policy == topic[position[p] + 1] IN
       /\ explicit' = [explicit EXCEPT ![p] = None]
       /\ hand' = [hand EXCEPT ![p] = [policy |-> policy, seen |-> cache[p][policy.key].version]]
    /\ UNCHANGED <<db, outbox, topic, cache, manifest, main, committed, start, relay, history, used>>

\* poll(), get_cached_version and invalidate_explicit_policy_cache; older versions are skipped.
Poll(p) ==
    /\ Running(p) /\ position[p] # None /\ hand[p] = None
    /\ position[p] < Len(topic)
    /\ position' = [position EXCEPT ![p] = @ + 1]
    /\ LET policy == topic[position[p] + 1] IN
       IF policy.version < cache[p][policy.key].version
       THEN UNCHANGED <<explicit, hand>>
       ELSE /\ explicit' = [explicit EXCEPT ![p] = None]
            /\ hand' = [hand EXCEPT ![p] = [policy |-> policy, seen |-> cache[p][policy.key].version]]
    /\ UNCHANGED <<db, outbox, topic, cache, manifest, main, committed, start, relay, history, used>>

\* cache_policy, after the check of Poll and in a critical section of its own.
Store(p) ==
    LET policy == hand[p].policy
        table == [cache[p] EXCEPT ![policy.key] = policy]
    IN  /\ hand[p] # None
        /\ IF cache[p][policy.key].version = hand[p].seen THEN UNCHANGED lost ELSE Overwrites(p, table)
        /\ cache' = [cache EXCEPT ![p] = table]
        /\ hand' = [hand EXCEPT ![p] = None]
        /\ UNCHANGED <<db, outbox, topic, explicit, manifest, main, position, committed, start,
                       relay, born, base, refused, used>>
-----------------------------------------------------------------------------
(* drain_policy_outbox, in the relay thread of an API process. *)

\* Mutant of DrainSelect: no row locks.
DrainSelectUnlocked(p) ==
    LET open == {i \in DOMAIN outbox : outbox[i].status \in {"pending", "failed"}}
    IN  /\ Running(p) /\ relay[p] = NoRows /\ open # {}
        /\ relay' = [relay EXCEPT ![p].todo = open]
        /\ UNCHANGED <<db, outbox, topic, caches, main, consumers, history, used>>

\* Mutant of DrainSelect: failed rows are left.
DrainSelectPending(p) ==
    LET open == {i \in DOMAIN outbox : /\ outbox[i].status = "pending"
                                       /\ \A q \in Apis : i \notin Locked(q)}
    IN  /\ Running(p) /\ relay[p] = NoRows /\ open # {}
        /\ relay' = [relay EXCEPT ![p].todo = open]
        /\ UNCHANGED <<db, outbox, topic, caches, main, consumers, history, used>>

\* SELECT ... WHERE sync_status IN ('pending', 'failed') ... FOR UPDATE SKIP LOCKED.
DrainSelect(p) ==
    LET open == {i \in DOMAIN outbox : /\ outbox[i].status \in {"pending", "failed"}
                                       /\ \A q \in Apis : i \notin Locked(q)}
    IN  /\ Running(p) /\ relay[p] = NoRows /\ open # {}
        /\ relay' = [relay EXCEPT ![p].todo = open]
        /\ UNCHANGED <<db, outbox, topic, caches, main, consumers, history, used>>

\* ORDER BY outbox_id: the row a drain comes to next.
IsNext(p, i) == \A j \in relay[p].todo : i <= j

\* The next row is produced and flush(10) returns 0.
Publish(p) ==
    /\ \E i \in relay[p].todo :
       /\ IsNext(p, i)
       /\ topic' = Append(topic, outbox[i].policy)
       /\ relay' = [relay EXCEPT ![p].todo = @ \ {i}, ![p].done = @ \cup {i}]
    /\ UNCHANGED <<db, outbox, caches, main, consumers, history, used>>

\* flush(10) gives up: the row will be retried, whether or not the broker has the message.
PublishTimesOut(p) ==
    /\ Fault
    /\ \E i \in relay[p].todo :
       /\ IsNext(p, i)
       /\ topic' \in {topic, Append(topic, outbox[i].policy)}
       /\ relay' = [relay EXCEPT ![p].todo = @ \ {i}, ![p].failed = @ \cup {i}]
    /\ UNCHANGED <<db, outbox, caches, main, consumers, history>>

\* The broker refuses the message: no delivery callback, so the row counts as published.
PublishRefused(p) ==
    /\ Fault
    /\ \E i \in relay[p].todo :
       /\ IsNext(p, i)
       /\ refused' = refused \cup {outbox[i].policy}
       /\ relay' = [relay EXCEPT ![p].todo = @ \ {i}, ![p].done = @ \cup {i}]
    /\ UNCHANGED <<db, outbox, topic, caches, main, consumers, born, base, lost>>

\* The statuses become visible and the locks are released.
DrainCommit(p) ==
    /\ relay[p] # NoRows /\ relay[p].todo = {}
    /\ outbox' = [i \in DOMAIN outbox |->
          IF i \in relay[p].done THEN [outbox[i] EXCEPT !.status = "published"]
          ELSE IF i \in relay[p].failed THEN [outbox[i] EXCEPT !.status = "failed"]
          ELSE outbox[i]]
    /\ relay' = [relay EXCEPT ![p] = NoRows]
    /\ UNCHANGED <<db, topic, caches, main, consumers, history, used>>

\* An UPDATE or the commit fails: the transaction is rolled back, the messages stay.
DrainAborts(p) ==
    /\ relay[p] # NoRows
    /\ Fault
    /\ relay' = [relay EXCEPT ![p] = NoRows]
    /\ UNCHANGED <<db, outbox, topic, caches, main, consumers, history>>
-----------------------------------------------------------------------------
\* start_policy_sync_workers: an API loads the table first, and goes on without when it cannot.
Start(p) ==
    /\ p \in deployment.processes /\ ~Running(p)
    /\ main' = [main EXCEPT ![p] = Idle]
    /\ born' = IF p \in Processors THEN [born EXCEPT ![p] = db] ELSE born
    /\ \/ /\ p \in Apis
          /\ cache' = [cache EXCEPT ![p] = db]
          /\ explicit' = [explicit EXCEPT ![p] = db]
          /\ base' = [base EXCEPT ![p] = db]
          /\ UNCHANGED used
       \/ /\ p \in Apis /\ Fault
          /\ UNCHANGED <<cache, explicit, base>>
       \/ p \in Processors /\ UNCHANGED <<cache, explicit, base, used>>
    /\ UNCHANGED <<db, outbox, topic, manifest, consumers, relay, lost, refused>>

\* The process dies: its memory is gone, its locks are released, its partition is free; what
\* auto-commit saved last is any position it had been at.  A new pid is a new group.
Kill(p) ==
    /\ Running(p)
    /\ Fault
    /\ main' = [main EXCEPT ![p] = Down]
    /\ cache' = [cache EXCEPT ![p] = NoPolicies]
    /\ explicit' = [explicit EXCEPT ![p] = None]
    /\ manifest' = [manifest EXCEPT ![p] = {}]
    /\ position' = [position EXCEPT ![p] = None]
    /\ start' = [start EXCEPT ![p] = None]
    /\ hand' = [hand EXCEPT ![p] = None]
    /\ \E offset \in {committed[p]} \cup {n \in 0..Len(topic) : position[p] # None
                                                            /\ start[p] <= n /\ n <= position[p]} :
          Commit(p, IF deployment.samePid THEN offset ELSE None)
    /\ relay' = IF p \in Apis THEN [relay EXCEPT ![p] = NoRows] ELSE relay
    /\ base' = [base EXCEPT ![p] = NoPolicies]
    /\ lost' = [lost EXCEPT ![p] = [k \in Keys |-> 0]]
    /\ UNCHANGED <<db, outbox, topic, born, refused>>

Next ==
    \/ \E p \in Apis :
          \/ \E k \in Keys : SelectVersion(p, k)
          \/ CommitUpsert(p) \/ UpsertFails(p) \/ CacheOwn(p)
          \/ List(p)
          \/ DrainSelect(p) \/ Publish(p) \/ PublishTimesOut(p) \/ PublishRefused(p)
          \/ DrainCommit(p) \/ DrainAborts(p)
    \/ \E p \in Processors, k \in Keys : Resolve(p, k)
    \/ \E p \in Processes :
          \/ ApplySnapshot(p)
          \/ Assign(p) \/ Revoke(p) \/ Poll(p) \/ Store(p)
          \/ Start(p) \/ Kill(p)

Spec == Init /\ [][Next]_vars

\* The relay thread loops, and what was killed is started again.
FairSpec ==
    /\ Spec
    /\ \A p \in Processes : WF_vars(Start(p))
    /\ \A p \in Apis :
          /\ WF_vars(DrainSelect(p))
          /\ WF_vars(Publish(p) \/ PublishTimesOut(p) \/ PublishRefused(p))
          /\ WF_vars(DrainCommit(p) \/ DrainAborts(p))
-----------------------------------------------------------------------------
(* Every upsert committed with the table reaches the topic, whichever relay takes it, however
   often deliveries fail and relays die between the delivery and the commit: the outbox of
   drain_policy_outbox loses nothing but what the broker refused. *)
EventuallyPublished ==
    \A n \in 1..MaxUpserts :
        n \in DOMAIN outbox
            ~> n \in DOMAIN outbox /\ outbox[n].status = "published"
               /\ outbox[n].policy \in Range(topic) \cup refused

\* Nothing is on its way: outbox drained, consumers at the end, no thread inside an operation.
Quiet ==
    /\ \A i \in DOMAIN outbox : outbox[i].status = "published"
    /\ \A p \in Apis : relay[p] = NoRows
    /\ \A p \in Processes : /\ main[p].at \in {"idle", "down"} /\ hand[p] = None
                            /\ position[p] \in {None, Len(topic)}

\* The policy of k came after p had loaded the table and before p, or never p, had the partition.
FellInTheGap(p, k) ==
    /\ base[p][k].version < db[k].version
    /\ position[p] = None \/ \A i \in DOMAIN topic : topic[i] = db[k] => i <= start[p]

\* Two event loops read one version: another content carries the table's version or a newer one.
VersionShared(k) ==
    \E i \in DOMAIN outbox : /\ outbox[i].policy.key = k /\ outbox[i].policy # db[k]
                             /\ outbox[i].policy.version >= db[k].version

(* When nothing is on its way every cache holds what the table holds, although relays publish
   out of order, twice and after a restart and the consumer checks the version before it takes
   the lock to cache: only the gap between loading and subscribing, an unguarded write over a
   newer version (cache_policy after an upsert, apply_threshold_snapshot), two upserts with one
   version and a refused delivery leave a cache behind. *)
Converged ==
    Quiet => \A p \in Processes, k \in Keys :
        \/ ~Running(p)
        \/ cache[p][k] = db[k]
        \/ FellInTheGap(p, k)
        \/ cache[p][k].version < lost[p][k]
        \/ VersionShared(k)
        \/ db[k] \in refused

(* list_threshold_policies declares "user_policy_wins": with nothing on its way, a processor does
   not answer with the manifest's policy, which it keeps for good, for a key whose user policy
   was in the table before the processor began. *)
UserPolicyWins ==
    Quiet => \A p \in Processors : \A k \in manifest[p] :
                born[p][k].version > 0 => cache[p][k].version > 0
=============================================================================
