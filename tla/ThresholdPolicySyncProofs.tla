----------------------- MODULE ThresholdPolicySyncProofs -----------------------
(***************************************************************************)
(* Threshold policies (common/threshold_policy.py, threshold_policy_sync.py) *)
(* when nothing is on its way: every cache holds what the table holds, but *)
(* for the causes Converged names, for every set of processes and keys and *)
(* every number of upserts, kills and failures.                            *)
(***************************************************************************)
EXTENDS ThresholdPolicySync, SequenceTheorems, TLAPS

-----------------------------------------------------------------------------
(* Types. *)

LEMMA TableTypes ==
    /\ NoPolicies \in Tables
    /\ \A t \in Tables, k \in Keys : t[k] \in Policies /\ t[k].key = k /\ t[k].version \in Nat
    /\ \A t \in Tables, x \in Policies : [t EXCEPT ![x.key] = x] \in Tables
  BY DEF NoPolicies, Nothing, Tables, Policies

LEMMA MaxOfTwo ==
    ASSUME NEW a \in Nat, NEW b \in Nat
    PROVE  Max({a, b}) \in Nat /\ Max({a, b}) >= a /\ Max({a, b}) >= b
<1>1. \E x \in {a, b} : \A y \in {a, b} : x >= y
  OBVIOUS
<1> QED
  BY <1>1 DEF Max

Places == {"down", "idle", "selected", "committed", "loaded"}
Mains == [at : Places, policy : Policies \cup {None}, table : Tables \cup {None}]

LEMMA MainTypes ==
    /\ Idle \in Mains /\ Down \in Mains
    /\ \A m \in Mains, place \in Places : [m EXCEPT !.at = place] \in Mains
    /\ \A place \in Places, x \in Policies \cup {None}, t \in Tables \cup {None} :
          [at |-> place, policy |-> x, table |-> t] \in Mains
  BY DEF Idle, Down, Mains, Places

\* What a thread of a process holds where it is.
MainHolds(p) ==
    /\ main[p].at \in {"selected", "committed"} => main[p].policy \in Policies
    /\ main[p].at = "loaded" => main[p].table \in Tables
ConsumerHolds(p) ==
    /\ position[p] # None => start[p] # None /\ position[p] <= Len(topic)
    /\ committed[p] # None => committed[p] <= Len(topic)
    /\ hand[p] # None => hand[p].seen <= hand[p].policy.version
InHand(p) == MainHolds(p) /\ ConsumerHolds(p)

Typed == TypeOK /\ \A p \in Processes : InHand(p)

LEMMA TypedInit == Init => Typed
<1> SUFFICES ASSUME Init PROVE Typed
  OBVIOUS
<1>1. /\ db \in Tables /\ cache \in [Processes -> Tables] /\ base \in [Processes -> Tables]
      /\ born \in [Processors -> Tables]
  BY TableTypes DEF Init
<1>2. outbox = <<>> /\ outbox \in Seq([policy : Policies, status : {"pending", "failed", "published"}])
      /\ topic \in Seq(Policies)
  BY DEF Init
<1>3. main \in [Processes -> Mains] /\ \A p \in Processes : main[p].at = "down"
  BY MainTypes DEF Init, Down, Idle
<1>4. relay \in [Apis -> [todo : SUBSET Nat, done : SUBSET Nat, failed : SUBSET Nat]]
      /\ \A p \in Apis : Locked(p) = {}
  BY DEF Init, NoRows, Locked
<1>5. /\ deployment \in Deployments /\ upserts = 0 /\ faults = 0
      /\ deployment.upserts \in Nat /\ deployment.faults \in Nat
  BY SyncAssumption DEF Init
<1>6. lost \in [Processes -> [Keys -> Nat]]
  BY DEF Init
<1>7. TypeOK
  BY <1>1, <1>2, <1>3, <1>4, <1>5, <1>6 DEF Init, TypeOK, Mains, Places
<1> QED
  BY <1>3, <1>7 DEF Init, InHand, MainHolds, ConsumerHolds, Typed

Rows == [policy : Policies, status : {"pending", "failed", "published"}]

\* The parts of TypeOK, by who changes them.
StoresTyped ==
    /\ db \in Tables /\ outbox \in Seq(Rows) /\ topic \in Seq(Policies) /\ refused \subseteq Policies
    /\ born \in [Processors -> Tables]
CachesTyped ==
    /\ cache \in [Processes -> Tables] /\ explicit \in [Processes -> Tables \cup {None}]
    /\ manifest \in [Processes -> SUBSET Keys] /\ base \in [Processes -> Tables]
    /\ lost \in [Processes -> [Keys -> Nat]]
ThreadsTyped ==
    /\ main \in [Processes -> Mains]
    /\ position \in [Processes -> Nat \cup {None}] /\ start \in [Processes -> Nat \cup {None}]
    /\ hand \in [Processes -> [policy : Policies, seen : Nat] \cup {None}]
    /\ committed \in [Processes -> Nat \cup {None}]
RelaysTyped ==
    /\ relay \in [Apis -> [todo : SUBSET Nat, done : SUBSET Nat, failed : SUBSET Nat]]
    /\ \A p \in Apis :
          /\ Locked(p) \subseteq DOMAIN outbox
          /\ \A q \in Apis \ {p} : Locked(p) \cap Locked(q) = {}
UseTyped ==
    deployment \in Deployments /\ upserts \in 0..deployment.upserts /\ faults \in 0..deployment.faults

LEMMA TypedParts ==
    TypeOK <=> StoresTyped /\ CachesTyped /\ ThreadsTyped /\ RelaysTyped /\ UseTyped
  BY DEF TypeOK, StoresTyped, CachesTyped, ThreadsTyped, RelaysTyped, UseTyped, Rows, Mains, Places

LEMMA UseStep == UseTyped /\ [Next]_vars => UseTyped'
<1> SUFFICES ASSUME UseTyped, [Next]_vars PROVE UseTyped'
  OBVIOUS
<1>1. deployment.upserts \in Nat /\ deployment.faults \in Nat
  BY SyncAssumption DEF UseTyped
<1>2. ASSUME NEW p \in Apis, NEW k \in Keys, SelectVersion(p, k) PROVE UseTyped'
  BY <1>1, <1>2 DEF UseTyped, SelectVersion
<1>3. ASSUME NEW p \in Apis, UpsertFails(p) \/ PublishTimesOut(p) \/ PublishRefused(p) \/ DrainAborts(p)
      PROVE  UseTyped'
  BY <1>1, <1>3 DEF UseTyped, UpsertFails, PublishTimesOut, PublishRefused, DrainAborts, Fault
<1>4. ASSUME NEW p \in Apis,
             CommitUpsert(p) \/ CacheOwn(p) \/ List(p) \/ DrainSelect(p) \/ Publish(p) \/ DrainCommit(p)
      PROVE  UseTyped'
  BY <1>4 DEF UseTyped, used, CommitUpsert, CacheOwn, List, DrainSelect, Publish, DrainCommit
<1>5. ASSUME NEW p \in Processors, NEW k \in Keys, Resolve(p, k) PROVE UseTyped'
  BY <1>1, <1>5 DEF UseTyped, used, Resolve, LoadFails, Fault
<1>6. ASSUME NEW p \in Processes,
             ApplySnapshot(p) \/ Assign(p) \/ Revoke(p) \/ Poll(p) \/ Store(p)
      PROVE  UseTyped'
  BY <1>6 DEF UseTyped, used, ApplySnapshot, Assign, Revoke, Poll, Store
<1>7. ASSUME NEW p \in Processes, Start(p) \/ Kill(p) PROVE UseTyped'
  BY <1>1, <1>7 DEF UseTyped, used, Start, Kill, Fault
<1>8. CASE UNCHANGED vars
  BY <1>8 DEF vars, used, UseTyped
<1> QED
  BY <1>2, <1>3, <1>4, <1>5, <1>6, <1>7, <1>8 DEF Next

LEMMA StoresStep == Typed /\ [Next]_vars => StoresTyped'
<1> SUFFICES ASSUME Typed, [Next]_vars PROVE StoresTyped'
  OBVIOUS
<1>1. StoresTyped /\ ThreadsTyped /\ RelaysTyped /\ \A p \in Processes : InHand(p)
  BY TypedParts DEF Typed
<1>2. ASSUME NEW p \in Apis, CommitUpsert(p) PROVE StoresTyped'
  <2>1. PICK x \in Policies : x = main[p].policy
    BY <1>1, <1>2 DEF CommitUpsert, InHand, MainHolds, Processes
  <2>2. /\ db' = [db EXCEPT ![x.key] = x] /\ outbox' = Append(outbox, [policy |-> x, status |-> "pending"])
        /\ UNCHANGED <<topic, born, refused>>
    BY <1>2, <2>1 DEF CommitUpsert, history
  <2>3. db' \in Tables
    BY <1>1, <2>2, TableTypes DEF StoresTyped
  <2>4. [policy |-> x, status |-> "pending"] \in Rows
    BY DEF Rows
  <2>5. outbox' \in Seq(Rows)
    BY <1>1, <2>2, <2>4 DEF StoresTyped
  <2> QED BY <1>1, <2>2, <2>3, <2>5 DEF StoresTyped
<1>3. ASSUME NEW p \in Apis, Publish(p) \/ PublishTimesOut(p) \/ PublishRefused(p) PROVE StoresTyped'
  <2>1. PICK i \in relay[p].todo : /\ topic' \in {topic, Append(topic, outbox[i].policy)}
                                  /\ refused' \in {refused, refused \cup {outbox[i].policy}}
    BY <1>3 DEF Publish, PublishTimesOut, PublishRefused, history
  <2>2. i \in DOMAIN outbox
    BY <1>1 DEF RelaysTyped, Locked
  <2>7. outbox[i] \in Rows
    BY <1>1, <2>2, ElementOfSeq DEF StoresTyped
  <2>3. PICK x \in Policies : x = outbox[i].policy
    BY <2>7 DEF Rows
  <2>4. topic' \in Seq(Policies) /\ refused' \subseteq Policies
    <3>1. topic' \in {topic, Append(topic, x)} /\ refused' \in {refused, refused \cup {x}}
      BY <2>1, <2>3
    <3>2. topic \in Seq(Policies) /\ refused \subseteq Policies
      BY <1>1 DEF StoresTyped
    <3>3. Append(topic, x) \in Seq(Policies)
      BY <3>2
    <3> QED BY <3>1, <3>2, <3>3
  <2>5. UNCHANGED <<db, outbox, born>>
    BY <1>3 DEF Publish, PublishTimesOut, PublishRefused, history
  <2> QED BY <1>1, <2>4, <2>5 DEF StoresTyped
<1>4. ASSUME NEW p \in Apis, DrainCommit(p) PROVE StoresTyped'
  <2>1. PICK n \in Nat : n = Len(outbox)
    BY <1>1 DEF StoresTyped
  <2>2. DOMAIN outbox = 1..n /\ \A i \in 1..n : outbox[i] \in Rows
    BY <1>1, <2>1, ElementOfSeq DEF StoresTyped
  <2>3. outbox' = [i \in 1..n |->
                    IF i \in relay[p].done THEN [outbox[i] EXCEPT !.status = "published"]
                    ELSE IF i \in relay[p].failed THEN [outbox[i] EXCEPT !.status = "failed"]
                    ELSE outbox[i]]
    BY <1>4, <2>2 DEF DrainCommit
  <2>4. \A r \in Rows : [r EXCEPT !.status = "published"] \in Rows /\ [r EXCEPT !.status = "failed"] \in Rows
    BY DEF Rows
  <2>5. \A i \in 1..n : outbox'[i] \in Rows
    BY <2>2, <2>3, <2>4
  <2>6. outbox' \in [1..n -> Rows]
    BY <2>3, <2>5
  <2>7. outbox' \in Seq(Rows)
    BY <2>6
  <2> QED BY <1>1, <1>4, <2>7 DEF StoresTyped, DrainCommit, history
<1>5. ASSUME NEW p \in Processes, Start(p) PROVE StoresTyped'
  BY <1>1, <1>5 DEF StoresTyped, Start
<1>7. ASSUME UNCHANGED <<db, outbox, topic, refused, born>> PROVE StoresTyped'
  BY <1>1, <1>7 DEF StoresTyped
<1>8. ASSUME NEW p \in Apis, NEW k \in Keys, SelectVersion(p, k) PROVE StoresTyped'
  BY <1>7, <1>8 DEF SelectVersion, history
<1>9. ASSUME NEW p \in Apis,
             UpsertFails(p) \/ CacheOwn(p) \/ List(p) \/ DrainSelect(p) \/ DrainAborts(p)
      PROVE  StoresTyped'
  BY <1>7, <1>9 DEF UpsertFails, CacheOwn, List, DrainSelect, DrainAborts, history
<1>10. ASSUME NEW p \in Processors, NEW k \in Keys, Resolve(p, k) PROVE StoresTyped'
  BY <1>7, <1>10 DEF Resolve, history
<1>11. ASSUME NEW p \in Processes,
             ApplySnapshot(p) \/ Assign(p) \/ Revoke(p) \/ Poll(p) \/ Store(p) \/ Kill(p)
      PROVE  StoresTyped'
  BY <1>7, <1>11 DEF ApplySnapshot, Assign, Revoke, Poll, Store, Kill, history
<1>12. CASE UNCHANGED vars
  BY <1>7, <1>12 DEF vars, history
<1> QED
  BY <1>2, <1>3, <1>4, <1>5, <1>8, <1>9, <1>10, <1>11, <1>12 DEF Next

LEMMA OverwritesTyped ==
    ASSUME CachesTyped, NEW p \in Processes, NEW table \in Tables, Overwrites(p, table)
    PROVE  lost' \in [Processes -> [Keys -> Nat]]
<1>1. \A k \in Keys : cache[p][k].version \in Nat /\ lost[p][k] \in Nat
  BY TableTypes DEF CachesTyped
<1>2. \A k \in Keys : Max({lost[p][k], cache[p][k].version}) \in Nat
  BY <1>1, MaxOfTwo
<1> DEFINE row == [k \in Keys |-> IF cache[p][k].version > table[k].version
                                  THEN Max({lost[p][k], cache[p][k].version}) ELSE lost[p][k]]
<1>3. row \in [Keys -> Nat]
  BY <1>1, <1>2
<1>4. lost' = [lost EXCEPT ![p] = row]
  BY DEF Overwrites, CachesTyped
<1> HIDE DEF row
<1> QED
  BY <1>3, <1>4 DEF CachesTyped

LEMMA CachesStep == Typed /\ [Next]_vars => CachesTyped'
<1> SUFFICES ASSUME Typed, [Next]_vars PROVE CachesTyped'
  OBVIOUS
<1>1. StoresTyped /\ CachesTyped /\ ThreadsTyped /\ \A p \in Processes : InHand(p)
  BY TypedParts DEF Typed
<1>2. ASSUME NEW p \in Apis, CacheOwn(p) PROVE CachesTyped'
  <2>1. PICK x \in Policies : x = main[p].policy
    BY <1>1, <1>2 DEF CacheOwn, InHand, MainHolds, Processes
  <2>2. PICK t \in Tables : t = [cache[p] EXCEPT ![x.key] = x]
    BY <1>1, TableTypes DEF CachesTyped, Processes
  <2>3. /\ Overwrites(p, t) /\ cache' = [cache EXCEPT ![p] = t] /\ explicit' = [explicit EXCEPT ![p] = None]
        /\ manifest' = [manifest EXCEPT ![p] = @ \ {x.key}] /\ base' = base
    BY <1>2, <2>1, <2>2 DEF CacheOwn
  <2> QED BY <1>1, <2>3, OverwritesTyped DEF CachesTyped, Processes
<1>3. ASSUME NEW p \in Processes, ApplySnapshot(p) PROVE CachesTyped'
  <2>1. PICK t \in Tables : t = main[p].table
    BY <1>1, <1>3 DEF ApplySnapshot, InHand, MainHolds
  <2>2. /\ Overwrites(p, t) /\ cache' = [cache EXCEPT ![p] = t] /\ explicit' = [explicit EXCEPT ![p] = t]
        /\ base' = [base EXCEPT ![p] = t]
    BY <1>3, <2>1 DEF ApplySnapshot
  <2>3. \A k \in Keys : Nothing(k).key = k
    BY DEF Nothing
  <2>4. main[p].policy = None \/ main[p].policy \in Policies
    BY <1>1 DEF ThreadsTyped, Mains
  <2>5. main[p].policy \in Policies => main[p].policy.key \in Keys
    BY DEF Policies
  <2>6. PICK ks \in SUBSET Keys : manifest' = [manifest EXCEPT ![p] = ks]
    <3>1. CASE main[p].policy # None /\ t[main[p].policy.key].version = 0
      BY <1>1, <1>3, <2>1, <2>4, <2>5, <3>1 DEF ApplySnapshot, CachesTyped
    <3>2. CASE ~(main[p].policy # None /\ t[main[p].policy.key].version = 0)
      BY <1>1, <1>3, <2>1, <3>2 DEF ApplySnapshot, CachesTyped
    <3> QED BY <3>1, <3>2
  <2> QED BY <1>1, <2>2, <2>6, OverwritesTyped DEF CachesTyped
<1>4. ASSUME NEW p \in Processes, Store(p) PROVE CachesTyped'
  <2>1. PICK x \in Policies : x = hand[p].policy
    BY <1>1, <1>4 DEF Store, ThreadsTyped
  <2>2. PICK t \in Tables : t = [cache[p] EXCEPT ![x.key] = x]
    BY <1>1, TableTypes DEF CachesTyped
  <2>3. /\ lost' = lost \/ Overwrites(p, t)
        /\ cache' = [cache EXCEPT ![p] = t] /\ UNCHANGED <<explicit, manifest, base>>
    BY <1>4, <2>1, <2>2 DEF Store
  <2> QED BY <1>1, <2>3, OverwritesTyped DEF CachesTyped
<1>5. ASSUME NEW p \in Processors, NEW k \in Keys, Resolve(p, k) PROVE CachesTyped'
  <2>1. /\ UNCHANGED <<cache, base, lost>>
        /\ manifest' \in {manifest, [manifest EXCEPT ![p] = @ \cup {k}]}
        /\ explicit' \in {explicit, [explicit EXCEPT ![p] = cache[p]]}
    BY <1>5 DEF Resolve, LoadFromCache, LoadFromTable, LoadFails, history
  <2> QED BY <1>1, <2>1 DEF CachesTyped, Processes
<1>6. ASSUME NEW p \in Processes, Poll(p) PROVE CachesTyped'
  <2>1. UNCHANGED <<cache, base, lost, manifest>> /\ explicit' \in {explicit, [explicit EXCEPT ![p] = None]}
    BY <1>6 DEF Poll, history
  <2> QED BY <1>1, <2>1 DEF CachesTyped
<1>7. ASSUME NEW p \in Processes, Start(p) PROVE CachesTyped'
  <2>1. /\ cache' \in {cache, [cache EXCEPT ![p] = db]} /\ explicit' \in {explicit, [explicit EXCEPT ![p] = db]}
        /\ base' \in {base, [base EXCEPT ![p] = db]} /\ UNCHANGED <<manifest, lost>>
    BY <1>7 DEF Start
  <2>2. db \in Tables
    BY <1>1 DEF StoresTyped
  <2>3. cache' \in [Processes -> Tables] /\ base' \in [Processes -> Tables]
    <3>1. cache \in [Processes -> Tables] /\ base \in [Processes -> Tables]
      BY <1>1 DEF CachesTyped
    <3>2. [cache EXCEPT ![p] = db] \in [Processes -> Tables] /\ [base EXCEPT ![p] = db] \in [Processes -> Tables]
      BY <2>2, <3>1
    <3> QED BY <2>1, <3>1, <3>2
  <2>4. explicit' \in [Processes -> Tables \cup {None}]
    BY <1>1, <2>1, <2>2 DEF CachesTyped
  <2> QED BY <1>1, <2>1, <2>3, <2>4 DEF CachesTyped
<1>8. ASSUME NEW p \in Processes, Kill(p) PROVE CachesTyped'
  BY <1>1, <1>8, TableTypes DEF Kill, CachesTyped
<1>9. ASSUME UNCHANGED <<cache, explicit, manifest, base, lost>> PROVE CachesTyped'
  BY <1>1, <1>9 DEF CachesTyped
<1>10. ASSUME NEW p \in Apis, NEW k \in Keys, SelectVersion(p, k) PROVE CachesTyped'
  BY <1>9, <1>10 DEF SelectVersion, history, caches
<1>11. ASSUME NEW p \in Apis, CommitUpsert(p) \/ UpsertFails(p) \/ List(p) PROVE CachesTyped'
  BY <1>9, <1>11 DEF CommitUpsert, UpsertFails, List, history, caches
<1>12. ASSUME NEW p \in Apis, DrainSelect(p) \/ Publish(p) \/ PublishTimesOut(p) PROVE CachesTyped'
  BY <1>9, <1>12 DEF DrainSelect, Publish, PublishTimesOut, history, caches
<1>13. ASSUME NEW p \in Apis, PublishRefused(p) \/ DrainCommit(p) \/ DrainAborts(p) PROVE CachesTyped'
  BY <1>9, <1>13 DEF PublishRefused, DrainCommit, DrainAborts, history, caches
<1>14. ASSUME NEW p \in Processes, Assign(p) \/ Revoke(p) PROVE CachesTyped'
  BY <1>9, <1>14 DEF Assign, Revoke, history, caches
<1>15. CASE UNCHANGED vars
  BY <1>9, <1>15 DEF vars, history, caches
<1> QED
  BY <1>2, <1>3, <1>4, <1>5, <1>6, <1>7, <1>8, <1>10, <1>11, <1>12, <1>13, <1>14, <1>15 DEF Next

MainTyped == main \in [Processes -> Mains] /\ \A p \in Processes : MainHolds(p)

LEMMA MainMoves ==
    ASSUME MainTyped, NEW p \in Processes, NEW m \in Mains,
           m.at \in {"selected", "committed"} => m.policy \in Policies,
           m.at = "loaded" => m.table \in Tables,
           main' = [main EXCEPT ![p] = m]
    PROVE  MainTyped'
  BY DEF MainTyped, MainHolds

LEMMA MainStep == Typed /\ [Next]_vars => MainTyped'
<1> SUFFICES ASSUME Typed, [Next]_vars PROVE MainTyped'
  OBVIOUS
<1>1. MainTyped /\ StoresTyped /\ UseTyped
  BY TypedParts DEF Typed, InHand, MainTyped, ThreadsTyped
<1>2. ASSUME NEW p \in Processes, main' = [main EXCEPT ![p] = Idle] \/ main' = [main EXCEPT ![p] = Down]
      PROVE  MainTyped'
  <2>1. Idle \in Mains /\ Down \in Mains /\ Idle.at = "idle" /\ Down.at = "down"
    BY MainTypes DEF Idle, Down
  <2> QED BY <1>1, <1>2, <2>1, MainMoves
<1>3. ASSUME NEW p \in Apis, NEW k \in Keys, SelectVersion(p, k) PROVE MainTyped'
  <2>1. db[k].version \in Nat /\ upserts' \in Nat
    <3>1. deployment.upserts \in Nat
      BY <1>1, SyncAssumption DEF UseTyped
    <3>2. upserts \in Nat /\ upserts' = upserts + 1
      BY <1>1, <1>3, <3>1 DEF UseTyped, SelectVersion
    <3> QED BY <1>1, <3>2, TableTypes DEF StoresTyped
  <2>6. PICK v \in Nat, n \in Nat : v = db[k].version + 1 /\ n = upserts'
    BY <2>1
  <2>2. PICK x \in Policies : x = [key |-> k, version |-> v, body |-> n]
    BY DEF Policies
  <2>7. Idle \in Mains
    BY MainTypes
  <2>3. PICK m \in Mains : m = [Idle EXCEPT !.at = "selected", !.policy = x]
    BY <2>7 DEF Mains, Places
  <2>4. main' = [main EXCEPT ![p] = m]
    <3>1. main' = [main EXCEPT ![p] =
              [Idle EXCEPT !.at = "selected",
                           !.policy = [key |-> k, version |-> db[k].version + 1, body |-> upserts']]]
      BY <1>3 DEF SelectVersion
    <3>2. x = [key |-> k, version |-> db[k].version + 1, body |-> upserts']
      BY <2>2, <2>6
    <3> QED BY <2>3, <3>1, <3>2
  <2>5. m.at = "selected" /\ m.policy \in Policies
    BY <2>3, <2>7 DEF Mains
  <2> QED BY <1>1, <2>4, <2>5, MainMoves DEF Processes
<1>4. ASSUME NEW p \in Apis, CommitUpsert(p) PROVE MainTyped'
  <2>1. PICK m \in Mains : m = [main[p] EXCEPT !.at = "committed"]
    BY <1>1, MainTypes DEF MainTyped, Processes, Places
  <2>2. main' = [main EXCEPT ![p] = m]
    BY <1>4, <2>1 DEF CommitUpsert
  <2>3. m.policy \in Policies /\ m.at = "committed"
    BY <1>1, <1>4, <2>1 DEF CommitUpsert, MainTyped, MainHolds, Mains, Processes
  <2> QED BY <1>1, <2>2, <2>3, MainMoves DEF Processes
<1>5. ASSUME NEW p \in Processes, NEW x \in Policies \cup {None}, LoadFromTable(p, x) PROVE MainTyped'
  <2>1. PICK m \in Mains : m = [at |-> "loaded", policy |-> x, table |-> db]
    BY <1>1, MainTypes DEF Places, StoresTyped
  <2>2. m.at = "loaded" /\ m.table \in Tables
    BY <1>1, <2>1 DEF StoresTyped
  <2> QED BY <1>1, <1>5, <2>1, <2>2, MainMoves DEF LoadFromTable
<1>6. ASSUME NEW p \in Apis, List(p) PROVE MainTyped'
  BY <1>5, <1>6 DEF List, Processes
<1>7. ASSUME NEW p \in Processors, NEW k \in Keys, Resolve(p, k) PROVE MainTyped'
  <2>1. Nothing(k) \in Policies
    BY DEF Nothing, Policies
  <2>2. main' = main \/ LoadFromTable(p, Nothing(k))
    BY <1>7 DEF Resolve
  <2>3. main' = main => MainTyped'
    BY <1>1 DEF MainTyped, MainHolds
  <2> QED BY <1>5, <2>1, <2>2, <2>3 DEF Processes
<1>8. ASSUME NEW p \in Apis, UpsertFails(p) \/ CacheOwn(p) PROVE MainTyped'
  BY <1>2, <1>8 DEF UpsertFails, CacheOwn, Processes
<1>9. ASSUME NEW p \in Processes, ApplySnapshot(p) \/ Start(p) \/ Kill(p) PROVE MainTyped'
  BY <1>2, <1>9 DEF ApplySnapshot, Start, Kill
<1>10. ASSUME main' = main PROVE MainTyped'
  BY <1>1, <1>10 DEF MainTyped, MainHolds
<1>11. ASSUME NEW p \in Apis,
              \/ DrainSelect(p) \/ Publish(p) \/ PublishTimesOut(p) \/ PublishRefused(p)
              \/ DrainCommit(p) \/ DrainAborts(p)
       PROVE  MainTyped'
  BY <1>10, <1>11 DEF DrainSelect, Publish, PublishTimesOut, PublishRefused, DrainCommit, DrainAborts
<1>12. ASSUME NEW p \in Processes, Assign(p) \/ Revoke(p) \/ Poll(p) \/ Store(p) PROVE MainTyped'
  BY <1>10, <1>12 DEF Assign, Revoke, Poll, Store
<1>13. CASE UNCHANGED vars
  BY <1>10, <1>13 DEF vars
<1> QED
  BY <1>3, <1>4, <1>6, <1>7, <1>8, <1>9, <1>11, <1>12, <1>13 DEF Next

\* The topic only grows.
LEMMA TopicGrows ==
    ASSUME Typed, [Next]_vars
    PROVE  topic' = topic \/ \E x \in Policies : topic' = Append(topic, x)
<1>1. StoresTyped /\ RelaysTyped
  BY TypedParts DEF Typed
<1>2. ASSUME NEW p \in Apis, Publish(p) \/ PublishTimesOut(p)
      PROVE  topic' = topic \/ \E x \in Policies : topic' = Append(topic, x)
  <2>1. PICK i \in relay[p].todo : topic' \in {topic, Append(topic, outbox[i].policy)}
    BY <1>2 DEF Publish, PublishTimesOut
  <2>2. outbox[i] \in Rows
    BY <1>1, ElementOfSeq DEF RelaysTyped, Locked, StoresTyped
  <2> QED BY <2>1, <2>2 DEF Rows
<1>3. ASSUME NEW p \in Apis, NEW k \in Keys, SelectVersion(p, k) PROVE topic' = topic
  BY <1>3 DEF SelectVersion
<1>4. ASSUME NEW p \in Apis,
             \/ CommitUpsert(p) \/ UpsertFails(p) \/ CacheOwn(p) \/ List(p)
             \/ DrainSelect(p) \/ PublishRefused(p) \/ DrainCommit(p) \/ DrainAborts(p)
      PROVE  topic' = topic
  BY <1>4 DEF CommitUpsert, UpsertFails, CacheOwn, List, DrainSelect, PublishRefused, DrainCommit, DrainAborts
<1>5. ASSUME NEW p \in Processors, NEW k \in Keys, Resolve(p, k) PROVE topic' = topic
  BY <1>5 DEF Resolve
<1>6. ASSUME NEW p \in Processes,
             \/ ApplySnapshot(p) \/ Assign(p) \/ Revoke(p) \/ Poll(p) \/ Store(p) \/ Start(p) \/ Kill(p)
      PROVE  topic' = topic
  BY <1>6 DEF ApplySnapshot, Assign, Revoke, Poll, Store, Start, Kill
<1>7. UNCHANGED vars => topic' = topic
  BY DEF vars
<1> QED
  BY <1>2, <1>3, <1>4, <1>5, <1>6, <1>7 DEF Next

ConsumerTyped ==
    /\ position \in [Processes -> Nat \cup {None}] /\ start \in [Processes -> Nat \cup {None}]
    /\ hand \in [Processes -> [policy : Policies, seen : Nat] \cup {None}]
    /\ committed \in [Processes -> Nat \cup {None}]
    /\ \A p \in Processes : ConsumerHolds(p)

LEMMA CommitTyped ==
    ASSUME ConsumerTyped, NEW p \in Processes, NEW offset \in Nat \cup {None}, Commit(p, offset),
           offset # None => offset <= Len(topic)
    PROVE  /\ committed' \in [Processes -> Nat \cup {None}]
           /\ \A q \in Processes : committed'[q] # None => committed'[q] <= Len(topic)
  BY DEF Commit, ConsumerTyped, ConsumerHolds

LEMMA ConsumerStep == Typed /\ [Next]_vars => ConsumerTyped'
<1> SUFFICES ASSUME Typed, [Next]_vars PROVE ConsumerTyped'
  OBVIOUS
<1>1. ConsumerTyped /\ StoresTyped /\ CachesTyped
  BY TypedParts DEF Typed, InHand, ConsumerTyped, ThreadsTyped
<1>2. Len(topic) \in Nat
  BY <1>1 DEF StoresTyped
<1>3. ASSUME UNCHANGED consumers PROVE ConsumerTyped'
  <2>1. Len(topic') \in Nat /\ Len(topic) <= Len(topic')
    BY <1>1, <1>2, TopicGrows DEF StoresTyped
  <2> QED BY <1>1, <1>2, <1>3, <2>1 DEF consumers, ConsumerTyped, ConsumerHolds
<1>4. ASSUME NEW p \in Processes, Assign(p) PROVE ConsumerTyped'
  BY <1>1, <1>2, <1>4 DEF Assign, ConsumerTyped, ConsumerHolds
<1>5. ASSUME NEW p \in Processes, Revoke(p) PROVE ConsumerTyped'
  <2>1. PICK n \in Nat : n = position[p] /\ n <= Len(topic)
    BY <1>1, <1>5 DEF Revoke, ConsumerTyped, ConsumerHolds
  <2>2. /\ committed' \in [Processes -> Nat \cup {None}]
        /\ \A q \in Processes : committed'[q] # None => committed'[q] <= Len(topic)
    BY <1>1, <1>5, <2>1, CommitTyped DEF Revoke
  <2> QED BY <1>1, <1>5, <2>2 DEF Revoke, ConsumerTyped, ConsumerHolds
<1>6. ASSUME NEW p \in Processes, Poll(p) PROVE ConsumerTyped'
  <2>1. PICK n \in Nat : n = position[p] /\ n < Len(topic)
    BY <1>1, <1>2, <1>6 DEF Poll, ConsumerTyped
  <2>2. position' = [position EXCEPT ![p] = n + 1] /\ n + 1 <= Len(topic)
    BY <1>2, <1>6, <2>1 DEF Poll
  <2>3. PICK x \in Policies : x = topic[n + 1]
    BY <1>1, <1>2, <2>1, ElementOfSeq DEF StoresTyped
  <2>4. cache[p][x.key].version \in Nat /\ x.version \in Nat
    BY <1>1, TableTypes DEF CachesTyped, Policies
  <2>5. hand' = hand \/ /\ hand' = [hand EXCEPT ![p] = [policy |-> x, seen |-> cache[p][x.key].version]]
                        /\ cache[p][x.key].version <= x.version
    <3>1. CASE UNCHANGED hand
      BY <3>1
    <3>2. CASE /\ ~(x.version < cache[p][x.key].version)
               /\ hand' = [hand EXCEPT ![p] = [policy |-> x, seen |-> cache[p][x.key].version]]
      BY <2>4, <3>2
    <3> QED BY <1>6, <2>1, <2>3, <3>1, <3>2 DEF Poll
  <2>6. UNCHANGED <<committed, start, topic>>
    BY <1>6 DEF Poll
  <2>7. PICK h \in [policy : Policies, seen : Nat] :
            /\ h = [policy |-> x, seen |-> cache[p][x.key].version]
            /\ h.policy = x /\ h.seen = cache[p][x.key].version
    <3>1. PICK s \in Nat : s = cache[p][x.key].version
      BY <2>4
    <3>2. [policy |-> x, seen |-> s] \in [policy : Policies, seen : Nat]
      OBVIOUS
    <3> QED BY <3>1, <3>2
  <2>8. /\ hand' \in [Processes -> [policy : Policies, seen : Nat] \cup {None}]
        /\ \A q \in Processes : hand'[q] # None => hand'[q].seen <= hand'[q].policy.version
    <3>1. CASE hand' = hand
      BY <1>1, <3>1 DEF ConsumerTyped, ConsumerHolds
    <3>2. CASE hand' = [hand EXCEPT ![p] = h] /\ h.seen <= h.policy.version
      BY <1>1, <3>2 DEF ConsumerTyped, ConsumerHolds
    <3> QED BY <2>5, <2>7, <3>1, <3>2
  <2>10. position[p] # None
    BY <1>6 DEF Poll
  <2>9. /\ position' \in [Processes -> Nat \cup {None}]
        /\ \A q \in Processes : position'[q] # None => start[q] # None /\ position'[q] <= Len(topic)
    <3>1. /\ position \in [Processes -> Nat \cup {None}]
          /\ start[p] # None
          /\ \A q \in Processes : position[q] # None => start[q] # None /\ position[q] <= Len(topic)
      BY <1>1, <2>10 DEF ConsumerTyped, ConsumerHolds
    <3>2. position'[p] = n + 1 /\ \A q \in Processes \ {p} : position'[q] = position[q]
      BY <2>2, <3>1
    <3> QED BY <2>2, <3>1, <3>2
  <2> QED BY <1>1, <2>6, <2>8, <2>9 DEF ConsumerTyped, ConsumerHolds
<1>7. ASSUME NEW p \in Processes, Store(p) PROVE ConsumerTyped'
  BY <1>1, <1>7 DEF Store, ConsumerTyped, ConsumerHolds
<1>8. ASSUME NEW p \in Processes, Kill(p) PROVE ConsumerTyped'
  <2>1. PICK offset \in Nat \cup {None} : Commit(p, offset) /\ (offset # None => offset <= Len(topic))
    <3>1. PICK n \in {committed[p]} \cup {m \in 0..Len(topic) : position[p] # None
                                                        /\ start[p] <= m /\ m <= position[p]} :
              Commit(p, IF deployment.samePid THEN n ELSE None)
      BY <1>8 DEF Kill
    <3>2. n \in Nat \cup {None} /\ (n # None => n <= Len(topic))
      BY <1>1, <1>2 DEF ConsumerTyped, ConsumerHolds
    <3>3. CASE deployment.samePid
      BY <3>1, <3>2, <3>3
    <3>4. CASE ~deployment.samePid
      BY <3>1, <3>4
    <3> QED BY <3>3, <3>4
  <2>2. /\ committed' \in [Processes -> Nat \cup {None}]
        /\ \A q \in Processes : committed'[q] # None => committed'[q] <= Len(topic)
    BY <1>1, <2>1, CommitTyped
  <2> QED BY <1>1, <1>8, <2>2 DEF Kill, ConsumerTyped, ConsumerHolds
<1>9. ASSUME NEW p \in Apis, NEW k \in Keys, SelectVersion(p, k) PROVE ConsumerTyped'
  BY <1>3, <1>9 DEF SelectVersion
<1>10. ASSUME NEW p \in Apis,
             \/ CommitUpsert(p) \/ UpsertFails(p) \/ CacheOwn(p) \/ List(p) \/ DrainSelect(p) \/ Publish(p)
             \/ PublishTimesOut(p) \/ PublishRefused(p) \/ DrainCommit(p) \/ DrainAborts(p)
      PROVE  ConsumerTyped'
  BY <1>3, <1>10 DEF CommitUpsert, UpsertFails, CacheOwn, List, DrainSelect, Publish, PublishTimesOut,
                     PublishRefused, DrainCommit, DrainAborts
<1>11. ASSUME NEW p \in Processors, NEW k \in Keys, Resolve(p, k) PROVE ConsumerTyped'
  BY <1>3, <1>11 DEF Resolve
<1>12. ASSUME NEW p \in Processes, ApplySnapshot(p) \/ Start(p) PROVE ConsumerTyped'
  BY <1>3, <1>12 DEF ApplySnapshot, Start
<1>13. CASE UNCHANGED vars
  BY <1>3, <1>13 DEF vars
<1> QED
  BY <1>4, <1>5, <1>6, <1>7, <1>8, <1>9, <1>10, <1>11, <1>12, <1>13 DEF Next

LEMMA RelaysStep == Typed /\ [Next]_vars => RelaysTyped'
<1> SUFFICES ASSUME Typed, [Next]_vars PROVE RelaysTyped'
  OBVIOUS
<1>1. RelaysTyped /\ StoresTyped
  BY TypedParts DEF Typed
<1>2. DOMAIN outbox \subseteq Nat
  BY <1>1 DEF StoresTyped
<1>3. ASSUME relay' = relay, DOMAIN outbox \subseteq DOMAIN outbox' PROVE RelaysTyped'
  <2>1. \A p \in Apis : Locked(p)' = Locked(p)
    BY <1>3 DEF Locked
  <2> QED BY <1>1, <1>3, <2>1 DEF RelaysTyped
<1>4. ASSUME NEW p \in Apis, NEW r \in [todo : SUBSET Nat, done : SUBSET Nat, failed : SUBSET Nat],
             relay' = [relay EXCEPT ![p] = r], DOMAIN outbox' = DOMAIN outbox,
             r.todo \cup r.done \cup r.failed \subseteq DOMAIN outbox,
             \A q \in Apis \ {p} : (r.todo \cup r.done \cup r.failed) \cap Locked(q) = {}
      PROVE  RelaysTyped'
  <2>1. relay' \in [Apis -> [todo : SUBSET Nat, done : SUBSET Nat, failed : SUBSET Nat]]
    BY <1>1, <1>4 DEF RelaysTyped
  <2>2. Locked(p)' = r.todo \cup r.done \cup r.failed
    BY <1>1, <1>4 DEF RelaysTyped, Locked
  <2>3. \A q \in Apis \ {p} : Locked(q)' = Locked(q)
    BY <1>1, <1>4 DEF RelaysTyped, Locked
  <2>4. \A q \in Apis : Locked(q)' \subseteq DOMAIN outbox'
    BY <1>1, <1>4, <2>2, <2>3 DEF RelaysTyped
  <2>5. \A q \in Apis : \A s \in Apis \ {q} : Locked(q)' \cap Locked(s)' = {}
    <3> SUFFICES ASSUME NEW q \in Apis, NEW s \in Apis \ {q} PROVE Locked(q)' \cap Locked(s)' = {}
      OBVIOUS
    <3>1. CASE q = p
      BY <1>4, <2>2, <2>3, <3>1
    <3>2. CASE s = p
      BY <1>4, <2>2, <2>3, <3>2
    <3>3. CASE q # p /\ s # p
      BY <1>1, <2>3, <3>3 DEF RelaysTyped
    <3> QED BY <3>1, <3>2, <3>3
  <2> QED BY <2>1, <2>4, <2>5 DEF RelaysTyped
<1>5. ASSUME NEW p \in Apis, relay' = [relay EXCEPT ![p] = NoRows], DOMAIN outbox' = DOMAIN outbox
      PROVE  RelaysTyped'
  <2>1. /\ NoRows \in [todo : SUBSET Nat, done : SUBSET Nat, failed : SUBSET Nat]
        /\ NoRows.todo = {} /\ NoRows.done = {} /\ NoRows.failed = {}
    BY DEF NoRows
  <2> QED BY <1>4, <1>5, <2>1
<1>6. ASSUME NEW p \in Apis, DrainSelect(p) PROVE RelaysTyped'
  <2> DEFINE open == {i \in DOMAIN outbox : /\ outbox[i].status \in {"pending", "failed"}
                                            /\ \A q \in Apis : i \notin Locked(q)}
  <2>1. relay[p] = NoRows /\ relay' = [relay EXCEPT ![p].todo = open] /\ outbox' = outbox
    BY <1>6 DEF DrainSelect
  <2>2. open \subseteq DOMAIN outbox /\ \A q \in Apis : open \cap Locked(q) = {}
    OBVIOUS
  <2> HIDE DEF open
  <2>3. relay[p] = [todo |-> {}, done |-> {}, failed |-> {}]
    BY <2>1 DEF NoRows
  <2>4. PICK r \in [todo : SUBSET Nat, done : SUBSET Nat, failed : SUBSET Nat] :
            r = [todo |-> open, done |-> {}, failed |-> {}]
    BY <1>2, <2>2
  <2>5. relay' = [relay EXCEPT ![p] = r]
    <3>0. [[todo |-> {}, done |-> {}, failed |-> {}] EXCEPT !.todo = open] = [todo |-> open, done |-> {}, failed |-> {}]
      OBVIOUS
    <3>1. r = [relay[p] EXCEPT !.todo = open]
      BY <2>3, <2>4, <3>0
    <3>2. [relay EXCEPT ![p].todo = open] = [relay EXCEPT ![p] = [relay[p] EXCEPT !.todo = open]]
      BY <1>1 DEF RelaysTyped
    <3> QED BY <2>1, <3>1, <3>2
  <2>6. r.todo \cup r.done \cup r.failed = open
    BY <2>4
  <2> QED BY <1>4, <2>1, <2>2, <2>5, <2>6
<1>7. ASSUME NEW p \in Apis, Publish(p) \/ PublishTimesOut(p) \/ PublishRefused(p) PROVE RelaysTyped'
  <2>1. PICK i \in relay[p].todo :
            \/ relay' = [relay EXCEPT ![p].todo = @ \ {i}, ![p].done = @ \cup {i}]
            \/ relay' = [relay EXCEPT ![p].todo = @ \ {i}, ![p].failed = @ \cup {i}]
    BY <1>7 DEF Publish, PublishTimesOut, PublishRefused
  <2>2. outbox' = outbox
    BY <1>7 DEF Publish, PublishTimesOut, PublishRefused
  <2>3. relay[p] \in [todo : SUBSET Nat, done : SUBSET Nat, failed : SUBSET Nat] /\ i \in Nat
    BY <1>1 DEF RelaysTyped
  <2>4. PICK r \in [todo : SUBSET Nat, done : SUBSET Nat, failed : SUBSET Nat] :
            /\ relay' = [relay EXCEPT ![p] = r]
            /\ r.todo \cup r.done \cup r.failed = Locked(p)
    <3>1. CASE relay' = [relay EXCEPT ![p].todo = @ \ {i}, ![p].done = @ \cup {i}]
      <4>1. PICK r \in [todo : SUBSET Nat, done : SUBSET Nat, failed : SUBSET Nat] :
                r = [relay[p] EXCEPT !.todo = @ \ {i}, !.done = @ \cup {i}]
        BY <2>3
      <4>2. relay' = [relay EXCEPT ![p] = r]
        BY <1>1, <3>1, <4>1 DEF RelaysTyped
      <4>3. r.todo \cup r.done \cup r.failed = Locked(p)
        BY <2>3, <4>1 DEF Locked
      <4> QED BY <4>2, <4>3
    <3>2. CASE relay' = [relay EXCEPT ![p].todo = @ \ {i}, ![p].failed = @ \cup {i}]
      <4>1. PICK r \in [todo : SUBSET Nat, done : SUBSET Nat, failed : SUBSET Nat] :
                r = [relay[p] EXCEPT !.todo = @ \ {i}, !.failed = @ \cup {i}]
        BY <2>3
      <4>2. relay' = [relay EXCEPT ![p] = r]
        BY <1>1, <3>2, <4>1 DEF RelaysTyped
      <4>3. r.todo \cup r.done \cup r.failed = Locked(p)
        BY <2>3, <4>1 DEF Locked
      <4> QED BY <4>2, <4>3
    <3> QED BY <2>1, <3>1, <3>2
  <2>5. Locked(p) \subseteq DOMAIN outbox /\ \A q \in Apis \ {p} : Locked(p) \cap Locked(q) = {}
    BY <1>1 DEF RelaysTyped
  <2> QED BY <1>4, <2>2, <2>4, <2>5
<1>8. ASSUME NEW p \in Apis, DrainCommit(p) PROVE RelaysTyped'
  BY <1>5, <1>8 DEF DrainCommit
<1>9. ASSUME NEW p \in Apis, DrainAborts(p) PROVE RelaysTyped'
  BY <1>5, <1>9 DEF DrainAborts
<1>10. ASSUME NEW p \in Processes, Kill(p) PROVE RelaysTyped'
  BY <1>3, <1>5, <1>10 DEF Kill
<1>11. ASSUME NEW p \in Apis, CommitUpsert(p) PROVE RelaysTyped'
  <2>1. DOMAIN outbox' = 1..(Len(outbox) + 1) /\ DOMAIN outbox = 1..Len(outbox) /\ Len(outbox) \in Nat
    BY <1>1, <1>11 DEF CommitUpsert, StoresTyped
  <2> QED BY <1>3, <1>11, <2>1 DEF CommitUpsert
<1>12. ASSUME NEW p \in Apis, NEW k \in Keys, SelectVersion(p, k) PROVE RelaysTyped'
  BY <1>3, <1>12 DEF SelectVersion
<1>13. ASSUME NEW p \in Apis, UpsertFails(p) \/ CacheOwn(p) \/ List(p) PROVE RelaysTyped'
  BY <1>3, <1>13 DEF UpsertFails, CacheOwn, List
<1>14. ASSUME NEW p \in Processors, NEW k \in Keys, Resolve(p, k) PROVE RelaysTyped'
  BY <1>3, <1>14 DEF Resolve
<1>15. ASSUME NEW p \in Processes,
              ApplySnapshot(p) \/ Assign(p) \/ Revoke(p) \/ Poll(p) \/ Store(p) \/ Start(p)
       PROVE  RelaysTyped'
  BY <1>3, <1>15 DEF ApplySnapshot, Assign, Revoke, Poll, Store, Start
<1>16. CASE UNCHANGED vars
  BY <1>3, <1>16 DEF vars
<1> QED
  BY <1>6, <1>7, <1>8, <1>9, <1>10, <1>11, <1>12, <1>13, <1>14, <1>15, <1>16 DEF Next

LEMMA TypedStep == Typed /\ [Next]_vars => Typed'
<1> SUFFICES ASSUME Typed, [Next]_vars PROVE Typed'
  OBVIOUS
<1>1. StoresTyped' /\ CachesTyped' /\ MainTyped' /\ ConsumerTyped' /\ RelaysTyped'
  BY StoresStep, CachesStep, MainStep, ConsumerStep, RelaysStep
<1>2. UseTyped'
  BY UseStep, TypedParts DEF Typed
<1>3. ThreadsTyped' /\ \A p \in Processes : InHand(p)'
  BY <1>1 DEF ThreadsTyped, MainTyped, ConsumerTyped, InHand
<1>4. TypeOK'
  BY <1>1, <1>2, <1>3, TypedParts, PTL
<1> QED
  BY <1>3, <1>4 DEF Typed

(* Policies, outbox rows, offsets and locks stay well formed: no drain holds a lock on a row that
   is not in the outbox or that another drain holds, and no consumer is past the end of the topic. *)
THEOREM TypeCorrect == Spec => []TypeOK
<1>1. Typed => TypeOK
  BY DEF Typed
<1> QED
  BY <1>1, TypedInit, TypedStep, PTL DEF Spec
-----------------------------------------------------------------------------
(* Converged. *)

\* x was upserted.
Known(x) == \E i \in DOMAIN outbox : outbox[i].policy = x
Genuine(k, x) == x = Nothing(k) \/ Known(x)

\* Everything on its way was upserted, and an upsert raises the version.
StoresGenuine ==
    /\ \A i \in DOMAIN outbox : outbox[i].policy.version > 0
    /\ \A k \in Keys : Genuine(k, db[k])
    /\ \A i \in DOMAIN topic : Known(topic[i])
CachesGenuine == \A p \in Processes, k \in Keys : Genuine(k, cache[p][k])
MainGenuine(p) ==
    /\ main[p].at = "selected" => main[p].policy.version > 0
    /\ main[p].at = "committed" => Known(main[p].policy)
    /\ main[p].at = "loaded" => \A k \in Keys : Genuine(k, main[p].table[k])
HandGenuine(p) == hand[p] # None => Known(hand[p].policy)
Sources == StoresGenuine /\ CachesGenuine /\ \A p \in Processes : MainGenuine(p) /\ HandGenuine(p)

\* What counts as published is in the topic, or the broker refused it.
Sent(x) == x \in refused \/ \E i \in DOMAIN topic : topic[i] = x
Relayed ==
    /\ \A i \in DOMAIN outbox : outbox[i].status = "published" => Sent(outbox[i].policy)
    /\ \A p \in Apis : \A i \in relay[p].done : Sent(outbox[i].policy)

\* p has version v of k or a newer one, or has written over one that new.
Caught(p, k, v) == cache[p][k].version >= v \/ lost[p][k] >= v

\* p has what it loaded and what it polled, but for the message it is about to cache.
Follows(p) ==
    /\ main[p].at = "down" => position[p] = None /\ hand[p] = None
    /\ \A k \in Keys : Caught(p, k, base[p][k].version)
    /\ hand[p] # None => position[p] \in DOMAIN topic /\ hand[p].policy = topic[position[p]]
    /\ position[p] # None =>
          \A i \in DOMAIN topic :
              start[p] < i /\ i <= position[p] /\ (hand[p] # None => i # position[p])
                  => Caught(p, topic[i].key, topic[i].version)

SyncInv == Typed /\ Sources /\ Relayed /\ \A p \in Processes : Follows(p)

\* Which steps change what.
LEMMA OutboxBy ==
    ASSUME [Next]_vars
    PROVE  \/ outbox' = outbox
           \/ \E p \in Apis : CommitUpsert(p) \/ DrainCommit(p)
<1>1. ASSUME NEW p \in Apis, NEW k \in Keys,
             SelectVersion(p, k)
      PROVE  outbox' = outbox
  BY <1>1 DEF SelectVersion
<1>2. ASSUME NEW p \in Apis,
             UpsertFails(p) \/ CacheOwn(p) \/ List(p) \/ DrainSelect(p) \/ Publish(p)
      PROVE  outbox' = outbox
  BY <1>2 DEF UpsertFails, CacheOwn, List, DrainSelect, Publish
<1>3. ASSUME NEW p \in Apis,
             PublishTimesOut(p) \/ PublishRefused(p) \/ DrainAborts(p)
      PROVE  outbox' = outbox
  BY <1>3 DEF PublishTimesOut, PublishRefused, DrainAborts
<1>4. ASSUME NEW p \in Processors, NEW k \in Keys,
             Resolve(p, k)
      PROVE  outbox' = outbox
  BY <1>4 DEF Resolve
<1>5. ASSUME NEW p \in Processes,
             ApplySnapshot(p) \/ Assign(p) \/ Revoke(p) \/ Poll(p) \/ Store(p) \/ Start(p) \/ Kill(p)
      PROVE  outbox' = outbox
  BY <1>5 DEF ApplySnapshot, Assign, Revoke, Poll, Store, Start, Kill
<1>6. UNCHANGED vars => outbox' = outbox
  BY DEF vars
<1> QED
  BY <1>1, <1>2, <1>3, <1>4, <1>5, <1>6 DEF Next

LEMMA TableBy ==
    ASSUME [Next]_vars
    PROVE  \/ db' = db
           \/ \E p \in Apis : CommitUpsert(p)
<1>1. ASSUME NEW p \in Apis, NEW k \in Keys,
             SelectVersion(p, k)
      PROVE  db' = db
  BY <1>1 DEF SelectVersion
<1>2. ASSUME NEW p \in Apis,
             UpsertFails(p) \/ CacheOwn(p) \/ List(p) \/ DrainSelect(p) \/ Publish(p)
      PROVE  db' = db
  BY <1>2 DEF UpsertFails, CacheOwn, List, DrainSelect, Publish
<1>3. ASSUME NEW p \in Apis,
             PublishTimesOut(p) \/ PublishRefused(p) \/ DrainCommit(p) \/ DrainAborts(p)
      PROVE  db' = db
  BY <1>3 DEF PublishTimesOut, PublishRefused, DrainCommit, DrainAborts
<1>4. ASSUME NEW p \in Processors, NEW k \in Keys,
             Resolve(p, k)
      PROVE  db' = db
  BY <1>4 DEF Resolve
<1>5. ASSUME NEW p \in Processes,
             ApplySnapshot(p) \/ Assign(p) \/ Revoke(p) \/ Poll(p) \/ Store(p) \/ Start(p) \/ Kill(p)
      PROVE  db' = db
  BY <1>5 DEF ApplySnapshot, Assign, Revoke, Poll, Store, Start, Kill
<1>6. UNCHANGED vars => db' = db
  BY DEF vars
<1> QED
  BY <1>1, <1>2, <1>3, <1>4, <1>5, <1>6 DEF Next

LEMMA TopicBy ==
    ASSUME [Next]_vars
    PROVE  \/ UNCHANGED <<topic, refused>>
           \/ \E p \in Apis : Publish(p) \/ PublishTimesOut(p) \/ PublishRefused(p)
<1>1. ASSUME NEW p \in Apis, NEW k \in Keys,
             SelectVersion(p, k)
      PROVE  UNCHANGED <<topic, refused>>
  BY <1>1 DEF SelectVersion, history
<1>2. ASSUME NEW p \in Apis,
             CommitUpsert(p) \/ UpsertFails(p) \/ CacheOwn(p) \/ List(p) \/ DrainSelect(p)
      PROVE  UNCHANGED <<topic, refused>>
  BY <1>2 DEF CommitUpsert, UpsertFails, CacheOwn, List, DrainSelect, history
<1>3. ASSUME NEW p \in Apis,
             DrainCommit(p) \/ DrainAborts(p)
      PROVE  UNCHANGED <<topic, refused>>
  BY <1>3 DEF DrainCommit, DrainAborts, history
<1>4. ASSUME NEW p \in Processors, NEW k \in Keys,
             Resolve(p, k)
      PROVE  UNCHANGED <<topic, refused>>
  BY <1>4 DEF Resolve, history
<1>5. ASSUME NEW p \in Processes,
             ApplySnapshot(p) \/ Assign(p) \/ Revoke(p) \/ Poll(p) \/ Store(p) \/ Start(p) \/ Kill(p)
      PROVE  UNCHANGED <<topic, refused>>
  BY <1>5 DEF ApplySnapshot, Assign, Revoke, Poll, Store, Start, Kill, history
<1>6. UNCHANGED vars => UNCHANGED <<topic, refused>>
  BY DEF vars, history
<1> QED
  BY <1>1, <1>2, <1>3, <1>4, <1>5, <1>6 DEF Next

LEMMA CacheBy ==
    ASSUME [Next]_vars
    PROVE  \/ UNCHANGED <<cache, base, lost>>
           \/ \E p \in Apis : CacheOwn(p)
           \/ \E p \in Processes : ApplySnapshot(p) \/ Store(p) \/ Start(p) \/ Kill(p)
<1>1. ASSUME NEW p \in Apis, NEW k \in Keys,
             SelectVersion(p, k)
      PROVE  UNCHANGED <<cache, base, lost>>
  BY <1>1 DEF SelectVersion, caches, history
<1>2. ASSUME NEW p \in Apis,
             CommitUpsert(p) \/ UpsertFails(p) \/ List(p) \/ DrainSelect(p) \/ Publish(p)
      PROVE  UNCHANGED <<cache, base, lost>>
  BY <1>2 DEF CommitUpsert, UpsertFails, List, DrainSelect, Publish, caches, history
<1>3. ASSUME NEW p \in Apis,
             PublishTimesOut(p) \/ PublishRefused(p) \/ DrainCommit(p) \/ DrainAborts(p)
      PROVE  UNCHANGED <<cache, base, lost>>
  BY <1>3 DEF PublishTimesOut, PublishRefused, DrainCommit, DrainAborts, caches, history
<1>4. ASSUME NEW p \in Processors, NEW k \in Keys,
             Resolve(p, k)
      PROVE  UNCHANGED <<cache, base, lost>>
  BY <1>4 DEF Resolve, caches, history
<1>5. ASSUME NEW p \in Processes,
             Assign(p) \/ Revoke(p) \/ Poll(p)
      PROVE  UNCHANGED <<cache, base, lost>>
  BY <1>5 DEF Assign, Revoke, Poll, caches, history
<1>6. UNCHANGED vars => UNCHANGED <<cache, base, lost>>
  BY DEF vars, caches, history
<1> QED
  BY <1>1, <1>2, <1>3, <1>4, <1>5, <1>6 DEF Next

LEMMA MainBy ==
    ASSUME [Next]_vars
    PROVE  \/ main' = main
           \/ \E p \in Apis, k \in Keys : SelectVersion(p, k)
           \/ \E p \in Apis : CommitUpsert(p) \/ UpsertFails(p) \/ CacheOwn(p) \/ List(p)
           \/ \E p \in Processors, k \in Keys : Resolve(p, k)
           \/ \E p \in Processes : ApplySnapshot(p) \/ Start(p) \/ Kill(p)
<1>1. ASSUME NEW p \in Apis,
             DrainSelect(p) \/ Publish(p) \/ PublishTimesOut(p) \/ PublishRefused(p) \/ DrainCommit(p)
      PROVE  main' = main
  BY <1>1 DEF DrainSelect, Publish, PublishTimesOut, PublishRefused, DrainCommit
<1>2. ASSUME NEW p \in Apis,
             DrainAborts(p)
      PROVE  main' = main
  BY <1>2 DEF DrainAborts
<1>3. ASSUME NEW p \in Processes,
             Assign(p) \/ Revoke(p) \/ Poll(p) \/ Store(p)
      PROVE  main' = main
  BY <1>3 DEF Assign, Revoke, Poll, Store
<1>4. UNCHANGED vars => main' = main
  BY DEF vars
<1> QED
  BY <1>1, <1>2, <1>3, <1>4 DEF Next

LEMMA ConsumerBy ==
    ASSUME [Next]_vars
    PROVE  \/ UNCHANGED <<position, hand, start>>
           \/ \E p \in Processes : Assign(p) \/ Revoke(p) \/ Poll(p) \/ Store(p) \/ Kill(p)
<1>1. ASSUME NEW p \in Apis, NEW k \in Keys,
             SelectVersion(p, k)
      PROVE  UNCHANGED <<position, hand, start>>
  BY <1>1 DEF SelectVersion, consumers
<1>2. ASSUME NEW p \in Apis,
             CommitUpsert(p) \/ UpsertFails(p) \/ CacheOwn(p) \/ List(p) \/ DrainSelect(p)
      PROVE  UNCHANGED <<position, hand, start>>
  BY <1>2 DEF CommitUpsert, UpsertFails, CacheOwn, List, DrainSelect, consumers
<1>3. ASSUME NEW p \in Apis,
             Publish(p) \/ PublishTimesOut(p) \/ PublishRefused(p) \/ DrainCommit(p) \/ DrainAborts(p)
      PROVE  UNCHANGED <<position, hand, start>>
  BY <1>3 DEF Publish, PublishTimesOut, PublishRefused, DrainCommit, DrainAborts, consumers
<1>4. ASSUME NEW p \in Processors, NEW k \in Keys,
             Resolve(p, k)
      PROVE  UNCHANGED <<position, hand, start>>
  BY <1>4 DEF Resolve, consumers
<1>5. ASSUME NEW p \in Processes,
             ApplySnapshot(p) \/ Start(p)
      PROVE  UNCHANGED <<position, hand, start>>
  BY <1>5 DEF ApplySnapshot, Start, consumers
<1>6. UNCHANGED vars => UNCHANGED <<position, hand, start>>
  BY DEF vars, consumers
<1> QED
  BY <1>1, <1>2, <1>3, <1>4, <1>5, <1>6 DEF Next

LEMMA RelayBy ==
    ASSUME [Next]_vars
    PROVE  \/ relay' = relay
           \/ \E p \in Apis : DrainSelect(p) \/ Publish(p) \/ PublishTimesOut(p) \/ PublishRefused(p) \/ DrainCommit(p) \/ DrainAborts(p)
           \/ \E p \in Processes : Kill(p)
<1>1. ASSUME NEW p \in Apis, NEW k \in Keys,
             SelectVersion(p, k)
      PROVE  relay' = relay
  BY <1>1 DEF SelectVersion
<1>2. ASSUME NEW p \in Apis,
             CommitUpsert(p) \/ UpsertFails(p) \/ CacheOwn(p) \/ List(p)
      PROVE  relay' = relay
  BY <1>2 DEF CommitUpsert, UpsertFails, CacheOwn, List
<1>3. ASSUME NEW p \in Processors, NEW k \in Keys,
             Resolve(p, k)
      PROVE  relay' = relay
  BY <1>3 DEF Resolve
<1>4. ASSUME NEW p \in Processes,
             ApplySnapshot(p) \/ Assign(p) \/ Revoke(p) \/ Poll(p) \/ Store(p) \/ Start(p)
      PROVE  relay' = relay
  BY <1>4 DEF ApplySnapshot, Assign, Revoke, Poll, Store, Start
<1>5. UNCHANGED vars => relay' = relay
  BY DEF vars
<1> QED
  BY <1>1, <1>2, <1>3, <1>4, <1>5 DEF Next

\* The outbox keeps the policies of its rows.
LEMMA OutboxKeeps ==
    ASSUME Typed, [Next]_vars
    PROVE  /\ \A i \in DOMAIN outbox : i \in DOMAIN outbox' /\ outbox'[i].policy = outbox[i].policy
           /\ \A x : Known(x) => Known(x)'
           /\ \A k, x : Genuine(k, x) => Genuine(k, x)'
<1>1. StoresTyped
  BY TypedParts DEF Typed
<1>2. \A i \in DOMAIN outbox : i \in DOMAIN outbox' /\ outbox'[i].policy = outbox[i].policy
  <2>1. ASSUME NEW p \in Apis, CommitUpsert(p)
        PROVE  \A i \in DOMAIN outbox : i \in DOMAIN outbox' /\ outbox'[i].policy = outbox[i].policy
    BY <1>1, <2>1 DEF CommitUpsert, StoresTyped
  <2>2. ASSUME NEW p \in Apis, DrainCommit(p)
        PROVE  \A i \in DOMAIN outbox : i \in DOMAIN outbox' /\ outbox'[i].policy = outbox[i].policy
    <3> SUFFICES ASSUME NEW i \in DOMAIN outbox
                 PROVE  i \in DOMAIN outbox' /\ outbox'[i].policy = outbox[i].policy
      OBVIOUS
    <3>1. PICK r \in Rows : r = outbox[i]
      BY <1>1, ElementOfSeq DEF StoresTyped
    <3>2. i \in DOMAIN outbox' /\ outbox'[i] \in {r, [r EXCEPT !.status = "published"], [r EXCEPT !.status = "failed"]}
      BY <2>2, <3>1 DEF DrainCommit
    <3> QED BY <3>1, <3>2 DEF Rows
  <2> QED BY <2>1, <2>2, OutboxBy
<1>3. \A x : Known(x) => Known(x)'
  BY <1>2 DEF Known
<1> QED
  BY <1>2, <1>3 DEF Genuine, Nothing

LEMMA SourcesInit == Init => Sources
  BY DEF Init, Sources, StoresGenuine, CachesGenuine, MainGenuine, HandGenuine, Genuine, NoPolicies, Nothing,
         Idle, Down

LEMMA StoresGenuineStep == Typed /\ Sources /\ [Next]_vars => StoresGenuine'
<1> SUFFICES ASSUME Typed, Sources, [Next]_vars PROVE StoresGenuine'
  OBVIOUS
<1>1. StoresTyped /\ MainTyped /\ RelaysTyped
  BY TypedParts DEF Typed, InHand, MainTyped, ThreadsTyped
<1>2. \A i \in DOMAIN outbox' : outbox'[i].policy.version > 0
  <2>1. ASSUME NEW p \in Apis, CommitUpsert(p) PROVE \A i \in DOMAIN outbox' : outbox'[i].policy.version > 0
    BY <1>1, <2>1 DEF Sources, StoresGenuine, StoresTyped, CommitUpsert, MainGenuine, Processes
  <2>2. ASSUME NEW p \in Apis, DrainCommit(p) PROVE DOMAIN outbox' = DOMAIN outbox
    BY <2>2 DEF DrainCommit
  <2>3. (outbox' = outbox \/ DOMAIN outbox' = DOMAIN outbox) => \A i \in DOMAIN outbox' : outbox'[i].policy.version > 0
    BY OutboxKeeps DEF Sources, StoresGenuine
  <2> QED BY <2>1, <2>2, <2>3, OutboxBy
<1>3. \A k \in Keys : Genuine(k, db[k])'
  <2>1. ASSUME NEW p \in Apis, CommitUpsert(p), NEW k \in Keys PROVE Genuine(k, db[k])'
    <3>1. PICK x \in Policies : x = main[p].policy
      BY <1>1, <2>1 DEF CommitUpsert, MainTyped, MainHolds, Processes
    <3>2. Known(x)'
      BY <1>1, <2>1, <3>1 DEF CommitUpsert, StoresTyped, Known
    <3>3. PICK y : y = db[k]
      OBVIOUS
    <3>4. db'[k] = x \/ db'[k] = y
      BY <1>1, <2>1, <3>1, <3>3, TableTypes DEF CommitUpsert, StoresTyped, Tables
    <3>5. Genuine(k, y)'
      BY <3>3, OutboxKeeps DEF Sources, StoresGenuine
    <3> QED BY <3>2, <3>4, <3>5 DEF Genuine
  <2>2. ASSUME db' = db, NEW k \in Keys PROVE Genuine(k, db[k])'
    <3>1. PICK y : y = db[k]
      OBVIOUS
    <3>2. Genuine(k, y)'
      BY <3>1, OutboxKeeps DEF Sources, StoresGenuine
    <3> QED BY <2>2, <3>1, <3>2 DEF Genuine
  <2> QED BY <2>1, <2>2, TableBy
<1>4. \A i \in DOMAIN topic' : Known(topic[i])'
  <2>1. ASSUME NEW i \in DOMAIN topic PROVE \E x : x = topic[i] /\ Known(x)'
    BY OutboxKeeps DEF Sources, StoresGenuine
  <2>2. ASSUME NEW p \in Apis, Publish(p) \/ PublishTimesOut(p), NEW i \in DOMAIN topic'
        PROVE  Known(topic[i])'
    <3>1. PICK j \in DOMAIN outbox : topic' \in {topic, Append(topic, outbox[j].policy)}
      BY <1>1, <2>2 DEF Publish, PublishTimesOut, RelaysTyped, Locked
    <3>2. \E x : x = outbox[j].policy /\ Known(x)'
      BY OutboxKeeps DEF Known
    <3>3. (i \in DOMAIN topic /\ topic'[i] = topic[i]) \/ topic'[i] = outbox[j].policy
      <4>2. outbox[j] \in Rows
        BY <1>1, ElementOfSeq DEF StoresTyped
      <4>1. PICK x \in Policies : x = outbox[j].policy
        BY <4>2 DEF Rows
      <4> QED BY <1>1, <2>2, <3>1, <4>1 DEF StoresTyped
    <3> QED BY <2>1, <3>2, <3>3 DEF Known
  <2>3. ASSUME topic' = topic, NEW i \in DOMAIN topic' PROVE Known(topic[i])'
    BY <2>1, <2>3 DEF Known
  <2>4. ASSUME NEW p \in Apis, PublishRefused(p) PROVE topic' = topic
    BY <2>4 DEF PublishRefused
  <2> QED BY <2>2, <2>3, <2>4, TopicBy
<1> QED
  BY <1>2, <1>3, <1>4 DEF StoresGenuine

LEMMA CachesGenuineStep == Typed /\ Sources /\ [Next]_vars => CachesGenuine'
<1> SUFFICES ASSUME Typed, Sources, [Next]_vars PROVE CachesGenuine'
  OBVIOUS
<1>1. StoresTyped /\ MainTyped /\ CachesTyped /\ ConsumerTyped
  BY TypedParts DEF Typed, InHand, MainTyped, ConsumerTyped, ThreadsTyped
<1>2. ASSUME NEW q \in Processes, NEW k \in Keys PROVE \E x : x = cache[q][k] /\ Genuine(k, x)'
  BY OutboxKeeps DEF Sources, CachesGenuine
<1>3. ASSUME cache' = cache PROVE CachesGenuine'
  BY <1>2, <1>3 DEF CachesGenuine, Genuine
<1>4. ASSUME NEW p \in Processes, NEW t \in Tables, cache' = [cache EXCEPT ![p] = t],
             \A k \in Keys : Genuine(k, t[k])
      PROVE  CachesGenuine'
  <2>1. ASSUME NEW k \in Keys PROVE \E x : x = t[k] /\ Genuine(k, x)'
    BY <1>4, OutboxKeeps
  <2>2. ASSUME NEW q \in Processes, NEW k \in Keys PROVE cache'[q][k] = t[k] \/ cache'[q][k] = cache[q][k]
    BY <1>1, <1>4 DEF CachesTyped
  <2> QED BY <1>2, <2>1, <2>2 DEF CachesGenuine, Genuine
<1>5. ASSUME NEW p \in Processes, NEW x \in Policies, Known(x),
             cache' = [cache EXCEPT ![p] = [cache[p] EXCEPT ![x.key] = x]]
      PROVE  CachesGenuine'
  <2>1. PICK t \in Tables : t = [cache[p] EXCEPT ![x.key] = x]
    BY <1>1, TableTypes DEF CachesTyped
  <2>2. \A k \in Keys : t[k] = x \/ t[k] = cache[p][k]
    BY <1>1, <2>1 DEF CachesTyped, Tables
  <2>3. \A k \in Keys : Genuine(k, t[k])
    BY <1>5, <2>2 DEF Sources, CachesGenuine, Genuine
  <2> QED BY <1>4, <1>5, <2>1, <2>3
<1>6. ASSUME NEW p \in Apis, CacheOwn(p) PROVE CachesGenuine'
  <2>1. PICK x \in Policies : x = main[p].policy
    BY <1>1, <1>6 DEF CacheOwn, MainTyped, MainHolds, Processes
  <2>2. cache' = [cache EXCEPT ![p] = [cache[p] EXCEPT ![x.key] = x]] /\ Known(x)
    BY <1>6, <2>1 DEF CacheOwn, Sources, MainGenuine, Processes
  <2> QED BY <1>5, <2>2 DEF Processes
<1>7. ASSUME NEW p \in Processes, ApplySnapshot(p) PROVE CachesGenuine'
  <2>1. PICK t \in Tables : t = main[p].table
    BY <1>1, <1>7 DEF ApplySnapshot, MainTyped, MainHolds
  <2>2. cache' = [cache EXCEPT ![p] = t] /\ \A k \in Keys : Genuine(k, t[k])
    BY <1>7, <2>1 DEF ApplySnapshot, Sources, MainGenuine
  <2> QED BY <1>4, <2>2
<1>8. ASSUME NEW p \in Processes, Store(p) PROVE CachesGenuine'
  <2>1. PICK x \in Policies : x = hand[p].policy
    BY <1>1, <1>8 DEF Store, ConsumerTyped
  <2>2. cache' = [cache EXCEPT ![p] = [cache[p] EXCEPT ![x.key] = x]] /\ Known(x)
    BY <1>8, <2>1 DEF Store, Sources, HandGenuine
  <2> QED BY <1>5, <2>2
<1>9. ASSUME NEW p \in Processes, Start(p) PROVE CachesGenuine'
  <2>1. cache' = cache \/ cache' = [cache EXCEPT ![p] = db]
    BY <1>9 DEF Start
  <2> QED BY <1>1, <1>3, <1>4, <2>1 DEF Sources, StoresGenuine, StoresTyped
<1>10. ASSUME NEW p \in Processes, Kill(p) PROVE CachesGenuine'
  <2>1. \A k \in Keys : Genuine(k, NoPolicies[k])
    BY DEF Genuine, NoPolicies
  <2> QED BY <1>4, <1>10, <2>1, TableTypes DEF Kill
<1> QED
  BY <1>3, <1>6, <1>7, <1>8, <1>9, <1>10, CacheBy

LEMMA MainGenuineStep == Typed /\ Sources /\ [Next]_vars => \A p \in Processes : MainGenuine(p)'
<1> SUFFICES ASSUME Typed, Sources, [Next]_vars, NEW q \in Processes PROVE MainGenuine(q)'
  OBVIOUS
<1>1. StoresTyped /\ MainTyped
  BY TypedParts DEF Typed, InHand, MainTyped, ThreadsTyped
<1>2. ASSUME main'[q] = main[q] PROVE MainGenuine(q)'
  <2>1. PICK m : m = main[q]
    OBVIOUS
  <2>2. m.at = "committed" => Known(m.policy)'
    BY <2>1, OutboxKeeps DEF Sources, MainGenuine
  <2>3. m.at = "loaded" => \A k \in Keys : Genuine(k, m.table[k])'
    BY <2>1, OutboxKeeps DEF Sources, MainGenuine
  <2> QED BY <1>2, <2>1, <2>2, <2>3 DEF Sources, MainGenuine, Known, Genuine
<1>3. ASSUME main'[q] = Idle \/ main'[q] = Down PROVE MainGenuine(q)'
  BY <1>3 DEF MainGenuine, Idle, Down
<1>4. ASSUME NEW p \in Processes, NEW m, main' = [main EXCEPT ![p] = m] PROVE main'[q] \in {main[q], m}
  BY <1>1, <1>4 DEF MainTyped
<1>5. ASSUME NEW p \in Apis, NEW k \in Keys, SelectVersion(p, k) PROVE MainGenuine(q)'
  <2>1. CASE q = p
    <3>1. PICK v \in Nat : v = db[k].version + 1
      BY <1>1, TableTypes DEF StoresTyped
    <3>2. /\ v > 0
          /\ main' = [main EXCEPT ![p] =
                [Idle EXCEPT !.at = "selected", !.policy = [key |-> k, version |-> v, body |-> upserts']]]
      BY <1>1, <1>5, <3>1, TableTypes DEF SelectVersion, StoresTyped
    <3>3. main'[q] = [at |-> "selected", policy |-> [key |-> k, version |-> v, body |-> upserts'], table |-> None]
      BY <1>1, <2>1, <3>2 DEF Idle, MainTyped
    <3> QED BY <3>2, <3>3 DEF MainGenuine
  <2>2. CASE q # p
    BY <1>1, <1>2, <1>5, <2>2 DEF SelectVersion, MainTyped
  <2> QED BY <2>1, <2>2
<1>6. ASSUME NEW p \in Apis, CommitUpsert(p) PROVE MainGenuine(q)'
  <2>1. CASE q = p
    <3>1. PICK x \in Policies : x = main[p].policy
      BY <1>1, <1>6 DEF CommitUpsert, MainTyped, MainHolds, Processes
    <3>2. main[p] \in Mains
      BY <1>1, <2>1 DEF MainTyped
    <3>3. main'[q].at = "committed" /\ main'[q].policy = x
      BY <1>1, <1>6, <2>1, <3>1, <3>2 DEF CommitUpsert, MainTyped, Mains
    <3>4. outbox' = Append(outbox, [policy |-> x, status |-> "pending"])
      BY <1>6, <3>1 DEF CommitUpsert
    <3>5. Known(x)'
      BY <1>1, <3>4 DEF StoresTyped, Known
    <3> QED BY <3>3, <3>5 DEF MainGenuine, Known
  <2>2. CASE q # p
    BY <1>1, <1>2, <1>6, <2>2 DEF CommitUpsert, MainTyped
  <2> QED BY <2>1, <2>2
<1>7. ASSUME NEW p \in Processes, NEW x, LoadFromTable(p, x) PROVE MainGenuine(q)'
  <2>1. CASE q = p
    <3>1. main'[q] = [at |-> "loaded", policy |-> x, table |-> db]
      BY <1>1, <1>7, <2>1 DEF LoadFromTable, MainTyped
    <3>2. PICK t \in Tables : t = db
      BY <1>1 DEF StoresTyped
    <3>3. \A k \in Keys : Genuine(k, t[k])'
      BY <3>2, OutboxKeeps DEF Sources, StoresGenuine
    <3> QED BY <3>1, <3>2, <3>3 DEF MainGenuine, Genuine
  <2>2. CASE q # p
    BY <1>1, <1>2, <1>7, <2>2 DEF LoadFromTable, MainTyped
  <2> QED BY <2>1, <2>2
<1>8. ASSUME NEW p \in Apis, List(p) PROVE MainGenuine(q)'
  BY <1>7, <1>8 DEF List, Processes
<1>9. ASSUME NEW p \in Processors, NEW k \in Keys, Resolve(p, k) PROVE MainGenuine(q)'
  <2>1. main' = main \/ LoadFromTable(p, Nothing(k))
    BY <1>9 DEF Resolve
  <2> QED BY <1>2, <1>7, <2>1 DEF Processes
<1>10. ASSUME NEW p \in Apis, UpsertFails(p) \/ CacheOwn(p) PROVE MainGenuine(q)'
  <2>1. main' = [main EXCEPT ![p] = Idle]
    BY <1>10 DEF UpsertFails, CacheOwn
  <2> QED BY <1>2, <1>3, <1>4, <2>1 DEF Processes
<1>11. ASSUME NEW p \in Processes, ApplySnapshot(p) \/ Start(p) \/ Kill(p) PROVE MainGenuine(q)'
  <2>1. main' = [main EXCEPT ![p] = Idle] \/ main' = [main EXCEPT ![p] = Down]
    BY <1>11 DEF ApplySnapshot, Start, Kill
  <2> QED BY <1>2, <1>3, <1>4, <2>1
<1>12. main' = main => MainGenuine(q)'
  BY <1>2
<1> QED
  BY <1>5, <1>6, <1>8, <1>9, <1>10, <1>11, <1>12, MainBy

LEMMA HandGenuineStep == Typed /\ Sources /\ [Next]_vars => \A p \in Processes : HandGenuine(p)'
<1> SUFFICES ASSUME Typed, Sources, [Next]_vars, NEW q \in Processes PROVE HandGenuine(q)'
  OBVIOUS
<1>1. ConsumerTyped /\ StoresTyped
  BY TypedParts DEF Typed, InHand, ConsumerTyped, ThreadsTyped
<1>2. ASSUME hand'[q] \in {hand[q], None} PROVE HandGenuine(q)'
  <2>1. PICK h : h = hand[q]
    OBVIOUS
  <2>2. h # None => Known(h.policy)'
    BY <2>1, OutboxKeeps DEF Sources, HandGenuine
  <2> QED BY <1>2, <2>1, <2>2 DEF HandGenuine, Known
<1>3. ASSUME NEW p \in Processes, Poll(p) PROVE HandGenuine(q)'
  <2>1. PICK x : x = topic[position[p] + 1]
    OBVIOUS
  <2>2. Known(x)'
    <3>1. position[p] + 1 \in DOMAIN topic
      BY <1>1, <1>3 DEF Poll, ConsumerTyped, StoresTyped
    <3> QED BY <2>1, <3>1, OutboxKeeps DEF Sources, StoresGenuine
  <2>3. hand'[q] = hand[q] \/ hand'[q].policy = x
    BY <1>1, <1>3, <2>1 DEF Poll, ConsumerTyped
  <2>4. CASE hand'[q].policy = x
    BY <2>2, <2>4 DEF HandGenuine, Known
  <2> QED BY <1>2, <2>3, <2>4
<1>4. ASSUME NEW p \in Processes, Assign(p) \/ Revoke(p) \/ Store(p) \/ Kill(p) PROVE HandGenuine(q)'
  <2>1. hand' = hand \/ hand' = [hand EXCEPT ![p] = None]
    BY <1>4 DEF Assign, Revoke, Store, Kill
  <2> QED BY <1>1, <1>2, <2>1 DEF ConsumerTyped
<1>5. UNCHANGED <<position, hand, start>> => HandGenuine(q)'
  BY <1>2
<1> QED
  BY <1>3, <1>4, <1>5, ConsumerBy

LEMMA SentKeeps ==
    ASSUME Typed, [Next]_vars
    PROVE  /\ \A x : Sent(x) => Sent(x)'
           /\ \A i \in DOMAIN topic : i \in DOMAIN topic' /\ topic'[i] = topic[i]
<1>1. StoresTyped
  BY TypedParts DEF Typed
<1>2. \A i \in DOMAIN topic : i \in DOMAIN topic' /\ topic'[i] = topic[i]
  BY <1>1, TopicGrows DEF StoresTyped
<1>3. refused \subseteq refused'
  <2>1. ASSUME NEW p \in Apis, Publish(p) \/ PublishTimesOut(p) \/ PublishRefused(p) PROVE refused \subseteq refused'
    BY <2>1 DEF Publish, PublishTimesOut, PublishRefused, history
  <2> QED BY <2>1, TopicBy
<1> QED
  BY <1>2, <1>3 DEF Sent

LEMMA RelayedStep == Typed /\ Relayed /\ [Next]_vars => Relayed'
<1> SUFFICES ASSUME Typed, Relayed, [Next]_vars PROVE Relayed'
  OBVIOUS
<1>1. StoresTyped /\ RelaysTyped
  BY TypedParts DEF Typed
<1>2. \A i \in DOMAIN outbox : outbox[i] \in Rows
  BY <1>1, ElementOfSeq DEF StoresTyped
<1>3. ASSUME NEW i \in DOMAIN outbox, Sent(outbox[i].policy) PROVE Sent(outbox[i].policy)'
  BY <1>3, OutboxKeeps, SentKeeps DEF Sent
<1>4. \A i \in DOMAIN outbox' : outbox'[i].status = "published" => Sent(outbox[i].policy)'
  <2>1. ASSUME NEW p \in Apis, CommitUpsert(p), NEW i \in DOMAIN outbox', outbox'[i].status = "published"
        PROVE  Sent(outbox[i].policy)'
    <3>1. PICK r : r.status = "pending" /\ outbox' = Append(outbox, r)
      BY <2>1 DEF CommitUpsert
    <3>2. i \in DOMAIN outbox /\ outbox'[i] = outbox[i]
      BY <1>1, <2>1, <3>1 DEF StoresTyped
    <3> QED BY <1>3, <2>1, <3>2 DEF Relayed
  <2>2. ASSUME NEW p \in Apis, DrainCommit(p), NEW i \in DOMAIN outbox', outbox'[i].status = "published"
        PROVE  Sent(outbox[i].policy)'
    <3>1. i \in DOMAIN outbox
      BY <2>2 DEF DrainCommit
    <3>2. i \in relay[p].done \/ outbox[i].status = "published"
      BY <1>2, <2>2, <3>1 DEF DrainCommit, Rows
    <3> QED BY <1>3, <2>2, <3>1, <3>2 DEF Relayed
  <2>3. ASSUME outbox' = outbox, NEW i \in DOMAIN outbox', outbox'[i].status = "published"
        PROVE  Sent(outbox[i].policy)'
    BY <1>3, <2>3 DEF Relayed
  <2> QED BY <2>1, <2>2, <2>3, OutboxBy
<1>5. \A q \in Apis : \A i \in relay'[q].done : Sent(outbox[i].policy)'
  <2> SUFFICES ASSUME NEW q \in Apis, NEW i \in relay'[q].done PROVE Sent(outbox[i].policy)'
    OBVIOUS
  <2>1. ASSUME i \in relay[q].done PROVE Sent(outbox[i].policy)'
    BY <1>1, <1>3, <2>1 DEF Relayed, RelaysTyped, Locked
  <2>2. ASSUME NEW p \in Apis, Publish(p) \/ PublishRefused(p) PROVE Sent(outbox[i].policy)'
    <3>1. PICK j \in relay[p].todo :
              /\ relay' = [relay EXCEPT ![p].todo = @ \ {j}, ![p].done = @ \cup {j}]
              /\ \/ topic' = Append(topic, outbox[j].policy)
                 \/ refused' = refused \cup {outbox[j].policy}
              /\ outbox' = outbox
      BY <2>2 DEF Publish, PublishRefused
    <3>2. CASE i = j
      <4>1. outbox[j] \in Rows
        BY <1>1, <1>2 DEF RelaysTyped, Locked
      <4>2. PICK x \in Policies : x = outbox[j].policy
        BY <4>1 DEF Rows
      <4>3. Sent(x)'
        BY <1>1, <3>1, <4>2 DEF Sent, StoresTyped
      <4> QED BY <3>1, <3>2, <4>2, <4>3 DEF Sent
    <3>3. CASE i # j
      <4>1. i \in relay[q].done
        BY <1>1, <3>1, <3>3 DEF RelaysTyped
      <4> QED BY <2>1, <4>1
    <3> QED BY <3>2, <3>3
  <2>3. ASSUME NEW p \in Apis, PublishTimesOut(p) PROVE Sent(outbox[i].policy)'
    <3>1. PICK j \in relay[p].todo : relay' = [relay EXCEPT ![p].todo = @ \ {j}, ![p].failed = @ \cup {j}]
      BY <2>3 DEF PublishTimesOut
    <3>2. i \in relay[q].done
      BY <1>1, <3>1 DEF RelaysTyped
    <3> QED BY <2>1, <3>2
  <2>4. ASSUME NEW p \in Apis, DrainSelect(p) PROVE Sent(outbox[i].policy)'
    <3>1. PICK open : relay' = [relay EXCEPT ![p].todo = open]
      BY <2>4 DEF DrainSelect
    <3>2. i \in relay[q].done
      BY <1>1, <3>1 DEF RelaysTyped
    <3> QED BY <2>1, <3>2
  <2>5. ASSUME relay' = relay \/ \E p \in Apis : relay' = [relay EXCEPT ![p] = NoRows]
        PROVE  Sent(outbox[i].policy)'
    <3>1. i \in relay[q].done
      BY <1>1, <2>5 DEF RelaysTyped, NoRows
    <3> QED BY <2>1, <3>1
  <2>6. ASSUME NEW p \in Apis, DrainCommit(p) \/ DrainAborts(p) PROVE Sent(outbox[i].policy)'
    BY <2>5, <2>6 DEF DrainCommit, DrainAborts
  <2>7. ASSUME NEW p \in Processes, Kill(p) PROVE Sent(outbox[i].policy)'
    BY <2>5, <2>7 DEF Kill
  <2>8. UNCHANGED <<relay>> => Sent(outbox[i].policy)'
    BY <2>5
  <2> QED BY <2>2, <2>3, <2>4, <2>5, <2>6, <2>7, <2>8, RelayBy
<1> QED
  BY <1>4, <1>5 DEF Relayed

\* A thread that writes over a newer version leaves a mark, so what was caught stays caught.
LEMMA OverwritesCatches ==
    ASSUME CachesTyped, NEW p \in Processes, NEW t \in Tables, Overwrites(p, t),
           cache' = [cache EXCEPT ![p] = t], NEW k \in Keys, NEW v \in Nat, Caught(p, k, v)
    PROVE  Caught(p, k, v)'
<1>1. PICK c \in Nat, l \in Nat, n \in Nat : c = cache[p][k].version /\ l = lost[p][k] /\ n = t[k].version
  BY TableTypes DEF CachesTyped
<1>2. lost'[p][k] = IF c > n THEN Max({l, c}) ELSE l
  BY <1>1 DEF Overwrites, CachesTyped
<1>3. cache'[p][k].version = n
  BY <1>1 DEF CachesTyped
<1>4. Max({l, c}) \in Nat /\ Max({l, c}) >= l /\ Max({l, c}) >= c
  BY MaxOfTwo
<1> QED
  BY <1>1, <1>2, <1>3, <1>4 DEF Caught

LEMMA CaughtKeeps ==
    ASSUME Typed, [Next]_vars, NEW q \in Processes, Running(q), ~Kill(q),
           NEW k \in Keys, NEW v \in Nat, Caught(q, k, v)
    PROVE  Caught(q, k, v)'
<1>1. CachesTyped /\ MainTyped /\ ConsumerTyped
  BY TypedParts DEF Typed, InHand, MainTyped, ConsumerTyped, ThreadsTyped
<1>2. ASSUME cache'[q] = cache[q], lost'[q] = lost[q] PROVE Caught(q, k, v)'
  BY <1>2 DEF Caught
<1>3. ASSUME NEW p \in Processes, p # q,
             CacheOwn(p) \/ ApplySnapshot(p) \/ Store(p) \/ Start(p) \/ Kill(p)
      PROVE  cache'[q] = cache[q] /\ lost'[q] = lost[q]
  BY <1>1, <1>3 DEF CacheOwn, ApplySnapshot, Store, Start, Kill, Overwrites, CachesTyped
<1>4. ASSUME CacheOwn(q) PROVE Caught(q, k, v)'
  <2>1. PICK x \in Policies : x = main[q].policy
    BY <1>1, <1>4 DEF CacheOwn, MainTyped, MainHolds
  <2>2. PICK t \in Tables : t = [cache[q] EXCEPT ![x.key] = x]
    BY <1>1, TableTypes DEF CachesTyped
  <2>3. Overwrites(q, t) /\ cache' = [cache EXCEPT ![q] = t]
    BY <1>4, <2>1, <2>2 DEF CacheOwn
  <2> QED BY <1>1, <2>3, OverwritesCatches
<1>5. ASSUME ApplySnapshot(q) PROVE Caught(q, k, v)'
  <2>1. PICK t \in Tables : t = main[q].table
    BY <1>1, <1>5 DEF ApplySnapshot, MainTyped, MainHolds
  <2>2. Overwrites(q, t) /\ cache' = [cache EXCEPT ![q] = t]
    BY <1>5, <2>1 DEF ApplySnapshot
  <2> QED BY <1>1, <2>2, OverwritesCatches
<1>6. ASSUME Store(q) PROVE Caught(q, k, v)'
  <2>1. PICK x \in Policies, seen \in Nat : x = hand[q].policy /\ seen = hand[q].seen /\ seen <= x.version
    BY <1>1, <1>6 DEF Store, ConsumerTyped, ConsumerHolds
  <2>2. PICK t \in Tables : t = [cache[q] EXCEPT ![x.key] = x]
    BY <1>1, TableTypes DEF CachesTyped
  <2>3. cache' = [cache EXCEPT ![q] = t]
    BY <1>6, <2>1, <2>2 DEF Store
  <2>4. CASE cache[q][x.key].version = seen
    <3>1. lost' = lost
      BY <1>6, <2>1, <2>4 DEF Store
    <3>2. cache'[q][k] = IF k = x.key THEN x ELSE cache[q][k]
      BY <1>1, <2>2, <2>3 DEF CachesTyped, Tables
    <3>3. x.version \in Nat /\ cache[q][k].version \in Nat
      BY <1>1, TableTypes DEF CachesTyped, Policies
    <3> QED BY <2>1, <2>4, <3>1, <3>2, <3>3 DEF Caught
  <2>5. CASE cache[q][x.key].version # seen
    <3>1. Overwrites(q, t)
      BY <1>6, <2>1, <2>2, <2>5 DEF Store
    <3> QED BY <1>1, <2>3, <3>1, OverwritesCatches
  <2> QED BY <2>4, <2>5
<1>7. ~Start(q)
  BY DEF Start
<1> QED
  BY <1>2, <1>3, <1>4, <1>5, <1>6, <1>7, CacheBy DEF Processes

LEMMA SyncInvInit == Init => SyncInv
<1> SUFFICES ASSUME Init PROVE SyncInv
  OBVIOUS
<1>1. Typed /\ Sources
  BY TypedInit, SourcesInit
<1>2. Relayed
  BY DEF Init, Relayed, NoRows
<1>3. \A p \in Processes : Follows(p)
  BY DEF Init, Follows, Caught, NoPolicies, Nothing, Down, Idle
<1> QED
  BY <1>1, <1>2, <1>3 DEF SyncInv

\* A process that is down has not been running, or was killed.
LEMMA DownStays ==
    ASSUME Typed, [Next]_vars, NEW q \in Processes, main'[q].at = "down"
    PROVE  main[q].at = "down" \/ Kill(q)
<1>1. MainTyped
  BY TypedParts DEF Typed, InHand, MainTyped, ThreadsTyped
<1>2. ASSUME NEW p \in Processes, NEW m, main' = [main EXCEPT ![p] = m], m.at # "down" PROVE main[q].at = "down"
  BY <1>1, <1>2 DEF MainTyped
<1>3. ASSUME NEW p \in Apis, NEW k \in Keys, SelectVersion(p, k) PROVE main[q].at = "down"
  <2>1. PICK x : main' = [main EXCEPT ![p] = [Idle EXCEPT !.at = "selected", !.policy = x]]
    BY <1>3 DEF SelectVersion
  <2> QED BY <1>2, <2>1 DEF Idle, Processes
<1>4. ASSUME NEW p \in Apis, CommitUpsert(p) PROVE main[q].at = "down"
  <2>1. main[p] \in Mains
    BY <1>1 DEF MainTyped, Processes
  <2>2. main' = [main EXCEPT ![p] = [main[p] EXCEPT !.at = "committed"]]
    BY <1>4 DEF CommitUpsert
  <2> QED BY <1>2, <2>1, <2>2 DEF Mains, Processes
<1>5. ASSUME NEW p \in Processes, NEW x, LoadFromTable(p, x) PROVE main[q].at = "down"
  BY <1>2, <1>5 DEF LoadFromTable
<1>6. ASSUME NEW p \in Processes, main' = main \/ main' = [main EXCEPT ![p] = Idle] PROVE main[q].at = "down"
  BY <1>2, <1>6 DEF Idle
<1>7. ASSUME NEW p \in Apis, List(p) PROVE main[q].at = "down"
  BY <1>5, <1>7 DEF List, Processes
<1>8. ASSUME NEW p \in Apis, UpsertFails(p) \/ CacheOwn(p) PROVE main[q].at = "down"
  BY <1>6, <1>8 DEF UpsertFails, CacheOwn, Processes
<1>9. ASSUME NEW p \in Processors, NEW k \in Keys, Resolve(p, k) PROVE main[q].at = "down"
  <2>1. main' = main \/ LoadFromTable(p, Nothing(k))
    BY <1>9 DEF Resolve
  <2> QED BY <1>5, <1>6, <2>1 DEF Processes
<1>10. ASSUME NEW p \in Processes, ApplySnapshot(p) \/ Start(p) PROVE main[q].at = "down"
  BY <1>6, <1>10 DEF ApplySnapshot, Start
<1>11. ASSUME NEW p \in Processes, p # q, Kill(p) PROVE main[q].at = "down"
  BY <1>1, <1>11 DEF Kill, MainTyped
<1>12. UNCHANGED <<main>> => main[q].at = "down"
  OBVIOUS
<1> QED
  BY <1>3, <1>4, <1>7, <1>8, <1>9, <1>10, <1>11, <1>12, MainBy

LEMMA FollowsStep == SyncInv /\ [Next]_vars => \A p \in Processes : Follows(p)'
<1> SUFFICES ASSUME SyncInv, [Next]_vars, NEW q \in Processes PROVE Follows(q)'
  OBVIOUS
<1>1. StoresTyped /\ CachesTyped /\ MainTyped /\ ConsumerTyped /\ Follows(q) /\ Typed
  BY TypedParts DEF SyncInv, Typed, InHand, MainTyped, ConsumerTyped, ThreadsTyped
<1>2. \A k \in Keys : base[q][k].version \in Nat /\ cache[q][k].version \in Nat /\ lost[q][k] \in Nat
  BY <1>1, TableTypes DEF CachesTyped
<1>3. DOMAIN topic = 1..Len(topic) /\ Len(topic) \in Nat /\ \A i \in DOMAIN topic : topic[i] \in Policies
  BY <1>1, ElementOfSeq DEF StoresTyped
<1>4. ASSUME Kill(q) PROVE Follows(q)'
  <2>1. /\ position'[q] = None /\ hand'[q] = None /\ cache'[q] = NoPolicies /\ base'[q] = NoPolicies
    BY <1>1, <1>4 DEF Kill, CachesTyped, ConsumerTyped
  <2>2. \A k \in Keys : NoPolicies[k].version = 0
    BY DEF NoPolicies, Nothing
  <2> QED BY <2>1, <2>2 DEF Follows, Caught
<1>5. ASSUME ~Running(q), ~Kill(q) PROVE Follows(q)'
  <2>1. position[q] = None /\ hand[q] = None
    BY <1>1, <1>5 DEF Follows, Running
  <2>2. position'[q] = None /\ hand'[q] = None
    <3>1. ASSUME NEW p \in Processes, Assign(p) \/ Revoke(p) \/ Poll(p) \/ Store(p) \/ Kill(p)
          PROVE  position'[q] = None /\ hand'[q] = None
      <4>1. CASE p = q
        BY <1>5, <2>1, <3>1, <4>1 DEF Assign, Revoke, Poll, Store
      <4>2. CASE p # q
        BY <1>1, <2>1, <3>1, <4>2 DEF Assign, Revoke, Poll, Store, Kill, ConsumerTyped
      <4> QED BY <4>1, <4>2
    <3> QED BY <2>1, <3>1, ConsumerBy
  <2>3. \/ UNCHANGED <<cache[q], base[q], lost[q]>>
        \/ cache'[q] = base'[q] /\ base'[q] \in Tables
    <3>1. ASSUME NEW p \in Apis, CacheOwn(p) PROVE UNCHANGED <<cache[q], base[q], lost[q]>>
      <4>1. p # q
        BY <1>5, <3>1 DEF CacheOwn, Running
      <4> QED BY <1>1, <3>1, <4>1 DEF CacheOwn, Overwrites, CachesTyped
    <3>2. ASSUME NEW p \in Processes, ApplySnapshot(p) \/ Store(p) \/ Kill(p)
          PROVE  UNCHANGED <<cache[q], base[q], lost[q]>>
      <4>1. p # q
        BY <1>5, <2>1, <3>2 DEF ApplySnapshot, Store, Kill, Running
      <4> QED BY <1>1, <3>2, <4>1 DEF ApplySnapshot, Store, Kill, Overwrites, CachesTyped
    <3>3. ASSUME NEW p \in Processes, Start(p)
          PROVE  \/ UNCHANGED <<cache[q], base[q], lost[q]>>
                 \/ cache'[q] = base'[q] /\ base'[q] \in Tables
      <4>1. lost' = lost /\ \/ cache' = [cache EXCEPT ![p] = db] /\ base' = [base EXCEPT ![p] = db]
                            \/ UNCHANGED <<cache, base>>
        BY <3>3 DEF Start
      <4>2. CASE p = q
        BY <1>1, <4>1, <4>2 DEF CachesTyped, StoresTyped
      <4>3. CASE p # q
        BY <1>1, <4>1, <4>3 DEF CachesTyped
      <4> QED BY <4>2, <4>3
    <3>4. UNCHANGED <<cache, base, lost>> => UNCHANGED <<cache[q], base[q], lost[q]>>
      OBVIOUS
    <3> QED BY <3>1, <3>2, <3>3, <3>4, CacheBy
  <2>4. \A k \in Keys : Caught(q, k, base[q][k].version)'
    BY <1>1, <2>3, TableTypes DEF Follows, Caught
  <2> QED BY <2>2, <2>4 DEF Follows
<1>6. ASSUME Running(q), ~Kill(q) PROVE Follows(q)'
  <2>1. main'[q].at # "down"
    BY <1>1, <1>6, DownStays DEF Running
  <2>2. \A k \in Keys : Caught(q, k, base[q][k].version)'
    <3>1. ASSUME base'[q] = base[q], NEW k \in Keys PROVE Caught(q, k, base[q][k].version)'
      <4>1. PICK v \in Nat : v = base[q][k].version
        BY <1>2
      <4>2. Caught(q, k, v)'
        BY <1>1, <1>6, <4>1, CaughtKeeps DEF Follows
      <4> QED BY <3>1, <4>1, <4>2 DEF Caught
    <3>2. ASSUME NEW p \in Apis, CacheOwn(p) PROVE base'[q] = base[q]
      BY <3>2 DEF CacheOwn
    <3>3. ASSUME NEW p \in Processes, Store(p) \/ Start(p) \/ Kill(p) PROVE base'[q] = base[q]
      <4>1. CASE p # q
        BY <1>1, <3>3, <4>1 DEF Store, Start, Kill, CachesTyped
      <4>2. CASE p = q
        BY <1>6, <3>3, <4>2 DEF Store, Start
      <4> QED BY <4>1, <4>2
    <3>4. ASSUME NEW p \in Processes, p # q, ApplySnapshot(p) PROVE base'[q] = base[q]
      BY <1>1, <3>4 DEF ApplySnapshot, CachesTyped
    <3>5. ASSUME ApplySnapshot(q), NEW k \in Keys PROVE Caught(q, k, base[q][k].version)'
      <4>1. PICK t \in Tables : t = main[q].table
        BY <1>1, <3>5 DEF ApplySnapshot, MainTyped, MainHolds
      <4>2. base'[q] = t /\ cache'[q] = t
        BY <1>1, <3>5, <4>1 DEF ApplySnapshot, CachesTyped
      <4> QED BY <4>2, TableTypes DEF Caught
    <3> QED BY <3>1, <3>2, <3>3, <3>4, <3>5, CacheBy
  <2>3. ASSUME NEW i \in DOMAIN topic, position[q] # None, start[q] < i, i <= position[q],
               hand[q] # None => i # position[q]
        PROVE  Caught(q, topic[i].key, topic[i].version)'
    <3>1. PICK k \in Keys, v \in Nat : k = topic[i].key /\ v = topic[i].version
      BY <1>3 DEF Policies
    <3>2. Caught(q, k, v)
      BY <1>1, <2>3, <3>1 DEF Follows
    <3>3. Caught(q, k, v)'
      BY <1>1, <1>6, <3>2, CaughtKeeps
    <3>4. topic'[i] = topic[i]
      BY <1>1, SentKeeps
    <3> QED BY <3>1, <3>3, <3>4 DEF Caught
  <2>4. ASSUME UNCHANGED <<position[q], hand[q], start[q]>> PROVE Follows(q)'
    <3>1. position[q] # None => position[q] \in Nat /\ position[q] <= Len(topic) /\ start[q] \in Nat
      BY <1>1 DEF ConsumerTyped, ConsumerHolds
    <3>2. hand'[q] # None => position'[q] \in DOMAIN topic' /\ hand'[q].policy = topic'[position'[q]]
      BY <1>1, <2>4, SentKeeps DEF Follows
    <3>3. DOMAIN topic' \subseteq Nat \ {0}
      BY <1>1, <1>3, TopicGrows DEF StoresTyped
    <3>4. ASSUME NEW i \in DOMAIN topic', position'[q] # None, start'[q] < i, i <= position'[q],
                 hand'[q] # None => i # position'[q]
          PROVE  Caught(q, topic[i].key, topic[i].version)'
      <4>1. i \in DOMAIN topic
        BY <1>3, <2>4, <3>1, <3>3, <3>4
      <4> QED BY <2>3, <2>4, <3>4, <4>1
    <3> QED BY <2>1, <2>2, <3>2, <3>4 DEF Follows
  <2>5. ASSUME NEW p \in Processes, p # q, Assign(p) \/ Revoke(p) \/ Poll(p) \/ Store(p) \/ Kill(p)
        PROVE  UNCHANGED <<position[q], hand[q], start[q]>>
    BY <1>1, <2>5 DEF Assign, Revoke, Poll, Store, Kill, ConsumerTyped
  <2>6. ASSUME Assign(q) PROVE Follows(q)'
    <3>1. hand'[q] = hand[q] /\ start'[q] = position'[q] /\ position[q] = None
      BY <1>1, <2>6 DEF Assign, ConsumerTyped, Peers, Processes
    <3>2. hand[q] = None
      BY <1>1, <1>3, <3>1, NoneAssumption DEF Follows
    <3>3. position'[q] # None => position'[q] \in Nat
      BY <1>1, <1>3, <2>6 DEF Assign, ConsumerTyped
    <3>4. topic' = topic
      BY <2>6 DEF Assign
    <3> QED BY <1>3, <2>1, <2>2, <3>1, <3>2, <3>3, <3>4 DEF Follows
  <2>7. ASSUME Revoke(q) PROVE Follows(q)'
    <3>1. hand'[q] = None /\ position'[q] = None
      BY <1>1, <2>7 DEF Revoke, ConsumerTyped
    <3> QED BY <2>1, <2>2, <3>1 DEF Follows
  <2>8. ASSUME Poll(q) PROVE Follows(q)'
    <3>1. PICK n \in Nat : n = position[q] /\ n < Len(topic)
      BY <1>1, <1>3, <2>8 DEF Poll, ConsumerTyped
    <3>2. /\ position'[q] = n + 1 /\ start'[q] = start[q] /\ topic' = topic /\ cache' = cache
          /\ hand[q] = None /\ start[q] \in Nat /\ position[q] # None
      BY <1>1, <2>8, <3>1 DEF Poll, ConsumerTyped, ConsumerHolds
    <3>3. PICK x \in Policies : x = topic[n + 1]
      BY <1>3, <3>1
    <3>4. n + 1 \in DOMAIN topic
      BY <1>3, <3>1
    <3>5. \/ hand'[q] = None /\ x.version < cache[q][x.key].version
          \/ hand'[q] = [policy |-> x, seen |-> cache[q][x.key].version]
      BY <1>1, <2>8, <3>1, <3>2, <3>3 DEF Poll, ConsumerTyped
    <3>6. x.version \in Nat /\ x.key \in Keys /\ cache[q][x.key].version \in Nat
      BY <1>2 DEF Policies
    <3>7. hand'[q] # None => position'[q] \in DOMAIN topic' /\ hand'[q].policy = topic'[position'[q]]
      BY <3>2, <3>3, <3>4, <3>5
    <3>8. ASSUME NEW i \in DOMAIN topic', start'[q] < i, i <= position'[q],
                 hand'[q] # None => i # position'[q]
          PROVE  Caught(q, topic[i].key, topic[i].version)'
      <4>1. CASE i = n + 1
        <5>2. [policy |-> x, seen |-> cache[q][x.key].version] # None
          BY <3>6, NoneAssumption
        <5>1. x.version < cache[q][x.key].version
          BY <3>2, <3>5, <3>8, <4>1, <5>2
        <5> QED BY <3>2, <3>3, <3>6, <4>1, <5>1 DEF Caught
      <4>2. CASE i # n + 1
        <5>1. i \in DOMAIN topic /\ i <= n
          BY <1>3, <3>1, <3>2, <3>8, <4>2
        <5> QED BY <2>3, <3>1, <3>2, <3>8, <5>1
      <4> QED BY <4>1, <4>2
    <3> QED BY <2>1, <2>2, <3>7, <3>8 DEF Follows
  <2>9. ASSUME Store(q) PROVE Follows(q)'
    <3>1. PICK x \in Policies : x = hand[q].policy
      BY <1>1, <2>9 DEF Store, ConsumerTyped
    <3>2. /\ hand'[q] = None /\ UNCHANGED <<position, start, topic>> /\ hand[q] # None
          /\ cache'[q] = [cache[q] EXCEPT ![x.key] = x]
      BY <1>1, <2>9, <3>1 DEF Store, ConsumerTyped, CachesTyped
    <3>3. x = topic[position[q]]
      BY <1>1, <3>1, <3>2 DEF Follows
    <3>4. cache'[q][x.key] = x /\ x.version \in Nat
      BY <1>1, <3>2 DEF CachesTyped, Tables, Policies
    <3>5. ASSUME NEW i \in DOMAIN topic', position'[q] # None, start'[q] < i, i <= position'[q]
          PROVE  Caught(q, topic[i].key, topic[i].version)'
      <4>1. CASE i = position[q]
        BY <3>2, <3>3, <3>4, <4>1 DEF Caught
      <4>2. CASE i # position[q]
        BY <2>3, <3>2, <3>5, <4>2
      <4> QED BY <4>1, <4>2
    <3> QED BY <2>1, <2>2, <3>2, <3>5 DEF Follows
  <2> QED BY <1>6, <2>4, <2>5, <2>6, <2>7, <2>8, <2>9, ConsumerBy
<1> QED
  BY <1>4, <1>5, <1>6

LEMMA SyncInvStep == SyncInv /\ [Next]_vars => SyncInv'
<1> SUFFICES ASSUME SyncInv, [Next]_vars PROVE SyncInv'
  OBVIOUS
<1>1. Typed'
  BY TypedStep DEF SyncInv
<1>2. Sources'
  BY StoresGenuineStep, CachesGenuineStep, MainGenuineStep, HandGenuineStep DEF SyncInv, Sources
<1>3. Relayed' /\ \A p \in Processes : Follows(p)'
  BY RelayedStep, FollowsStep DEF SyncInv
<1> QED
  BY <1>1, <1>2, <1>3 DEF SyncInv

LEMMA SyncInvConverged == SyncInv => Converged
<1> SUFFICES ASSUME SyncInv, Quiet, NEW p \in Processes, NEW k \in Keys,
                    cache[p][k] # db[k], ~FellInTheGap(p, k), ~VersionShared(k), db[k] \notin refused,
                    ~(cache[p][k].version < lost[p][k])
             PROVE  FALSE
  BY DEF Converged
<1>1. StoresTyped /\ CachesTyped /\ ConsumerTyped /\ Sources /\ Relayed /\ Follows(p)
  BY TypedParts DEF SyncInv, Typed, InHand, ConsumerTyped, ThreadsTyped
<1>2. PICK c \in Policies, d \in Policies :
          c = cache[p][k] /\ d = db[k] /\ c.key = k /\ d.key = k /\ c.version \in Nat /\ d.version \in Nat
  BY <1>1, TableTypes DEF StoresTyped, CachesTyped
<1>3. lost[p][k] \in Nat /\ base[p][k].version \in Nat
  BY <1>1, TableTypes DEF CachesTyped
<1>4. Known(d) /\ d.version > 0 /\ c.version < d.version
  <2>1. Genuine(k, c) /\ Genuine(k, d)
    BY <1>1, <1>2 DEF Sources, StoresGenuine, CachesGenuine
  <2>2. Known(c) => c.version < d.version
    BY <1>2 DEF Known, VersionShared
  <2>3. Known(d) => d.version > 0
    BY <1>1 DEF Known, Sources, StoresGenuine
  <2>4. Nothing(k).version = 0
    BY DEF Nothing
  <2> QED BY <1>2, <2>1, <2>2, <2>3, <2>4 DEF Genuine
<1>5. PICK i \in DOMAIN topic : topic[i] = d
  BY <1>1, <1>2, <1>4 DEF Known, Quiet, Relayed, Sent
<1>6. CASE base[p][k].version >= d.version
  <2>1. Caught(p, k, base[p][k].version)
    BY <1>1 DEF Follows
  <2> QED BY <1>2, <1>3, <1>4, <1>6, <2>1 DEF Caught
<1>7. CASE ~(base[p][k].version >= d.version)
  <2>1. base[p][k].version < d.version
    BY <1>2, <1>3, <1>7
  <2>2. position[p] # None /\ \E j \in DOMAIN topic : topic[j] = d /\ ~(j <= start[p])
    BY <1>2, <2>1 DEF FellInTheGap
  <2>3. PICK j \in DOMAIN topic : topic[j] = d /\ ~(j <= start[p])
    BY <2>2
  <2>4. start[p] \in Nat /\ position[p] = Len(topic) /\ hand[p] = None
    BY <1>1, <2>2 DEF ConsumerTyped, ConsumerHolds, Quiet
  <2>5. start[p] < j /\ j <= position[p]
    BY <1>1, <2>3, <2>4 DEF StoresTyped
  <2>6. Caught(p, k, d.version)
    BY <1>1, <1>2, <2>2, <2>3, <2>4, <2>5 DEF Follows
  <2> QED BY <1>2, <1>3, <1>4, <2>6 DEF Caught
<1> QED
  BY <1>6, <1>7

(* When nothing is on its way every running process has the policy of the table in its cache, or
   one of the causes the code leaves open is to be seen: an upsert between loading and
   subscribing, a thread that wrote over a newer version, two upserts with one version, a
   refused delivery.  Out of order publication, redelivery, rebalances and restarts are none. *)
THEOREM ConvergedAlways == Spec => []Converged
BY SyncInvInit, SyncInvStep, SyncInvConverged, PTL DEF Spec
=============================================================================
